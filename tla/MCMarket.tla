------------------------------- MODULE MCMarket --------------------------------
(***************************************************************************)
(* What the platform keeps of its products, in parts that have no state in *)
(* common: a product's way through the catalogue, the tree of categories,  *)
(* the card by which a product is moderated in Telegram, what the bidders  *)
(* of an auction are told, and the lists and labels of products.  A        *)
(* behaviour explores one of them, so that their states add up instead of  *)
(* multiplying.                                                            *)
(***************************************************************************)
EXTENDS TLC, Catalogue, CategoryTree, Cards, News, Storefront

VARIABLE part

Part == {"catalogue", "categories", "cards", "news", "storefront"}

partVars == <<catalogueVars, categoryVars, cardVars, newsVars, shopVars>>

Init ==
    /\ CatalogueInit /\ CategoryInit /\ CardsInit /\ NewsInit /\ StorefrontInit
    /\ part \in Part
    /\ part = "cards" \/ telegram = "on"

\* The parts that p is not stay as they are.
Keep(p, names, variables) == IF p \in names THEN TRUE ELSE UNCHANGED variables

Only(p) ==
    /\ part = p /\ UNCHANGED part
    /\ Keep(p, {"catalogue"}, catalogueVars)
    /\ Keep(p, {"categories"}, categoryVars)
    /\ Keep(p, {"cards"}, cardVars)
    /\ Keep(p, {"news"}, newsVars)
    /\ Keep(p, {"storefront"}, shopVars)

Next ==
    \/ Only("catalogue") /\ CatalogueNext
    \/ Only("categories") /\ CategoryNext
    \/ Only("cards") /\ CardsNext
    \/ Only("news") /\ NewsNext
    \/ Only("storefront") /\ StorefrontNext

Spec == Init /\ [][Next]_<<partVars, part>>

TypeOK ==
    CASE part = "catalogue" -> CatalogueTypeOK
      [] part = "categories" -> CategoryTypeOK
      [] part = "cards" -> CardsTypeOK
      [] part = "news" -> NewsTypeOK
      [] part = "storefront" -> StorefrontTypeOK

\* Editor, Admin, Press and Teller get the same model values.
Symmetry == Permutations(Editor) \union Permutations(Player)
=============================================================================
