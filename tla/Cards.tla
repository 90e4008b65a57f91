--------------------------------- MODULE Cards ---------------------------------
(***************************************************************************)
(* The moderation card of one product: createProduct posts it to the       *)
(* Telegram group without waiting, a moderator presses one of its buttons, *)
(* and the webhook (app.controller.ts) moderates the product as the        *)
(* administrator would, takes the buttons off and answers the press.       *)
(* Meanwhile the owner edits or deletes the product and moderators decide  *)
(* in the panel.  A call to Telegram may fail, which no caller is told.    *)
(***************************************************************************)
EXTENDS Naturals

CONSTANTS
    Press,      \* webhook calls
    MaxWrites   \* bound on what the owner and the panel write

ASSUME CardsAssumption == MaxWrites \in Nat

VARIABLES
    telegram,     \* the settings: "off" without a token, "no chat", or "on"
    goods,        \* the product: its status, and whether it is there
    posting,      \* where the posting of the card stands
    card,         \* the card in the group: its buttons, and the line added to it
    press,        \* where each webhook call stands
    writes,       \* (bound) writes of the owner and the panel
    decidedBy,    \* (history) the last write of the status: "press", "others"
    overlap       \* (history) two presses were under way at once

cardVars == <<telegram, goods, posting, card, press, writes, decidedBy, overlap>>

Action == {"approve", "reject"}
Asked == [at : {"new", "named", "checked", "written", "failed", "edited"}, action : Action]
NoPress == [at |-> "none", action |-> "approve"]

CardsTypeOK ==
    /\ telegram \in {"off", "no chat", "on"}
    /\ goods \in [status : {"PENDING", "PUBLISHED", "REJECTED", "DRAFT"}, live : BOOLEAN]
    /\ posting \in {"none", "reading", "pictures", "text", "done"}
    /\ card \in [there : BOOLEAN, buttons : BOOLEAN, line : Action \union {"none"}]
    /\ press \in [Press -> Asked \union {NoPress}]
    /\ writes \in 0..MaxWrites
    /\ decidedBy \in {"press", "others"} /\ overlap \in BOOLEAN

CardsInit ==
    /\ telegram \in {"off", "no chat", "on"}
    /\ goods = [status |-> "PENDING", live |-> TRUE]
    /\ posting = "reading"
    /\ card = [there |-> FALSE, buttons |-> FALSE, line |-> "none"]
    /\ press = [p \in Press |-> NoPress]
    /\ writes = 0 /\ decidedBy = "others" /\ overlap = FALSE

-----------------------------------------------------------------------------
\* notifyTelegramProductPendingModeration.  The caller does not wait; what it reads
\* is not looked at again, and a deleted product has its card as well.

ReadForCard ==
    /\ posting = "reading"
    /\ \E pictured \in BOOLEAN : posting' = IF pictured THEN "pictures" ELSE "text"
    /\ UNCHANGED <<telegram, goods, card, press, writes, decidedBy, overlap>>

\* sendMediaGroup and sendMessage: what is posted.  Without settings nothing is.
MayPost == IF telegram = "on" THEN BOOLEAN ELSE {FALSE}

\* The text follows whether or not the pictures were posted.
SendMediaGroup ==
    /\ posting = "pictures"
    /\ posting' = "text"
    /\ UNCHANGED <<telegram, goods, card, press, writes, decidedBy, overlap>>

SendCard ==
    /\ posting = "text"
    /\ posting' = "done"
    /\ \E posted \in MayPost : card' = [card EXCEPT !.there = posted, !.buttons = posted]
    /\ UNCHANGED <<telegram, goods, press, writes, decidedBy, overlap>>

\* The process ends while the card is being posted, or the query fails.
LosePosting ==
    /\ posting \in {"reading", "pictures", "text"}
    /\ posting' = "done"
    /\ UNCHANGED <<telegram, goods, card, press, writes, decidedBy, overlap>>

-----------------------------------------------------------------------------
Move(p, place) == press' = [press EXCEPT ![p].at = place]

\* A button is pressed, and Telegram calls the webhook, once or again.
TelegramWebhook(p, action) ==
    /\ card.there /\ card.buttons
    /\ press[p].at = "none"
    /\ press' = [press EXCEPT ![p] = [at |-> "new", action |-> action]]
    /\ overlap' = (overlap \/ \E q \in Press \ {p} : press[q].at # "none")
    /\ UNCHANGED <<telegram, goods, posting, card, writes, decidedBy>>

\* The account the decision is made in: of the environment or any administrator.
\* When there is none the press is answered, and nothing else happens.
GetAdminUserId(p) ==
    /\ press[p].at = "new"
    /\ \/ Move(p, "named")
       \/ press' = [press EXCEPT ![p] = NoPress]
    /\ UNCHANGED <<telegram, goods, posting, card, writes, decidedBy, overlap>>

\* moderateProduct reads the product, deleted or not,...
CheckPending(p) ==
    /\ press[p].at = "named"
    /\ Move(p, IF goods.status = "PENDING" THEN "checked" ELSE "failed")
    /\ UNCHANGED <<telegram, goods, posting, card, writes, decidedBy, overlap>>

Decision(action) == IF action = "approve" THEN "PUBLISHED" ELSE "REJECTED"

\* ...and writes by id.  Then findById throws when the product has been deleted; the
\* write may fail too.
WriteDecision(p) ==
    /\ press[p].at = "checked"
    /\ \/ /\ goods' = [goods EXCEPT !.status = Decision(press[p].action)]
          /\ decidedBy' = "press"
          /\ Move(p, IF goods.live THEN "written" ELSE "failed")
       \/ /\ Move(p, "failed")
          /\ UNCHANGED <<goods, decidedBy>>
    /\ UNCHANGED <<telegram, posting, card, writes, overlap>>

FaultDecided == {"written", "failed"}
Decided == {"written"}

\* The line is appended to the text that the pressed card had.
EditMessageText(p) ==
    /\ press[p].at \in Decided
    /\ \E edited \in MayPost :
          card' = IF edited THEN [card EXCEPT !.line = press[p].action, !.buttons = FALSE]
                            ELSE card
    /\ Move(p, "edited")
    /\ UNCHANGED <<telegram, goods, posting, writes, decidedBy, overlap>>

\* The answer is a notice on the moderator's screen, which an error changes.
AnswerCallbackQuery(p) ==
    /\ press[p].at \in {"edited", "failed"}
    /\ press' = [press EXCEPT ![p] = NoPress]
    /\ UNCHANGED <<telegram, goods, posting, card, writes, decidedBy, overlap>>

\* The process ends while the webhook runs.
LosePress(p) ==
    /\ press[p].at # "none"
    /\ press' = [press EXCEPT ![p] = NoPress]
    /\ UNCHANGED <<telegram, goods, posting, card, writes, decidedBy, overlap>>

-----------------------------------------------------------------------------
Others(status, live) ==
    /\ goods.live /\ writes < MaxWrites
    /\ goods' = [status |-> status, live |-> live]
    /\ writes' = writes + 1 /\ decidedBy' = "others"
    /\ UNCHANGED <<telegram, posting, card, press, overlap>>

\* updateProduct sends it back to moderation, whose card is not posted again.
OwnerEdits == goods.status # "PENDING" /\ Others("PENDING", TRUE)
OwnerDeletes == Others("DRAFT", FALSE)
PanelDecides == goods.status = "PENDING" /\ \E a \in Action : Others(Decision(a), TRUE)

CardsNext ==
    \/ ReadForCard \/ SendMediaGroup \/ SendCard \/ LosePosting
    \/ \E p \in Press :
          \/ \E action \in Action : TelegramWebhook(p, action)
          \/ GetAdminUserId(p) \/ CheckPending(p) \/ WriteDecision(p)
          \/ EditMessageText(p) \/ AnswerCallbackQuery(p) \/ LosePress(p)
    \/ OwnerEdits \/ OwnerDeletes \/ PanelDecides

-----------------------------------------------------------------------------
(***************************************************************************)
(* A card without buttons tells how the product stands: as long as presses *)
(* do not overlap, the line on the card is the decision that a press wrote *)
(* last, whatever failed on the way, until the owner or the panel writes.  *)
(***************************************************************************)
CardTellsDecision ==
    card.line # "none" /\ decidedBy = "press" /\ ~overlap
       => goods.status = Decision(card.line)
=============================================================================
