---------------------------------- MODULE News ---------------------------------
(***************************************************************************)
(* What the bidders of one auction are told (the ends of createBid,        *)
(* retractBid, chooseWinner, endExpiredAuctions and finalizeAuction), and  *)
(* what happens to it without a word (restoreBid, updateAuction).  A       *)
(* handler reads and checks, commits, and tells whom it has read before or *)
(* reads then, while others read, commit and tell.                         *)
(*                                                                         *)
(* BidBook has the transactions in detail; here one is a step, and a bid   *)
(* is higher than those before it.  What becomes of a notification is the  *)
(* subject of Inbox; here whoever is told knows.                           *)
(***************************************************************************)
EXTENDS Naturals, Sequences

CONSTANTS
    Player,     \* bidders
    Teller,     \* handlers that can be between two statements at once
    MaxOffers,  \* bound on the bids
    NoPlayer

ASSUME NewsAssumption == MaxOffers \in Nat /\ NoPlayer \notin Player

VARIABLES
    offers,     \* the bids, lowest first: whose they are, and whether they are live,
                \* rejected by the seller, retracted, or deleted for a new one
    winning,    \* the bids with isWinning
    outcome,    \* "no", or how the auction ended
    telling,    \* handlers between two statements
    believes,   \* (history) who has no reason to doubt that their bid is the highest,
                \* as long as the auction goes on
    unheard,    \* (history) who has not been told of a change, for a known reason;
                \* counted anew when the auction ends
    heardEnd    \* (history) who has been told that the auction ended

newsVars == <<offers, winning, outcome, telling, believes, unheard, heardEnd>>

LiveOffers == {b \in DOMAIN offers : offers[b].state = "live"}
LiveBidders == {offers[b].by : b \in LiveOffers}
Top(S) == IF S = {} THEN 0 ELSE CHOOSE b \in S : \A c \in S : c <= b
BidderOf(b) == IF b = 0 THEN NoPlayer ELSE offers[b].by

\* Who has the highest bid, and who has the newest bid that is marked.
Leader == BidderOf(Top(LiveOffers))
FoundWinning == BidderOf(Top(winning))

Remover == {"bidder", "seller", "administrator"}

Quiet == [pc |-> "idle"]
TellerState ==
    UNION {{Quiet},
           [pc : {"offer", "outbid"}, user : Player, previous : Player \union {NoPlayer}],
           [pc : {"retract"}, bid : 1..MaxOffers, wasWinning : BOOLEAN],
           [pc : {"restore"}, bid : 1..MaxOffers],
           [pc : {"rejected", "winner"}, user : Player],
           [pc : {"sweep", "end"}, users : SUBSET Player],
           [pc : {"update", "close", "participants"}]}

NewsTypeOK ==
    /\ offers \in Seq([by : Player, state : {"live", "rejected", "retracted", "deleted"}])
    /\ Len(offers) <= MaxOffers
    /\ winning \subseteq LiveOffers
    /\ outcome \in {"no", "expired", "finalized", "winner", "updated"}
    /\ telling \in [Teller -> TellerState]
    /\ believes \subseteq Player /\ unheard \subseteq Player /\ heardEnd \subseteq Player

NewsInit ==
    /\ offers = <<>> /\ winning = {} /\ outcome = "no"
    /\ telling = [h \in Teller |-> Quiet]
    /\ believes = {} /\ unheard = {} /\ heardEnd = {}

On(h, pc) == telling[h].pc = pc
Turn(h, state) == telling' = [telling EXCEPT ![h] = state]

-----------------------------------------------------------------------------
\* createBid reads whose bid is winning before its transaction.
StartOffer(h, u) ==
    /\ telling[h] = Quiet /\ outcome = "no"
    /\ Turn(h, [pc |-> "offer", user |-> u, previous |-> FoundWinning])
    /\ UNCHANGED <<offers, winning, outcome, believes, unheard, heardEnd>>

\* The status is checked again, and the bidder's other live bids are deleted.
\* Whoever leads and is not who was read will not be told.
CommitOffer(h) ==
    LET u == telling[h].user
        p == telling[h].previous IN
    /\ On(h, "offer") /\ outcome = "no" /\ Len(offers) < MaxOffers
    /\ offers' = Append([b \in DOMAIN offers |->
                            IF b \in LiveOffers /\ offers[b].by = u
                            THEN [offers[b] EXCEPT !.state = "deleted"] ELSE offers[b]],
                        [by |-> u, state |-> "live"])
    /\ winning' = {Len(offers) + 1}
    /\ believes' = believes \union {u}
    /\ unheard' = (unheard \union ({Leader} \ {p, NoPlayer})) \ {u}
    /\ Turn(h, [pc |-> "outbid", user |-> u, previous |-> p])
    /\ UNCHANGED <<outcome, heardEnd>>

FaultOutbidUser(h) == {offers[Len(offers)].by} \ {telling[h].user}
OutbidUser(h) == {telling[h].previous} \ {NoPlayer, telling[h].user}

\* After the participants have been told of an extension and the seller of the bid,
\* which may fail, whoever was read to be winning is told of being outbid.
TellOutbid(h) ==
    /\ On(h, "outbid") /\ Turn(h, Quiet)
    /\ believes' = believes \ OutbidUser(h)
    /\ UNCHANGED <<offers, winning, outcome, unheard, heardEnd>>

FaultNext(b) == Top(DOMAIN offers \ {b})
NextHighest(b) == Top(LiveOffers \ {b})

\* retractBid reads the bid, its mark and the status...
StartRetract(h, b) ==
    /\ telling[h] = Quiet /\ outcome = "no" /\ b \in LiveOffers
    /\ Turn(h, [pc |-> "retract", bid |-> b, wasWinning |-> b \in winning])
    /\ UNCHANGED <<offers, winning, outcome, believes, unheard, heardEnd>>

\* ...and writes by id, without a lock.  If the bid was winning the next one is
\* marked, of which nobody is told.  The seller's rejection is told to the bidder,
\* an administrator's removal to nobody.  (by: who has asked for it.)
CommitRetract(h, by) ==
    LET b == telling[h].bid
        u == offers[b].by
        heir == NextHighest(b) IN
    /\ On(h, "retract") /\ offers[b].state # "deleted"
    /\ offers' = [offers EXCEPT ![b].state =
                      IF by = "seller" \/ @ = "rejected" THEN "rejected" ELSE "retracted"]
    /\ winning' = (winning \ {b}) \union (IF telling[h].wasWinning THEN {heir} \ {0} ELSE {})
    /\ believes' = IF by = "bidder" THEN believes \ {u} ELSE believes
    /\ unheard' = IF by = "administrator" THEN unheard \union {u} ELSE unheard
    /\ Turn(h, IF by = "seller" THEN [pc |-> "rejected", user |-> u] ELSE Quiet)
    /\ UNCHANGED <<outcome, heardEnd>>

TellRejected(h) ==
    /\ On(h, "rejected") /\ Turn(h, Quiet)
    /\ believes' = believes \ {telling[h].user}
    /\ UNCHANGED <<offers, winning, outcome, unheard, heardEnd>>

\* restoreBid checks that the bid is rejected and the auction goes on, writes by id,
\* and tells nobody.
StartRestore(h, b) ==
    /\ telling[h] = Quiet /\ outcome = "no" /\ offers[b].state = "rejected"
    /\ Turn(h, [pc |-> "restore", bid |-> b])
    /\ UNCHANGED <<offers, winning, outcome, believes, unheard, heardEnd>>

CommitRestore(h) ==
    LET b == telling[h].bid
        top == Top(LiveOffers \union {b}) IN
    /\ On(h, "restore") /\ offers[b].state # "deleted"
    /\ offers' = [offers EXCEPT ![b].state = "live"]
    /\ winning' = {top}
    /\ unheard' = unheard \union (IF outcome = "no" THEN {Leader} \ {offers[top].by, NoPlayer}
                                                    ELSE {offers[b].by})
    /\ Turn(h, Quiet)
    /\ UNCHANGED <<outcome, believes, heardEnd>>

-----------------------------------------------------------------------------
\* endExpiredAuctions reads whom to tell before it ends the auction...
SweepAuction(h) ==
    /\ telling[h] = Quiet /\ outcome = "no"
    /\ Turn(h, [pc |-> "sweep", users |-> LiveBidders])
    /\ UNCHANGED <<offers, winning, outcome, believes, unheard, heardEnd>>

EndExpired(h) ==
    /\ On(h, "sweep")
    /\ outcome' = "expired" /\ believes' = {}
    /\ unheard' = (IF outcome = "no" THEN {} ELSE unheard) \union (LiveBidders \ telling[h].users)
    /\ Turn(h, [telling[h] EXCEPT !.pc = "end"])
    /\ UNCHANGED <<offers, winning, heardEnd>>

\* ...finalizeAuction ends it first, and chooseWinner tells the winner alone.
CloseEarly(h) ==
    /\ telling[h] = Quiet /\ outcome = "no"
    /\ Turn(h, [pc |-> "close"])
    /\ UNCHANGED <<offers, winning, outcome, believes, unheard, heardEnd>>

Finalize(h) ==
    /\ On(h, "close")
    /\ outcome' = "finalized" /\ believes' = {} /\ unheard' = {}
    /\ Turn(h, [pc |-> "participants"])
    /\ UNCHANGED <<offers, winning, heardEnd>>

ReadParticipants(h) ==
    /\ On(h, "participants")
    /\ Turn(h, [pc |-> "end", users |-> LiveBidders])
    /\ UNCHANGED <<offers, winning, outcome, believes, unheard, heardEnd>>

WinningOf(u) == Top({b \in LiveOffers : offers[b].by = u})

\* What chooseWinner reads first does not matter: its transaction looks for a bid of
\* the winner again, and ends the auction whatever its status is by then.
AnnounceWinner(h, u) ==
    /\ telling[h] = Quiet /\ u \in LiveBidders
    /\ outcome' = "winner" /\ believes' = {} /\ unheard' = {}
    /\ winning' = {WinningOf(u)}
    /\ Turn(h, [pc |-> "winner", user |-> u])
    /\ UNCHANGED <<offers, heardEnd>>

\* updateAuction ends or cancels the auction and tells nobody...
EndByUpdate ==
    /\ outcome = "no"
    /\ outcome' = "updated" /\ believes' = {} /\ unheard' = {}
    /\ UNCHANGED <<offers, winning, telling, heardEnd>>

\* ...or writes, to an auction that it read going on and that may have ended, that
\* it is ACTIVE: it goes on, and nobody believes anything.
StartUpdate(h) ==
    /\ telling[h] = Quiet /\ outcome = "no"
    /\ Turn(h, [pc |-> "update"])
    /\ UNCHANGED <<offers, winning, outcome, believes, unheard, heardEnd>>

ReopenByUpdate(h) ==
    /\ On(h, "update") /\ outcome # "no"
    /\ outcome' = "no" /\ believes' = {} /\ unheard' = {} /\ heardEnd' = {}
    /\ Turn(h, Quiet)
    /\ UNCHANGED <<offers, winning>>

TellEnd(h) ==
    /\ On(h, "end") \/ On(h, "winner")
    /\ heardEnd' = heardEnd \union
                   (IF outcome = "no" THEN {}
                    ELSE IF On(h, "end") THEN telling[h].users ELSE {telling[h].user})
    /\ Turn(h, Quiet)
    /\ UNCHANGED <<offers, winning, outcome, believes, unheard>>

\* Whom a handler is about to tell of something that still matters to them.
Told(h) ==
    CASE telling[h].pc = "outbid" /\ outcome = "no"       -> OutbidUser(h)
      [] telling[h].pc = "rejected" /\ outcome = "no"     -> {telling[h].user}
      [] telling[h].pc = "end" /\ outcome # "no"          -> telling[h].users
      [] telling[h].pc = "participants" /\ outcome # "no" -> LiveBidders
      [] OTHER                                           -> {}

\* The process ends, or an error of the notifications ends the telling.
LoseNews(h) ==
    /\ telling[h] # Quiet
    /\ unheard' = unheard \union Told(h)
    /\ Turn(h, Quiet)
    /\ UNCHANGED <<offers, winning, outcome, believes, heardEnd>>

NewsNext ==
    \/ \E h \in Teller :
          \/ \E u \in Player : StartOffer(h, u) \/ AnnounceWinner(h, u)
          \/ CommitOffer(h) \/ TellOutbid(h)
          \/ \E b \in DOMAIN offers : StartRestore(h, b) \/ StartRetract(h, b)
          \/ \E by \in Remover : CommitRetract(h, by)
          \/ TellRejected(h) \/ CommitRestore(h)
          \/ SweepAuction(h) \/ EndExpired(h)
          \/ CloseEarly(h) \/ Finalize(h) \/ ReadParticipants(h)
          \/ StartUpdate(h) \/ ReopenByUpdate(h)
          \/ TellEnd(h) \/ LoseNews(h)
    \/ EndByUpdate

-----------------------------------------------------------------------------
(***************************************************************************)
(* Nobody goes on believing that they have the highest bid, nor that an    *)
(* auction goes on that has run out or was closed, once the handlers have  *)
(* told what they will.  Excepted are those who were overlooked: a leader  *)
(* whom the next bidder's handler had not found, because the bid came      *)
(* after it had looked or a retraction that overlapped left another mark;  *)
(* one whom a restored bid overtakes, one whose bid an administrator       *)
(* removes, a bidder who came after the sweep had read the participants,   *)
(* one whose bid is restored after the end, and those whose handler did    *)
(* not get so far.  An auction that is ended or cancelled by updateAuction *)
(* or by the choice of a winner is not announced to its bidders at all.    *)
(***************************************************************************)
NewsArrives ==
    LET waiting == UNION {Told(h) : h \in Teller} IN
    /\ outcome = "no" => believes \ {Leader} \subseteq unheard \union waiting
    /\ outcome \in {"expired", "finalized"} =>
          LiveBidders \subseteq heardEnd \union unheard \union waiting
=============================================================================
