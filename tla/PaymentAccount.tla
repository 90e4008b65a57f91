--------------------------- MODULE PaymentAccount ---------------------------
(***************************************************************************)
(* What the payment module promises its users: a payment is completed,     *)
(* closed, and paid out to its owner, and a credit is spent, only by a     *)
(* decision that was right when it was taken and that takes effect at most *)
(* once.  It does not promise that a decision is still right by then: two  *)
(* clerks may each complete, or close, what both saw pending, and each     *)
(* spend what was the last credit.                                         *)
(***************************************************************************)
EXTENDS Integers

CONSTANTS
    User,
    Payment,
    Worth,   \* what a payment can be worth: [balance, credits]
    Clerk,   \* those who take decisions
    None

VARIABLES
    phase,    \* of each payment: "none", "pending", "completed", "closed"
    owner,    \* the user of each payment, or None
    worth,    \* what each payment is worth
    balance,  \* of each user
    credits,  \* publication credits of each user
    clerk     \* the decision each clerk took and has not carried out

rowVars == <<phase, owner, worth>>
accountVars == <<balance, credits>>
vars == <<rowVars, accountVars, clerk>>

Nothing == [does |-> "nothing"]
Decision ==
    UNION {[does : {"complete"}, payment : Payment],
           [does : {"close"}, payments : SUBSET Payment],
           [does : {"spend"}, user : User]}

Init ==
    /\ phase = [p \in Payment |-> "none"]
    /\ owner = [p \in Payment |-> None]
    /\ worth = [p \in Payment |-> None]
    /\ balance = [u \in User |-> 0]
    /\ credits = [u \in User |-> 1]
    /\ clerk = [c \in Clerk |-> Nothing]

Open(p, u, w) ==
    /\ phase[p] = "none"
    /\ phase' = [phase EXCEPT ![p] = "pending"]
    /\ owner' = [owner EXCEPT ![p] = u]
    /\ worth' = [worth EXCEPT ![p] = w]
    /\ UNCHANGED <<accountVars, clerk>>

\* Only pending payments are decided on, and only a credit that is there.
Right(d) ==
    \/ d.does = "complete" /\ phase[d.payment] = "pending"
    \/ d.does = "close" /\ \A p \in d.payments : phase[p] = "pending"
    \/ d.does = "spend" /\ credits[d.user] > 0

Decide(c, d) ==
    /\ clerk[c] = Nothing /\ Right(d)
    /\ clerk' = [clerk EXCEPT ![c] = d]
    /\ UNCHANGED <<rowVars, accountVars>>

Done(c) == clerk' = [clerk EXCEPT ![c] = Nothing]

Drop(c) == Done(c) /\ UNCHANGED <<rowVars, accountVars>>

\* A payment that was completed pays its owner what it is worth.
Complete(c) ==
    LET p == clerk[c].payment IN
    /\ clerk[c].does = "complete" /\ Done(c)
    /\ phase' = [phase EXCEPT ![p] = "completed"]
    /\ balance' = [balance EXCEPT ![owner[p]] = @ + worth[p].balance]
    /\ credits' = [credits EXCEPT ![owner[p]] = @ + worth[p].credits]
    /\ UNCHANGED <<owner, worth>>

Closed(S) == phase' = [p \in Payment |-> IF p \in S THEN "closed" ELSE phase[p]]

Close(c) ==
    /\ clerk[c].does = "close" /\ Done(c) /\ Closed(clerk[c].payments)
    /\ UNCHANGED <<owner, worth, accountVars>>

\* A payment may also be found pending and closed in one step.
CloseAtOnce(p) ==
    /\ phase[p] = "pending" /\ Closed({p})
    /\ UNCHANGED <<owner, worth, accountVars, clerk>>

Spend(c) ==
    /\ clerk[c].does = "spend" /\ Done(c)
    /\ credits' = [credits EXCEPT ![clerk[c].user] = @ - 1]
    /\ UNCHANGED <<rowVars, balance>>

Grant(u) ==
    /\ credits' = [credits EXCEPT ![u] = @ + 1]
    /\ UNCHANGED <<rowVars, balance, clerk>>

Next ==
    \/ \E p \in Payment, u \in User, w \in Worth : Open(p, u, w)
    \/ \E c \in Clerk :
          \/ \E d \in Decision : Decide(c, d)
          \/ Drop(c) \/ Complete(c) \/ Close(c) \/ Spend(c)
    \/ \E p \in Payment : CloseAtOnce(p)
    \/ \E u \in User : Grant(u)

Spec == Init /\ [][Next]_vars
=============================================================================
