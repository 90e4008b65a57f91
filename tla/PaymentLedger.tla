---------------------------- MODULE PaymentLedger ----------------------------
(***************************************************************************)
(* Payments and what they buy: payment.service.ts with its two expiry      *)
(* jobs, and the handlers elsewhere that write users.publicationCredits.   *)
(*                                                                         *)
(* The payment gateway is external.  Customers pay invoices or fail to,    *)
(* and the gateway reports the outcome by webhooks, MaxDeliveries at most. *)
(* A webhook names no payment of ours: it carries an amount in tiyins and, *)
(* if the gateway was given it, the user; handleWebhook looks for a        *)
(* pending payment that fits.  It finds it outside the transaction that    *)
(* completes it, which writes by id, whatever the status is by then.       *)
(*                                                                         *)
(* createdAt orders payments, so payments are numbered as they are made.   *)
(***************************************************************************)
EXTENDS Integers, FiniteSetsExt

CONSTANTS
    User,
    MaxPayments,    \* bound on the payments made
    Amount,         \* amounts of top-ups
    Quantity,       \* quantities of publication payments
    PricePerPost,   \* price of one publication
    BatchSize,      \* cron.jobs.payments.batchSize
    MaxDeliveries,  \* webhooks the gateway sends for one outcome
    MaxGrants,      \* credits are given for free up to this balance
    Request,        \* handlers and jobs that can run at once
    None

Payment == 1..MaxPayments
PaymentType == {"TOP_UP", "PUBLICATION"}
PaymentStatus == {"PENDING", "COMPLETED", "FAILED", "EXPIRED"}
Outcome == {"success", "failed", "pending"}

ASSUME PaymentLedgerAssumption ==
    /\ MaxPayments \in Nat /\ MaxDeliveries \in Nat /\ MaxGrants \in Nat
    /\ BatchSize \in Nat \ {0} /\ PricePerPost \in Nat
    /\ Amount \subseteq Nat \ {0} /\ Quantity \subseteq Nat \ {0}
    /\ Request # {} /\ IsFiniteSet(Request)
    /\ None \notin User \union PaymentType \union PaymentStatus \union Outcome
    /\ None \notin Payment

VARIABLES
    \* the payments made so far, and their columns
    made, user, paymentType, amount, quantity, status,
    \* the columns of users
    balance, credits,
    \* expire-payment jobs in the queue, and the age limit: payments up to
    \* this one are older than maxAgeMs
    jobs, old,
    \* the gateway: what it reports of each invoice, and how often it did
    outcome, deliveries,
    \* requests in flight
    req,
    \* history: how often each payment was credited to its user
    credited

paymentVars == <<made, user, paymentType, amount, quantity>>
accountVars == <<balance, credits, credited>>
gatewayVars == <<outcome, deliveries>>
vars == <<paymentVars, status, accountVars, jobs, old, gatewayVars, req>>

Pending == {p \in 1..made : status[p] = "PENDING"}

-----------------------------------------------------------------------------
Idle == [pc |-> "idle"]
RequestState ==
    UNION {{Idle},
           [pc : {"enqueue", "complete", "fail"}, payment : Payment],
           [pc : {"expire"}, payments : SUBSET Payment],
           [pc : {"spend"}, user : User]}

At(r, pc) == req[r].pc = pc
Goto(r, state) == req' = [req EXCEPT ![r] = state]

Init ==
    /\ made = 0
    /\ user = [p \in Payment |-> None] /\ paymentType = [p \in Payment |-> None]
    /\ amount = [p \in Payment |-> 0] /\ quantity = [p \in Payment |-> 0]
    /\ status = [p \in Payment |-> None]
    /\ balance = [u \in User |-> 0] /\ credits = [u \in User |-> 1]
    /\ jobs = {} /\ old = 0
    /\ outcome = [p \in Payment |-> None] /\ deliveries = [p \in Payment |-> 0]
    /\ req = [r \in Request |-> Idle]
    /\ credited = [p \in Payment |-> 0]

Age ==
    /\ old < made
    /\ old' = old + 1
    /\ UNCHANGED <<paymentVars, status, accountVars, jobs, gatewayVars, req>>

\* A request fails or its process crashes between two steps.
Abort(r) ==
    /\ req[r] # Idle
    /\ Goto(r, Idle)
    /\ UNCHANGED <<paymentVars, status, accountVars, jobs, old, gatewayVars>>

(***************************************************************************)
(* createInvoice: the row first, then its expiry job                       *)
(***************************************************************************)
CreateInvoice(r, u, type, a, q) ==
    LET p == made + 1 IN
    /\ req[r] = Idle /\ p \in Payment
    /\ made' = p
    /\ user' = [user EXCEPT ![p] = u]
    /\ paymentType' = [paymentType EXCEPT ![p] = type]
    /\ amount' = [amount EXCEPT ![p] = a]
    /\ quantity' = [quantity EXCEPT ![p] = q]
    /\ status' = [status EXCEPT ![p] = "PENDING"]
    /\ Goto(r, [pc |-> "enqueue", payment |-> p])
    /\ UNCHANGED <<accountVars, jobs, old, gatewayVars>>

TopUp(r, u) == \E a \in Amount : CreateInvoice(r, u, "TOP_UP", a, 1)
BuyCredits(r, u) ==
    \E q \in Quantity : CreateInvoice(r, u, "PUBLICATION", PricePerPost * q, q)

EnqueueExpiry(r) ==
    /\ At(r, "enqueue")
    /\ jobs' = jobs \union {req[r].payment}
    /\ Goto(r, Idle)
    /\ UNCHANGED <<paymentVars, status, accountVars, old, gatewayVars>>

(***************************************************************************)
(* The gateway and its webhooks                                            *)
(***************************************************************************)
Tiyin == 100

\* The pending payments a webhook may be for, best fit first: by the amount as
\* it came, by the amount in sum, and for a known user whatever is pending.
Fits(u, webhookAmount) ==
    LET candidates == {p \in Pending : u # None => user[p] = u}
        priced(a) == {p \in candidates : amount[p] = a}
    IN  << priced(webhookAmount),
           IF webhookAmount >= Tiyin THEN priced(webhookAmount \div Tiyin) ELSE {},
           IF u # None THEN candidates ELSE {} >>

\* The newest payment of the best fit, or None.
FaultAnyPayment(u, webhookAmount) == IF made = 0 THEN None ELSE Max(1..made)
Matching(u, webhookAmount) ==
    LET fits == Fits(u, webhookAmount)
        found == {i \in DOMAIN fits : fits[i] # {}}
    IN  IF found = {} THEN None ELSE Max(fits[Min(found)])

\* What handleWebhook makes of the status a webhook reports.
FaultVerdict(result) == IF result = "failed" THEN "fail" ELSE "complete"
Verdict(result) ==
    CASE result = "success" -> "complete" [] result = "failed" -> "fail" [] OTHER -> "ignore"

\* A webhook about the invoice of payment p is matched to some payment.
WebhookRead(r, p, result, namesUser) ==
    LET match == Matching(IF namesUser THEN user[p] ELSE None, amount[p] * Tiyin) IN
    /\ req[r] = Idle
    /\ p \in 1..made /\ outcome[p] \in {None, result} /\ deliveries[p] < MaxDeliveries
    /\ outcome' = [outcome EXCEPT ![p] = result]
    /\ deliveries' = [deliveries EXCEPT ![p] = @ + 1]
    /\ Goto(r, IF match = None \/ Verdict(result) = "ignore" THEN Idle
               ELSE [pc |-> Verdict(result), payment |-> match])
    /\ UNCHANGED <<paymentVars, status, accountVars, jobs, old>>

\* What a payment is worth to its user.
WorthOf(p) ==
    IF paymentType[p] = "TOP_UP" THEN [balance |-> amount[p], credits |-> 0]
                                 ELSE [balance |-> 0, credits |-> quantity[p]]

HandleSuccessfulPayment(r) ==
    LET p == req[r].payment IN
    /\ At(r, "complete")
    /\ status' = [status EXCEPT ![p] = "COMPLETED"]
    /\ balance' = [balance EXCEPT ![user[p]] = @ + WorthOf(p).balance]
    /\ credits' = [credits EXCEPT ![user[p]] = @ + WorthOf(p).credits]
    /\ credited' = [credited EXCEPT ![p] = @ + 1]
    /\ Goto(r, Idle)
    /\ UNCHANGED <<paymentVars, jobs, old, gatewayVars>>

HandleFailedPayment(r) ==
    /\ At(r, "fail")
    /\ status' = [status EXCEPT ![req[r].payment] = "FAILED"]
    /\ Goto(r, Idle)
    /\ UNCHANGED <<paymentVars, accountVars, jobs, old, gatewayVars>>

(***************************************************************************)
(* Expiry: the job of one payment, and the hourly sweep of stale ones      *)
(***************************************************************************)
FaultExpirable(p) == p \in 1..made
Expirable(p) == status[p] = "PENDING"

ExpirePaymentIfPending(p) ==
    /\ p \in jobs /\ p <= old
    /\ status' = IF Expirable(p) THEN [status EXCEPT ![p] = "EXPIRED"] ELSE status
    /\ jobs' = jobs \ {p}
    /\ UNCHANGED <<paymentVars, accountVars, old, gatewayVars, req>>

\* A job that failed three times stays in the failed set: it runs no more.
JobFails(p) ==
    /\ p \in jobs /\ p <= old
    /\ jobs' = jobs \ {p}
    /\ UNCHANGED <<paymentVars, status, accountVars, old, gatewayVars, req>>

\* Which stale payments a batch takes is up to the database.
FaultStale == {p \in Pending : p < old}
Stale == {p \in Pending : p <= old}

ExpireStaleRead(r) ==
    /\ req[r] = Idle
    /\ Stale # {}
    /\ \E S \in SUBSET Stale :
          /\ Cardinality(S) = Min({BatchSize, Cardinality(Stale)})
          /\ Goto(r, [pc |-> "expire", payments |-> S])
    /\ UNCHANGED <<paymentVars, status, accountVars, jobs, old, gatewayVars>>

ExpireStaleWrite(r) ==
    /\ At(r, "expire")
    /\ status' = [p \in Payment |-> IF p \in req[r].payments THEN "EXPIRED" ELSE status[p]]
    /\ Goto(r, Idle)
    /\ UNCHANGED <<paymentVars, accountVars, jobs, old, gatewayVars>>

(***************************************************************************)
(* Credits: a seller's product costs one, checked before the transaction   *)
(***************************************************************************)
FaultNeedsNoCredit(u) == TRUE
HasCredit(u) == credits[u] >= 1

CreateProductRead(r, u) ==
    /\ req[r] = Idle /\ HasCredit(u)
    /\ Goto(r, [pc |-> "spend", user |-> u])
    /\ UNCHANGED <<paymentVars, status, accountVars, jobs, old, gatewayVars>>

CreateProductWrite(r) ==
    /\ At(r, "spend")
    /\ credits' = [credits EXCEPT ![req[r].user] = @ - 1]
    /\ Goto(r, Idle)
    /\ UNCHANGED <<paymentVars, status, balance, credited, jobs, old, gatewayVars>>

\* An admin adds credits, or one comes back for an auction without bids.
AddPublicationCredits(u) ==
    /\ credits[u] < MaxGrants
    /\ credits' = [credits EXCEPT ![u] = @ + 1]
    /\ UNCHANGED <<paymentVars, status, balance, credited, jobs, old, gatewayVars, req>>

-----------------------------------------------------------------------------
RequestSteps(r) ==
    \/ \E u \in User : TopUp(r, u) \/ BuyCredits(r, u) \/ CreateProductRead(r, u)
    \/ EnqueueExpiry(r) \/ CreateProductWrite(r)
    \/ \E p \in Payment, result \in Outcome, namesUser \in BOOLEAN :
          WebhookRead(r, p, result, namesUser)
    \/ HandleSuccessfulPayment(r) \/ HandleFailedPayment(r)
    \/ ExpireStaleRead(r) \/ ExpireStaleWrite(r)
    \/ Abort(r)

Next ==
    \/ Age
    \/ \E r \in Request : RequestSteps(r)
    \/ \E p \in Payment : ExpirePaymentIfPending(p) \/ JobFails(p)
    \/ \E u \in User : AddPublicationCredits(u)

Spec == Init /\ [][Next]_vars

(***************************************************************************)
(* Fairness.  Time passes; no handler hangs, at worst it is aborted; the   *)
(* hourly cron keeps starting the sweep, on workers of its own, and its    *)
(* update does not fail every time.  Nothing is owed by the gateway, the   *)
(* clients or the job of a single payment.                                 *)
(***************************************************************************)
Fairness ==
    /\ WF_vars(Age)
    /\ \A r \in Request : WF_vars(Abort(r))
    /\ SF_vars(\E r \in Request : ExpireStaleRead(r))
    /\ \A r \in Request : SF_vars(ExpireStaleWrite(r))

FairSpec == Spec /\ Fairness

-----------------------------------------------------------------------------
\* Types; in particular an account is overdrawn by no more credits than there
\* can be publications in flight beside the one the last credit was for:
\* createProduct checks the credits outside the transaction that takes one.
TypeOK ==
    /\ made \in 0..MaxPayments /\ old \in 0..made
    /\ user \in [Payment -> User \union {None}]
    /\ paymentType \in [Payment -> PaymentType \union {None}]
    /\ amount \in [Payment -> Nat] /\ quantity \in [Payment -> Nat]
    /\ status \in [Payment -> PaymentStatus \union {None}]
    /\ balance \in [User -> Nat] /\ credits \in [User -> Int]
    /\ \A u \in User : credits[u] >= 1 - Cardinality(Request)
    /\ jobs \subseteq 1..made
    /\ outcome \in [Payment -> Outcome \union {None}]
    /\ deliveries \in [Payment -> 0..MaxDeliveries]
    /\ req \in [Request -> RequestState]
    /\ credited \in [Payment -> Nat]

\* A payment was credited once if it is completed, and else never. The code
\* says of a second success: "Payment ... already processed".
CreditedOnce ==
    \A p \in Payment : credited[p] = IF status[p] = "COMPLETED" THEN 1 ELSE 0

\* However webhooks are matched, no more payments complete than were paid, as
\* long as the gateway reports each outcome once.
CompletedWasPaid ==
    Cardinality({p \in Payment : status[p] = "COMPLETED"})
        <= Cardinality({p \in Payment : outcome[p] = "success"})

\* No payment stays pending, though the gateway may never report, createInvoice
\* may crash before it queues the expiry job, and the job may fail for good.
PendingResolves ==
    \A p \in Payment : [](status[p] = "PENDING" => <>(status[p] # "PENDING"))

\* Both: every payment is resolved, and only what was paid as completed.
PaymentsSettle == []CompletedWasPaid /\ PendingResolves

\* The users' accounts are what PaymentAccount promises: payments are completed
\* and closed, and credits spent, by decisions that were right when taken, each
\* carried out at most once, and the expiry job closes only what is pending.
Phase(p) ==
    CASE status[p] = None -> "none"
      [] status[p] = "PENDING" -> "pending"
      [] status[p] = "COMPLETED" -> "completed"
      [] OTHER -> "closed"

\* What a request has decided and not yet written.
DecisionOf(state) ==
    CASE state.pc = "complete" -> [does |-> "complete", payment |-> state.payment]
      [] state.pc = "fail" -> [does |-> "close", payments |-> {state.payment}]
      [] state.pc = "expire" -> [does |-> "close", payments |-> state.payments]
      [] state.pc = "spend" -> [does |-> "spend", user |-> state.user]
      [] OTHER -> [does |-> "nothing"]

Account == INSTANCE PaymentAccount WITH
    Worth <- {[balance |-> a, credits |-> 0] : a \in Amount}
                \union {[balance |-> 0, credits |-> q] : q \in Quantity},
    Clerk <- Request,
    phase <- [p \in Payment |-> Phase(p)],
    owner <- user,
    worth <- [p \in Payment |-> IF status[p] = None THEN None ELSE WorthOf(p)],
    clerk <- [r \in Request |-> DecisionOf(req[r])]

ImplementsAccount == Account!Spec
=============================================================================
