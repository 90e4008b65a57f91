------------------------- MODULE PaymentLedgerProofs -------------------------
(***************************************************************************)
(* Proofs about PaymentLedger, for any number of users, payments, requests *)
(* in flight and webhooks.  Nothing in the code keeps two webhooks, or a   *)
(* webhook and the sweep, or two publications apart, and nothing does here.*)
(***************************************************************************)
EXTENDS PaymentLedger, FiniteSetTheorems, WellFoundedInduction, TLAPS

\* The columns of the payments that were made, and of those that were not.
RowsFilled ==
    \A p \in Payment :
        IF p <= made
          THEN user[p] \in User /\ paymentType[p] # None /\ status[p] # None
          ELSE status[p] = None

\* Requests in flight carry payments that were made.
PaymentsAreMade ==
    \A r \in Request :
        /\ req[r].pc \in {"enqueue", "complete", "fail"} => req[r].payment \in 1..made
        /\ At(r, "expire") => req[r].payments \subseteq 1..made

\* The publications in flight for a user: each was started when there was a
\* credit, and takes one. The account can bear all of them down to the bound.
SpendersOf(u) == {r \in Request : At(r, "spend") /\ req[r].user = u}
CreditsCovered ==
    \A u \in User : credits[u] - Cardinality(SpendersOf(u)) >= 1 - Cardinality(Request)

IInv == TypeOK /\ RowsFilled /\ PaymentsAreMade /\ CreditsCovered

-----------------------------------------------------------------------------
(***************************************************************************)
(* What requests carry, and which payment a webhook is matched to.         *)
(***************************************************************************)
LEMMA StateAt ==
    ASSUME NEW s \in RequestState
    PROVE  /\ s.pc \in {"enqueue", "complete", "fail"} => s.payment \in Payment
           /\ s.pc = "expire" => s.payments \subseteq Payment
           /\ s.pc = "spend" => s.user \in User
  BY DEF RequestState, Idle

LEMMA MadeArePayments ==
    ASSUME TypeOK
    PROVE  made \in Nat /\ 1..made \subseteq Payment /\ Pending \subseteq 1..made
<1>1. made \in Nat /\ made <= MaxPayments
  BY PaymentLedgerAssumption DEF TypeOK
<1> QED
  BY <1>1, PaymentLedgerAssumption DEF Payment, Pending

LEMMA MaxIsMember ==
    ASSUME NEW n \in Nat, NEW S \in SUBSET (1..n), S # {}
    PROVE  Max(S) \in S
<1> DEFINE T == {n - x : x \in S}
<1>1. T \subseteq Nat /\ T # {}
  <2>1. \A x \in S : x \in Nat /\ x <= n /\ n - x \in Nat
    OBVIOUS
  <2> QED
    BY <2>1
<1> HIDE DEF T
<1>2. PICK t \in T : \A s \in T : <<s, t>> \notin OpToRel(<, Nat)
  BY <1>1, WFMin, NatLessThanWellFounded
<1>3. \A s \in T : ~(s < t)
  BY <1>1, <1>2 DEF OpToRel
<1>4. PICK m \in S : t = n - m
  BY DEF T
<1>5. \A x \in S : m >= x
  <2> TAKE x \in S
  <2>1. n - x \in T /\ n - x \in Nat /\ t \in Nat
    BY <1>1 DEF T
  <2>2. ~(n - x < t)
    BY <1>3, <2>1
  <2> QED
    BY <1>4, <2>2
<1> QED
  BY <1>5 DEF Max

\* A webhook is matched to a pending payment or to none.
LEMMA MatchingIsPending ==
    ASSUME TypeOK, NEW u, NEW a
    PROVE  Matching(u, a) = None \/ Matching(u, a) \in Pending
<1> DEFINE fits == Fits(u, a)
           found == {i \in DOMAIN fits : fits[i] # {}}
<1>1. DOMAIN fits = 1..3 /\ \A i \in 1..3 : fits[i] \in SUBSET Pending
  BY DEF Fits
<1>2. ASSUME found # {} PROVE Min(found) \in found
  <2>1. PICK i \in found : \A j \in found : i <= j
    BY <1>1, <1>2
  <2> QED
    BY <2>1 DEF Min
<1>3. ASSUME found # {} PROVE Max(fits[Min(found)]) \in Pending
  <2>1. fits[Min(found)] # {} /\ fits[Min(found)] \subseteq Pending
    BY <1>1, <1>2, <1>3
  <2>2. Pending \subseteq 1..made /\ made \in Nat
    BY DEF Pending, TypeOK
  <2> QED
    BY <2>1, <2>2, MaxIsMember
<1> QED
  BY <1>3 DEF Matching


\* Requests: r goes to a state that carries payments that were made.
LEMMA RequestsPreserved ==
    ASSUME IInv, NEW r \in Request, NEW state \in RequestState, Goto(r, state),
           made' \in Nat, made' >= made,
           state.pc \in {"enqueue", "complete", "fail"} => state.payment \in 1..made',
           state.pc = "expire" => state.payments \subseteq 1..made'
    PROVE  req' \in [Request -> RequestState] /\ PaymentsAreMade'
<1>1. req \in [Request -> RequestState] /\ made \in Nat
  BY DEF IInv, TypeOK
<1>2. req' \in [Request -> RequestState] /\ req'[r] = state
  BY <1>1 DEF Goto
<1>3. \A s \in Request \ {r} : req'[s] = req[s]
  BY <1>1 DEF Goto
<1>4. PaymentsAreMade'
  <2>1. 1..made \subseteq 1..made'
    BY <1>1
  <2> SUFFICES ASSUME NEW s \in Request
               PROVE  /\ req'[s].pc \in {"enqueue", "complete", "fail"} => req'[s].payment \in 1..made'
                      /\ req'[s].pc = "expire" => req'[s].payments \subseteq 1..made'
    BY DEF PaymentsAreMade, At
  <2>2. CASE s = r
    BY <1>2, <2>2
  <2>3. CASE s # r
    BY <1>3, <2>1, <2>3 DEF IInv, PaymentsAreMade, At
  <2> QED
    BY <2>2, <2>3
<1> QED
  BY <1>2, <1>4

\* How many publications of a user are in flight.
LEMMA SpendersCounted ==
    ASSUME NEW u
    PROVE  /\ IsFiniteSet(SpendersOf(u)) /\ Cardinality(SpendersOf(u)) \in Nat
           /\ Cardinality(SpendersOf(u)) <= Cardinality(Request)
           /\ Cardinality(Request) \in Nat
<1>1. SpendersOf(u) \in SUBSET Request /\ IsFiniteSet(Request)
  BY PaymentLedgerAssumption DEF SpendersOf
<1> QED
  BY <1>1, FS_Subset, FS_CardinalityType

\* A request that goes on to anything but taking a credit is no spender.
LEMMA SpenderLeaves ==
    ASSUME req \in [Request -> RequestState], NEW r \in Request, NEW state, Goto(r, state),
           state.pc # "spend", NEW u
    PROVE  Cardinality(SpendersOf(u)')
             = Cardinality(SpendersOf(u)) - (IF r \in SpendersOf(u) THEN 1 ELSE 0)
<1>1. SpendersOf(u)' = SpendersOf(u) \ {r}
  BY DEF SpendersOf, At, Goto
<1>2. Cardinality(SpendersOf(u)) \in Nat /\ IsFiniteSet(SpendersOf(u))
  BY SpendersCounted
<1>3. Cardinality(SpendersOf(u) \ {r})
        = IF r \in SpendersOf(u) THEN Cardinality(SpendersOf(u)) - 1 ELSE Cardinality(SpendersOf(u))
  BY <1>2, FS_RemoveElement
<1> QED
  BY <1>1, <1>2, <1>3

LEMMA IdleState == Idle \in RequestState /\ Idle.pc = "idle"
  BY DEF Idle, RequestState

\* Only what is in flight changes.
LEMMA ReadPreserves ==
    ASSUME IInv, NEW r \in Request, NEW state \in RequestState, Goto(r, state),
           state.pc \in {"enqueue", "complete", "fail"} => state.payment \in 1..made,
           state.pc = "expire" => state.payments \subseteq 1..made,
           state.pc = "spend" => credits[state.user] >= 1,
           UNCHANGED <<paymentVars, status, accountVars, jobs, old>>,
           outcome' \in [Payment -> Outcome \union {None}],
           deliveries' \in [Payment -> 0..MaxDeliveries]
    PROVE  IInv'
<1> USE DEF paymentVars, accountVars
<1>1. req' \in [Request -> RequestState] /\ PaymentsAreMade'
  BY RequestsPreserved DEF IInv, TypeOK
<1>2. TypeOK' /\ RowsFilled'
  BY <1>1 DEF IInv, TypeOK, RowsFilled
<1>3. CreditsCovered'
  <2> SUFFICES ASSUME NEW u \in User
               PROVE  credits'[u] - Cardinality(SpendersOf(u)') >= 1 - Cardinality(Request)
    BY DEF CreditsCovered
  <2>1. credits'[u] = credits[u] /\ credits[u] \in Int
    BY DEF IInv, TypeOK
  <2>2. credits[u] - Cardinality(SpendersOf(u)) >= 1 - Cardinality(Request)
    BY DEF IInv, CreditsCovered
  <2>3. /\ Cardinality(SpendersOf(u)) \in Nat /\ Cardinality(Request) \in Nat
        /\ Cardinality(SpendersOf(u)') \in Nat /\ Cardinality(SpendersOf(u)') <= Cardinality(Request)
    <3>1. SpendersOf(u)' \in SUBSET Request /\ IsFiniteSet(Request)
      BY PaymentLedgerAssumption DEF SpendersOf
    <3> QED
      BY <3>1, SpendersCounted, FS_Subset, FS_CardinalityType
  <2>4. CASE state.pc = "spend" /\ state.user = u
    BY <2>1, <2>3, <2>4
  <2>5. CASE state.pc # "spend"
    <3>1. Cardinality(SpendersOf(u)') <= Cardinality(SpendersOf(u))
      BY <2>3, <2>5, SpenderLeaves DEF IInv, TypeOK
    <3> QED
      BY <2>1, <2>2, <2>3, <3>1
  <2>6. CASE state.pc = "spend" /\ state.user # u
    <3>1. SpendersOf(u)' \in SUBSET SpendersOf(u)
      BY <2>6 DEF SpendersOf, At, Goto, IInv, TypeOK
    <3>2. Cardinality(SpendersOf(u)') <= Cardinality(SpendersOf(u))
      BY <3>1, SpendersCounted, FS_Subset
    <3> QED
      BY <2>1, <2>2, <2>3, <3>2
  <2> QED
    BY <2>4, <2>5, <2>6
<1> QED
  BY <1>1, <1>2, <1>3 DEF IInv

\* The bound on the accounts, from what the publications in flight may take.
LEMMA BoundFromCover ==
    ASSUME CreditsCovered, credits \in [User -> Int]
    PROVE  \A u \in User : credits[u] >= 1 - Cardinality(Request)
<1> TAKE u \in User
<1>1. credits[u] \in Int /\ Cardinality(SpendersOf(u)) \in Nat /\ Cardinality(Request) \in Nat
  BY SpendersCounted
<1>2. credits[u] - Cardinality(SpendersOf(u)) >= 1 - Cardinality(Request)
  BY DEF CreditsCovered
<1> QED
  BY <1>1, <1>2

\* A request that is done writes statuses, and accounts, from which it takes a
\* credit only if it is a publication of their owner.
LEMMA WritePreserves ==
    ASSUME IInv, NEW r \in Request, Goto(r, Idle),
           UNCHANGED <<paymentVars, old, gatewayVars>>, jobs' \subseteq 1..made,
           status' \in [Payment -> PaymentStatus \union {None}],
           \A p \in Payment : status'[p] = None <=> status[p] = None,
           balance' \in [User -> Nat], credits' \in [User -> Int],
           credited' \in [Payment -> Nat],
           \A u \in User : credits'[u] >= credits[u] - (IF r \in SpendersOf(u) THEN 1 ELSE 0)
    PROVE  IInv'
<1> USE DEF paymentVars, gatewayVars
<1>1. req' \in [Request -> RequestState] /\ PaymentsAreMade'
  BY RequestsPreserved, IdleState DEF IInv, TypeOK
<1>2. CreditsCovered'
  <2> SUFFICES ASSUME NEW u \in User
               PROVE  credits'[u] - Cardinality(SpendersOf(u)') >= 1 - Cardinality(Request)
    BY DEF CreditsCovered
  <2>1. credits'[u] \in Int /\ credits[u] \in Int
    BY DEF IInv, TypeOK
  <2>2. credits[u] - Cardinality(SpendersOf(u)) >= 1 - Cardinality(Request)
    BY DEF IInv, CreditsCovered
  <2>3. Cardinality(SpendersOf(u)) \in Nat /\ Cardinality(Request) \in Nat
    BY SpendersCounted
  <2>4. Cardinality(SpendersOf(u)')
          = Cardinality(SpendersOf(u)) - (IF r \in SpendersOf(u) THEN 1 ELSE 0)
    BY IdleState, SpenderLeaves DEF IInv, TypeOK
  <2>5. credits'[u] >= credits[u] - (IF r \in SpendersOf(u) THEN 1 ELSE 0)
    OBVIOUS
  <2> QED
    BY <2>1, <2>2, <2>3, <2>4, <2>5
<1>3. \A u \in User : credits'[u] >= 1 - Cardinality(Request)
  <2> TAKE u \in User
  <2>1. credits'[u] - Cardinality(SpendersOf(u)') >= 1 - Cardinality(Request)
    BY <1>2 DEF CreditsCovered
  <2>2. SpendersOf(u)' \in SUBSET Request /\ IsFiniteSet(Request)
    BY PaymentLedgerAssumption DEF SpendersOf
  <2>3. Cardinality(SpendersOf(u)') \in Nat /\ Cardinality(Request) \in Nat /\ credits'[u] \in Int
    BY <2>2, FS_Subset, FS_CardinalityType
  <2> QED
    BY <2>1, <2>3
<1>4. TypeOK' /\ RowsFilled'
  BY <1>1, <1>3 DEF IInv, TypeOK, RowsFilled
<1> QED
  BY <1>1, <1>2, <1>4 DEF IInv

-----------------------------------------------------------------------------
(***************************************************************************)
(* One lemma per operation.                                                *)
(***************************************************************************)
LEMMA CreateInvoicePreserves ==
    ASSUME IInv, NEW r \in Request, NEW u \in User, NEW type \in PaymentType,
           NEW a \in Nat, NEW q \in Nat, CreateInvoice(r, u, type, a, q)
    PROVE  IInv'
<1> DEFINE p == made + 1
           state == [pc |-> "enqueue", payment |-> p]
<1>1. p \in Payment /\ made \in Nat /\ made' = p
  BY DEF CreateInvoice, IInv, TypeOK
<1>2. state \in RequestState /\ Goto(r, state)
  BY <1>1 DEF CreateInvoice, RequestState
<1>4. state.payment \in 1..made'
  BY <1>1
<1> HIDE DEF state
<1>5. state.pc = "enqueue"
  BY DEF state
<1>6. req' \in [Request -> RequestState] /\ PaymentsAreMade'
  BY <1>1, <1>2, <1>4, <1>5, RequestsPreserved
<1>7. TypeOK'
  <2>1. user' \in [Payment -> User \union {None}]
    BY DEF CreateInvoice, IInv, TypeOK
  <2>2. paymentType' \in [Payment -> PaymentType \union {None}]
    BY DEF CreateInvoice, IInv, TypeOK
  <2>3. amount' \in [Payment -> Nat] /\ quantity' \in [Payment -> Nat]
    BY DEF CreateInvoice, IInv, TypeOK
  <2>4. status' \in [Payment -> PaymentStatus \union {None}]
    BY DEF CreateInvoice, IInv, TypeOK, PaymentStatus
  <2>5. made' \in 0..MaxPayments /\ old' \in 0..made' /\ jobs' \subseteq 1..made'
    BY <1>1, PaymentLedgerAssumption DEF CreateInvoice, IInv, TypeOK, Payment
  <2> QED
    BY <1>6, <2>1, <2>2, <2>3, <2>4, <2>5 DEF CreateInvoice, accountVars, gatewayVars, IInv, TypeOK
<1>8. RowsFilled'
  <2>1. user' = [user EXCEPT ![p] = u] /\ paymentType' = [paymentType EXCEPT ![p] = type]
        /\ status' = [status EXCEPT ![p] = "PENDING"]
    BY DEF CreateInvoice
  <2>2. /\ user \in [Payment -> User \union {None}] /\ status \in [Payment -> PaymentStatus \union {None}]
        /\ paymentType \in [Payment -> PaymentType \union {None}]
    BY DEF IInv, TypeOK
  <2>3. None # "PENDING" /\ None # type
    BY PaymentLedgerAssumption DEF PaymentStatus
  <2>4. \A x \in Payment : x <= p <=> x = p \/ x <= made
    BY <1>1 DEF Payment
  <2> QED
    BY <1>1, <2>1, <2>2, <2>3, <2>4 DEF IInv, RowsFilled
<1>9. CreditsCovered'
  <2> SUFFICES ASSUME NEW u2 \in User
               PROVE  credits'[u2] - Cardinality(SpendersOf(u2)') >= 1 - Cardinality(Request)
    BY DEF CreditsCovered
  <2>1. SpendersOf(u2)' = SpendersOf(u2)
    BY <1>2, <1>5, IdleState DEF CreateInvoice, SpendersOf, At, Goto, IInv, TypeOK
  <2> QED
    BY <2>1 DEF CreateInvoice, accountVars, IInv, CreditsCovered
<1> QED
  BY <1>6, <1>7, <1>8, <1>9 DEF IInv


LEMMA WebhookReadPreserves ==
    ASSUME IInv, NEW r \in Request, NEW p \in Payment, NEW result \in Outcome,
           NEW namesUser \in BOOLEAN, WebhookRead(r, p, result, namesUser)
    PROVE  IInv'
<1> DEFINE match == Matching(IF namesUser THEN user[p] ELSE None, amount[p] * Tiyin)
           state == IF match = None \/ Verdict(result) = "ignore" THEN Idle
                    ELSE [pc |-> Verdict(result), payment |-> match]
<1>1. match = None \/ match \in Pending
  BY MatchingIsPending DEF IInv
<1>2. Pending \subseteq 1..made /\ Pending \subseteq Payment
  BY MadeArePayments DEF IInv
<1>3. Verdict(result) \in {"complete", "fail", "ignore"}
  BY DEF Verdict
<1>4. state = Idle \/ \E x \in Pending : \/ state = [pc |-> "complete", payment |-> x]
                                        \/ state = [pc |-> "fail", payment |-> x]
  BY <1>1, <1>3
<1>5. Goto(r, state)
  BY DEF WebhookRead
<1> HIDE DEF match, state
<1>6. state \in RequestState
  BY <1>2, <1>4, IdleState DEF RequestState
<1>7. /\ state.pc \in {"enqueue", "complete", "fail"} => state.payment \in 1..made
      /\ state.pc \notin {"expire", "spend"}
  BY <1>2, <1>4, IdleState
<1>8. UNCHANGED <<paymentVars, status, accountVars, jobs, old>>
  BY DEF WebhookRead
<1>9. /\ outcome' \in [Payment -> Outcome \union {None}]
      /\ deliveries' \in [Payment -> 0..MaxDeliveries]
  BY PaymentLedgerAssumption DEF WebhookRead, IInv, TypeOK
<1> QED
  BY <1>5, <1>6, <1>7, <1>8, <1>9, ReadPreserves

LEMMA HandleSuccessfulPaymentPreserves ==
    ASSUME IInv, NEW r \in Request, HandleSuccessfulPayment(r)
    PROVE  IInv'
<1> DEFINE p == req[r].payment
<1>1. p \in 1..made /\ p \in Payment
  BY MadeArePayments DEF HandleSuccessfulPayment, At, IInv, PaymentsAreMade
<1>2. user[p] \in User /\ status[p] # None
  BY <1>1 DEF IInv, TypeOK, RowsFilled
<1>3. WorthOf(p).balance \in Nat /\ WorthOf(p).credits \in Nat
  BY <1>1 DEF WorthOf, IInv, TypeOK
<1>4. status' = [status EXCEPT ![p] = "COMPLETED"]
  BY DEF HandleSuccessfulPayment
<1>5. /\ status' \in [Payment -> PaymentStatus \union {None}]
      /\ \A x \in Payment : status'[x] = None <=> status[x] = None
  BY <1>1, <1>2, <1>4, PaymentLedgerAssumption DEF IInv, TypeOK, PaymentStatus
<1>6. balance' \in [User -> Nat] /\ credits' \in [User -> Int] /\ credited' \in [Payment -> Nat]
  BY <1>1, <1>2, <1>3 DEF HandleSuccessfulPayment, IInv, TypeOK
<1>7. \A u \in User : credits'[u] >= credits[u]
  BY <1>2, <1>3 DEF HandleSuccessfulPayment, IInv, TypeOK
<1>8. \A u \in User : credits'[u] >= credits[u] - (IF r \in SpendersOf(u) THEN 1 ELSE 0)
  BY <1>6, <1>7 DEF IInv, TypeOK
<1> QED
  BY <1>5, <1>6, <1>8, WritePreserves DEF HandleSuccessfulPayment, IInv, TypeOK

\* What a request leaves alone covers what it takes.
LEMMA CreditsKept ==
    ASSUME IInv, UNCHANGED credits, NEW r
    PROVE  /\ credits' \in [User -> Int]
           /\ \A u \in User : credits'[u] >= credits[u] - (IF r \in SpendersOf(u) THEN 1 ELSE 0)
  BY DEF IInv, TypeOK

LEMMA StatusWritePreserves ==
    ASSUME IInv, NEW r \in Request, HandleFailedPayment(r) \/ ExpireStaleWrite(r)
    PROVE  IInv'
<1>1. CASE HandleFailedPayment(r)
  <2>1. req[r].payment \in Payment /\ status[req[r].payment] # None
    BY <1>1, MadeArePayments DEF HandleFailedPayment, At, IInv, PaymentsAreMade, RowsFilled
  <2>2. /\ status' \in [Payment -> PaymentStatus \union {None}]
        /\ \A x \in Payment : status'[x] = None <=> status[x] = None
    BY <1>1, <2>1, PaymentLedgerAssumption DEF HandleFailedPayment, IInv, TypeOK, PaymentStatus
  <2> QED
    BY <1>1, <2>2, CreditsKept, WritePreserves DEF HandleFailedPayment, accountVars, IInv, TypeOK
<1>2. CASE ExpireStaleWrite(r)
  <2>1. \A x \in req[r].payments : x \in Payment => status[x] # None
    BY <1>2, MadeArePayments DEF ExpireStaleWrite, At, IInv, PaymentsAreMade, RowsFilled
  <2>2. /\ status' \in [Payment -> PaymentStatus \union {None}]
        /\ \A x \in Payment : status'[x] = None <=> status[x] = None
    BY <1>2, <2>1, PaymentLedgerAssumption DEF ExpireStaleWrite, IInv, TypeOK, PaymentStatus
  <2> QED
    BY <1>2, <2>2, CreditsKept, WritePreserves DEF ExpireStaleWrite, accountVars, IInv, TypeOK
<1> QED
  BY <1>1, <1>2

LEMMA EnqueueExpiryPreserves ==
    ASSUME IInv, NEW r \in Request, EnqueueExpiry(r)
    PROVE  IInv'
<1>1. jobs' \subseteq 1..made
  BY DEF EnqueueExpiry, At, IInv, TypeOK, PaymentsAreMade
<1> QED
  BY <1>1, CreditsKept, WritePreserves DEF EnqueueExpiry, accountVars, IInv, TypeOK

\* The one step that takes a credit.
LEMMA CreateProductWritePreserves ==
    ASSUME IInv, NEW r \in Request, CreateProductWrite(r)
    PROVE  IInv'
<1> DEFINE u == req[r].user
<1>1. u \in User /\ r \in SpendersOf(u)
  BY StateAt DEF CreateProductWrite, At, IInv, TypeOK, SpendersOf
<1>2. credits' \in [User -> Int]
  BY <1>1 DEF CreateProductWrite, IInv, TypeOK
<1>3. \A x \in User : credits'[x] >= credits[x] - (IF r \in SpendersOf(x) THEN 1 ELSE 0)
  <2> TAKE x \in User
  <2>1. credits[x] \in Int /\ credits'[x] = IF x = u THEN credits[x] - 1 ELSE credits[x]
    BY <1>1 DEF CreateProductWrite, IInv, TypeOK
  <2> QED
    BY <1>1, <2>1
<1> QED
  BY <1>2, <1>3, WritePreserves DEF CreateProductWrite, IInv, TypeOK

LEMMA ReadsPreserve ==
    ASSUME IInv, NEW r \in Request,
           (\E u \in User : CreateProductRead(r, u)) \/ ExpireStaleRead(r) \/ Abort(r)
    PROVE  IInv'
<1>1. ASSUME NEW u \in User, CreateProductRead(r, u) PROVE IInv'
  <2> DEFINE state == [pc |-> "spend", user |-> u]
  <2>1. state \in RequestState
    BY DEF RequestState
  <2>2. credits[state.user] >= 1
    BY <1>1 DEF CreateProductRead, HasCredit
  <2> QED
    BY <1>1, <2>1, <2>2, ReadPreserves DEF CreateProductRead, gatewayVars, IInv, TypeOK
<1>2. CASE ExpireStaleRead(r)
  <2>1. PICK S \in SUBSET Stale : Goto(r, [pc |-> "expire", payments |-> S])
    BY <1>2 DEF ExpireStaleRead
  <2> DEFINE state == [pc |-> "expire", payments |-> S]
  <2>2. S \subseteq 1..made /\ S \subseteq Payment
    BY MadeArePayments DEF Stale, IInv
  <2>3. state \in RequestState
    BY <2>2 DEF RequestState
  <2> QED
    BY <1>2, <2>1, <2>2, <2>3, ReadPreserves DEF ExpireStaleRead, gatewayVars, IInv, TypeOK
<1>3. CASE Abort(r)
  BY <1>3, IdleState, ReadPreserves DEF Abort, gatewayVars, IInv, TypeOK
<1> QED
  BY <1>1, <1>2, <1>3

\* Steps of no request: time, the expiry job of one payment, and a grant.
LEMMA OtherStepsPreserve ==
    ASSUME IInv, UNCHANGED <<paymentVars, gatewayVars, req>>,
           \/ Age
           \/ \E p \in Payment : ExpirePaymentIfPending(p) \/ JobFails(p)
           \/ \E u \in User : AddPublicationCredits(u)
    PROVE  IInv'
<1> USE DEF paymentVars, gatewayVars
<1>1. /\ status' \in [Payment -> PaymentStatus \union {None}]
      /\ \A x \in Payment : status'[x] = None <=> status[x] = None
  BY PaymentLedgerAssumption
  DEF Age, ExpirePaymentIfPending, Expirable, JobFails, AddPublicationCredits, IInv, TypeOK,
      PaymentStatus
<1>2. credits' \in [User -> Int] /\ \A u \in User : credits'[u] >= credits[u]
  BY DEF Age, ExpirePaymentIfPending, JobFails, AddPublicationCredits, accountVars, IInv, TypeOK
<1>3. old' \in 0..made
  BY MadeArePayments
  DEF Age, ExpirePaymentIfPending, JobFails, AddPublicationCredits, IInv, TypeOK
<1>4. jobs' \subseteq 1..made /\ UNCHANGED <<balance, credited>>
  BY DEF Age, ExpirePaymentIfPending, JobFails, AddPublicationCredits, accountVars, IInv, TypeOK
<1>5. \A u \in User : credits'[u] >= 1 - Cardinality(Request)
  <2> TAKE u \in User
  <2>1. credits[u] >= 1 - Cardinality(Request) /\ Cardinality(Request) \in Nat
    BY SpendersCounted DEF IInv, TypeOK
  <2> QED
    BY <1>2, <2>1 DEF IInv, TypeOK
<1>6. TypeOK' /\ RowsFilled'
  BY <1>1, <1>2, <1>3, <1>4, <1>5 DEF IInv, TypeOK, RowsFilled
<1>7. CreditsCovered'
  <2> SUFFICES ASSUME NEW u \in User
               PROVE  credits'[u] - Cardinality(SpendersOf(u)') >= 1 - Cardinality(Request)
    BY DEF CreditsCovered
  <2>1. SpendersOf(u)' = SpendersOf(u)
    BY DEF SpendersOf, At
  <2>2. credits[u] - Cardinality(SpendersOf(u)) >= 1 - Cardinality(Request)
    BY DEF IInv, CreditsCovered
  <2>3. Cardinality(SpendersOf(u)) \in Nat /\ Cardinality(Request) \in Nat /\ credits[u] \in Int
    BY SpendersCounted DEF IInv, TypeOK
  <2> QED
    BY <1>2, <2>1, <2>2, <2>3
<1>8. PaymentsAreMade'
  BY DEF IInv, PaymentsAreMade, At
<1> QED
  BY <1>6, <1>7, <1>8 DEF IInv

-----------------------------------------------------------------------------
(***************************************************************************)
(* Types, and how far an account can be overdrawn.                         *)
(***************************************************************************)
LEMMA InitIInv == Init => IInv
<1> SUFFICES ASSUME Init PROVE IInv
  OBVIOUS
<1>1. req \in [Request -> RequestState] /\ \A r \in Request : req[r].pc = "idle"
  BY IdleState DEF Init
<1>2. CreditsCovered
  <2> SUFFICES ASSUME NEW u \in User
               PROVE  credits[u] - Cardinality(SpendersOf(u)) >= 1 - Cardinality(Request)
    BY DEF CreditsCovered
  <2>1. SpendersOf(u) = {} /\ credits[u] = 1
    BY <1>1 DEF SpendersOf, At, Init
  <2>2. Cardinality(SpendersOf(u)) = 0 /\ Cardinality(Request) \in Nat
    BY <2>1, SpendersCounted, FS_EmptySet
  <2> QED
    BY <2>1, <2>2
<1>3. TypeOK
  BY <1>1, <1>2, BoundFromCover, PaymentLedgerAssumption DEF Init, TypeOK
<1>4. RowsFilled
  BY DEF Init, RowsFilled, Payment
<1>5. PaymentsAreMade
  BY <1>1 DEF PaymentsAreMade, At
<1> QED
  BY <1>2, <1>3, <1>4, <1>5 DEF IInv

LEMMA NextIInv == IInv /\ [Next]_vars => IInv'
<1> SUFFICES ASSUME IInv, [Next]_vars PROVE IInv'
  OBVIOUS
<1>1. ASSUME NEW r \in Request, RequestSteps(r) PROVE IInv'
  <2>1. ASSUME NEW u \in User, TopUp(r, u) PROVE IInv'
    BY <2>1, PaymentLedgerAssumption, CreateInvoicePreserves DEF TopUp, PaymentType
  <2>2. ASSUME NEW u \in User, BuyCredits(r, u) PROVE IInv'
    <3>1. PICK q \in Quantity : CreateInvoice(r, u, "PUBLICATION", PricePerPost * q, q)
      BY <2>2 DEF BuyCredits
    <3>2. q \in Nat /\ PricePerPost * q \in Nat
      BY PaymentLedgerAssumption
    <3> QED
      BY <3>1, <3>2, CreateInvoicePreserves DEF PaymentType
  <2> QED
    BY <1>1, <2>1, <2>2, EnqueueExpiryPreserves, CreateProductWritePreserves,
       WebhookReadPreserves, HandleSuccessfulPaymentPreserves, StatusWritePreserves, ReadsPreserve
    DEF RequestSteps
<1>2. CASE Age
  BY <1>2, OtherStepsPreserve DEF Age
<1>3. ASSUME NEW p \in Payment, ExpirePaymentIfPending(p) \/ JobFails(p) PROVE IInv'
  BY <1>3, OtherStepsPreserve DEF ExpirePaymentIfPending, JobFails
<1>4. ASSUME NEW u \in User, AddPublicationCredits(u) PROVE IInv'
  BY <1>4, OtherStepsPreserve DEF AddPublicationCredits
<1>5. CASE UNCHANGED vars
  BY <1>5
  DEF vars, paymentVars, accountVars, gatewayVars, IInv, TypeOK, RowsFilled, PaymentsAreMade,
      CreditsCovered, SpendersOf, At
<1> QED
  BY <1>1, <1>2, <1>3, <1>4, <1>5 DEF Next

THEOREM Invariance == Spec => []IInv
  BY InitIInv, NextIInv, PTL DEF Spec

\* Columns keep their types, and no account is overdrawn by more than the
\* publications that can be in flight at once beside one: createProduct checks
\* the credits outside the transaction that takes one.
THEOREM TypeCorrect == Spec => []TypeOK
<1>1. IInv => TypeOK
  BY DEF IInv
<1> QED
  BY <1>1, Invariance, PTL

-----------------------------------------------------------------------------
(***************************************************************************)
(* Every step of the payment module is one that PaymentAccount allows.     *)
(***************************************************************************)
\* A status as PaymentAccount sees it.
LEMMA Phases ==
    ASSUME NEW p
    PROVE  /\ status[p] = None => Phase(p) = "none"
           /\ status[p] = "PENDING" => Phase(p) = "pending"
           /\ status[p] = "COMPLETED" => Phase(p) = "completed"
           /\ status[p] \in {"FAILED", "EXPIRED"} => Phase(p) = "closed"
  BY PaymentLedgerAssumption DEF Phase, PaymentStatus

\* The variables of PaymentAccount.
PaymentPhases == [p \in Payment |-> Phase(p)]
Worths == [p \in Payment |-> IF status[p] = None THEN None ELSE WorthOf(p)]
Clerks == [r \in Request |-> DecisionOf(req[r])]

LEMMA InitRefines == Init => Account!Init
<1> SUFFICES ASSUME Init PROVE Account!Init
  OBVIOUS
<1>1. \A p \in Payment : Phase(p) = "none"
  BY Phases DEF Init
<1>2. \A r \in Request : DecisionOf(req[r]) = [does |-> "nothing"]
  BY DEF Init, Idle, DecisionOf
<1> QED
  BY <1>1, <1>2 DEF Init, Account!Init, Account!Nothing

\* A request that goes on changes its own decision.
LEMMA ClerkGoesOn ==
    ASSUME req \in [Request -> RequestState], NEW r \in Request, NEW state, Goto(r, state)
    PROVE  /\ Clerks' = [Clerks EXCEPT ![r] = DecisionOf(state)]
           /\ Clerks[r] = DecisionOf(req[r])
  BY DEF Clerks, Goto

\* What a decision is, by where its request stands.
LEMMA Decisions ==
    ASSUME NEW s
    PROVE  /\ s.pc = "complete" => DecisionOf(s) = [does |-> "complete", payment |-> s.payment]
           /\ s.pc = "fail" => DecisionOf(s) = [does |-> "close", payments |-> {s.payment}]
           /\ s.pc = "expire" => DecisionOf(s) = [does |-> "close", payments |-> s.payments]
           /\ s.pc = "spend" => DecisionOf(s) = [does |-> "spend", user |-> s.user]
           /\ s.pc \in {"idle", "enqueue"} => DecisionOf(s) = Account!Nothing
  BY DEF DecisionOf, Account!Nothing

LEMMA IdleDecides == DecisionOf(Idle) = Account!Nothing
  BY IdleState, Decisions

\* The payments and accounts as PaymentAccount sees them.
LEMMA RowsUnchanged ==
    ASSUME UNCHANGED <<user, paymentType, amount, quantity, status>>
    PROVE  UNCHANGED <<PaymentPhases, user, Worths>>
  BY DEF PaymentPhases, Worths, Phase, WorthOf

LEMMA AccountUnchanged ==
    ASSUME UNCHANGED <<user, paymentType, amount, quantity, status, balance, credits, req>>
    PROVE  UNCHANGED Account!vars
  BY RowsUnchanged DEF Account!vars, Account!rowVars, Account!accountVars, PaymentPhases, Worths

LEMMA OpenStep ==
    ASSUME IInv, NEW r \in Request, NEW u \in User, NEW type \in PaymentType, NEW a, NEW q,
           CreateInvoice(r, u, type, a, q),
           IF type = "TOP_UP" THEN a \in Amount ELSE q \in Quantity
    PROVE  Account!Next
<1>1. PICK p \in Payment : p = made + 1 /\ status[p] = None
  <2>1. made \in Nat /\ ~(made + 1 <= made)
    BY DEF IInv, TypeOK
  <2> QED
    BY <2>1 DEF CreateInvoice, IInv, RowsFilled
<1> DEFINE w == IF type = "TOP_UP" THEN [balance |-> a, credits |-> 0]
                                   ELSE [balance |-> 0, credits |-> q]
<1>2. /\ user \in [Payment -> User \union {None}] /\ amount \in [Payment -> Nat]
      /\ paymentType \in [Payment -> PaymentType \union {None}] /\ quantity \in [Payment -> Nat]
      /\ status \in [Payment -> PaymentStatus \union {None}]
      /\ req \in [Request -> RequestState]
  BY DEF IInv, TypeOK
<1>3. /\ status' = [status EXCEPT ![p] = "PENDING"]
      /\ user' = [user EXCEPT ![p] = u]
      /\ paymentType' = [paymentType EXCEPT ![p] = type]
      /\ amount' = [amount EXCEPT ![p] = a]
      /\ quantity' = [quantity EXCEPT ![p] = q]
      /\ UNCHANGED <<balance, credits>>
  BY <1>1 DEF CreateInvoice, accountVars
<1>4. PaymentPhases[p] = "none" /\ PaymentPhases' = [PaymentPhases EXCEPT ![p] = "pending"]
  <2>1. Phase(p) = "none" /\ Phase(p)' = "pending"
    BY <1>1, <1>2, <1>3, PaymentLedgerAssumption DEF Phase, PaymentStatus
  <2>2. \A x \in Payment \ {p} : Phase(x)' = Phase(x)
    BY <1>2, <1>3 DEF Phase
  <2> QED
    BY <1>1, <2>1, <2>2 DEF PaymentPhases
<1>5. Worths' = [Worths EXCEPT ![p] = w]
  <2>1. status'[p] # None /\ WorthOf(p)' = w
    BY <1>1, <1>2, <1>3, PaymentLedgerAssumption DEF WorthOf, PaymentStatus
  <2>2. \A x \in Payment \ {p} : status'[x] = status[x] /\ WorthOf(x)' = WorthOf(x)
    BY <1>2, <1>3 DEF WorthOf
  <2> QED
    BY <1>1, <2>1, <2>2 DEF Worths
<1>6. w \in {[balance |-> x, credits |-> 0] : x \in Amount}
               \union {[balance |-> 0, credits |-> x] : x \in Quantity}
  OBVIOUS
<1>7. UNCHANGED Clerks
  <2>1. Goto(r, [pc |-> "enqueue", payment |-> p]) /\ req[r] = Idle
    BY <1>1 DEF CreateInvoice
  <2>2. DecisionOf([pc |-> "enqueue", payment |-> p]) = Account!Nothing
    BY Decisions
  <2>3. Clerks' = [Clerks EXCEPT ![r] = Account!Nothing] /\ Clerks[r] = Account!Nothing
    BY <1>2, <2>1, <2>2, ClerkGoesOn, IdleDecides
  <2> QED
    BY <2>3 DEF Clerks
<1>8. Account!Open(p, u, w)
  BY <1>3, <1>4, <1>5, <1>7 DEF Account!Open, Account!accountVars, PaymentPhases, Worths, Clerks
<1> QED
  BY <1>1, <1>6, <1>8 DEF Account!Next

\* A request reads what it decides by: payments that are pending, a credit that
\* is there.
LEMMA DecideStep ==
    ASSUME req \in [Request -> RequestState], NEW r \in Request, req[r] = Idle,
           NEW state, Goto(r, state), NEW d \in Account!Decision, DecisionOf(state) = d,
           Account!Right(d),
           UNCHANGED <<user, paymentType, amount, quantity, status, balance, credits>>
    PROVE  Account!Next
<1>1. Clerks[r] = Account!Nothing /\ Clerks' = [Clerks EXCEPT ![r] = d]
  BY ClerkGoesOn, IdleDecides
<1>2. UNCHANGED <<PaymentPhases, user, Worths, balance, credits>>
  BY RowsUnchanged
<1>3. Account!Decide(r, d)
  BY <1>1, <1>2 DEF Account!Decide, Account!rowVars, Account!accountVars, PaymentPhases, Worths, Clerks
<1> QED
  BY <1>3 DEF Account!Next

LEMMA ReadRefines ==
    ASSUME IInv, NEW r \in Request,
           \/ \E u \in User : CreateProductRead(r, u)
           \/ ExpireStaleRead(r)
           \/ \E p \in Payment, result \in Outcome, namesUser \in BOOLEAN :
                 WebhookRead(r, p, result, namesUser)
    PROVE  Account!Next \/ UNCHANGED Account!vars
<1>1. req \in [Request -> RequestState]
  BY DEF IInv, TypeOK
<1>2. ASSUME NEW u \in User, CreateProductRead(r, u) PROVE Account!Next
  <2> DEFINE d == [does |-> "spend", user |-> u]
  <2>1. Goto(r, [pc |-> "spend", user |-> u]) /\ DecisionOf([pc |-> "spend", user |-> u]) = d
    BY <1>2, Decisions DEF CreateProductRead
  <2>2. d \in Account!Decision
    BY DEF Account!Decision
  <2>3. Account!Right(d)
    <3>1. credits[u] >= 1 /\ credits[u] \in Int
      BY <1>2 DEF CreateProductRead, HasCredit, IInv, TypeOK
    <3> QED
      BY <3>1 DEF Account!Right
  <2> HIDE DEF d
  <2> QED
    BY <1>1, <1>2, <2>1, <2>2, <2>3, DecideStep DEF CreateProductRead, paymentVars, accountVars
<1>3. ASSUME ExpireStaleRead(r) PROVE Account!Next
  <2>1. PICK S \in SUBSET Stale : Goto(r, [pc |-> "expire", payments |-> S])
    BY <1>3 DEF ExpireStaleRead
  <2> DEFINE d == [does |-> "close", payments |-> S]
  <2>2. DecisionOf([pc |-> "expire", payments |-> S]) = d
    BY Decisions
  <2>3. S \subseteq Payment /\ \A p \in S : status[p] = "PENDING"
    BY MadeArePayments DEF Stale, Pending, IInv
  <2>4. d \in Account!Decision
    BY <2>3 DEF Account!Decision
  <2>5. Account!Right(d)
    BY <2>3, Phases DEF Account!Right
  <2> HIDE DEF d
  <2> QED
    BY <1>1, <1>3, <2>1, <2>2, <2>4, <2>5, DecideStep DEF ExpireStaleRead, paymentVars, accountVars
<1>4. ASSUME NEW p \in Payment, NEW result \in Outcome, NEW namesUser \in BOOLEAN,
             WebhookRead(r, p, result, namesUser)
      PROVE  Account!Next \/ UNCHANGED Account!vars
  <2> DEFINE match == Matching(IF namesUser THEN user[p] ELSE None, amount[p] * Tiyin)
             state == IF match = None \/ Verdict(result) = "ignore" THEN Idle
                      ELSE [pc |-> Verdict(result), payment |-> match]
  <2>1. match = None \/ match \in Pending
    BY MatchingIsPending DEF IInv
  <2>2. Pending \subseteq Payment
    BY MadeArePayments DEF IInv
  <2>3. Verdict(result) \in {"complete", "fail", "ignore"}
    BY DEF Verdict
  <2>4. Goto(r, state) /\ req[r] = Idle
        /\ UNCHANGED <<user, paymentType, amount, quantity, status, balance, credits>>
    BY <1>4 DEF WebhookRead, paymentVars, accountVars
  <2>5. CASE state = Idle
    <3>1. UNCHANGED req
      BY <1>1, <2>4, <2>5 DEF Goto
    <3> QED
      BY <2>4, <3>1, AccountUnchanged
  <2>6. CASE state # Idle
    <3>1. PICK x \in Pending : \/ state = [pc |-> "complete", payment |-> x]
                               \/ state = [pc |-> "fail", payment |-> x]
      BY <2>1, <2>3, <2>6
    <3>2. x \in Payment /\ Phase(x) = "pending"
      BY <2>2, Phases DEF Pending
    <3> HIDE DEF state, match
    <3> DEFINE d == DecisionOf(state)
    <3>3. \/ d = [does |-> "complete", payment |-> x]
          \/ d = [does |-> "close", payments |-> {x}]
      BY <3>1, Decisions
    <3>4. d \in Account!Decision /\ Account!Right(d)
      BY <3>2, <3>3 DEF Account!Decision, Account!Right
    <3> HIDE DEF d
    <3>5. DecisionOf(state) = d
      BY DEF d
    <3> QED
      BY <1>1, <2>4, <3>4, <3>5, DecideStep
  <2> QED
    BY <2>5, <2>6
<1> QED
  BY <1>2, <1>3, <1>4

\* A request gives up what it decided, if anything.
LEMMA DropStep ==
    ASSUME IInv, NEW r \in Request, Goto(r, Idle),
           UNCHANGED <<user, paymentType, amount, quantity, status, balance, credits>>
    PROVE  Account!Next
<1>1. Clerks' = [Clerks EXCEPT ![r] = Account!Nothing]
  BY ClerkGoesOn, IdleDecides DEF IInv, TypeOK
<1>2. UNCHANGED <<PaymentPhases, user, Worths, balance, credits>>
  BY RowsUnchanged
<1>3. Account!Drop(r)
  BY <1>1, <1>2
  DEF Account!Drop, Account!Done, Account!rowVars, Account!accountVars, PaymentPhases, Worths, Clerks
<1> QED
  BY <1>3 DEF Account!Next

LEMMA CompleteStep ==
    ASSUME IInv, NEW r \in Request, HandleSuccessfulPayment(r)
    PROVE  Account!Next
<1>1. PICK p \in Payment : p = req[r].payment /\ status[p] # None
  <2>1. req[r].payment \in 1..made /\ req[r].payment \in Payment
    BY MadeArePayments DEF HandleSuccessfulPayment, At, IInv, PaymentsAreMade
  <2> QED
    BY <2>1 DEF IInv, RowsFilled
<1>2. /\ status \in [Payment -> PaymentStatus \union {None}]
      /\ status' = [status EXCEPT ![p] = "COMPLETED"]
      /\ UNCHANGED <<user, paymentType, amount, quantity>>
  BY <1>1 DEF HandleSuccessfulPayment, paymentVars, IInv, TypeOK
<1>3. PaymentPhases' = [PaymentPhases EXCEPT ![p] = "completed"]
  <2>1. Phase(p)' = "completed"
    BY <1>1, <1>2, PaymentLedgerAssumption DEF Phase, PaymentStatus
  <2>2. \A x \in Payment \ {p} : Phase(x)' = Phase(x)
    BY <1>2 DEF Phase
  <2> QED
    BY <1>1, <2>1, <2>2 DEF PaymentPhases
<1>4. Worths[p] = WorthOf(p) /\ UNCHANGED Worths
  <2>1. \A x \in Payment : WorthOf(x)' = WorthOf(x) /\ (status'[x] = None <=> status[x] = None)
    BY <1>1, <1>2, PaymentLedgerAssumption DEF WorthOf, PaymentStatus
  <2> QED
    BY <1>1, <2>1 DEF Worths
<1>5. /\ balance' = [balance EXCEPT ![user[p]] = @ + Worths[p].balance]
      /\ credits' = [credits EXCEPT ![user[p]] = @ + Worths[p].credits]
  BY <1>1, <1>4 DEF HandleSuccessfulPayment
<1>6. /\ Clerks[r].does = "complete" /\ Clerks[r].payment = p
      /\ Clerks' = [Clerks EXCEPT ![r] = Account!Nothing]
  <2>1. Clerks[r] = [does |-> "complete", payment |-> p]
    BY <1>1, ClerkGoesOn, Decisions DEF HandleSuccessfulPayment, At, IInv, TypeOK
  <2>2. Clerks' = [Clerks EXCEPT ![r] = Account!Nothing]
    BY ClerkGoesOn, IdleDecides DEF HandleSuccessfulPayment, IInv, TypeOK
  <2> QED
    BY <2>1, <2>2
<1>7. Account!Complete(r)
  BY <1>2, <1>3, <1>4, <1>5, <1>6 DEF Account!Complete, Account!Done, PaymentPhases, Worths, Clerks
<1> QED
  BY <1>7 DEF Account!Next

\* A set of payments is closed, whatever they were.
LEMMA Closing ==
    ASSUME NEW S \in SUBSET Payment, \A x \in S : status[x] # None,
           status' \in [Payment -> PaymentStatus \union {None}],
           \A x \in Payment : IF x \in S THEN status'[x] \in {"FAILED", "EXPIRED"}
                                         ELSE status'[x] = status[x],
           UNCHANGED <<user, paymentType, amount, quantity>>
    PROVE  /\ PaymentPhases' = [x \in Payment |-> IF x \in S THEN "closed" ELSE PaymentPhases[x]]
           /\ UNCHANGED Worths
<1>1. \A x \in Payment : Phase(x)' = IF x \in S THEN "closed" ELSE Phase(x)
  BY PaymentLedgerAssumption DEF Phase, PaymentStatus
<1>2. \A x \in Payment : WorthOf(x)' = WorthOf(x) /\ (status'[x] = None <=> status[x] = None)
  BY PaymentLedgerAssumption DEF WorthOf, PaymentStatus
<1> QED
  BY <1>1, <1>2 DEF PaymentPhases, Worths

LEMMA CloseStep ==
    ASSUME IInv, NEW r \in Request, Goto(r, Idle), NEW S \in SUBSET (1..made),
           DecisionOf(req[r]) = [does |-> "close", payments |-> S],
           \A x \in Payment : IF x \in S THEN status'[x] \in {"FAILED", "EXPIRED"}
                                         ELSE status'[x] = status[x],
           status' \in [Payment -> PaymentStatus \union {None}],
           UNCHANGED <<user, paymentType, amount, quantity, balance, credits>>
    PROVE  Account!Next
<1>1. S \in SUBSET Payment /\ \A x \in S : status[x] # None
  BY MadeArePayments DEF IInv, RowsFilled
<1>2. /\ PaymentPhases' = [x \in Payment |-> IF x \in S THEN "closed" ELSE PaymentPhases[x]]
      /\ UNCHANGED Worths
  BY <1>1, Closing
<1>3. /\ Clerks[r].does = "close" /\ Clerks[r].payments = S
      /\ Clerks' = [Clerks EXCEPT ![r] = Account!Nothing]
  <2>1. Clerks[r] = [does |-> "close", payments |-> S]
    BY ClerkGoesOn DEF IInv, TypeOK
  <2>2. Clerks' = [Clerks EXCEPT ![r] = Account!Nothing]
    BY ClerkGoesOn, IdleDecides DEF IInv, TypeOK
  <2> QED
    BY <2>1, <2>2
<1>4. Account!Close(r)
  BY <1>2, <1>3
  DEF Account!Close, Account!Done, Account!Closed, Account!accountVars, PaymentPhases, Worths, Clerks
<1> QED
  BY <1>4 DEF Account!Next

LEMMA SpendStep ==
    ASSUME IInv, NEW r \in Request, CreateProductWrite(r)
    PROVE  Account!Next
<1>1. /\ Clerks[r].does = "spend" /\ Clerks[r].user = req[r].user
      /\ Clerks' = [Clerks EXCEPT ![r] = Account!Nothing]
  <2>1. Clerks[r] = [does |-> "spend", user |-> req[r].user]
    BY ClerkGoesOn, Decisions DEF CreateProductWrite, At, IInv, TypeOK
  <2>2. Clerks' = [Clerks EXCEPT ![r] = Account!Nothing]
    BY ClerkGoesOn, IdleDecides DEF CreateProductWrite, IInv, TypeOK
  <2> QED
    BY <2>1, <2>2
<1>2. UNCHANGED <<PaymentPhases, user, Worths>>
  BY RowsUnchanged DEF CreateProductWrite, paymentVars
<1>3. Account!Spend(r)
  BY <1>1, <1>2
  DEF CreateProductWrite, Account!Spend, Account!Done, Account!rowVars, PaymentPhases, Worths, Clerks
<1> QED
  BY <1>3 DEF Account!Next

LEMMA RequestRefines ==
    ASSUME IInv, IInv', NEW r \in Request, RequestSteps(r)
    PROVE  Account!Next \/ UNCHANGED Account!vars
<1>1. ASSUME NEW u \in User, TopUp(r, u) PROVE Account!Next
  <2>1. PICK a \in Amount : CreateInvoice(r, u, "TOP_UP", a, 1)
    BY <1>1 DEF TopUp
  <2> QED
    BY <2>1, OpenStep DEF PaymentType
<1>2. ASSUME NEW u \in User, BuyCredits(r, u) PROVE Account!Next
  <2>1. PICK q \in Quantity : CreateInvoice(r, u, "PUBLICATION", PricePerPost * q, q)
    BY <1>2 DEF BuyCredits
  <2> QED
    BY <2>1, OpenStep DEF PaymentType
<1>3. ASSUME HandleFailedPayment(r) PROVE Account!Next
  <2>1. PICK S \in SUBSET (1..made) : S = {req[r].payment}
    BY <1>3 DEF HandleFailedPayment, At, IInv, PaymentsAreMade
  <2>2. DecisionOf(req[r]) = [does |-> "close", payments |-> S]
    BY <1>3, <2>1, Decisions DEF HandleFailedPayment, At
  <2>3. /\ status' \in [Payment -> PaymentStatus \union {None}]
        /\ \A x \in Payment : IF x \in S THEN status'[x] \in {"FAILED", "EXPIRED"}
                                         ELSE status'[x] = status[x]
    BY <1>3, <2>1 DEF HandleFailedPayment, IInv, TypeOK
  <2> QED
    BY <1>3, <2>2, <2>3, CloseStep DEF HandleFailedPayment, paymentVars, accountVars
<1>4. ASSUME ExpireStaleWrite(r) PROVE Account!Next
  <2>1. PICK S \in SUBSET (1..made) : S = req[r].payments
    BY <1>4 DEF ExpireStaleWrite, At, IInv, PaymentsAreMade
  <2>2. DecisionOf(req[r]) = [does |-> "close", payments |-> S]
    BY <1>4, <2>1, Decisions DEF ExpireStaleWrite, At
  <2>3. /\ status' \in [Payment -> PaymentStatus \union {None}]
        /\ \A x \in Payment : IF x \in S THEN status'[x] \in {"FAILED", "EXPIRED"}
                                         ELSE status'[x] = status[x]
    BY <1>4, <2>1 DEF ExpireStaleWrite, IInv, TypeOK
  <2> QED
    BY <1>4, <2>2, <2>3, CloseStep DEF ExpireStaleWrite, paymentVars, accountVars
<1>5. ASSUME EnqueueExpiry(r) \/ Abort(r) PROVE Account!Next
  BY <1>5, DropStep DEF EnqueueExpiry, Abort, paymentVars, accountVars
<1> QED
  BY <1>1, <1>2, <1>3, <1>4, <1>5, ReadRefines, SpendStep, CompleteStep DEF RequestSteps

LEMMA NextRefines == IInv /\ IInv' /\ [Next]_vars => [Account!Next]_(Account!vars)
<1> SUFFICES ASSUME IInv, IInv', [Next]_vars PROVE Account!Next \/ UNCHANGED Account!vars
  OBVIOUS
<1>1. ASSUME NEW p \in Payment, ExpirePaymentIfPending(p), Expirable(p)
      PROVE  Account!Next
  <2>1. status[p] = "PENDING" /\ status' = [status EXCEPT ![p] = "EXPIRED"]
        /\ UNCHANGED <<user, paymentType, amount, quantity, balance, credits, req>>
    BY <1>1 DEF ExpirePaymentIfPending, Expirable, paymentVars, accountVars
  <2>2. PICK S \in SUBSET Payment : S = {p}
    OBVIOUS
  <2>3. \A x \in S : status[x] # None
    BY <2>1, <2>2, PaymentLedgerAssumption DEF PaymentStatus
  <2>4. /\ status' \in [Payment -> PaymentStatus \union {None}]
        /\ \A x \in Payment : IF x \in S THEN status'[x] \in {"FAILED", "EXPIRED"}
                                         ELSE status'[x] = status[x]
    BY <2>1, <2>2 DEF IInv, TypeOK, PaymentStatus
  <2>5. /\ PaymentPhases' = [x \in Payment |-> IF x \in S THEN "closed" ELSE PaymentPhases[x]]
        /\ UNCHANGED Worths
    BY <2>1, <2>3, <2>4, Closing
  <2>6. UNCHANGED Clerks
    BY <2>1 DEF Clerks
  <2>7. PaymentPhases[p] = "pending"
    BY <2>1, Phases DEF PaymentPhases
  <2>8. Account!CloseAtOnce(p)
    BY <2>1, <2>2, <2>5, <2>6, <2>7
    DEF Account!CloseAtOnce, Account!Closed, Account!accountVars, PaymentPhases, Worths, Clerks
  <2> QED
    BY <2>8 DEF Account!Next
<1>2. ASSUME NEW u \in User, AddPublicationCredits(u) PROVE Account!Next
  <2>1. UNCHANGED <<PaymentPhases, user, Worths, Clerks>>
    BY <1>2, RowsUnchanged DEF AddPublicationCredits, paymentVars, Clerks
  <2>2. Account!Grant(u)
    BY <1>2, <2>1 DEF AddPublicationCredits, Account!Grant, Account!rowVars, PaymentPhases, Worths, Clerks
  <2> QED
    BY <2>2 DEF Account!Next
<1>3. ASSUME \/ Age \/ UNCHANGED vars
             \/ \E p \in Payment : JobFails(p) \/ (ExpirePaymentIfPending(p) /\ ~Expirable(p))
      PROVE  UNCHANGED Account!vars
  BY <1>3, AccountUnchanged
  DEF Age, JobFails, ExpirePaymentIfPending, vars, paymentVars, accountVars
<1> QED
  BY <1>1, <1>2, <1>3, RequestRefines DEF Next

\* The payment module keeps the promises of PaymentAccount, however many
\* requests, webhooks and jobs there are and however they overlap.
THEOREM Refinement == Spec => ImplementsAccount
<1>1. Spec => []IInv /\ [][Next]_vars
  BY Invariance, PTL DEF Spec
<1>2. Spec => Account!Init
  BY InitRefines DEF Spec
<1> QED
  BY <1>1, <1>2, NextRefines, PTL DEF ImplementsAccount, Account!Spec
=============================================================================
