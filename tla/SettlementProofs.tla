-------------------------- MODULE SettlementProofs --------------------------
(***************************************************************************)
(* Proofs about Settlement, for every set of orders, every number of       *)
(* charges and reports, every batch size and every length of the holds.    *)
(***************************************************************************)
EXTENDS Settlement, TLAPS, FiniteSetTheorems

-----------------------------------------------------------------------------
(* The inductive invariant. *)

\* Charges carry the number under which they were made.
ChargesNumbered ==
  /\ IsFiniteSet(charges)
  /\ \A c \in charges : c.id <= Cardinality(charges)
  /\ \A c, d \in charges : c.id = d.id => c = d

\* An order and its registration's row are there together, and before that
\* nothing can have gone wrong with it.
OrdersHaveRows ==
  \A o \in Orders :
    /\ reg[o] = "none" <=> pay[o].status = "none"
    /\ pay[o].status = "none" => pay[o].exc = "none"

\* Nobody pays an order that was never opened.
ChargesHaveOrders == \A c \in charges : pay[c.order].status # "none"

\* The receiver only knows events of charges that were made.
EventsHaveCharges ==
  \A i \in ChargeIds, n \in Reports :
    outcome[<<i, n>>] # "none" => \E c \in charges : c.id = i

IInv ==
  /\ TypeOK
  /\ ChargesNumbered
  /\ OrdersHaveRows
  /\ ChargesHaveOrders
  /\ EventsHaveCharges
  /\ EveryChargeAccounted
  /\ PaidMeansSeatOrException
  /\ SeatPaidInTime

LEMMA InitIInv == Init => IInv
<1> SUFFICES ASSUME Init PROVE IInv
  OBVIOUS
<1> USE SettlementAssumption
<1>1. Cardinality({}) = 0 /\ IsFiniteSet({})
  BY FS_EmptySet
<1>2. TypeOK
  <2>1. {c.id : c \in charges} = 1..Cardinality(charges)
    BY <1>1 DEF Init
  <2> QED BY <2>1 DEF Init, TypeOK, Payment, Outcome, Events
<1>3. ChargesNumbered /\ ChargesHaveOrders /\ EveryChargeAccounted
  BY <1>1 DEF Init, ChargesNumbered, ChargesHaveOrders, EveryChargeAccounted
<1>4. OrdersHaveRows /\ PaidMeansSeatOrException /\ SeatPaidInTime
  BY DEF Init, OrdersHaveRows, PaidMeansSeatOrException, SeatPaidInTime
<1>5. EventsHaveCharges
  BY DEF Init, EventsHaveCharges, Events
<1> QED BY <1>2, <1>3, <1>4, <1>5 DEF IInv

-----------------------------------------------------------------------------
(* What a charge is, and what applying an event of it touches. *)

LEMMA ChargeShape ==
  ASSUME TypeOK, NEW c \in charges
  PROVE  /\ c.id \in ChargeIds
         /\ c.order \in Orders
         /\ c.captured \in BOOLEAN /\ c.matches \in BOOLEAN
         /\ c.at \in 0..MaxTime
         /\ c.id # 0
BY DEF TypeOK, Charge, ChargeIds

LEMMA RaiseShape ==
  ASSUME NEW p \in Payment, NEW reason \in Exceptions
  PROVE  /\ Raise(p, reason) \in Payment
         /\ Raise(p, reason).exc # "none"
         /\ ~Raise(p, reason).resolved
         /\ Raise(p, reason).status = p.status
         /\ Raise(p, reason).id = p.id
BY DEF Raise, Payment, Exceptions

LEMMA ApplyTypes ==
  ASSUME TypeOK, NEW c \in charges, NEW n \in Reports, ApplyEvent(c, <<c.id, n>>)
  PROVE  /\ pay' \in [Orders -> Payment]
         /\ reg' \in [Orders -> {"none", "PAYMENT_PENDING", "CONFIRMED", "CANCELLED"}]
         /\ outcome' \in [Events -> Outcome]
<1> DEFINE e == <<c.id, n>>
<1>1. e \in Events /\ c.id \in ChargeIds /\ c.order \in Orders
  BY ChargeShape DEF Events
<1>2. pay[c.order] \in Payment /\ now \in 0..MaxTime
  BY <1>1 DEF TypeOK
<1>3. FirstId(pay[c.order].id, c) \in {0} \cup ChargeIds
  BY <1>1, <1>2 DEF FirstId, Payment
<1>4. \A p \in Payment : SetPayment(c.order, p) => pay' \in [Orders -> Payment]
  BY <1>1, <1>2 DEF SetPayment, Payment, TypeOK
<1>5. ReleaseSeat(c.order) \in [Orders -> {"none", "PAYMENT_PENDING", "CONFIRMED", "CANCELLED"}]
  BY <1>1 DEF ReleaseSeat, TypeOK
<1>6. \A reason \in Exceptions : Raise(pay[c.order], reason) \in Payment
  BY <1>2, RaiseShape
<1>7. ASSUME NEW x \in Outcome PROVE [outcome EXCEPT ![e] = x] \in [Events -> Outcome]
  BY DEF TypeOK
<1> HIDE DEF e
<1>8. CASE IgnoreFailure(c, e)
  BY <1>8, <1>7 DEF IgnoreFailure, TypeOK, Outcome
<1>9. CASE Fail(c, e)
  <2>1. [pay[c.order] EXCEPT !.status = "FAILED", !.id = FirstId(@, c)] \in Payment
    BY <1>2, <1>3 DEF Payment
  <2> QED BY <1>9, <2>1, <1>4, <1>5, <1>7 DEF Fail, Outcome
<1>10. CASE DuplicateCapture(c, e)
  BY <1>10, <1>7 DEF DuplicateCapture, TypeOK, Outcome
<1>11. CASE SecondCharge(c, e)
  BY <1>11, <1>4, <1>6, <1>7 DEF SecondCharge, TypeOK, Outcome, Exceptions
<1>12. CASE AmountMismatch(c, e)
  <2>1. Raise(pay[c.order], "AMOUNT_MISMATCH").id = pay[c.order].id
    BY <1>2, RaiseShape DEF Exceptions
  <2>2. [Raise(pay[c.order], "AMOUNT_MISMATCH") EXCEPT !.id = FirstId(@, c)] \in Payment
    BY <1>3, <1>6, <2>1 DEF Payment, Exceptions
  <2> QED BY <1>12, <2>2, <1>4, <1>7 DEF AmountMismatch, TypeOK, Outcome, Exceptions
<1>13. CASE Confirm(c, e)
  <2>1. [pay[c.order] EXCEPT !.status = "PAID", !.id = c.id] \in Payment
    BY <1>1, <1>2 DEF Payment
  <2> QED BY <1>13, <2>1, <1>1, <1>4, <1>7 DEF Confirm, TypeOK, Outcome
<1>14. CASE LateCapture(c, e)
  <2>1. [Raise(pay[c.order], "PAYMENT_AFTER_HOLD_EXPIRED")
           EXCEPT !.status = "PAID", !.id = c.id] \in Payment
    BY <1>1, <1>6 DEF Payment, Exceptions
  <2> QED BY <1>14, <2>1, <1>4, <1>5, <1>7 DEF LateCapture, Outcome, Exceptions
<1> QED
  BY <1>8, <1>9, <1>10, <1>11, <1>12, <1>13, <1>14 DEF ApplyEvent, e

\* Applying an event touches its own order and its own inbox row only.
LEMMA ApplyLocal ==
  ASSUME TypeOK, NEW c \in charges, NEW n \in Reports, ApplyEvent(c, <<c.id, n>>)
  PROVE  /\ \A o \in Orders : o # c.order => pay'[o] = pay[o] /\ reg'[o] = reg[o]
         /\ \A f \in Events : f # <<c.id, n>> => outcome'[f] = outcome[f]
<1> DEFINE e == <<c.id, n>>
<1>1. c.order \in Orders
  BY ChargeShape
<1>2. ASSUME NEW o \in Orders, o # c.order
      PROVE  /\ \A p : SetPayment(c.order, p) => pay'[o] = pay[o]
             /\ ReleaseSeat(c.order)[o] = reg[o]
  BY <1>1, <1>2 DEF SetPayment, ReleaseSeat, TypeOK
<1>3. \A f \in Events : f # e => outcome'[f] = outcome[f]
  BY DEF TypeOK, ApplyEvent, IgnoreFailure, Fail, DuplicateCapture, SecondCharge, AmountMismatch,
         Confirm, LateCapture
<1>4. ASSUME NEW o \in Orders, o # c.order PROVE pay'[o] = pay[o]
  BY <1>2, <1>4
  DEF ApplyEvent, IgnoreFailure, Fail, DuplicateCapture, SecondCharge, AmountMismatch, Confirm,
      LateCapture
<1>5. ASSUME NEW o \in Orders, o # c.order PROVE reg'[o] = reg[o]
  BY <1>2, <1>5
  DEF TypeOK, ApplyEvent, IgnoreFailure, Fail, DuplicateCapture, SecondCharge, AmountMismatch,
      Confirm, LateCapture
<1> QED BY <1>3, <1>4, <1>5

\* What one branch of applyEvent leaves of its order's payment.
LEMMA SetPaymentGives ==
  ASSUME TypeOK, NEW o \in Orders, NEW p \in Payment, SetPayment(o, p)
  PROVE  /\ pay'[o].status = p.status /\ pay'[o].id = p.id
         /\ pay'[o].exc = p.exc /\ pay'[o].resolved = p.resolved
BY DEF SetPayment, TypeOK, Payment

\* What applying an event does to its own order, all branches together: the
\* facts from which every property of the order follows.
Effect(c) ==
  LET o == c.order IN
  /\ pay[o].exc # "none" => pay'[o].exc # "none"
  /\ pay[o].status = "PAID" =>
       pay'[o].status = "PAID" /\ pay'[o].id = pay[o].id /\ reg'[o] = reg[o]
  /\ pay'[o].status # "none"
  /\ c.captured => pay'[o].exc # "none" \/ (pay'[o].status = "PAID" /\ pay'[o].id = c.id)
  /\ (pay'[o].status = "PAID" /\ pay[o].status # "PAID") =>
       reg'[o] = "CONFIRMED" \/ pay'[o].exc # "none"
  /\ \/ reg'[o] = reg[o]
     \/ reg[o] = "PAYMENT_PENDING" /\ reg'[o] = "CANCELLED"
     \/ /\ reg[o] = "PAYMENT_PENDING" /\ reg'[o] = "CONFIRMED"
        /\ c.captured /\ c.matches /\ c.at <= expiresAt[o]
        /\ pay'[o].status = "PAID" /\ pay'[o].id = c.id

LEMMA ApplyEffect ==
  ASSUME TypeOK, NEW c \in charges, NEW n \in Reports, ApplyEvent(c, <<c.id, n>>),
         pay[c.order].status # "none"
  PROVE  Effect(c)
<1> DEFINE e == <<c.id, n>>
           p == pay[c.order]
<1>1. c.order \in Orders /\ p \in Payment /\ c.id \in ChargeIds
  BY ChargeShape DEF TypeOK
<1>2. /\ ReleaseSeat(c.order)[c.order] = reg[c.order]
      \/ /\ reg[c.order] = "PAYMENT_PENDING"
         /\ ReleaseSeat(c.order)[c.order] = "CANCELLED"
  BY <1>1 DEF ReleaseSeat, TypeOK
<1>3. FirstId(p.id, c) \in {0} \cup ChargeIds
  BY <1>1 DEF FirstId, Payment
<1>4. CASE IgnoreFailure(c, e)
  BY <1>4 DEF IgnoreFailure, AlreadyCaptured, Effect
<1>5. CASE Fail(c, e)
  <2> DEFINE q == [p EXCEPT !.status = "FAILED", !.id = FirstId(@, c)]
  <2>1. q \in Payment /\ q.status = "FAILED" /\ q.exc = p.exc
    BY <1>1, <1>3 DEF Payment
  <2>2. SetPayment(c.order, q) /\ reg' = ReleaseSeat(c.order)
        /\ p.status # "PAID" /\ ~c.captured
    BY <1>5 DEF Fail, AlreadyCaptured
  <2> HIDE DEF q
  <2>3. pay'[c.order].status = "FAILED" /\ pay'[c.order].exc = p.exc
    BY <1>1, <2>1, <2>2, SetPaymentGives
  <2> QED BY <1>2, <2>2, <2>3 DEF Effect
<1>6. CASE DuplicateCapture(c, e)
  BY <1>6 DEF DuplicateCapture, AlreadyCaptured, Effect
<1>7. CASE SecondCharge(c, e)
  <2> DEFINE q == Raise(p, "DUPLICATE_PAYMENT")
  <2>1. q \in Payment /\ q.status = p.status /\ q.id = p.id /\ q.exc # "none"
    BY <1>1, RaiseShape DEF Exceptions
  <2>2. SetPayment(c.order, q) /\ reg' = reg /\ p.status = "PAID"
    BY <1>7 DEF SecondCharge, AlreadyCaptured
  <2> HIDE DEF q
  <2>3. /\ pay'[c.order].status = "PAID" /\ pay'[c.order].id = p.id
        /\ pay'[c.order].exc # "none"
    BY <1>1, <2>1, <2>2, SetPaymentGives
  <2> QED BY <2>2, <2>3 DEF Effect
<1>8. CASE AmountMismatch(c, e)
  <2> DEFINE r == Raise(p, "AMOUNT_MISMATCH")
             q == [r EXCEPT !.id = FirstId(@, c)]
  <2>1. r \in Payment /\ r.status = p.status /\ r.exc # "none" /\ r.id = p.id
    BY <1>1, RaiseShape DEF Exceptions
  <2>2. SetPayment(c.order, q) /\ reg' = reg /\ p.status # "PAID"
    BY <1>8 DEF AmountMismatch, AlreadyCaptured
  <2> HIDE DEF r
  <2>3. q \in Payment /\ q.status = p.status /\ q.exc # "none"
    BY <1>3, <2>1 DEF Payment
  <2> HIDE DEF q
  <2>4. pay'[c.order].status = p.status /\ pay'[c.order].exc # "none"
    BY <1>1, <2>2, <2>3, SetPaymentGives
  <2> QED BY <2>2, <2>4 DEF Effect
<1>9. CASE Confirm(c, e)
  <2> DEFINE q == [p EXCEPT !.status = "PAID", !.id = c.id]
  <2>1. q \in Payment /\ q.status = "PAID" /\ q.id = c.id /\ q.exc = p.exc
    BY <1>1 DEF Payment
  <2>2. /\ SetPayment(c.order, q)
        /\ reg' = [reg EXCEPT ![c.order] = "CONFIRMED"]
        /\ p.status # "PAID" /\ c.captured /\ c.matches /\ InTime(c)
    BY <1>9 DEF Confirm, AlreadyCaptured
  <2> HIDE DEF q
  <2>3. /\ pay'[c.order].status = "PAID" /\ pay'[c.order].id = c.id
        /\ pay'[c.order].exc = p.exc
    BY <1>1, <2>1, <2>2, SetPaymentGives
  <2>4. reg[c.order] = "PAYMENT_PENDING" /\ c.at <= expiresAt[c.order]
    BY <1>1, <2>2, ChargeShape, SettlementAssumption DEF InTime, HoldExpired, TypeOK
  <2>5. reg'[c.order] = "CONFIRMED"
    BY <1>1, <2>2 DEF TypeOK
  <2> QED BY <2>2, <2>3, <2>4, <2>5 DEF Effect
<1>10. CASE LateCapture(c, e)
  <2> DEFINE r == Raise(p, "PAYMENT_AFTER_HOLD_EXPIRED")
             q == [r EXCEPT !.status = "PAID", !.id = c.id]
  <2>1. r \in Payment /\ r.exc # "none"
    BY <1>1, RaiseShape DEF Exceptions
  <2>2. SetPayment(c.order, q) /\ reg' = ReleaseSeat(c.order) /\ p.status # "PAID"
    BY <1>10 DEF LateCapture, AlreadyCaptured
  <2> HIDE DEF r
  <2>3. q \in Payment /\ q.status = "PAID" /\ q.id = c.id /\ q.exc # "none"
    BY <1>1, <2>1 DEF Payment
  <2> HIDE DEF q
  <2>4. /\ pay'[c.order].status = "PAID" /\ pay'[c.order].id = c.id
        /\ pay'[c.order].exc # "none"
    BY <1>1, <2>2, <2>3, SetPaymentGives
  <2> QED BY <1>2, <2>2, <2>4 DEF Effect
<1> HIDE DEF e
<1> QED BY <1>4, <1>5, <1>6, <1>7, <1>8, <1>9, <1>10 DEF ApplyEvent, e

-----------------------------------------------------------------------------
(* Applying an event keeps the invariant. *)

LEMMA ApplyKeeps ==
  ASSUME IInv, NEW c \in charges, NEW n \in Reports,
         ApplyEvent(c, <<c.id, n>>),
         UNCHANGED <<now, expiresAt, createdAt, charges, givenUp>>,
         batch' \subseteq Orders, fetched' \subseteq Events
  PROVE  IInv'
<1>1. TypeOK /\ pay[c.order].status # "none" /\ c.order \in Orders
  BY ChargeShape DEF IInv, ChargesHaveOrders
<1>2. Effect(c)
  BY <1>1, ApplyEffect
<1>3. /\ \A o \in Orders : o # c.order => pay'[o] = pay[o] /\ reg'[o] = reg[o]
      /\ \A f \in Events : f # <<c.id, n>> => outcome'[f] = outcome[f]
  BY <1>1, ApplyLocal
<1>4. TypeOK'
  BY <1>1, ApplyTypes DEF TypeOK
<1>5. ChargesNumbered'
  BY DEF IInv, ChargesNumbered
<1>6. OrdersHaveRows'
  <2> SUFFICES ASSUME NEW o \in Orders
               PROVE  /\ reg'[o] = "none" <=> pay'[o].status = "none"
                      /\ pay'[o].status = "none" => pay'[o].exc = "none"
    BY DEF OrdersHaveRows
  <2>1. CASE o # c.order
    BY <2>1, <1>3 DEF IInv, OrdersHaveRows
  <2>2. CASE o = c.order
    BY <2>2, <1>1, <1>2 DEF IInv, OrdersHaveRows, Effect
  <2> QED BY <2>1, <2>2
<1>7. ChargesHaveOrders'
  <2> SUFFICES ASSUME NEW d \in charges PROVE pay'[d.order].status # "none"
    BY DEF ChargesHaveOrders
  <2>1. d.order \in Orders
    BY <1>1, ChargeShape
  <2>2. CASE d.order # c.order
    BY <2>1, <2>2, <1>3 DEF IInv, ChargesHaveOrders
  <2>3. CASE d.order = c.order
    BY <2>3, <1>2 DEF Effect
  <2> QED BY <2>2, <2>3
<1>8. EventsHaveCharges'
  BY <1>3 DEF IInv, EventsHaveCharges, Events
<1>9. EveryChargeAccounted'
  <2> SUFFICES ASSUME NEW d \in charges, NEW m \in Reports,
                      d.captured, outcome'[<<d.id, m>>] \notin Unprocessed
               PROVE  \/ pay'[d.order].status = "PAID" /\ pay'[d.order].id = d.id
                      \/ pay'[d.order].exc # "none"
    BY DEF EveryChargeAccounted
  <2>1. d.order \in Orders /\ d.id \in ChargeIds
    BY <1>1, ChargeShape
  <2>2. CASE <<d.id, m>> = <<c.id, n>>
    <3>1. d = c
      BY <2>2 DEF IInv, ChargesNumbered
    <3> QED BY <3>1, <1>2 DEF Effect
  <2>3. CASE <<d.id, m>> # <<c.id, n>>
    <3>1. outcome[<<d.id, m>>] \notin Unprocessed
      BY <2>1, <2>3, <1>3 DEF Events
    <3>2. \/ pay[d.order].status = "PAID" /\ pay[d.order].id = d.id
          \/ pay[d.order].exc # "none"
      BY <3>1 DEF IInv, EveryChargeAccounted
    <3>3. CASE d.order # c.order
      BY <2>1, <3>2, <3>3, <1>3
    <3>4. CASE d.order = c.order
      BY <3>2, <3>4, <1>2 DEF Effect
    <3> QED BY <3>3, <3>4
  <2> QED BY <2>2, <2>3
<1>10. PaidMeansSeatOrException'
  <2> SUFFICES ASSUME NEW o \in Orders, pay'[o].status = "PAID"
               PROVE  reg'[o] = "CONFIRMED" \/ pay'[o].exc # "none" \/ o \in givenUp
    BY DEF PaidMeansSeatOrException
  <2>1. CASE o # c.order
    BY <2>1, <1>3 DEF IInv, PaidMeansSeatOrException
  <2>2. CASE o = c.order
    BY <2>2, <1>2 DEF IInv, PaidMeansSeatOrException, Effect
  <2> QED BY <2>1, <2>2
<1>11. SeatPaidInTime'
  <2> SUFFICES ASSUME NEW o \in Orders, reg'[o] = "CONFIRMED"
               PROVE  /\ pay'[o].status = "PAID"
                      /\ \E d \in charges : /\ d.id = pay'[o].id /\ d.order = o
                                            /\ d.captured /\ d.matches /\ d.at <= expiresAt[o]
    BY DEF SeatPaidInTime
  <2>1. CASE o # c.order
    BY <2>1, <1>3 DEF IInv, SeatPaidInTime
  <2>2. CASE o = c.order /\ reg[o] = "CONFIRMED"
    BY <2>2, <1>2 DEF IInv, SeatPaidInTime, Effect
  <2>3. CASE o = c.order /\ reg[o] # "CONFIRMED"
    BY <2>3, <1>2 DEF Effect
  <2> QED BY <2>1, <2>2, <2>3
<1> QED BY <1>4, <1>5, <1>6, <1>7, <1>8, <1>9, <1>10, <1>11 DEF IInv

\* So does a delivery, first or repeated.
LEMMA ProcessKeeps ==
  ASSUME IInv, NEW c \in charges, NEW n \in Reports,
         ProcessEvent(c, <<c.id, n>>),
         UNCHANGED <<now, expiresAt, createdAt, charges, givenUp>>,
         batch' \subseteq Orders, fetched' \subseteq Events
  PROVE  IInv'
<1>1. CASE ClaimEvent(<<c.id, n>>)
  BY <1>1, ApplyKeeps DEF ProcessEvent
<1>2. CASE ~ClaimEvent(<<c.id, n>>)
  BY <1>2
  DEF ProcessEvent, IInv, TypeOK, ChargesNumbered, OrdersHaveRows, ChargesHaveOrders,
      EventsHaveCharges, EveryChargeAccounted, PaidMeansSeatOrException, SeatPaidInTime
<1> QED BY <1>1, <1>2

-----------------------------------------------------------------------------
(* The other steps. *)

LEMMA OpenOrderKeeps ==
  ASSUME IInv, NEW o \in Orders, NEW released \in BOOLEAN, OpenOrder(o, released)
  PROVE  IInv'
<1> DEFINE q == [pay[o] EXCEPT !.status = "PENDING", !.updatedAt = now]
<1>1. TypeOK /\ pay[o] \in Payment /\ now \in 0..MaxTime
  BY DEF IInv, TypeOK
<1>2. /\ q \in Payment /\ q.status = "PENDING" /\ q.id = pay[o].id
      /\ q.exc = pay[o].exc /\ q.resolved = pay[o].resolved
  BY <1>1 DEF Payment
<1>3. pay' = [pay EXCEPT ![o] = q]
  BY <1>1 DEF OpenOrder, TypeOK, Payment
<1>4. /\ reg' = [reg EXCEPT ![o] = IF released THEN "CANCELLED" ELSE "PAYMENT_PENDING"]
      /\ expiresAt' = [expiresAt EXCEPT ![o] = now + HoldTTL]
      /\ createdAt' = [createdAt EXCEPT ![o] = now]
      /\ UNCHANGED <<now, charges, outcome, jobVars, givenUp>>
      /\ pay[o].status = "none"
  BY DEF OpenOrder
<1> HIDE DEF q
<1>5. now + HoldTTL \in 0..(MaxTime + HoldTTL)
  BY <1>1, SettlementAssumption
<1>6. TypeOK'
  BY <1>1, <1>2, <1>3, <1>4, <1>5 DEF TypeOK, jobVars
<1>7. ChargesNumbered' /\ EventsHaveCharges'
  BY <1>4 DEF IInv, ChargesNumbered, EventsHaveCharges
<1>8. \A p \in Orders : IF p = o THEN pay'[p] = q ELSE pay'[p] = pay[p]
  BY <1>1, <1>3 DEF TypeOK
<1>9. \A p \in Orders :
        /\ p # o => reg'[p] = reg[p] /\ expiresAt'[p] = expiresAt[p]
        /\ p = o => reg'[p] \in {"CANCELLED", "PAYMENT_PENDING"}
  BY <1>1, <1>4 DEF TypeOK
<1>10. OrdersHaveRows' /\ PaidMeansSeatOrException'
  BY <1>2, <1>4, <1>8, <1>9 DEF IInv, OrdersHaveRows, PaidMeansSeatOrException
<1>11. \A c \in charges : c.order \in Orders /\ c.order # o
  BY <1>1, <1>4, ChargeShape DEF IInv, ChargesHaveOrders
<1>12. ChargesHaveOrders' /\ EveryChargeAccounted'
  BY <1>4, <1>8, <1>11 DEF IInv, ChargesHaveOrders, EveryChargeAccounted
<1>13. SeatPaidInTime'
  BY <1>4, <1>8, <1>9 DEF IInv, SeatPaidInTime
<1> QED BY <1>6, <1>7, <1>10, <1>12, <1>13 DEF IInv

LEMMA AttemptKeeps ==
  ASSUME IInv, NEW o \in Orders, NEW captured \in BOOLEAN, NEW matches \in BOOLEAN,
         Attempt(o, captured, matches)
  PROVE  IInv'
<1> DEFINE d == [id |-> Cardinality(charges) + 1, order |-> o,
                 captured |-> captured, matches |-> matches, at |-> now]
<1>1. /\ charges' = charges \cup {d}
      /\ Cardinality(charges) < MaxCharges
      /\ pay[o].status # "none"
      /\ UNCHANGED <<now, regVars, createdAt, pay, outcome, jobVars, givenUp>>
  BY DEF Attempt
<1>2. TypeOK /\ IsFiniteSet(charges) /\ Cardinality(charges) \in Nat
  BY FS_CardinalityType DEF IInv, ChargesNumbered
<1>3. d \in Charge /\ d.id = Cardinality(charges) + 1 /\ d.order = o
  BY <1>1, <1>2, SettlementAssumption DEF Charge, ChargeIds, TypeOK
<1> HIDE DEF d
<1>4. \A c \in charges : c.id < d.id /\ c.id \in ChargeIds /\ c.order \in Orders
  BY <1>2, <1>3, ChargeShape DEF IInv, ChargesNumbered, ChargeIds
<1>5. d \notin charges
  BY <1>3, <1>4 DEF ChargeIds
<1>6. IsFiniteSet(charges') /\ Cardinality(charges') = Cardinality(charges) + 1
  BY <1>1, <1>2, <1>5, FS_AddElement
<1>7. {c.id : c \in charges'} = 1..Cardinality(charges')
  <2>1. {c.id : c \in charges'} = {c.id : c \in charges} \cup {d.id}
    BY <1>1
  <2>2. {c.id : c \in charges} = 1..Cardinality(charges)
    BY <1>2 DEF TypeOK
  <2> QED BY <2>1, <2>2, <1>2, <1>3, <1>6
<1>8. TypeOK'
  BY <1>1, <1>2, <1>3, <1>7 DEF TypeOK, regVars, jobVars
<1>9. ChargesNumbered'
  <2>1. \A c \in charges' : c.id <= Cardinality(charges')
    <3>1. \A c \in charges : c.id <= Cardinality(charges) /\ c.id \in Int
      BY <1>4 DEF IInv, ChargesNumbered, ChargeIds
    <3> QED BY <3>1, <1>1, <1>2, <1>3, <1>6
  <2>2. \A b, c \in charges' : b.id = c.id => b = c
    <3>1. \A c \in charges : c.id # d.id
      BY <1>2, <1>3, <1>4 DEF ChargeIds
    <3> QED BY <3>1, <1>1 DEF IInv, ChargesNumbered
  <2> QED BY <2>1, <2>2, <1>6 DEF ChargesNumbered
<1>10. OrdersHaveRows' /\ PaidMeansSeatOrException' /\ ChargesHaveOrders' /\ EventsHaveCharges'
  BY <1>1, <1>3
  DEF IInv, OrdersHaveRows, PaidMeansSeatOrException, ChargesHaveOrders, EventsHaveCharges, regVars
<1>11. EveryChargeAccounted'
  <2>1. \A n \in Reports : outcome[<<d.id, n>>] = "none"
    BY <1>3, <1>4, <1>2 DEF IInv, EventsHaveCharges, Charge, ChargeIds
  <2> QED BY <1>1, <2>1 DEF IInv, EveryChargeAccounted, Unprocessed
<1>12. SeatPaidInTime'
  BY <1>1 DEF IInv, SeatPaidInTime, regVars
<1> QED BY <1>8, <1>9, <1>10, <1>11, <1>12 DEF IInv

\* A step that leaves the books, the rows and the inbox alone.
LEMMA IdleKeeps ==
  ASSUME IInv, TypeOK', UNCHANGED <<regVars, pay, charges, outcome, givenUp>>
  PROVE  IInv'
BY DEF IInv, ChargesNumbered, OrdersHaveRows, ChargesHaveOrders, EventsHaveCharges,
       EveryChargeAccounted, PaidMeansSeatOrException, SeatPaidInTime, regVars

LEMMA RejectStaleKeeps ==
  ASSUME IInv, NEW c \in charges, NEW n \in Reports, RejectStale(c, n)
  PROVE  IInv'
<1> DEFINE e == <<c.id, n>>
<1>1. TypeOK /\ c.id \in ChargeIds /\ e \in Events
  BY ChargeShape DEF IInv, Events
<1>2. /\ outcome' = [outcome EXCEPT ![e] = "REJECTED_STALE"]
      /\ UNCHANGED <<now, regVars, createdAt, pay, charges, jobVars, givenUp>>
  BY DEF RejectStale
<1>3. outcome'[e] = "REJECTED_STALE" /\ \A f \in Events : f # e => outcome'[f] = outcome[f]
  BY <1>1, <1>2 DEF TypeOK
<1>4. TypeOK'
  BY <1>1, <1>2 DEF TypeOK, Outcome, regVars, jobVars
<1>5. EventsHaveCharges'
  <2> SUFFICES ASSUME NEW i \in ChargeIds, NEW m \in Reports, outcome'[<<i, m>>] # "none"
               PROVE  \E d \in charges : d.id = i
    BY <1>2 DEF EventsHaveCharges
  <2>1. CASE <<i, m>> = e
    BY <2>1
  <2>2. CASE <<i, m>> # e
    BY <2>2, <1>3 DEF IInv, EventsHaveCharges, Events
  <2> QED BY <2>1, <2>2
<1>6. EveryChargeAccounted'
  <2> SUFFICES ASSUME NEW d \in charges, NEW m \in Reports,
                      d.captured, outcome'[<<d.id, m>>] \notin Unprocessed
               PROVE  \/ pay[d.order].status = "PAID" /\ pay[d.order].id = d.id
                      \/ pay[d.order].exc # "none"
    BY <1>2 DEF EveryChargeAccounted
  <2>1. <<d.id, m>> \in Events
    BY <1>1, ChargeShape DEF Events
  <2>2. <<d.id, m>> # e
    BY <1>3 DEF Unprocessed
  <2> HIDE DEF e
  <2>3. outcome[<<d.id, m>>] \notin Unprocessed
    BY <2>1, <2>2, <1>3
  <2> QED BY <2>3 DEF IInv, EveryChargeAccounted
<1> QED
  BY <1>2, <1>4, <1>5, <1>6
  DEF IInv, ChargesNumbered, OrdersHaveRows, ChargesHaveOrders, PaidMeansSeatOrException,
      SeatPaidInTime, regVars

LEMMA PolledEvents ==
  ASSUME TypeOK, NEW o \in Orders
  PROVE  Decisive(o) \subseteq Events
<1> DEFINE successes == {c \in AttemptsOn(o) : c.captured}
           S == IF successes # {} THEN First(successes) ELSE Last(AttemptsOn(o))
<1>1. S \subseteq charges
  BY DEF AttemptsOn, First, Last
<1>2. \A c \in S : <<c.id, Polled>> \in Events
  BY <1>1, ChargeShape, SettlementAssumption DEF Events
<1> QED BY <1>2 DEF Decisive

LEMMA JobKeeps == IInv /\ JobStep => IInv'
<1> SUFFICES ASSUME IInv, JobStep PROVE IInv'
  OBVIOUS
<1> USE DEF IInv
<1>1. CASE StartReconcile
  <2>1. batch' \subseteq Orders
    BY <1>1 DEF StartReconcile, OldestFirst, Stale
  <2> QED BY <1>1, <2>1, IdleKeeps DEF StartReconcile, TypeOK, regVars
<1>2. ASSUME NEW o \in Orders, Poll(o) PROVE IInv'
  <2>1. Decisive(o) \subseteq Events
    BY PolledEvents
  <2>2. TypeOK'
    BY <1>2, <2>1 DEF Poll, TypeOK, regVars
  <2> QED BY <1>2, <2>2, IdleKeeps DEF Poll
<1>3. ASSUME NEW o \in Orders, PollFails(o) PROVE IInv'
  <2>1. TypeOK'
    BY <1>3 DEF PollFails, TypeOK, regVars
  <2> QED BY <1>3, <2>1, IdleKeeps DEF PollFails
<1>4. ASSUME NEW c \in charges, ApplyPolled(c) PROVE IInv'
  <2>1. Polled \in Reports
    BY SettlementAssumption
  <2>2. /\ ProcessEvent(c, <<c.id, Polled>>)
        /\ UNCHANGED <<now, expiresAt, createdAt, charges, givenUp>>
        /\ batch' \subseteq Orders /\ fetched' \subseteq Events
    BY <1>4 DEF ApplyPolled, TypeOK
  <2> QED BY <2>1, <2>2, ProcessKeeps
<1>5. ASSUME NEW c \in charges, LosePolled(c) PROVE IInv'
  <2>1. TypeOK'
    BY <1>5 DEF LosePolled, TypeOK, regVars
  <2> QED BY <1>5, <2>1, IdleKeeps DEF LosePolled
<1> QED BY <1>1, <1>2, <1>3, <1>4, <1>5 DEF JobStep

LEMMA ProviderKeeps == IInv /\ ProviderStep => IInv'
<1> SUFFICES ASSUME IInv, ProviderStep PROVE IInv'
  OBVIOUS
<1>1. ASSUME NEW c \in charges, NEW n \in Reports, DeliverWebhook(c, n) PROVE IInv'
  <2>1. /\ ProcessEvent(c, <<c.id, n>>)
        /\ UNCHANGED <<now, expiresAt, createdAt, charges, givenUp>>
        /\ batch' \subseteq Orders /\ fetched' \subseteq Events
    BY <1>1 DEF DeliverWebhook, jobVars, IInv, TypeOK
  <2> QED BY <2>1, ProcessKeeps
<1> QED BY <1>1, AttemptKeeps, RejectStaleKeeps DEF ProviderStep

LEMMA StaffKeeps == IInv /\ StaffStep => IInv'
<1> SUFFICES ASSUME IInv, NEW o \in Orders,
                    ReconcileAsAdmin(o) \/ ResolveException(o) \/ CancelAsAdmin(o)
             PROVE  IInv'
  BY DEF StaffStep
<1>1. TypeOK
  BY DEF IInv
<1>2. CASE ReconcileAsAdmin(o)
  <2>1. TypeOK'
    BY <1>1, <1>2, PolledEvents DEF ReconcileAsAdmin, TypeOK, regVars
  <2> QED BY <1>2, <2>1, IdleKeeps DEF ReconcileAsAdmin
<1>3. CASE ResolveException(o)
  <2> DEFINE q == [pay[o] EXCEPT !.resolved = TRUE]
  <2>1. /\ q \in Payment /\ q.status = pay[o].status /\ q.id = pay[o].id
        /\ q.exc = pay[o].exc
    BY <1>1 DEF TypeOK, Payment
  <2>2. /\ SetPayment(o, q)
        /\ UNCHANGED <<now, regVars, createdAt, charges, outcome, jobVars, givenUp>>
    BY <1>3 DEF ResolveException
  <2> HIDE DEF q
  <2>3. pay' \in [Orders -> Payment]
    BY <1>1, <2>1, <2>2 DEF SetPayment, TypeOK, Payment
  <2>4. \A p \in Orders :
          pay'[p].status = pay[p].status /\ pay'[p].id = pay[p].id /\ pay'[p].exc = pay[p].exc
    <3>1. ASSUME NEW p \in Orders, p # o PROVE pay'[p] = pay[p]
      BY <1>1, <2>2, <3>1 DEF SetPayment, TypeOK
    <3> QED BY <1>1, <2>1, <2>2, <3>1, SetPaymentGives
  <2>5. TypeOK'
    BY <1>1, <2>2, <2>3 DEF TypeOK, regVars, jobVars
  <2>6. \A c \in charges : c.order \in Orders
    BY <1>1, ChargeShape
  <2>7. (ChargesHaveOrders /\ EveryChargeAccounted)'
    BY <2>2, <2>4, <2>6 DEF IInv, ChargesHaveOrders, EveryChargeAccounted
  <2>8. (OrdersHaveRows /\ PaidMeansSeatOrException /\ SeatPaidInTime)'
    BY <2>2, <2>4 DEF IInv, OrdersHaveRows, PaidMeansSeatOrException, SeatPaidInTime, regVars
  <2> QED BY <2>2, <2>5, <2>7, <2>8 DEF IInv, ChargesNumbered, EventsHaveCharges
<1>4. CASE CancelAsAdmin(o)
  <2>1. /\ reg[o] # "none"
        /\ \A p \in Orders : reg'[p] = IF p = o THEN "CANCELLED" ELSE reg[p]
        /\ givenUp' = givenUp \cup {o}
        /\ UNCHANGED <<now, expiresAt, createdAt, pay, charges, outcome, jobVars>>
    BY <1>1, <1>4 DEF CancelAsAdmin, TypeOK
  <2>2. TypeOK'
    BY <1>1, <1>4 DEF CancelAsAdmin, TypeOK, jobVars
  <2>3. (OrdersHaveRows /\ PaidMeansSeatOrException /\ SeatPaidInTime)'
    BY <2>1 DEF IInv, OrdersHaveRows, PaidMeansSeatOrException, SeatPaidInTime
  <2> QED
    BY <2>1, <2>2, <2>3
    DEF IInv, ChargesNumbered, ChargesHaveOrders, EventsHaveCharges, EveryChargeAccounted
<1> QED BY <1>2, <1>3, <1>4

LEMMA ReleaseKeeps ==
  ASSUME IInv, NEW S \in SUBSET Orders, Release(S)
  PROVE  IInv'
<1>1. /\ \A o \in S : reg[o] = "PAYMENT_PENDING"
      /\ \A o \in Orders : reg'[o] = IF o \in S THEN "CANCELLED" ELSE reg[o]
      /\ UNCHANGED <<now, expiresAt, createdAt, pay, charges, outcome, jobVars, givenUp>>
  BY DEF Release
<1>2. TypeOK'
  BY <1>1 DEF Release, IInv, TypeOK, jobVars
<1>3. (OrdersHaveRows /\ PaidMeansSeatOrException /\ SeatPaidInTime)'
  BY <1>1 DEF IInv, OrdersHaveRows, PaidMeansSeatOrException, SeatPaidInTime
<1> QED
  BY <1>1, <1>2, <1>3
  DEF IInv, ChargesNumbered, ChargesHaveOrders, EventsHaveCharges, EveryChargeAccounted

LEMMA StepIInv == IInv /\ [Next]_vars => IInv'
<1> SUFFICES ASSUME IInv, [Next]_vars PROVE IInv'
  OBVIOUS
<1>1. CASE ReleaseExpiredHolds
  BY <1>1, ReleaseKeeps DEF ReleaseExpiredHolds
<1>2. CASE \E S \in SUBSET Orders : CancelHolds(S)
  BY <1>2, ReleaseKeeps DEF CancelHolds
<1>3. CASE Tick
  <2>1. TypeOK'
    BY <1>3, SettlementAssumption DEF Tick, IInv, TypeOK, Payment, Charge, regVars, jobVars
  <2> QED BY <1>3, <2>1, IdleKeeps DEF Tick
<1>4. CASE UNCHANGED vars
  <2>1. TypeOK'
    BY <1>4 DEF vars, IInv, TypeOK, regVars, jobVars
  <2> QED BY <1>4, <2>1, IdleKeeps DEF vars
<1> QED
  BY <1>1, <1>2, <1>3, <1>4, OpenOrderKeeps, ProviderKeeps, JobKeeps, StaffKeeps DEF Next

\* The invariant holds in every reachable state.
THEOREM Inductive == Spec => []IInv
BY InitIInv, StepIInv, PTL DEF Spec

\* The tables keep their types, and charges stay dense and distinct.
THEOREM TypeCorrect == Spec => []TypeOK
BY Inductive, PTL DEF IInv

\* webhook.ts: no capture the receiver has processed is ever lost track of,
\* whatever is repeated, reordered, raced or settled by hand.
THEOREM MoneyIsAccountedFor == Spec => []EveryChargeAccounted
BY Inductive, PTL DEF IInv

\* webhook.ts: an order marked PAID has its seat, an exception, or the audit
\* record of the cancellation.
THEOREM PaidHasSeatOrException == Spec => []PaidMeansSeatOrException
BY Inductive, PTL DEF IInv

\* webhook.ts: every seat held is paid, by a capture made while it was held.
THEOREM SeatsArePaidInTime == Spec => []SeatPaidInTime
BY Inductive, PTL DEF IInv

-----------------------------------------------------------------------------
(* A payment is never undone. *)

LEMMA StepPaidStays == IInv /\ [Next]_vars => [PaidStays]_pay
<1> SUFFICES ASSUME IInv, [Next]_vars, NEW o \in Orders, pay[o].status = "PAID"
             PROVE  pay'[o].status = "PAID" /\ pay'[o].id = pay[o].id
  BY DEF PaidStays
<1>1. TypeOK
  BY DEF IInv
<1>2. ASSUME NEW c \in charges, NEW n \in Reports, ProcessEvent(c, <<c.id, n>>)
      PROVE  pay'[o].status = "PAID" /\ pay'[o].id = pay[o].id
  <2>1. CASE UNCHANGED pay
    BY <2>1
  <2>2. CASE ApplyEvent(c, <<c.id, n>>)
    <3>1. Effect(c)
      BY <1>1, <2>2, ApplyEffect DEF IInv, ChargesHaveOrders
    <3>2. c.order # o => pay'[o] = pay[o]
      BY <1>1, <2>2, ApplyLocal
    <3> QED BY <3>1, <3>2 DEF Effect
  <2> QED BY <1>2, <2>1, <2>2 DEF ProcessEvent
<1>3. ASSUME NEW p \in Orders, NEW released \in BOOLEAN, OpenOrder(p, released)
      PROVE  pay'[o].status = "PAID" /\ pay'[o].id = pay[o].id
  BY <1>1, <1>3 DEF OpenOrder, TypeOK
<1>4. ASSUME NEW p \in Orders, ResolveException(p)
      PROVE  pay'[o].status = "PAID" /\ pay'[o].id = pay[o].id
  BY <1>1, <1>4 DEF ResolveException, SetPayment, TypeOK, Payment
<1>5. CASE ProviderStep
  BY <1>2, <1>5 DEF ProviderStep, DeliverWebhook, Attempt, RejectStale
<1>6. CASE JobStep
  <2>1. Polled \in Reports
    BY SettlementAssumption
  <2> QED
    BY <1>2, <1>6, <2>1 DEF JobStep, StartReconcile, Poll, PollFails, ApplyPolled, LosePolled
<1>7. CASE StaffStep
  BY <1>4, <1>7 DEF StaffStep, ReconcileAsAdmin, CancelAsAdmin
<1>8. CASE \/ ReleaseExpiredHolds \/ \E S \in SUBSET Orders : CancelHolds(S)
           \/ Tick \/ UNCHANGED vars
  BY <1>8 DEF ReleaseExpiredHolds, CancelHolds, Release, Tick, vars
<1> QED BY <1>3, <1>5, <1>6, <1>7, <1>8 DEF Next

\* webhook.ts: no report, however late, unsettles a captured payment.
THEOREM PaymentsStay == Spec => PaymentNeverUndone
BY Inductive, StepPaidStays, PTL DEF Spec, PaymentNeverUndone

-----------------------------------------------------------------------------
(* Settlement implements OrderContract. *)

\* The ways in which one order may change.
Moves(o) ==
  LET samePaid == pay'[o].status = "PAID" <=> pay[o].status = "PAID"
      nowPaid  == pay'[o].status = "PAID" /\ pay[o].status # "PAID"
      debt     == DebtOf(pay[o])
      debtNext == DebtOf(pay'[o])
  IN
  \/ reg'[o] = reg[o] /\ samePaid /\ debtNext = debt
  \/ reg[o] = "none" /\ reg'[o] \in {"PAYMENT_PENDING", "CANCELLED"} /\ samePaid /\ debtNext = debt
  \/ reg[o] = "PAYMENT_PENDING" /\ reg'[o] = "CONFIRMED" /\ nowPaid /\ debtNext = debt
  \/ reg[o] = "PAYMENT_PENDING" /\ reg'[o] = "CANCELLED" /\ samePaid /\ debtNext = debt
  \/ /\ reg[o] \in {"PAYMENT_PENDING", "CANCELLED"} /\ reg'[o] = "CANCELLED"
     /\ nowPaid /\ debtNext = "owed"
  \/ reg[o] # "none" /\ reg'[o] = reg[o] /\ samePaid /\ debt # "owed" /\ debtNext = "owed"
  \/ reg'[o] = reg[o] /\ samePaid /\ debt = "owed" /\ debtNext = "settled"
  \/ reg[o] = "CONFIRMED" /\ reg'[o] = "CANCELLED" /\ samePaid /\ debtNext = debt

LEMMA OneOrderMaps ==
  ASSUME TypeOK, TypeOK', NEW o \in Orders, Moves(o),
         \A p \in Orders : p # o => pay'[p] = pay[p] /\ reg'[p] = reg[p]
  PROVE  [Contract!Next]_(Contract!vars)
<1> DEFINE seat == [p \in Orders |-> SeatOf(reg[p])]
           paid == {p \in Orders : pay[p].status = "PAID"}
           debt == [p \in Orders |-> DebtOf(pay[p])]
<1>1. /\ seat' = [seat EXCEPT ![o] = SeatOf(reg'[o])]
      /\ debt' = [debt EXCEPT ![o] = DebtOf(pay'[o])]
  OBVIOUS
<1>2. /\ (pay'[o].status = "PAID" <=> pay[o].status = "PAID") => paid' = paid
      /\ pay'[o].status = "PAID" => paid' = paid \cup {o}
  OBVIOUS
<1>3. /\ seat[o] = SeatOf(reg[o]) /\ debt[o] = DebtOf(pay[o])
      /\ o \in paid <=> pay[o].status = "PAID"
  OBVIOUS
<1>4. /\ DebtOf(pay'[o]) = DebtOf(pay[o]) => debt' = debt
      /\ reg'[o] = reg[o] => seat' = seat
  BY <1>1
<1>5. /\ SeatOf("none") = "none" /\ SeatOf("PAYMENT_PENDING") = "held"
      /\ SeatOf("CONFIRMED") = "seated" /\ SeatOf("CANCELLED") = "released"
      /\ \A s \in {"none", "PAYMENT_PENDING", "CONFIRMED", "CANCELLED"} :
           SeatOf(s) = "none" => s = "none"
  BY DEF SeatOf
<1>6. reg[o] \in {"none", "PAYMENT_PENDING", "CONFIRMED", "CANCELLED"}
  BY DEF TypeOK
<1>7. CASE reg'[o] = reg[o] /\ (pay'[o].status = "PAID" <=> pay[o].status = "PAID")
           /\ DebtOf(pay'[o]) = DebtOf(pay[o])
  BY <1>2, <1>4, <1>7 DEF Contract!vars
<1>8. CASE /\ reg[o] = "none" /\ reg'[o] \in {"PAYMENT_PENDING", "CANCELLED"}
           /\ pay'[o].status = "PAID" <=> pay[o].status = "PAID"
           /\ DebtOf(pay'[o]) = DebtOf(pay[o])
  <2>1. Contract!Open(o)
    BY <1>1, <1>2, <1>3, <1>4, <1>5, <1>8 DEF Contract!Open
  <2> QED BY <2>1 DEF Contract!Next
<1>9. CASE /\ reg[o] = "PAYMENT_PENDING" /\ reg'[o] = "CONFIRMED"
           /\ pay'[o].status = "PAID" /\ pay[o].status # "PAID"
           /\ DebtOf(pay'[o]) = DebtOf(pay[o])
  <2>1. Contract!Grant(o)
    BY <1>1, <1>2, <1>3, <1>4, <1>5, <1>9 DEF Contract!Grant
  <2> QED BY <2>1 DEF Contract!Next
<1>10. CASE /\ reg[o] = "PAYMENT_PENDING" /\ reg'[o] = "CANCELLED"
            /\ pay'[o].status = "PAID" <=> pay[o].status = "PAID"
            /\ DebtOf(pay'[o]) = DebtOf(pay[o])
  <2>1. seat' = [p \in Orders |-> IF p \in {o} THEN "released" ELSE seat[p]]
    BY <1>1, <1>5, <1>10
  <2>2. Contract!Release({o})
    BY <1>2, <1>3, <1>4, <1>5, <1>10, <2>1 DEF Contract!Release
  <2>3. {o} \in (SUBSET Orders) \ {{}}
    OBVIOUS
  <2> QED BY <2>2, <2>3 DEF Contract!Next
<1>11. CASE /\ reg[o] \in {"PAYMENT_PENDING", "CANCELLED"} /\ reg'[o] = "CANCELLED"
            /\ pay'[o].status = "PAID" /\ pay[o].status # "PAID"
            /\ DebtOf(pay'[o]) = "owed"
  <2>1. Contract!TakeTooLate(o)
    BY <1>1, <1>2, <1>3, <1>5, <1>11 DEF Contract!TakeTooLate
  <2> QED BY <2>1 DEF Contract!Next
<1>12. CASE /\ reg[o] # "none" /\ reg'[o] = reg[o]
            /\ pay'[o].status = "PAID" <=> pay[o].status = "PAID"
            /\ DebtOf(pay[o]) # "owed" /\ DebtOf(pay'[o]) = "owed"
  <2>1. Contract!Owe(o)
    BY <1>1, <1>2, <1>3, <1>4, <1>5, <1>6, <1>12 DEF Contract!Owe
  <2> QED BY <2>1 DEF Contract!Next
<1>13. CASE /\ reg'[o] = reg[o]
            /\ pay'[o].status = "PAID" <=> pay[o].status = "PAID"
            /\ DebtOf(pay[o]) = "owed" /\ DebtOf(pay'[o]) = "settled"
  <2>1. Contract!Settle(o)
    BY <1>1, <1>2, <1>3, <1>4, <1>13 DEF Contract!Settle
  <2> QED BY <2>1 DEF Contract!Next
<1>14. CASE /\ reg[o] = "CONFIRMED" /\ reg'[o] = "CANCELLED"
            /\ pay'[o].status = "PAID" <=> pay[o].status = "PAID"
            /\ DebtOf(pay'[o]) = DebtOf(pay[o])
  <2>1. Contract!GiveUp(o)
    BY <1>1, <1>2, <1>3, <1>4, <1>5, <1>14 DEF Contract!GiveUp
  <2> QED BY <2>1 DEF Contract!Next
<1> HIDE DEF seat, paid, debt
<1> QED BY <1>7, <1>8, <1>9, <1>10, <1>11, <1>12, <1>13, <1>14 DEF Moves

\* Raising an exception leaves the delegate owed, and an open one as it was.
LEMMA RaiseOwes ==
  ASSUME NEW p \in Payment, NEW reason \in Exceptions
  PROVE  DebtOf(Raise(p, reason)) = "owed"
BY RaiseShape DEF DebtOf, Payment

\* The debt is read off the exception, which SetPayment writes as given.
LEMMA DebtWritten ==
  ASSUME TypeOK, NEW o \in Orders, NEW p \in Payment, SetPayment(o, p)
  PROVE  DebtOf(pay'[o]) = DebtOf(p)
BY SetPaymentGives DEF DebtOf

LEMMA ApplyMoves ==
  ASSUME IInv, NEW c \in charges, NEW n \in Reports, ApplyEvent(c, <<c.id, n>>)
  PROVE  Moves(c.order)
<1> DEFINE e == <<c.id, n>>
           o == c.order
           p == pay[o]
<1>1. TypeOK /\ o \in Orders /\ p \in Payment /\ c.id \in ChargeIds
  BY ChargeShape DEF IInv, TypeOK
<1>2. p.status # "none" /\ reg[o] # "none"
  BY <1>1 DEF IInv, ChargesHaveOrders, OrdersHaveRows
<1>3. reg[o] \in {"PAYMENT_PENDING", "CONFIRMED", "CANCELLED"}
  BY <1>1, <1>2 DEF TypeOK
<1>4. reg[o] = "CONFIRMED" => p.status = "PAID"
  BY <1>1 DEF IInv, SeatPaidInTime
<1>5. ReleaseSeat(o)[o] = IF reg[o] = "PAYMENT_PENDING" THEN "CANCELLED" ELSE reg[o]
  BY <1>1 DEF ReleaseSeat, TypeOK
<1>6. FirstId(p.id, c) \in {0} \cup ChargeIds
  BY <1>1 DEF FirstId, Payment
<1>7. CASE IgnoreFailure(c, e) \/ DuplicateCapture(c, e)
  BY <1>7 DEF IgnoreFailure, DuplicateCapture, Moves
<1>8. CASE Fail(c, e)
  <2> DEFINE q == [p EXCEPT !.status = "FAILED", !.id = FirstId(@, c)]
  <2>1. q \in Payment /\ q.status = "FAILED" /\ DebtOf(q) = DebtOf(p)
    BY <1>1, <1>6 DEF Payment, DebtOf
  <2>2. SetPayment(o, q) /\ reg' = ReleaseSeat(o) /\ p.status # "PAID"
    BY <1>8 DEF Fail, AlreadyCaptured
  <2> HIDE DEF q
  <2>3. pay'[o].status = "FAILED" /\ DebtOf(pay'[o]) = DebtOf(p)
    BY <1>1, <2>1, <2>2, SetPaymentGives, DebtWritten
  <2> QED BY <1>3, <1>4, <1>5, <2>2, <2>3 DEF Moves
<1>9. CASE SecondCharge(c, e)
  <2> DEFINE q == Raise(p, "DUPLICATE_PAYMENT")
  <2>1. q \in Payment /\ q.status = p.status /\ DebtOf(q) = "owed"
    BY <1>1, RaiseShape, RaiseOwes DEF Exceptions
  <2>2. SetPayment(o, q) /\ reg' = reg
    BY <1>9 DEF SecondCharge
  <2> HIDE DEF q
  <2>3. pay'[o].status = p.status /\ DebtOf(pay'[o]) = "owed"
    BY <1>1, <2>1, <2>2, SetPaymentGives, DebtWritten
  <2> QED BY <1>2, <2>2, <2>3 DEF Moves
<1>10. CASE AmountMismatch(c, e)
  <2> DEFINE r == Raise(p, "AMOUNT_MISMATCH")
             q == [r EXCEPT !.id = FirstId(@, c)]
  <2>1. r \in Payment /\ r.status = p.status /\ r.id = p.id /\ DebtOf(r) = "owed"
    BY <1>1, RaiseShape, RaiseOwes DEF Exceptions
  <2>2. SetPayment(o, q) /\ reg' = reg
    BY <1>10 DEF AmountMismatch
  <2> HIDE DEF r
  <2>3. q \in Payment /\ q.status = p.status /\ DebtOf(q) = "owed"
    BY <1>6, <2>1 DEF Payment, DebtOf
  <2> HIDE DEF q
  <2>4. pay'[o].status = p.status /\ DebtOf(pay'[o]) = "owed"
    BY <1>1, <2>2, <2>3, SetPaymentGives, DebtWritten
  <2> QED BY <1>2, <2>2, <2>4 DEF Moves
<1>11. CASE Confirm(c, e)
  <2> DEFINE q == [p EXCEPT !.status = "PAID", !.id = c.id]
  <2>1. q \in Payment /\ q.status = "PAID" /\ DebtOf(q) = DebtOf(p)
    BY <1>1 DEF Payment, DebtOf
  <2>2. SetPayment(o, q) /\ p.status # "PAID" /\ reg[o] = "PAYMENT_PENDING"
        /\ reg' = [reg EXCEPT ![o] = "CONFIRMED"]
    BY <1>11 DEF Confirm, AlreadyCaptured, InTime
  <2> HIDE DEF q
  <2>3. pay'[o].status = "PAID" /\ DebtOf(pay'[o]) = DebtOf(p)
    BY <1>1, <2>1, <2>2, SetPaymentGives, DebtWritten
  <2>4. reg'[o] = "CONFIRMED"
    BY <1>1, <2>2 DEF TypeOK
  <2> QED BY <2>2, <2>3, <2>4 DEF Moves
<1>12. CASE LateCapture(c, e)
  <2> DEFINE r == Raise(p, "PAYMENT_AFTER_HOLD_EXPIRED")
             q == [r EXCEPT !.status = "PAID", !.id = c.id]
  <2>1. r \in Payment /\ DebtOf(r) = "owed"
    BY <1>1, RaiseShape, RaiseOwes DEF Exceptions
  <2>2. SetPayment(o, q) /\ reg' = ReleaseSeat(o) /\ p.status # "PAID"
    BY <1>12 DEF LateCapture, AlreadyCaptured
  <2> HIDE DEF r
  <2>3. q \in Payment /\ q.status = "PAID" /\ DebtOf(q) = "owed"
    BY <1>1, <2>1 DEF Payment, DebtOf
  <2> HIDE DEF q
  <2>4. pay'[o].status = "PAID" /\ DebtOf(pay'[o]) = "owed"
    BY <1>1, <2>2, <2>3, SetPaymentGives, DebtWritten
  <2> QED BY <1>3, <1>4, <1>5, <2>2, <2>4 DEF Moves
<1> HIDE DEF e
<1> QED BY <1>7, <1>8, <1>9, <1>10, <1>11, <1>12 DEF ApplyEvent, e

LEMMA ProcessMaps ==
  ASSUME IInv, IInv', NEW c \in charges, NEW n \in Reports, ProcessEvent(c, <<c.id, n>>)
  PROVE  [Contract!Next]_(Contract!vars)
<1>1. TypeOK /\ TypeOK' /\ c.order \in Orders
  BY ChargeShape DEF IInv
<1>2. CASE ApplyEvent(c, <<c.id, n>>)
  BY <1>1, <1>2, ApplyMoves, ApplyLocal, OneOrderMaps
<1>3. CASE UNCHANGED <<pay, reg, outcome>>
  BY <1>3 DEF Contract!vars
<1> QED BY <1>2, <1>3 DEF ProcessEvent

LEMMA ReleaseMaps ==
  ASSUME IInv, NEW S \in SUBSET Orders, Release(S)
  PROVE  Contract!Next
<1>1. /\ S # {} /\ \A o \in S : reg[o] = "PAYMENT_PENDING"
      /\ \A o \in Orders : reg'[o] = IF o \in S THEN "CANCELLED" ELSE reg[o]
      /\ pay' = pay
  BY DEF Release
<1>2. SeatOf("PAYMENT_PENDING") = "held" /\ SeatOf("CANCELLED") = "released"
  BY DEF SeatOf
<1>3. Contract!Release(S)
  BY <1>1, <1>2 DEF Contract!Release
<1> QED BY <1>1, <1>3 DEF Contract!Next

LEMMA OpenOrderMaps ==
  ASSUME IInv, IInv', NEW o \in Orders, NEW released \in BOOLEAN, OpenOrder(o, released)
  PROVE  [Contract!Next]_(Contract!vars)
<1>1. TypeOK /\ TypeOK'
  BY DEF IInv
<1>2. \A p \in Orders : p # o => pay'[p] = pay[p] /\ reg'[p] = reg[p]
  BY <1>1 DEF OpenOrder, TypeOK
<1>3. pay[o].status = "none" /\ reg[o] = "none" /\ pay'[o].status = "PENDING"
      /\ reg'[o] \in {"PAYMENT_PENDING", "CANCELLED"}
  BY <1>1 DEF OpenOrder, IInv, TypeOK, OrdersHaveRows, Payment
<1>4. DebtOf(pay'[o]) = DebtOf(pay[o])
  BY <1>1 DEF OpenOrder, TypeOK, Payment, DebtOf
<1> QED BY <1>1, <1>2, <1>3, <1>4, OneOrderMaps DEF Moves

LEMMA StaffMaps ==
  ASSUME IInv, IInv', StaffStep
  PROVE  [Contract!Next]_(Contract!vars)
<1>1. TypeOK /\ TypeOK'
  BY DEF IInv
<1>2. ASSUME NEW o \in Orders, ReconcileAsAdmin(o) PROVE [Contract!Next]_(Contract!vars)
  BY <1>2 DEF ReconcileAsAdmin, regVars, Contract!vars
<1>3. ASSUME NEW o \in Orders, ResolveException(o) PROVE [Contract!Next]_(Contract!vars)
  <2>1. \A p \in Orders : p # o => pay'[p] = pay[p] /\ reg'[p] = reg[p]
    BY <1>1, <1>3 DEF ResolveException, SetPayment, TypeOK, regVars
  <2>2. reg'[o] = reg[o] /\ pay'[o].status = pay[o].status
    BY <1>1, <1>3 DEF ResolveException, SetPayment, TypeOK, Payment, regVars
  <2>3. DebtOf(pay[o]) = "owed" /\ DebtOf(pay'[o]) = "settled"
    BY <1>1, <1>3 DEF ResolveException, SetPayment, TypeOK, Payment, DebtOf
  <2> QED BY <1>1, <2>1, <2>2, <2>3, OneOrderMaps DEF Moves
<1>4. ASSUME NEW o \in Orders, CancelAsAdmin(o) PROVE [Contract!Next]_(Contract!vars)
  <2>1. \A p \in Orders : p # o => pay'[p] = pay[p] /\ reg'[p] = reg[p]
    BY <1>1, <1>4 DEF CancelAsAdmin, TypeOK
  <2>2. reg[o] \in {"PAYMENT_PENDING", "CONFIRMED"} /\ reg'[o] = "CANCELLED" /\ pay' = pay
    BY <1>1, <1>4 DEF CancelAsAdmin, TypeOK
  <2> QED BY <1>1, <2>1, <2>2, OneOrderMaps DEF Moves
<1> QED BY <1>2, <1>3, <1>4 DEF StaffStep

LEMMA StepMaps == IInv /\ IInv' /\ [Next]_vars => [Contract!Next]_(Contract!vars)
<1> SUFFICES ASSUME IInv, IInv', [Next]_vars PROVE [Contract!Next]_(Contract!vars)
  OBVIOUS
<1>1. CASE ProviderStep
  <2>1. ASSUME NEW o \in Orders, NEW captured \in BOOLEAN, NEW matches \in BOOLEAN,
               Attempt(o, captured, matches)
        PROVE  UNCHANGED <<reg, pay>>
    BY <2>1 DEF Attempt, regVars
  <2>2. ASSUME NEW c \in charges, NEW n \in Reports, RejectStale(c, n)
        PROVE  UNCHANGED <<reg, pay>>
    BY <2>2 DEF RejectStale, regVars
  <2>3. UNCHANGED <<reg, pay>> => [Contract!Next]_(Contract!vars)
    BY DEF Contract!vars
  <2> QED BY <1>1, <2>1, <2>2, <2>3, ProcessMaps DEF ProviderStep, DeliverWebhook
<1>2. CASE JobStep
  <2>1. ASSUME NEW c \in charges, ApplyPolled(c) PROVE [Contract!Next]_(Contract!vars)
    BY <2>1, ProcessMaps, SettlementAssumption DEF ApplyPolled
  <2>2. CASE \/ StartReconcile
             \/ \E o \in Orders : Poll(o) \/ PollFails(o)
             \/ \E c \in charges : LosePolled(c)
    BY <2>2 DEF StartReconcile, Poll, PollFails, LosePolled, regVars, Contract!vars
  <2> QED BY <1>2, <2>1, <2>2 DEF JobStep
<1>3. CASE ReleaseExpiredHolds \/ \E S \in SUBSET Orders : CancelHolds(S)
  BY <1>3, ReleaseMaps DEF ReleaseExpiredHolds, CancelHolds
<1>4. CASE Tick \/ UNCHANGED vars
  BY <1>4 DEF Tick, vars, regVars, Contract!vars
<1> QED BY <1>1, <1>2, <1>3, <1>4, OpenOrderMaps, StaffMaps DEF Next

\* Settlement, with its retries, polls and races, keeps the contract of an
\* order: the refinement TLC checks as KeepsOrderContract.
THEOREM OrderContractKept == Spec => KeepsOrderContract
<1>1. Init => Contract!Init
  BY DEF Init, Contract!Init, SeatOf, DebtOf
<1> QED
  BY <1>1, Inductive, StepMaps, PTL DEF Spec, KeepsOrderContract, Contract!Spec
=============================================================================
