----------------------------- MODULE Settlement -----------------------------
(***************************************************************************)
(* Settlement of paid orders: lib/payments/webhook.ts (the one code path   *)
(* that settles a payment), the reconciliation job that polls the provider *)
(* for missed webhooks, staff's reconcile-now and resolve-exception        *)
(* actions, and the seat releases they race.                               *)
(*                                                                         *)
(* The payment provider is the environment: it takes any number of         *)
(* attempts on an order, and reports each of them late, twice, out of      *)
(* order or not at all.  A charge is one attempt; an event is one report   *)
(* of it, and carries the event id the receiver dedupes on.                *)
(*                                                                         *)
(* CONFIRMED stands for the seat-holding statuses, PENDING holds do not    *)
(* have an order yet (Reservation.tla has both).                           *)
(***************************************************************************)
EXTENDS Integers, FiniteSets

CONSTANTS
  Orders,           \* orders that may be opened
  MaxCharges,       \* bound on the attempts made at the provider
  Reports,          \* distinct event ids that may report one charge
  HoldTTL,          \* RESERVATION_TTL_MS
  MinAge,           \* RECONCILE_MIN_AGE_MS
  FailedGrace,      \* RECONCILE_FAILED_GRACE_MS
  BatchSize,        \* RECONCILE_BATCH_SIZE
  MaxTime           \* bound on the clock

ChargeIds == 1..MaxCharges
Events    == ChargeIds \X Reports
Polled    == 1                    \* the report id get-payments yields

ASSUME SettlementAssumption ==
  /\ IsFiniteSet(Orders)
  /\ MaxCharges \in Nat /\ Polled \in Reports
  /\ HoldTTL \in Nat /\ MinAge \in Nat /\ FailedGrace \in Nat
  /\ BatchSize \in Nat \ {0} /\ MaxTime \in Nat

VARIABLES
  now,          \* the clock
  reg,          \* registrations.status of the order's registration
  expiresAt,    \* registrations.expiresAt
  createdAt,    \* payments.createdAt
  pay,          \* the payments row of each order
  charges,      \* the provider's books: every attempt made so far
  outcome,      \* payment_webhook_events.outcome, "none" before delivery
  batch,        \* orders the running reconciliation has yet to poll
  fetched,      \* events polled and not yet applied
  givenUp       \* orders whose seat staff cancelled (admin_actions)

regVars == <<reg, expiresAt>>
jobVars == <<batch, fetched>>
vars    == <<now, regVars, createdAt, pay, charges, outcome, jobVars, givenUp>>

-----------------------------------------------------------------------------
Exceptions == {"PAYMENT_AFTER_HOLD_EXPIRED", "DUPLICATE_PAYMENT", "AMOUNT_MISMATCH"}

\* payments: status, providerPaymentId (0 for null), updatedAt, the exception
\* and whether staff resolved it.
Payment ==
  [status : {"none", "PENDING", "PAID", "FAILED"}, id : {0} \cup ChargeIds,
   updatedAt : 0..MaxTime, exc : {"none"} \cup Exceptions, resolved : BOOLEAN]

Charge ==
  [id : ChargeIds, order : Orders, captured : BOOLEAN, matches : BOOLEAN, at : 0..MaxTime]

Outcome ==
  {"none", "REJECTED_STALE", "IGNORED_FAILURE_AFTER_CAPTURE", "FAILED",
   "DUPLICATE_CAPTURE", "CONFIRMED"} \cup Exceptions

\* claimEvent re-claims an event that was never processed.
Unprocessed == {"none", "REJECTED_STALE"}

Init ==
  /\ now = 0
  /\ reg = [o \in Orders |-> "none"]
  /\ expiresAt = [o \in Orders |-> 0]
  /\ createdAt = [o \in Orders |-> 0]
  /\ pay = [o \in Orders |-> [status |-> "none", id |-> 0, updatedAt |-> 0,
                              exc |-> "none", resolved |-> FALSE]]
  /\ charges = {}
  /\ outcome = [e \in Events |-> "none"]
  /\ batch = {} /\ fetched = {}
  /\ givenUp = {}

-----------------------------------------------------------------------------
(* The order and the provider's side of it. *)

\* Second transaction of reserveAndStartPayment.  The hold may be gone: the
\* payment row is inserted all the same.  The bounded clock outlives MinAge.
OpenOrder(o, released) ==
  /\ pay[o].status = "none"
  /\ now + MinAge < MaxTime
  /\ reg' = [reg EXCEPT ![o] = IF released THEN "CANCELLED" ELSE "PAYMENT_PENDING"]
  /\ expiresAt' = [expiresAt EXCEPT ![o] = now + HoldTTL]
  /\ createdAt' = [createdAt EXCEPT ![o] = now]
  /\ pay' = [pay EXCEPT ![o].status = "PENDING", ![o].updatedAt = now]
  /\ UNCHANGED <<now, charges, outcome, jobVars, givenUp>>

\* The delegate tries to pay.  The hosted page stays open after a failure,
\* and may be open twice.
Attempt(o, captured, matches) ==
  /\ pay[o].status # "none"
  /\ Cardinality(charges) < MaxCharges
  /\ captured \/ matches
  /\ charges' = charges \cup
       {[id |-> Cardinality(charges) + 1, order |-> o,
         captured |-> captured, matches |-> matches, at |-> now]}
  /\ UNCHANGED <<now, regVars, createdAt, pay, outcome, jobVars, givenUp>>

-----------------------------------------------------------------------------
(* applyEvent: the payment row, then the registration row, are locked, so  *)
(* one event is one step.  c is the charge the event reports.              *)

AlreadyCaptured(c) == pay[c.order].status = "PAID"

\* Mutant: a capture is judged without the hold's expiry.
MutantHoldExpired(c) == FALSE

HoldExpired(c) == reg[c.order] = "PAYMENT_PENDING" /\ expiresAt[c.order] < c.at

\* Mutant: a capture brings a released seat back.
MutantInTime(c) == reg[c.order] \in {"PAYMENT_PENDING", "CANCELLED"} /\ ~HoldExpired(c)

InTime(c) == reg[c.order] = "PAYMENT_PENDING" /\ ~HoldExpired(c)

\* providerPaymentId: payment.providerPaymentId ?? event.providerPaymentId
FirstId(id, c) == IF id = 0 THEN c.id ELSE id

\* An exception that is still open is never overwritten.
Raise(p, reason) ==
  IF p.exc # "none" /\ ~p.resolved
  THEN p
  ELSE [p EXCEPT !.exc = reason, !.resolved = FALSE]

SetPayment(o, p) == pay' = [pay EXCEPT ![o] = [p EXCEPT !.updatedAt = now]]

\* Mutant: the payment's status is written to the registration.
MutantReleaseSeat(o) == IF reg[o] = "PAYMENT_PENDING" THEN [reg EXCEPT ![o] = "FAILED"] ELSE reg

ReleaseSeat(o) == IF reg[o] = "PAYMENT_PENDING" THEN [reg EXCEPT ![o] = "CANCELLED"] ELSE reg

IgnoreFailure(c, e) ==
  /\ ~c.captured /\ AlreadyCaptured(c)
  /\ outcome' = [outcome EXCEPT ![e] = "IGNORED_FAILURE_AFTER_CAPTURE"]
  /\ UNCHANGED <<pay, reg>>

\* Mutant: a failure reported late undoes a capture.
MutantFail(c, e) ==
  /\ ~c.captured
  /\ SetPayment(c.order, [pay[c.order] EXCEPT !.status = "FAILED", !.id = FirstId(@, c)])
  /\ reg' = ReleaseSeat(c.order)
  /\ outcome' = [outcome EXCEPT ![e] = "FAILED"]

Fail(c, e) ==
  /\ ~c.captured /\ ~AlreadyCaptured(c)
  /\ SetPayment(c.order, [pay[c.order] EXCEPT !.status = "FAILED", !.id = FirstId(@, c)])
  /\ reg' = ReleaseSeat(c.order)
  /\ outcome' = [outcome EXCEPT ![e] = "FAILED"]

\* Mutant: any capture of a paid order passes for a repeat.
MutantDuplicateCapture(c, e) ==
  /\ c.captured /\ AlreadyCaptured(c)
  /\ outcome' = [outcome EXCEPT ![e] = "DUPLICATE_CAPTURE"]
  /\ UNCHANGED <<pay, reg>>

\* The charge on file, reported again under another event id.
DuplicateCapture(c, e) ==
  /\ c.captured /\ AlreadyCaptured(c)
  /\ pay[c.order].id = c.id
  /\ outcome' = [outcome EXCEPT ![e] = "DUPLICATE_CAPTURE"]
  /\ UNCHANGED <<pay, reg>>

SecondCharge(c, e) ==
  /\ c.captured /\ AlreadyCaptured(c)
  /\ pay[c.order].id # c.id
  /\ SetPayment(c.order, Raise(pay[c.order], "DUPLICATE_PAYMENT"))
  /\ outcome' = [outcome EXCEPT ![e] = "DUPLICATE_PAYMENT"]
  /\ UNCHANGED reg

AmountMismatch(c, e) ==
  /\ c.captured /\ ~AlreadyCaptured(c)
  /\ ~c.matches
  /\ SetPayment(c.order,
       [Raise(pay[c.order], "AMOUNT_MISMATCH") EXCEPT !.id = FirstId(@, c)])
  /\ outcome' = [outcome EXCEPT ![e] = "AMOUNT_MISMATCH"]
  /\ UNCHANGED reg

Confirm(c, e) ==
  /\ c.captured /\ ~AlreadyCaptured(c)
  /\ c.matches /\ InTime(c)
  /\ SetPayment(c.order, [pay[c.order] EXCEPT !.status = "PAID", !.id = c.id])
  /\ reg' = [reg EXCEPT ![c.order] = "CONFIRMED"]
  /\ outcome' = [outcome EXCEPT ![e] = "CONFIRMED"]

\* Mutant: late money is recorded, and nobody is told.
MutantLateCapture(c, e) ==
  /\ c.captured /\ ~AlreadyCaptured(c)
  /\ c.matches /\ ~InTime(c)
  /\ SetPayment(c.order, [pay[c.order] EXCEPT !.status = "PAID", !.id = c.id])
  /\ reg' = ReleaseSeat(c.order)
  /\ outcome' = [outcome EXCEPT ![e] = "PAYMENT_AFTER_HOLD_EXPIRED"]

LateCapture(c, e) ==
  /\ c.captured /\ ~AlreadyCaptured(c)
  /\ c.matches /\ ~InTime(c)
  /\ SetPayment(c.order,
       [Raise(pay[c.order], "PAYMENT_AFTER_HOLD_EXPIRED") EXCEPT !.status = "PAID", !.id = c.id])
  /\ reg' = ReleaseSeat(c.order)
  /\ outcome' = [outcome EXCEPT ![e] = "PAYMENT_AFTER_HOLD_EXPIRED"]

ApplyEvent(c, e) ==
  \/ IgnoreFailure(c, e)
  \/ Fail(c, e)
  \/ DuplicateCapture(c, e)
  \/ SecondCharge(c, e)
  \/ AmountMismatch(c, e)
  \/ Confirm(c, e)
  \/ LateCapture(c, e)

ClaimEvent(e) == outcome[e] \in Unprocessed

\* A second delivery of a processed event changes nothing.
ProcessEvent(c, e) ==
  IF ClaimEvent(e) THEN ApplyEvent(c, e) ELSE UNCHANGED <<pay, reg, outcome>>

\* The webhook endpoint.
DeliverWebhook(c, n) ==
  /\ ProcessEvent(c, <<c.id, n>>)
  /\ UNCHANGED <<now, expiresAt, createdAt, charges, jobVars, givenUp>>

\* Signed outside the replay window: noted, and left unprocessed.
RejectStale(c, n) ==
  /\ ClaimEvent(<<c.id, n>>)
  /\ outcome' = [outcome EXCEPT ![<<c.id, n>>] = "REJECTED_STALE"]
  /\ UNCHANGED <<now, regVars, createdAt, pay, charges, jobVars, givenUp>>

-----------------------------------------------------------------------------
(* The reconciliation job, every five minutes. *)

Stale ==
  {o \in Orders : \/ pay[o].status = "PENDING" /\ createdAt[o] < now - MinAge
                  \/ pay[o].status = "FAILED" /\ pay[o].updatedAt >= now - FailedGrace}

\* ORDER BY createdAt ASC LIMIT BatchSize, ties in any order.
OldestFirst(S, size) ==
  {B \in SUBSET S : /\ Cardinality(B) = IF Cardinality(S) < size THEN Cardinality(S) ELSE size
                    /\ \A o \in B, p \in S \ B : createdAt[o] <= createdAt[p]}

\* Answers of an earlier run, or of staff's polls, may still be in flight.
StartReconcile ==
  /\ batch = {}
  /\ Stale # {}
  /\ batch' \in OldestFirst(Stale, BatchSize)
  /\ UNCHANGED <<now, regVars, createdAt, pay, charges, outcome, fetched, givenUp>>

AttemptsOn(o) == {c \in charges : c.order = o}

\* Attempts are listed in the order they were made.
First(S) == {c \in S : \A d \in S : c.id <= d.id}
Last(S)  == {c \in S : \A d \in S : c.id >= d.id}

\* Mutant: the last attempt decides, so a failure hides an earlier success.
MutantDecisive(o) == {<<c.id, Polled>> : c \in Last(AttemptsOn(o))}

\* checkOrderPayments: the first success wins, else the last failure, else
\* nothing decisive.
Decisive(o) ==
  LET successes == {c \in AttemptsOn(o) : c.captured}
  IN  {<<c.id, Polled>> :
         c \in IF successes # {} THEN First(successes) ELSE Last(AttemptsOn(o))}

\* get-payments answers.  The answer is applied later.
Poll(o) ==
  /\ o \in batch
  /\ batch' = batch \ {o}
  /\ fetched' = fetched \cup Decisive(o)
  /\ UNCHANGED <<now, regVars, createdAt, pay, charges, outcome, givenUp>>

\* get-payments times out, or the run's deadline skips the order.
PollFails(o) ==
  /\ o \in batch
  /\ batch' = batch \ {o}
  /\ UNCHANGED <<now, regVars, createdAt, pay, charges, outcome, fetched, givenUp>>

\* processNormalizedPaymentEvent, with no signed timestamp to reject.
ApplyPolled(c) ==
  /\ <<c.id, Polled>> \in fetched
  /\ ProcessEvent(c, <<c.id, Polled>>)
  /\ fetched' = fetched \ {<<c.id, Polled>>}
  /\ UNCHANGED <<now, expiresAt, createdAt, charges, batch, givenUp>>

\* The worker that polled is evicted before it applied the answer.
LosePolled(c) ==
  /\ <<c.id, Polled>> \in fetched
  /\ fetched' = fetched \ {<<c.id, Polled>>}
  /\ UNCHANGED <<now, regVars, createdAt, pay, charges, outcome, batch, givenUp>>

-----------------------------------------------------------------------------
(* Staff. *)

ReconcileAsAdmin(o) ==
  /\ pay[o].status \in {"PENDING", "FAILED"}
  /\ fetched' = fetched \cup Decisive(o)
  /\ UNCHANGED <<now, regVars, createdAt, pay, charges, outcome, batch, givenUp>>

ResolveException(o) ==
  /\ pay[o].exc # "none" /\ ~pay[o].resolved
  /\ SetPayment(o, [pay[o] EXCEPT !.resolved = TRUE])
  /\ UNCHANGED <<now, regVars, createdAt, charges, outcome, jobVars, givenUp>>

CancelAsAdmin(o) ==
  /\ reg[o] \in {"PAYMENT_PENDING", "CONFIRMED"}
  /\ reg' = [reg EXCEPT ![o] = "CANCELLED"]
  /\ givenUp' = givenUp \cup {o}
  /\ UNCHANGED <<now, expiresAt, createdAt, pay, charges, outcome, jobVars>>

-----------------------------------------------------------------------------
(* Other releases: the expired-hold sweeps, and cancelling a conference or *)
(* deleting an account, which release holds whatever their age.            *)

Release(S) ==
  /\ S # {} /\ \A o \in S : reg[o] = "PAYMENT_PENDING"
  /\ reg' = [o \in Orders |-> IF o \in S THEN "CANCELLED" ELSE reg[o]]
  /\ UNCHANGED <<now, expiresAt, createdAt, pay, charges, outcome, jobVars, givenUp>>

ReleaseExpiredHolds == Release({o \in Orders : reg[o] = "PAYMENT_PENDING" /\ expiresAt[o] < now})

CancelHolds(S) == Release(S)

Tick ==
  /\ now < MaxTime
  /\ now' = now + 1
  /\ UNCHANGED <<regVars, createdAt, pay, charges, outcome, jobVars, givenUp>>

-----------------------------------------------------------------------------
ProviderStep ==
  \/ \E o \in Orders, captured, matches \in BOOLEAN : Attempt(o, captured, matches)
  \/ \E c \in charges, n \in Reports : DeliverWebhook(c, n) \/ RejectStale(c, n)

JobStep ==
  \/ StartReconcile
  \/ \E o \in Orders : Poll(o) \/ PollFails(o)
  \/ \E c \in charges : ApplyPolled(c) \/ LosePolled(c)

StaffStep ==
  \E o \in Orders : ReconcileAsAdmin(o) \/ ResolveException(o) \/ CancelAsAdmin(o)

Next ==
  \/ \E o \in Orders, released \in BOOLEAN : OpenOrder(o, released)
  \/ ProviderStep
  \/ JobStep
  \/ StaffStep
  \/ ReleaseExpiredHolds
  \/ \E S \in SUBSET Orders : CancelHolds(S)
  \/ Tick

Spec == Init /\ [][Next]_vars

\* The clock runs and the cron trigger fires.  A provider that is asked again
\* and again answers now and then, and not every worker is evicted.  Nothing
\* is assumed of webhooks, delegates or staff.
Fairness ==
  /\ WF_vars(Tick)
  /\ WF_vars(StartReconcile)
  /\ \A o \in Orders : WF_vars(PollFails(o)) /\ SF_vars(Poll(o))
  /\ \A id \in ChargeIds : SF_vars(\E c \in charges : c.id = id /\ ApplyPolled(c))

FairSpec == Spec /\ Fairness

-----------------------------------------------------------------------------
(* Properties. *)

\* Types of the variables; charge ids are dense and name one charge each.
TypeOK ==
  /\ now \in 0..MaxTime
  /\ reg \in [Orders -> {"none", "PAYMENT_PENDING", "CONFIRMED", "CANCELLED"}]
  /\ expiresAt \in [Orders -> 0..(MaxTime + HoldTTL)]
  /\ createdAt \in [Orders -> 0..MaxTime]
  /\ pay \in [Orders -> Payment]
  /\ charges \subseteq Charge /\ {c.id : c \in charges} = 1..Cardinality(charges)
  /\ outcome \in [Events -> Outcome]
  /\ batch \subseteq Orders /\ fetched \subseteq Events /\ givenUp \subseteq Orders

\* webhook.ts:28-29 ("money that arrives with no valid registration behind it
\* is marked PAID with a payment exception"): every capture the receiver has
\* processed is the payment on file, or left an exception on the order.
EveryChargeAccounted ==
  \A c \in charges, n \in Reports :
    (c.captured /\ outcome[<<c.id, n>>] \notin Unprocessed) =>
      LET p == pay[c.order]
      IN  (p.status = "PAID" /\ p.id = c.id) \/ p.exc # "none"

\* An order that is PAID has its seat, or an exception staff can see, or an
\* audit record of the staff member who took the seat away.
PaidMeansSeatOrException ==
  \A o \in Orders :
    pay[o].status = "PAID" =>
      reg[o] = "CONFIRMED" \/ pay[o].exc # "none" \/ o \in givenUp

\* webhook.ts:328-366: a seat is only ever held against a capture of the right
\* amount that the provider made while the hold was running, however late,
\* often or out of order the reports came in.
SeatPaidInTime ==
  \A o \in Orders :
    reg[o] = "CONFIRMED" =>
      /\ pay[o].status = "PAID"
      /\ \E c \in charges : /\ c.id = pay[o].id /\ c.order = o
                            /\ c.captured /\ c.matches /\ c.at <= expiresAt[o]

\* webhook.ts:257-261: no later report (a failed attempt, a second capture)
\* unsettles a captured payment or replaces the charge on file.
PaidStays ==
  \A o \in Orders :
    pay[o].status = "PAID" => pay'[o].status = "PAID" /\ pay'[o].id = pay[o].id

PaymentNeverUndone == [][PaidStays]_pay

\* reconcile-cashfree-orders.ts:11-12 ("the safety net for an order whose
\* webhook never arrives"): a captured order is settled or raised to staff
\* with no webhook at all; only one marked FAILED can slip away, and only
\* once its grace window is over.
MissedWebhookRecovered ==
  \A o \in Orders :
    (pay[o].status # "none" /\ \E c \in AttemptsOn(o) : c.captured) ~>
      \/ pay[o].status = "PAID" \/ pay[o].exc # "none"
      \/ pay[o].status = "FAILED" /\ pay[o].updatedAt < now - FailedGrace

-----------------------------------------------------------------------------
(* The promise of OrderContract, read off the rows. *)

SeatOf(status) ==
  CASE status = "none"            -> "none"
    [] status = "PAYMENT_PENDING" -> "held"
    [] status = "CONFIRMED"       -> "seated"
    [] status = "CANCELLED"       -> "released"

DebtOf(p) == IF p.exc = "none" THEN "none" ELSE IF p.resolved THEN "settled" ELSE "owed"

Contract == INSTANCE OrderContract WITH
  seat <- [o \in Orders |-> SeatOf(reg[o])],
  paid <- {o \in Orders : pay[o].status = "PAID"},
  debt <- [o \in Orders |-> DebtOf(pay[o])]

\* The settlement of payments implements the contract of an order.
KeepsOrderContract == Contract!Spec
=============================================================================
