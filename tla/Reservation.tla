---------------------------- MODULE Reservation ----------------------------
(***************************************************************************)
(* Seat reservation of one conference: lib/actions/registration.ts         *)
(* (initiateRegistration and the expired-hold sweep), with every other     *)
(* writer of registrations.status it races: the release job, the payment   *)
(* webhook, an administrator's cancellation, account deletion, conference  *)
(* lifecycle changes, check-in, and the organizer's edits of capacities.   *)
(*                                                                         *)
(* A call is one invocation of initiateRegistration by an HTTP worker and  *)
(* names the row it may insert.  Each database statement that takes a lock *)
(* or commits is a step; the calls interleave between the steps.           *)
(***************************************************************************)
EXTENDS Integers, FiniteSets

CONSTANTS
  Calls,            \* invocations of initiateRegistration, one row each
  Users, Keys,      \* delegates, and the Idempotency-Key values they send
  NoKey,            \* the call carries no Idempotency-Key
  Nobody,           \* no call holds the lock, no registration is named
  Passes,           \* registration products of the conference
  Extras,           \* committees, portfolios and accommodation options
  Rank,             \* order in which a transaction locks pools
  Requests,         \* what a call may ask for
  InitialCapacity,
  Capacities,       \* values the organizer may set a capacity to
  HoldTTL,          \* RESERVATION_TTL_MS
  Deadline,         \* muns.registrationDeadline
  MaxTime           \* bound on the clock

Pools == Passes \cup Extras

RequestRecord ==
  [user : Users, key : Keys \cup {NoKey}, pass : Passes,
   extras : SUBSET Extras, free : BOOLEAN]

BasketOf(q) == {q.pass} \cup q.extras

ASSUME CallsAssumption == IsFiniteSet(Calls) /\ Nobody \notin Calls

ASSUME RequestsAssumption == Requests \subseteq RequestRecord /\ NoKey \notin Keys

\* pass, then committee, then portfolio, then accommodation option.
ASSUME RankAssumption ==
  /\ Passes \cap Extras = {}
  /\ Rank \in [Pools -> Nat]
  /\ \A q \in Requests : \A p1, p2 \in BasketOf(q) : Rank[p1] = Rank[p2] => p1 = p2
  /\ \A q \in Requests : \A p \in q.extras : Rank[q.pass] < Rank[p]

ASSUME CapacityAssumption ==
  Capacities \subseteq Nat /\ InitialCapacity \in [Pools -> Capacities]

ASSUME TimeAssumption ==
  /\ HoldTTL \in Nat /\ Deadline \in Nat /\ MaxTime \in Nat
  /\ Deadline + HoldTTL < MaxTime

VARIABLES
  now,          \* the clock
  munStatus,    \* muns.status
  capacity,     \* capacity of each pool (availability, for a portfolio)
  onSale,       \* passes whose status is 'active'
  deleted,      \* users whose account was deleted
  req,          \* what each call asks for
  pc,           \* where each call stands
  answer,       \* the registration a finished call returned to its client
  lock,         \* the transaction that holds each pool's FOR UPDATE lock
  seen,         \* active registrations each call counted under its lock
  reg,          \* registrations.status, "none" before the insert
  expiresAt,    \* registrations.expiresAt
  keyed,        \* rows whose idempotencyKey is still set
  job           \* the release-expired-holds job, between its two statements

callVars == <<req, pc, answer, lock, seen>>
rowVars  == <<reg, expiresAt, keyed>>
confVars == <<munStatus, capacity, onSale, deleted>>
vars     == <<now, confVars, callVars, rowVars, job>>

-----------------------------------------------------------------------------
(* Statuses. *)

Releasable == {"PENDING", "PAYMENT_PENDING"}

SeatHolding == {"CONFIRMED", "ATTENDED", "NO_SHOW"}

ActiveStatuses == {"PENDING", "PAYMENT_PENDING", "CONFIRMED", "ATTENDED", "NO_SHOW"}

RegistrationStatus == {"none", "CANCELLED"} \cup Releasable \cup SeatHolding

MunStatus ==
  {"REGISTRATION_OPEN", "REGISTRATION_CLOSED", "CONFERENCE_ACTIVE", "SUSPENDED", "CANCELLED"}

\* "reserve" is the reservation transaction, "order" the provider call after
\* its commit, "record" the second transaction.
Working == {"sweep", "enter", "reserve", "order", "record"}

-----------------------------------------------------------------------------
(* What the statements read. *)

User(c)   == req[c].user
Basket(c) == BasketOf(req[c])

Active(r) == reg[r] \in ActiveStatuses

\* Mutant: seats that are held but not paid do not count.
MutantCounted(p) == {r \in Calls : reg[r] \in SeatHolding /\ p \in Basket(r)}

\* SELECT ... WHERE registrationProductId = p AND status IN (active)
Counted(p) == {r \in Calls : Active(r) /\ p \in Basket(r)}

\* Mutant: the key is looked up among the rows of one pass.
MutantSameKey(c) ==
  {r \in keyed : /\ User(r) = User(c) /\ req[r].key = req[c].key /\ req[c].key # NoKey
                /\ req[r].pass = req[c].pass}

\* findByIdempotencyKey: the row this user already inserted under this key.
SameKey(c) ==
  {r \in keyed : User(r) = User(c) /\ req[r].key = req[c].key /\ req[c].key # NoKey}

HoldExpired(r, at) == reg[r] \in Releasable /\ expiresAt[r] < at

\* Mutant: the conference is read without FOR SHARE.
MutantMunShared == FALSE

MunShared == \E c \in Calls : pc[c] = "reserve"

Holds(c) == {p \in Pools : lock[p] = c}

\* Mutant: a released row gets a status of its own.
MutantReleased(S) == [r \in Calls |-> IF r \in S THEN "EXPIRED" ELSE reg[r]]

Released(S) == [r \in Calls |-> IF r \in S THEN "CANCELLED" ELSE reg[r]]

-----------------------------------------------------------------------------
Init ==
  /\ now = 0
  /\ munStatus = "REGISTRATION_OPEN"
  /\ capacity = InitialCapacity
  /\ onSale = Passes
  /\ deleted = {}
  /\ req \in [Calls -> Requests]
  /\ pc = [c \in Calls |-> "idle"]
  /\ answer = [c \in Calls |-> Nobody]
  /\ lock = [p \in Pools |-> Nobody]
  /\ seen = [c \in Calls |-> [p \in Pools |-> {}]]
  /\ reg = [r \in Calls |-> "none"]
  /\ expiresAt = [r \in Calls |-> 0]
  /\ keyed = {}
  /\ job = [running |-> FALSE, at |-> 0]

-----------------------------------------------------------------------------
(* Leaving the call: every lock its transaction held goes with it. *)

Unlocked(c) == [p \in Pools |-> IF lock[p] = c THEN Nobody ELSE lock[p]]

Leave(c, where, named) ==
  /\ pc' = [pc EXCEPT ![c] = where]
  /\ answer' = [answer EXCEPT ![c] = named]
  /\ lock' = Unlocked(c)
  /\ seen' = [seen EXCEPT ![c] = [p \in Pools |-> {}]]
  /\ UNCHANGED req

\* Mutant: the row of the key is returned whatever its pass.
MutantReplay(c, r) == Leave(c, "done", r)

\* toReplay: the same key for a different pass is refused, not answered.
Replay(c, r) ==
  IF req[r].pass = req[c].pass THEN Leave(c, "done", r) ELSE Leave(c, "refused", Nobody)

Proceed(c, where) ==
  /\ pc' = [pc EXCEPT ![c] = where]
  /\ UNCHANGED <<req, answer, lock, seen>>

-----------------------------------------------------------------------------
(* initiateRegistration. *)

Begin(c) ==
  /\ pc[c] = "idle"
  /\ User(c) \notin deleted
  /\ IF SameKey(c) = {}
     THEN Proceed(c, "sweep")
     ELSE \E r \in SameKey(c) : Replay(c, r)
  /\ UNCHANGED <<now, confVars, rowVars, job>>

\* The lazy sweep of the pass, then of the whole conference.
SweepExpired(c) ==
  /\ pc[c] = "sweep"
  /\ reg' = Released({r \in Calls : HoldExpired(r, now)})
  /\ Proceed(c, "enter")
  /\ UNCHANGED <<now, confVars, expiresAt, keyed, job>>

\* SELECT ... FOR SHARE on the conference, and its registration window.
LockMun(c) ==
  /\ pc[c] = "enter"
  /\ IF munStatus = "REGISTRATION_OPEN" /\ now <= Deadline
     THEN Proceed(c, "reserve")
     ELSE Leave(c, "refused", Nobody)
  /\ UNCHANGED <<now, confVars, rowVars, job>>

\* Mutant: pools are locked in the order they come, as a deadlock needs.
MutantUnorderedWaits(c, p) == pc[c] = "reserve" /\ p \in Basket(c) /\ lock[p] = Nobody

\* The call waits for the first pool of its basket it has not locked yet.
Waits(c, p) ==
  /\ pc[c] = "reserve"
  /\ p \in Basket(c)
  /\ lock[p] = Nobody
  /\ \A q \in Basket(c) : Rank[q] < Rank[p] => lock[q] = c

\* Mutant: off by one at a full pool.
MutantHasRoom(p) == Cardinality(Counted(p)) <= capacity[p]

HasRoom(p) == Cardinality(Counted(p)) < capacity[p]

\* Mutant: no check for a registration the delegate already has.
MutantPassAdmits(c, p) == p \in Passes => p \in onSale

\* Checks made under the pass lock only.
PassAdmits(c, p) ==
  p \in Passes => /\ p \in onSale
                  /\ \A r \in Counted(p) : User(r) # User(c)

ReplaysUnderLock(c, p) == p \in Passes /\ p \in onSale /\ SameKey(c) # {}

\* SELECT ... FOR UPDATE on one pool, then the checks and the count under it.
LockPool(c, p) ==
  /\ Waits(c, p)
  /\ IF ReplaysUnderLock(c, p)
     THEN \E r \in SameKey(c) : Replay(c, r)
     ELSE IF PassAdmits(c, p) /\ HasRoom(p)
          THEN /\ lock' = [lock EXCEPT ![p] = c]
               /\ seen' = [seen EXCEPT ![c][p] = Counted(p)]
               /\ UNCHANGED <<req, pc, answer>>
          ELSE Leave(c, "refused", Nobody)
  /\ UNCHANGED <<now, confVars, rowVars, job>>

AllLocked(c) == pc[c] = "reserve" /\ Basket(c) \subseteq Holds(c)

\* The row is inserted and the transaction commits, which frees its locks.
Insert(c) ==
  /\ AllLocked(c)
  /\ SameKey(c) = {}
  /\ reg' = [reg EXCEPT ![c] = IF req[c].free THEN "CONFIRMED" ELSE "PENDING"]
  /\ expiresAt' = IF req[c].free THEN expiresAt ELSE [expiresAt EXCEPT ![c] = now + HoldTTL]
  /\ keyed' = IF req[c].key = NoKey THEN keyed ELSE keyed \cup {c}
  /\ IF req[c].free THEN Leave(c, "done", c) ELSE Leave(c, "order", Nobody)
  /\ UNCHANGED <<now, confVars, job>>

\* The unique index on (userId, idempotencyKey) refuses the row: the call
\* rolls back and answers with the row that got there first.
InsertCollides(c) ==
  /\ AllLocked(c)
  /\ \E r \in SameKey(c) : Replay(c, r)
  /\ UNCHANGED <<now, confVars, rowVars, job>>

CreateOrder(c) ==
  /\ pc[c] = "order"
  /\ Proceed(c, "record")
  /\ UNCHANGED <<now, confVars, rowVars, job>>

\* createOrder throws: the seat is released unless someone else did already.
CreateOrderFails(c) ==
  /\ pc[c] = "order"
  /\ IF reg[c] = "PENDING"
     THEN reg' = Released({c}) /\ keyed' = keyed \ {c}
     ELSE UNCHANGED <<reg, keyed>>
  /\ Leave(c, "refused", Nobody)
  /\ UNCHANGED <<now, confVars, expiresAt, job>>

\* Second transaction: PAYMENT_PENDING and the payment row.
RecordOrder(c) ==
  /\ pc[c] = "record"
  /\ reg' = IF reg[c] = "PENDING" THEN [reg EXCEPT ![c] = "PAYMENT_PENDING"] ELSE reg
  /\ Leave(c, "done", c)
  /\ UNCHANGED <<now, confVars, expiresAt, keyed, job>>

\* A check on data the model leaves out refuses the call: a pass of another
\* conference, a closed room type, no usable payments adapter.
Refuse(c) ==
  /\ pc[c] = "reserve"
  /\ Leave(c, "refused", Nobody)
  /\ UNCHANGED <<now, confVars, rowVars, job>>

\* The worker dies or its database connection drops: an open transaction
\* rolls back, a committed row stays.
Crash(c) ==
  /\ pc[c] \in Working
  /\ Leave(c, "crashed", Nobody)
  /\ UNCHANGED <<now, confVars, rowVars, job>>

-----------------------------------------------------------------------------
(* The release-expired-holds job: one UPDATE per status. *)

ReleaseStatus(status, at) ==
  reg' = Released({r \in Calls : reg[r] = status /\ expiresAt[r] < at})

JobReleasesCheckouts ==
  /\ ~job.running
  /\ ReleaseStatus("PAYMENT_PENDING", now)
  /\ job' = [running |-> TRUE, at |-> now]
  /\ UNCHANGED <<now, confVars, callVars, expiresAt, keyed>>

\* Mutant: the second statement repeats the first one's status.
MutantJobReleasesUnordered ==
  /\ job.running
  /\ ReleaseStatus("PAYMENT_PENDING", job.at)
  /\ job' = [running |-> FALSE, at |-> 0]
  /\ UNCHANGED <<now, confVars, callVars, expiresAt, keyed>>

JobReleasesUnordered ==
  /\ job.running
  /\ ReleaseStatus("PENDING", job.at)
  /\ job' = [running |-> FALSE, at |-> 0]
  /\ UNCHANGED <<now, confVars, callVars, expiresAt, keyed>>

-----------------------------------------------------------------------------
(* Settlement, as far as the row's status goes (Settlement.tla has it in   *)
(* full): a capture in time confirms, a failure or a late capture cancels. *)

\* Mutant: a late capture brings a released seat back.
MutantPaymentConfirms(r) ==
  /\ reg[r] \in {"PAYMENT_PENDING", "CANCELLED"}
  /\ reg' = [reg EXCEPT ![r] = "CONFIRMED"]
  /\ UNCHANGED <<now, confVars, callVars, expiresAt, keyed, job>>

PaymentConfirms(r) ==
  /\ reg[r] = "PAYMENT_PENDING"
  /\ reg' = [reg EXCEPT ![r] = "CONFIRMED"]
  /\ UNCHANGED <<now, confVars, callVars, expiresAt, keyed, job>>

PaymentReleases(r) ==
  /\ reg[r] = "PAYMENT_PENDING"
  /\ reg' = Released({r})
  /\ UNCHANGED <<now, confVars, callVars, expiresAt, keyed, job>>

-----------------------------------------------------------------------------
(* Other writers of the row. *)

CancelRegistrationAsAdmin(r) ==
  /\ reg[r] \notin {"none", "CANCELLED"}
  /\ reg' = Released({r})
  /\ UNCHANGED <<now, confVars, callVars, expiresAt, keyed, job>>

DeleteOwnAccount(u) ==
  /\ u \notin deleted
  /\ deleted' = deleted \cup {u}
  /\ reg' = Released({r \in Calls : User(r) = u /\ reg[r] \in Releasable})
  /\ UNCHANGED <<now, munStatus, capacity, onSale, callVars, expiresAt, keyed, job>>

\* Share-locks the conference, so it never runs beside a status change.
CheckInDelegate(r) ==
  /\ munStatus \in {"REGISTRATION_OPEN", "REGISTRATION_CLOSED", "CONFERENCE_ACTIVE"}
  /\ reg[r] \in SeatHolding \ {"ATTENDED"}
  /\ reg' = [reg EXCEPT ![r] = "ATTENDED"]
  /\ UNCHANGED <<now, confVars, callVars, expiresAt, keyed, job>>

SetDelegateAttendance(r, status) ==
  /\ munStatus = "CONFERENCE_ACTIVE"
  /\ reg[r] \in SeatHolding \ {status}
  /\ reg' = [reg EXCEPT ![r] = status]
  /\ UNCHANGED <<now, confVars, callVars, expiresAt, keyed, job>>

-----------------------------------------------------------------------------
(* The conference row: FOR UPDATE waits for every share lock to go. *)

CloseRegistration ==
  /\ ~MunShared
  /\ munStatus = "REGISTRATION_OPEN"
  /\ munStatus' = "REGISTRATION_CLOSED"
  /\ UNCHANGED <<now, capacity, onSale, deleted, callVars, rowVars, job>>

StartConference ==
  /\ ~MunShared
  /\ munStatus \in {"REGISTRATION_OPEN", "REGISTRATION_CLOSED"}
  /\ munStatus' = "CONFERENCE_ACTIVE"
  /\ UNCHANGED <<now, capacity, onSale, deleted, callVars, rowVars, job>>

\* Administrators pause a conference that turned out wrong.  Its holds stay.
SuspendConference ==
  /\ ~MunShared
  /\ munStatus \in {"REGISTRATION_OPEN", "REGISTRATION_CLOSED", "CONFERENCE_ACTIVE"}
  /\ munStatus' = "SUSPENDED"
  /\ UNCHANGED <<now, capacity, onSale, deleted, callVars, rowVars, job>>

CancelConference ==
  /\ ~MunShared
  /\ munStatus # "CANCELLED"
  /\ munStatus' = "CANCELLED"
  /\ reg' = Released({r \in Calls : reg[r] \in Releasable})
  /\ UNCHANGED <<now, capacity, onSale, deleted, callVars, expiresAt, keyed, job>>

\* The organizer's UPDATE of a pool waits for the row lock a call holds.
UpdateCapacity(p, n) ==
  /\ lock[p] = Nobody
  /\ capacity[p] # n
  /\ capacity' = [capacity EXCEPT ![p] = n]
  /\ UNCHANGED <<now, munStatus, onSale, deleted, callVars, rowVars, job>>

\* deleteRegistrationProduct: the pass goes inactive, its rows stay.
DeletePass(p) ==
  /\ lock[p] = Nobody
  /\ p \in onSale
  /\ onSale' = onSale \ {p}
  /\ UNCHANGED <<now, munStatus, capacity, deleted, callVars, rowVars, job>>

\* A reservation transaction is short against the unit of the clock.
Tick ==
  /\ now < MaxTime
  /\ ~MunShared
  /\ now' = now + 1
  /\ UNCHANGED <<confVars, callVars, rowVars, job>>

-----------------------------------------------------------------------------
CallStep(c) ==
  \/ Begin(c)
  \/ SweepExpired(c)
  \/ LockMun(c)
  \/ \E p \in Pools : LockPool(c, p)
  \/ Insert(c)
  \/ InsertCollides(c)
  \/ CreateOrder(c)
  \/ CreateOrderFails(c)
  \/ RecordOrder(c)

Quits(c) == Refuse(c) \/ Crash(c)

ReleaseJob == JobReleasesCheckouts \/ JobReleasesUnordered

RowStep(r) ==
  \/ PaymentConfirms(r)
  \/ PaymentReleases(r)
  \/ CancelRegistrationAsAdmin(r)
  \/ CheckInDelegate(r)
  \/ \E status \in {"ATTENDED", "NO_SHOW"} : SetDelegateAttendance(r, status)

ConferenceStep ==
  \/ CloseRegistration
  \/ StartConference
  \/ SuspendConference
  \/ CancelConference
  \/ \E p \in Pools, n \in Capacities : UpdateCapacity(p, n)
  \/ \E p \in Passes : DeletePass(p)

Next ==
  \/ \E c \in Calls : CallStep(c) \/ Quits(c) \/ RowStep(c)
  \/ \E u \in Users : DeleteOwnAccount(u)
  \/ ReleaseJob
  \/ ConferenceStep
  \/ Tick

Spec == Init /\ [][Next]_vars

\* The clock runs, the cron trigger fires every five minutes, and a call that
\* was accepted is run by its worker until it answers (or crashes).
Fairness ==
  /\ WF_vars(Tick)
  /\ WF_vars(ReleaseJob)
  /\ \A c \in Calls : WF_vars(pc[c] \in Working /\ CallStep(c))

FairSpec == Spec /\ Fairness

-----------------------------------------------------------------------------
(* Properties. *)

\* Types of the variables, and the lock table: only a call inside its
\* reservation transaction holds locks, and only on pools it asked for.
TypeOK ==
  /\ now \in 0..MaxTime
  /\ munStatus \in MunStatus
  /\ capacity \in [Pools -> Capacities]
  /\ onSale \subseteq Passes
  /\ deleted \subseteq Users
  /\ req \in [Calls -> Requests]
  /\ pc \in [Calls -> Working \cup {"idle", "done", "refused", "crashed"}]
  /\ answer \in [Calls -> Calls \cup {Nobody}]
  /\ lock \in [Pools -> Calls \cup {Nobody}]
  /\ seen \in [Calls -> [Pools -> SUBSET Calls]]
  /\ reg \in [Calls -> RegistrationStatus]
  /\ expiresAt \in [Calls -> Nat]
  /\ keyed \subseteq Calls
  /\ job \in [running : BOOLEAN, at : Nat]

\* What the tables say, however the statements above count.
Occupies(r) == reg[r] \in Releasable \cup SeatHolding

Occupants(p) == {r \in Calls : Occupies(r) /\ p \in Basket(r)}

\* registration.ts:427-444: a step that adds registrations to a pool leaves
\* no more of them than the pool's capacity, whatever the other calls, the
\* sweeps and the organizer's edits did between the count and the insert.
NoOversell ==
  \A p \in Pools :
    ~(Occupants(p)' \subseteq Occupants(p)) => Cardinality(Occupants(p)') <= capacity'[p]

NeverOversold == [][NoOversell]_vars

\* registration.ts:434-441 ("two simultaneous calls from the same user cannot
\* both pass it"): a delegate never has two active registrations for a pass.
OneActivePerPass ==
  \A c, d \in Calls :
    (c # d /\ Occupies(c) /\ Occupies(d) /\ req[c].pass = req[d].pass) => User(c) # User(d)

\* InitiateRegistrationOptions.idempotencyKey: a repeat call with the same
\* key never holds a second seat, for this pass or for another one.
RetryTakesNoSecondSeat ==
  \A c, d \in Calls :
    (c # d /\ Occupies(c) /\ Occupies(d) /\ req[c].key = req[d].key /\ req[c].key # NoKey)
      => User(c) # User(d)

\* A call answers with the caller's own registration for the pass it asked
\* for, also when the answer is a replay of an earlier call's row.
AnswersOwnRegistration ==
  \A c, r \in Calls :
    answer[c] = r => reg[r] # "none" /\ User(r) = User(c) /\ req[r].pass = req[c].pass

\* registration-lifecycle.ts:475-482 with the share lock of
\* registration.ts:361-376: once the conference is cancelled no hold is left
\* and none is taken by a call that was already past its checks.
CancelledConferenceHoldsNothing ==
  munStatus = "CANCELLED" => \A r \in Calls : reg[r] \notin Releasable

\* Every accepted call leaves its transaction and answers: no two calls ever
\* wait for each other's pool locks.
CallsFinish == \A c \in Calls : pc[c] \in Working ~> pc[c] \notin Working

\* Every hold ends, paid or released, even when its call crashed before the
\* order was recorded or its row turned PAYMENT_PENDING between the two
\* statements of the job.
HoldsEnd == \A r \in Calls : reg[r] \in Releasable ~> reg[r] \notin Releasable

-----------------------------------------------------------------------------
(* The promise of Seats, read off the rows. *)

SeatPhase(status) ==
  CASE status = "none"        -> "new"
    [] status \in Releasable  -> "held"
    [] status \in SeatHolding -> "seated"
    [] status = "CANCELLED"   -> "released"

Promise == INSTANCE Seats WITH
  Bookings <- Calls,
  Sizes    <- Capacities,
  phase    <- [r \in Calls |-> SeatPhase(reg[r])],
  claim    <- [r \in Calls |-> Basket(r)],
  size     <- capacity

\* The reservation protocol implements the promise of Seats.
KeepsSeatPromise == Promise!Spec
=============================================================================
