------------------------- MODULE ReservationProofs -------------------------
(***************************************************************************)
(* Proofs about Reservation, for every set of calls, users, passes and     *)
(* extras, every capacity, every request and every lock order that meets   *)
(* the assumptions of that module.                                         *)
(***************************************************************************)
EXTENDS Reservation, TLAPS, FiniteSetTheorems

\* Each request is a record of the shape its columns have.
LEMMA RequestShape ==
  ASSUME NEW q \in Requests
  PROVE  /\ q.user \in Users
         /\ q.key \in Keys \cup {NoKey}
         /\ q.pass \in Passes
         /\ q.extras \subseteq Extras
         /\ q.free \in BOOLEAN
         /\ BasketOf(q) \subseteq Pools
         /\ q.pass \in BasketOf(q)
BY RequestsAssumption DEF RequestRecord, BasketOf, Pools

-----------------------------------------------------------------------------
(* Type correctness. *)

\* Leaving a call keeps the types of the call's variables.
LEMMA LeaveTypes ==
  ASSUME TypeOK, NEW c \in Calls,
         NEW where \in {"order", "done", "refused", "crashed"},
         NEW named \in Calls \cup {Nobody},
         Leave(c, where, named)
  PROVE  /\ req' \in [Calls -> Requests]
         /\ pc' \in [Calls -> Working \cup {"idle", "done", "refused", "crashed"}]
         /\ answer' \in [Calls -> Calls \cup {Nobody}]
         /\ lock' \in [Pools -> Calls \cup {Nobody}]
         /\ seen' \in [Calls -> [Pools -> SUBSET Calls]]
BY DEF TypeOK, Leave, Unlocked, Working

\* Releasing rows keeps the type of the status column.
LEMMA ReleasedTypes ==
  ASSUME TypeOK, NEW S
  PROVE  Released(S) \in [Calls -> RegistrationStatus]
BY DEF TypeOK, Released, RegistrationStatus

LEMMA TypeInit == Init => TypeOK
BY CapacityAssumption, TimeAssumption
DEF Init, TypeOK, MunStatus, RegistrationStatus, Working

LEMMA TypeStep == TypeOK /\ [Next]_vars => TypeOK'
<1> SUFFICES ASSUME TypeOK, [Next]_vars PROVE TypeOK'
  OBVIOUS
<1> USE TimeAssumption
<1>1. ASSUME NEW c \in Calls, Begin(c) PROVE TypeOK'
  <2>1. CASE SameKey(c) = {}
    BY <1>1, <2>1 DEF Begin, Proceed, TypeOK, Working, confVars, rowVars
  <2>2. CASE SameKey(c) # {}
    <3>1. PICK r \in SameKey(c) : Replay(c, r)
      BY <1>1, <2>2 DEF Begin
    <3>2. r \in Calls
      BY <3>1 DEF SameKey, TypeOK
    <3> QED BY <1>1, <3>1, <3>2, LeaveTypes DEF Begin, Replay, TypeOK, confVars, rowVars
  <2> QED BY <2>1, <2>2
<1>2. ASSUME NEW c \in Calls, SweepExpired(c) PROVE TypeOK'
  BY <1>2, ReleasedTypes DEF SweepExpired, Proceed, TypeOK, Working, confVars
<1>3. ASSUME NEW c \in Calls, LockMun(c) PROVE TypeOK'
  BY <1>3, LeaveTypes DEF LockMun, Proceed, TypeOK, Working, confVars, rowVars
<1>4. ASSUME NEW c \in Calls, NEW p \in Pools, LockPool(c, p) PROVE TypeOK'
  <2>1. ASSUME NEW r \in SameKey(c), Replay(c, r) PROVE TypeOK'
    <3>1. r \in Calls
      BY <2>1 DEF SameKey, TypeOK
    <3> QED BY <1>4, <2>1, <3>1, LeaveTypes DEF LockPool, Replay, TypeOK, confVars, rowVars
  <2>2. CASE Leave(c, "refused", Nobody)
    BY <1>4, <2>2, LeaveTypes DEF LockPool, TypeOK, confVars, rowVars
  <2>3. CASE /\ lock' = [lock EXCEPT ![p] = c]
             /\ seen' = [seen EXCEPT ![c][p] = Counted(p)]
             /\ UNCHANGED <<req, pc, answer>>
    BY <1>4, <2>3 DEF LockPool, Counted, TypeOK, confVars, rowVars
  <2> QED BY <1>4, <2>1, <2>2, <2>3 DEF LockPool
<1>5. ASSUME NEW c \in Calls, Insert(c) PROVE TypeOK'
  <2>1. reg' \in [Calls -> RegistrationStatus]
    BY <1>5 DEF Insert, TypeOK, RegistrationStatus, Releasable, SeatHolding
  <2>2. expiresAt' \in [Calls -> Nat] /\ keyed' \subseteq Calls
    BY <1>5 DEF Insert, TypeOK
  <2> QED BY <1>5, <2>1, <2>2, LeaveTypes DEF Insert, TypeOK, confVars
<1>6. ASSUME NEW c \in Calls, InsertCollides(c) PROVE TypeOK'
  <2>1. PICK r \in SameKey(c) : Replay(c, r)
    BY <1>6 DEF InsertCollides
  <2>2. r \in Calls
    BY <2>1 DEF SameKey, TypeOK
  <2> QED BY <1>6, <2>1, <2>2, LeaveTypes DEF InsertCollides, Replay, TypeOK, confVars, rowVars
<1>7. ASSUME NEW c \in Calls, CreateOrder(c) PROVE TypeOK'
  BY <1>7 DEF CreateOrder, Proceed, TypeOK, Working, confVars, rowVars
<1>8. ASSUME NEW c \in Calls, CreateOrderFails(c) PROVE TypeOK'
  BY <1>8, LeaveTypes, ReleasedTypes DEF CreateOrderFails, TypeOK, confVars
<1>9. ASSUME NEW c \in Calls, RecordOrder(c) PROVE TypeOK'
  <2>1. reg' \in [Calls -> RegistrationStatus]
    BY <1>9 DEF RecordOrder, TypeOK, RegistrationStatus, Releasable
  <2> QED BY <1>9, <2>1, LeaveTypes DEF RecordOrder, TypeOK, confVars
<1>10. ASSUME NEW c \in Calls, Quits(c) PROVE TypeOK'
  BY <1>10, LeaveTypes DEF Quits, Refuse, Crash, TypeOK, confVars, rowVars
<1>11. ASSUME NEW r \in Calls, RowStep(r) PROVE TypeOK'
  <2>1. CASE PaymentReleases(r) \/ CancelRegistrationAsAdmin(r)
    BY <2>1, ReleasedTypes
    DEF PaymentReleases, CancelRegistrationAsAdmin, TypeOK, confVars, callVars
  <2>2. CASE PaymentConfirms(r) \/ CheckInDelegate(r)
    BY <2>2
    DEF PaymentConfirms, CheckInDelegate, TypeOK, RegistrationStatus, SeatHolding,
        confVars, callVars
  <2>3. ASSUME NEW status \in {"ATTENDED", "NO_SHOW"}, SetDelegateAttendance(r, status)
        PROVE  TypeOK'
    BY <2>3
    DEF SetDelegateAttendance, TypeOK, RegistrationStatus, SeatHolding, confVars, callVars
  <2> QED BY <1>11, <2>1, <2>2, <2>3 DEF RowStep
<1>12. ASSUME NEW u \in Users, DeleteOwnAccount(u) PROVE TypeOK'
  BY <1>12, ReleasedTypes DEF DeleteOwnAccount, TypeOK, callVars
<1>13. CASE ReleaseJob
  <2>1. CASE JobReleasesCheckouts
    BY <2>1, ReleasedTypes
    DEF JobReleasesCheckouts, ReleaseStatus, TypeOK, confVars, callVars
  <2>2. CASE JobReleasesUnordered
    BY <2>2, ReleasedTypes
    DEF JobReleasesUnordered, ReleaseStatus, TypeOK, confVars, callVars
  <2> QED BY <1>13, <2>1, <2>2 DEF ReleaseJob
<1>14. CASE ConferenceStep
  <2>1. CASE CloseRegistration \/ StartConference \/ SuspendConference \/ CancelConference
    BY <2>1, ReleasedTypes
    DEF CloseRegistration, StartConference, SuspendConference, CancelConference, TypeOK,
        MunStatus,
        callVars, rowVars
  <2>2. ASSUME NEW p \in Pools, NEW n \in Capacities, UpdateCapacity(p, n) PROVE TypeOK'
    BY <2>2 DEF UpdateCapacity, TypeOK, callVars, rowVars
  <2>3. ASSUME NEW p \in Passes, DeletePass(p) PROVE TypeOK'
    BY <2>3 DEF DeletePass, TypeOK, callVars, rowVars
  <2> QED BY <1>14, <2>1, <2>2, <2>3 DEF ConferenceStep
<1>15. CASE Tick
  BY <1>15 DEF Tick, TypeOK, confVars, callVars, rowVars
<1>16. CASE UNCHANGED vars
  BY <1>16 DEF vars, TypeOK, confVars, callVars, rowVars
<1> QED
  BY <1>1, <1>2, <1>3, <1>4, <1>5, <1>6, <1>7, <1>8, <1>9, <1>10, <1>11, <1>12,
     <1>13, <1>14, <1>15, <1>16
  DEF Next, CallStep

\* Every variable keeps its type: the invariant that TLC checks as TypeOK.
THEOREM TypeCorrect == Spec => []TypeOK
BY TypeInit, TypeStep, PTL DEF Spec

-----------------------------------------------------------------------------
(* What one step may do to the rows, the conference and the locks. *)

\* What a call asks for never changes.
LEMMA RequestsFixed == [Next]_vars => req' = req
<1> SUFFICES ASSUME [Next]_vars PROVE req' = req
  OBVIOUS
<1>1. ASSUME NEW c \in Calls, CallStep(c) \/ Quits(c) PROVE req' = req
  BY <1>1
  DEF CallStep, Begin, SweepExpired, LockMun, LockPool, Insert, InsertCollides, CreateOrder,
      CreateOrderFails, RecordOrder, Quits, Refuse, Crash, Replay, Leave, Proceed
<1>2. ASSUME NEW r \in Calls, RowStep(r) PROVE req' = req
  BY <1>2
  DEF RowStep, PaymentConfirms, PaymentReleases, CancelRegistrationAsAdmin, CheckInDelegate,
      SetDelegateAttendance, callVars
<1>3. ASSUME NEW u \in Users, DeleteOwnAccount(u) PROVE req' = req
  BY <1>3 DEF DeleteOwnAccount, callVars
<1>4. CASE ReleaseJob \/ ConferenceStep \/ Tick
  BY <1>4
  DEF ReleaseJob, JobReleasesCheckouts, JobReleasesUnordered, ConferenceStep,
      CloseRegistration, StartConference, SuspendConference, CancelConference,
      UpdateCapacity, DeletePass,
      Tick, callVars
<1>5. CASE UNCHANGED vars
  BY <1>5 DEF vars, callVars
<1> QED BY <1>1, <1>2, <1>3, <1>4, <1>5 DEF Next

\* How a row other than a new one may move.
RowMoves(r) ==
  /\ reg[r] = "none" <=> reg'[r] = "none"
  /\ reg'[r] \in Releasable \cup SeatHolding => reg[r] \in Releasable \cup SeatHolding
  /\ reg'[r] \in Releasable => reg[r] \in Releasable

\* Releasing holds moves no row out of "none" or back into a seat.
LEMMA ReleasingMoves ==
  ASSUME TypeOK, NEW S \in SUBSET Calls, \A r \in S : reg[r] # "none", reg' = Released(S)
  PROVE  \A r \in Calls : RowMoves(r)
BY DEF TypeOK, Released, RowMoves, Releasable, SeatHolding

\* Only an insert adds a row, and no step brings a released row back.
LEMMA RowsOnlyShrink ==
  ASSUME TypeOK, [Next]_vars, \A c \in Calls : ~Insert(c)
  PROVE  \A r \in Calls : RowMoves(r)
<1>0. ASSUME reg' = reg PROVE \A r \in Calls : RowMoves(r)
  BY <1>0 DEF RowMoves
<1>1. ASSUME NEW c \in Calls, \/ Begin(c) \/ LockMun(c) \/ InsertCollides(c)
                              \/ CreateOrder(c) \/ Quits(c)
                              \/ \E p \in Pools : LockPool(c, p)
      PROVE  \A r \in Calls : RowMoves(r)
  <2>1. reg' = reg
    BY <1>1 DEF Begin, LockMun, InsertCollides, CreateOrder, Quits, Refuse, Crash, LockPool,
                rowVars
  <2> QED BY <2>1, <1>0
<1>2. ASSUME NEW c \in Calls, SweepExpired(c) PROVE \A r \in Calls : RowMoves(r)
  BY <1>2, ReleasingMoves DEF SweepExpired, HoldExpired, Releasable
<1>3. ASSUME NEW c \in Calls, CreateOrderFails(c) PROVE \A r \in Calls : RowMoves(r)
  BY <1>3, <1>0, ReleasingMoves DEF CreateOrderFails
<1>4. ASSUME NEW c \in Calls, RecordOrder(c) PROVE \A r \in Calls : RowMoves(r)
  BY <1>4 DEF RecordOrder, RowMoves, Releasable, SeatHolding, TypeOK
<1>5. ASSUME NEW c \in Calls, RowStep(c) PROVE \A r \in Calls : RowMoves(r)
  <2>1. CASE PaymentReleases(c) \/ CancelRegistrationAsAdmin(c)
    BY <2>1, ReleasingMoves DEF PaymentReleases, CancelRegistrationAsAdmin
  <2>2. CASE PaymentConfirms(c) \/ CheckInDelegate(c)
    BY <2>2 DEF PaymentConfirms, CheckInDelegate, RowMoves, Releasable, SeatHolding, TypeOK
  <2>3. ASSUME NEW status \in {"ATTENDED", "NO_SHOW"}, SetDelegateAttendance(c, status)
        PROVE  \A r \in Calls : RowMoves(r)
    BY <2>3 DEF SetDelegateAttendance, RowMoves, Releasable, SeatHolding, TypeOK
  <2> QED BY <1>5, <2>1, <2>2, <2>3 DEF RowStep
<1>6. ASSUME NEW u \in Users, DeleteOwnAccount(u) PROVE \A r \in Calls : RowMoves(r)
  BY <1>6, ReleasingMoves DEF DeleteOwnAccount, Releasable
<1>7. CASE ReleaseJob
  <2>1. CASE JobReleasesCheckouts
    BY <2>1, ReleasingMoves DEF JobReleasesCheckouts, ReleaseStatus
  <2>2. CASE JobReleasesUnordered
    BY <2>2, ReleasingMoves DEF JobReleasesUnordered, ReleaseStatus
  <2> QED BY <1>7, <2>1, <2>2 DEF ReleaseJob
<1>8. CASE ConferenceStep
  <2>1. CASE CancelConference
    BY <2>1, ReleasingMoves DEF CancelConference, Releasable
  <2>2. CASE ~CancelConference
    BY <1>8, <2>2, <1>0
    DEF ConferenceStep, CloseRegistration, StartConference, SuspendConference,
        UpdateCapacity, DeletePass, rowVars
  <2> QED BY <2>1, <2>2
<1>9. CASE Tick \/ UNCHANGED vars
  BY <1>9, <1>0 DEF Tick, vars, rowVars
<1> QED
  BY <1>1, <1>2, <1>3, <1>4, <1>5, <1>6, <1>7, <1>8, <1>9 DEF Next, CallStep

\* An insert writes its own row and no other.
LEMMA InsertWritesOneRow ==
  ASSUME TypeOK, NEW c \in Calls, Insert(c)
  PROVE  /\ reg' = [reg EXCEPT ![c] = reg'[c]]
         /\ reg'[c] \in {"PENDING", "CONFIRMED"}
BY DEF Insert, TypeOK

\* A pool a call has locked keeps its capacity, and the conference a call
\* has share-locked keeps its status.
LEMMA LocksFreeze ==
  ASSUME TypeOK, [Next]_vars
  PROVE  /\ \A p \in Pools : lock[p] # Nobody => capacity'[p] = capacity[p]
         /\ MunShared => munStatus' = munStatus
<1>1. CASE ConferenceStep
  BY <1>1
  DEF ConferenceStep, CloseRegistration, StartConference, SuspendConference, CancelConference,
      UpdateCapacity, DeletePass, TypeOK
<1>2. ASSUME NEW c \in Calls, CallStep(c) \/ Quits(c)
      PROVE  UNCHANGED <<capacity, munStatus>>
  BY <1>2
  DEF CallStep, Begin, SweepExpired, LockMun, LockPool, Insert, InsertCollides, CreateOrder,
      CreateOrderFails, RecordOrder, Quits, Refuse, Crash, confVars
<1>3. ASSUME NEW r \in Calls, RowStep(r) PROVE UNCHANGED <<capacity, munStatus>>
  BY <1>3
  DEF RowStep, PaymentConfirms, PaymentReleases, CancelRegistrationAsAdmin, CheckInDelegate,
      SetDelegateAttendance, confVars
<1>4. ASSUME NEW u \in Users, DeleteOwnAccount(u) PROVE UNCHANGED <<capacity, munStatus>>
  BY <1>4 DEF DeleteOwnAccount
<1>5. CASE ReleaseJob \/ Tick \/ UNCHANGED vars
  BY <1>5 DEF ReleaseJob, JobReleasesCheckouts, JobReleasesUnordered, Tick, vars, confVars
<1> QED BY <1>1, <1>2, <1>3, <1>4, <1>5 DEF Next

-----------------------------------------------------------------------------
(* The inductive invariant. *)

\* Only a call inside its reservation transaction holds locks, on pools of
\* its basket.
LocksHeld ==
  \A p \in Pools, c \in Calls : lock[p] = c => pc[c] = "reserve" /\ p \in Basket(c)

\* The count a call made under a lock is still an upper bound when it inserts:
\* the heart of the argument.  For a pass, nobody it counted is the caller.
CountsHold ==
  \A p \in Pools, c \in Calls :
    lock[p] = c => /\ Counted(p) \subseteq seen[c][p]
                   /\ Cardinality(seen[c][p]) < capacity[p]
                   /\ p \in Passes => \A r \in seen[c][p] : User(r) # User(c)

\* A call has no row before it inserts one, and has one while it orders.
RowsFollowCalls ==
  \A c \in Calls :
    /\ pc[c] \in {"idle", "sweep", "enter", "reserve"} => reg[c] = "none"
    /\ pc[c] \in {"order", "record"} => reg[c] # "none"

\* A reservation transaction runs only while registration is open.
OpenWhileShared == MunShared => munStatus = "REGISTRATION_OPEN"

\* A row gives up its key only when it gives up its seat.
KeysStay ==
  \A r \in Calls :
    /\ (Occupies(r) /\ req[r].key # NoKey) => r \in keyed
    /\ r \in keyed => reg[r] # "none"

IInv ==
  /\ TypeOK
  /\ LocksHeld
  /\ CountsHold
  /\ RowsFollowCalls
  /\ OpenWhileShared
  /\ KeysStay

\* Counting under Active and occupying a seat are the same thing.
LEMMA CountedIsOccupants == \A p : Counted(p) = Occupants(p)
BY DEF Counted, Occupants, Active, Occupies, ActiveStatuses, Releasable, SeatHolding

LEMMA InitIInv == Init => IInv
<1> SUFFICES ASSUME Init PROVE IInv
  OBVIOUS
<1>1. TypeOK
  BY TypeInit
<1>2. LocksHeld /\ CountsHold
  BY CallsAssumption DEF Init, LocksHeld, CountsHold
<1>3. RowsFollowCalls /\ KeysStay
  BY DEF Init, RowsFollowCalls, KeysStay, Occupies, Releasable, SeatHolding
<1>4. OpenWhileShared
  BY DEF Init, OpenWhileShared
<1> QED BY <1>1, <1>2, <1>3, <1>4 DEF IInv

\* A turn at a pool takes its lock, or ends the transaction.
LEMMA LockStep ==
  ASSUME TypeOK, NEW d \in Calls, NEW q \in Pools, LockPool(d, q)
  PROVE  \/ /\ PassAdmits(d, q) /\ HasRoom(q) /\ Waits(d, q)
            /\ lock' = [lock EXCEPT ![q] = d]
            /\ seen' = [seen EXCEPT ![d][q] = Counted(q)]
            /\ UNCHANGED <<pc, reg, req, capacity>>
         \/ /\ lock' = Unlocked(d)
            /\ seen' = [seen EXCEPT ![d] = [p \in Pools |-> {}]]
            /\ \E where \in {"done", "refused"} : pc' = [pc EXCEPT ![d] = where]
            /\ UNCHANGED <<reg, req, capacity>>
BY DEF LockPool, Replay, Leave, rowVars, confVars

\* Steps of a call other than taking a lock: it moves on with the locks as
\* they are, from a point where it holds none, or it lets go of all of them.
MovesOn(d) ==
  /\ pc[d] # "reserve"
  /\ UNCHANGED <<lock, seen>>
  /\ \E where \in Working : pc' = [pc EXCEPT ![d] = where]

LetsGo(d) ==
  /\ lock' = Unlocked(d)
  /\ seen' = [seen EXCEPT ![d] = [p \in Pools |-> {}]]
  /\ \E where \in {"order", "done", "refused", "crashed"} : pc' = [pc EXCEPT ![d] = where]

LEMMA CallLocks ==
  ASSUME TypeOK, NEW d \in Calls, CallStep(d) \/ Quits(d),
         ~ \E q \in Pools : LockPool(d, q)
  PROVE  MovesOn(d) \/ LetsGo(d)
BY DEF CallStep, Begin, SweepExpired, LockMun, Insert, InsertCollides, CreateOrder,
       CreateOrderFails, RecordOrder, Quits, Refuse, Crash, Replay, Leave, Proceed, MovesOn,
       LetsGo, Working

\* Every step that is not a call's leaves the calls and their locks alone.
LEMMA OthersLeaveCalls ==
  ASSUME [Next]_vars, \A d \in Calls : ~(CallStep(d) \/ Quits(d))
  PROVE  UNCHANGED callVars
<1>1. ASSUME NEW r \in Calls, RowStep(r) PROVE UNCHANGED callVars
  BY <1>1
  DEF RowStep, PaymentConfirms, PaymentReleases, CancelRegistrationAsAdmin, CheckInDelegate,
      SetDelegateAttendance
<1>2. ASSUME NEW u \in Users, DeleteOwnAccount(u) PROVE UNCHANGED callVars
  BY <1>2 DEF DeleteOwnAccount
<1>3. CASE ReleaseJob \/ ConferenceStep \/ Tick \/ UNCHANGED vars
  BY <1>3
  DEF ReleaseJob, JobReleasesCheckouts, JobReleasesUnordered, ConferenceStep,
      CloseRegistration, StartConference, SuspendConference, CancelConference,
      UpdateCapacity, DeletePass,
      Tick, vars
<1> QED BY <1>1, <1>2, <1>3 DEF Next

\* A lock held after a step was held before it, or is the one just taken.
LEMMA HeldLocks ==
  ASSUME IInv, [Next]_vars, NEW c \in Calls, NEW p \in Pools, lock'[p] = c
  PROVE  /\ pc[c] = "reserve" /\ pc'[c] = "reserve" /\ p \in Basket(c)
         /\ \/ lock[p] = c /\ seen'[c][p] = seen[c][p]
            \/ /\ LockPool(c, p) /\ PassAdmits(c, p) /\ HasRoom(p)
               /\ seen'[c][p] = Counted(p)
               /\ UNCHANGED <<reg, capacity>>
<1> USE CallsAssumption DEF IInv
<1>1. ASSUME NEW d \in Calls, NEW q \in Pools, LockPool(d, q),
             PassAdmits(d, q) /\ HasRoom(q) /\ Waits(d, q),
             lock' = [lock EXCEPT ![q] = d],
             seen' = [seen EXCEPT ![d][q] = Counted(q)],
             UNCHANGED <<pc, reg, req, capacity>>
      PROVE  /\ pc[c] = "reserve" /\ pc'[c] = "reserve" /\ p \in Basket(c)
             /\ \/ lock[p] = c /\ seen'[c][p] = seen[c][p]
                \/ /\ LockPool(c, p) /\ PassAdmits(c, p) /\ HasRoom(p)
                   /\ seen'[c][p] = Counted(p)
                   /\ UNCHANGED <<reg, capacity>>
  <2>1. CASE p = q
    <3>1. d = c
      BY <1>1, <2>1 DEF TypeOK
    <3> QED BY <1>1, <2>1, <3>1 DEF TypeOK, Waits
  <2>2. CASE p # q
    <3>1. lock[p] = c /\ seen'[c][p] = seen[c][p]
      BY <1>1, <2>2 DEF TypeOK
    <3> QED BY <1>1, <3>1 DEF LocksHeld
  <2> QED BY <2>1, <2>2
<1>2. ASSUME NEW d \in Calls, LetsGo(d)
      PROVE  pc[c] = "reserve" /\ pc'[c] = "reserve" /\ p \in Basket(c)
             /\ lock[p] = c /\ seen'[c][p] = seen[c][p]
  <2>1. lock[p] = c /\ d # c
    BY <1>2 DEF LetsGo, Unlocked, TypeOK
  <2> QED BY <1>2, <2>1 DEF LetsGo, LocksHeld, TypeOK
<1>3. ASSUME NEW d \in Calls, MovesOn(d)
      PROVE  pc[c] = "reserve" /\ pc'[c] = "reserve" /\ p \in Basket(c)
             /\ lock[p] = c /\ seen'[c][p] = seen[c][p]
  <2>1. lock[p] = c /\ pc[c] = "reserve" /\ p \in Basket(c)
    BY <1>3 DEF MovesOn, LocksHeld
  <2> QED BY <1>3, <2>1 DEF MovesOn, TypeOK
<1>4. ASSUME UNCHANGED callVars
      PROVE  pc[c] = "reserve" /\ pc'[c] = "reserve" /\ p \in Basket(c)
             /\ lock[p] = c /\ seen'[c][p] = seen[c][p]
  BY <1>4 DEF callVars, LocksHeld
<1>5. ASSUME NEW d \in Calls, NEW q \in Pools, LockPool(d, q)
      PROVE  \/ LetsGo(d)
             \/ /\ PassAdmits(d, q) /\ HasRoom(q) /\ Waits(d, q)
                /\ lock' = [lock EXCEPT ![q] = d]
                /\ seen' = [seen EXCEPT ![d][q] = Counted(q)]
                /\ UNCHANGED <<pc, reg, req, capacity>>
  BY <1>5, LockStep DEF LetsGo
<1>6. CASE \E d \in Calls : CallStep(d) \/ Quits(d)
  <2>1. PICK d \in Calls : CallStep(d) \/ Quits(d)
    BY <1>6
  <2>2. CASE \E q \in Pools : LockPool(d, q)
    BY <2>2, <1>1, <1>2, <1>5
  <2>3. CASE ~ \E q \in Pools : LockPool(d, q)
    BY <2>1, <2>3, <1>2, <1>3, CallLocks
  <2> QED BY <2>2, <2>3
<1>7. CASE \A d \in Calls : ~(CallStep(d) \/ Quits(d))
  BY <1>7, <1>4, OthersLeaveCalls
<1> QED BY <1>6, <1>7

\* An insert adds its caller to the pools it has locked, and to no others.
LEMMA InsertAddsCaller ==
  ASSUME IInv, NEW d \in Calls, Insert(d), NEW p \in Pools
  PROVE  /\ p \in Basket(d) => lock[p] = d /\ Counted(p)' = Counted(p) \cup {d}
         /\ p \notin Basket(d) => Counted(p)' = Counted(p)
<1>1. req' = req
  BY DEF Insert, Leave
<1>2. /\ reg'[d] \in ActiveStatuses
      /\ \A r \in Calls : r # d => reg'[r] = reg[r]
  BY InsertWritesOneRow DEF IInv, TypeOK, ActiveStatuses
<1>3. Basket(d) \subseteq Holds(d)
  BY DEF Insert, AllLocked
<1> QED BY <1>1, <1>2, <1>3 DEF Counted, Active, Basket, Holds

\* Without an insert no pool gains a counted registration.
LEMMA CountsOnlyFall ==
  ASSUME TypeOK, [Next]_vars, \A d \in Calls : ~Insert(d), NEW p \in Pools
  PROVE  Counted(p)' \subseteq Counted(p)
<1>1. req' = req
  BY RequestsFixed
<1>2. \A r \in Calls : RowMoves(r)
  BY RowsOnlyShrink
<1> QED BY <1>1, <1>2 DEF Counted, Active, Basket, RowMoves, ActiveStatuses, Releasable,
SeatHolding

LEMMA LocksHeldStep == IInv /\ [Next]_vars => LocksHeld'
<1> SUFFICES ASSUME IInv, [Next]_vars, NEW p \in Pools, NEW c \in Calls, lock'[p] = c
             PROVE  pc'[c] = "reserve" /\ p \in Basket(c)'
  BY DEF LocksHeld
<1> QED BY HeldLocks, RequestsFixed DEF Basket

LEMMA CountsHoldStep == IInv /\ [Next]_vars => CountsHold'
<1> SUFFICES ASSUME IInv, [Next]_vars, NEW p \in Pools, NEW c \in Calls, lock'[p] = c
             PROVE  /\ Counted(p)' \subseteq seen'[c][p]
                    /\ Cardinality(seen'[c][p]) < capacity'[p]
                    /\ p \in Passes => \A r \in seen'[c][p] : User(r)' # User(c)'
  BY DEF CountsHold
<1> USE CallsAssumption
<1>1. req' = req
  BY RequestsFixed
<1>2. CASE lock[p] = c /\ seen'[c][p] = seen[c][p]
  <2>1. capacity'[p] = capacity[p]
    BY <1>2, LocksFreeze DEF IInv
  <2>2. Counted(p)' \subseteq Counted(p)
    <3>1. CASE \A d \in Calls : ~Insert(d)
      BY <3>1, CountsOnlyFall DEF IInv
    <3>2. ASSUME NEW d \in Calls, Insert(d) PROVE Counted(p)' = Counted(p)
      <4>1. lock' = Unlocked(d)
        BY <3>2 DEF Insert, Leave
      <4>2. lock[p] # d
        BY <4>1 DEF Unlocked, IInv, TypeOK
      <4> QED BY <3>2, <4>2, InsertAddsCaller
    <3> QED BY <3>1, <3>2
  <2> QED BY <1>1, <1>2, <2>1, <2>2 DEF IInv, CountsHold, User
<1>3. CASE /\ LockPool(c, p) /\ PassAdmits(c, p) /\ HasRoom(p)
           /\ seen'[c][p] = Counted(p)
           /\ UNCHANGED <<reg, capacity>>
  <2>1. Counted(p)' = Counted(p)
    BY <1>1, <1>3 DEF Counted, Active, Basket
  <2> QED BY <1>1, <1>3, <2>1 DEF HasRoom, PassAdmits, User
<1> QED BY <1>2, <1>3, HeldLocks

LEMMA OpenStep == IInv /\ [Next]_vars => OpenWhileShared'
<1> SUFFICES ASSUME IInv, [Next]_vars, NEW c \in Calls, pc'[c] = "reserve"
             PROVE  munStatus' = "REGISTRATION_OPEN"
  BY DEF OpenWhileShared, MunShared
<1>1. CASE pc[c] = "reserve"
  BY <1>1, LocksFreeze DEF IInv, OpenWhileShared, MunShared
<1>2. CASE pc[c] # "reserve"
  <2>1. PICK d \in Calls : CallStep(d) \/ Quits(d)
    BY <1>2, OthersLeaveCalls DEF callVars
  <2>2. CASE LockMun(d)
    BY <1>2, <2>2 DEF LockMun, Leave, Proceed, confVars, IInv, TypeOK
  <2>3. CASE ~LockMun(d)
    BY <1>2, <2>1, <2>3
    DEF CallStep, Begin, SweepExpired, LockPool, Insert, InsertCollides, CreateOrder,
        CreateOrderFails, RecordOrder, Quits, Refuse, Crash, Replay, Leave, Proceed, IInv,
        TypeOK
  <2> QED BY <2>2, <2>3
<1> QED BY <1>1, <1>2

LEMMA RowsFollowCallsStep == IInv /\ [Next]_vars => RowsFollowCalls'
<1> SUFFICES ASSUME IInv, [Next]_vars, NEW c \in Calls
             PROVE  /\ pc'[c] \in {"idle", "sweep", "enter", "reserve"} => reg'[c] = "none"
                    /\ pc'[c] \in {"order", "record"} => reg'[c] # "none"
  BY DEF RowsFollowCalls
<1>1. ASSUME NEW d \in Calls, Insert(d)
      PROVE  /\ pc'[c] \in {"idle", "sweep", "enter", "reserve"} => reg'[c] = "none"
             /\ pc'[c] \in {"order", "record"} => reg'[c] # "none"
  BY <1>1, InsertWritesOneRow DEF Insert, Leave, IInv, TypeOK, RowsFollowCalls
<1>2. CASE \A d \in Calls : ~Insert(d)
  <2>1. reg[c] = "none" <=> reg'[c] = "none"
    BY <1>2, RowsOnlyShrink DEF RowMoves, IInv
  <2>2. /\ pc'[c] \in {"idle", "sweep", "enter", "reserve"} =>
             pc[c] \in {"idle", "sweep", "enter", "reserve"}
        /\ pc'[c] \in {"order", "record"} => pc[c] \in {"order", "record"}
    <3>1. ASSUME NEW d \in Calls, CallStep(d) \/ Quits(d)
          PROVE  /\ pc'[c] \in {"idle", "sweep", "enter", "reserve"} =>
                      pc[c] \in {"idle", "sweep", "enter", "reserve"}
                 /\ pc'[c] \in {"order", "record"} => pc[c] \in {"order", "record"}
      BY <1>2, <3>1
      DEF CallStep, Begin, SweepExpired, LockMun, LockPool, InsertCollides, CreateOrder,
          CreateOrderFails, RecordOrder, Quits, Refuse, Crash, Replay, Leave, Proceed, IInv,
          TypeOK
    <3>2. CASE UNCHANGED callVars
      BY <3>2 DEF callVars
    <3> QED BY <3>1, <3>2, OthersLeaveCalls
  <2> QED BY <2>1, <2>2 DEF IInv, RowsFollowCalls
<1> QED BY <1>1, <1>2

\* Keys leave the table only with CreateOrderFails, which releases the row.
LEMMA KeysOnlyLeaveReleased ==
  ASSUME TypeOK, [Next]_vars, \A d \in Calls : ~Insert(d)
  PROVE  /\ keyed' \subseteq keyed
         /\ \A r \in keyed : r \notin keyed' => reg'[r] = "CANCELLED"
<1>1. ASSUME NEW d \in Calls, CreateOrderFails(d)
      PROVE  /\ keyed' \subseteq keyed
             /\ \A r \in keyed : r \notin keyed' => reg'[r] = "CANCELLED"
  BY <1>1 DEF CreateOrderFails, Released, TypeOK
<1>2. ASSUME NEW d \in Calls, CallStep(d) \/ Quits(d), ~CreateOrderFails(d)
      PROVE  keyed' = keyed
  BY <1>2
  DEF CallStep, Begin, SweepExpired, LockMun, LockPool, InsertCollides, CreateOrder,
      RecordOrder, Quits, Refuse, Crash, rowVars
<1>3. ASSUME NEW r \in Calls, RowStep(r) PROVE keyed' = keyed
  BY <1>3
  DEF RowStep, PaymentConfirms, PaymentReleases, CancelRegistrationAsAdmin, CheckInDelegate,
      SetDelegateAttendance
<1>4. ASSUME NEW u \in Users, DeleteOwnAccount(u) PROVE keyed' = keyed
  BY <1>4 DEF DeleteOwnAccount
<1>5. CASE ReleaseJob \/ ConferenceStep \/ Tick \/ UNCHANGED vars
  BY <1>5
  DEF ReleaseJob, JobReleasesCheckouts, JobReleasesUnordered, ConferenceStep,
      CloseRegistration, StartConference, SuspendConference, CancelConference,
      UpdateCapacity, DeletePass,
      Tick, vars, rowVars
<1> QED BY <1>1, <1>2, <1>3, <1>4, <1>5 DEF Next

LEMMA KeysStayStep == IInv /\ [Next]_vars => KeysStay'
<1> SUFFICES ASSUME IInv, [Next]_vars, NEW r \in Calls
             PROVE  /\ (Occupies(r)' /\ req'[r].key # NoKey) => r \in keyed'
                    /\ r \in keyed' => reg'[r] # "none"
  BY DEF KeysStay
<1>1. req' = req
  BY RequestsFixed
<1>2. ASSUME NEW d \in Calls, Insert(d)
      PROVE  /\ (Occupies(r)' /\ req'[r].key # NoKey) => r \in keyed'
             /\ r \in keyed' => reg'[r] # "none"
  <2>1. keyed' = IF req[d].key = NoKey THEN keyed ELSE keyed \cup {d}
    BY <1>2 DEF Insert
  <2>2. CASE r = d
    BY <1>1, <1>2, <2>1, <2>2, InsertWritesOneRow DEF IInv
  <2>3. CASE r # d
    <3>1. reg'[r] = reg[r]
      BY <1>2, <2>3, InsertWritesOneRow DEF IInv, TypeOK
    <3> QED BY <1>1, <2>1, <2>3, <3>1 DEF IInv, KeysStay, Occupies
  <2> QED BY <2>2, <2>3
<1>3. CASE \A d \in Calls : ~Insert(d)
  <2>1. RowMoves(r)
    BY <1>3, RowsOnlyShrink DEF IInv
  <2>2. /\ keyed' \subseteq keyed
        /\ r \in keyed /\ r \notin keyed' => reg'[r] = "CANCELLED"
    BY <1>3, KeysOnlyLeaveReleased DEF IInv
  <2> QED BY <1>1, <2>1, <2>2 DEF IInv, KeysStay, Occupies, RowMoves, Releasable, SeatHolding
<1> QED BY <1>2, <1>3

\* The invariant is inductive.
THEOREM Inductive == Spec => []IInv
<1>1. IInv /\ [Next]_vars => IInv'
  BY TypeStep, LocksHeldStep, CountsHoldStep, OpenStep, RowsFollowCallsStep, KeysStayStep
  DEF IInv
<1> QED BY InitIInv, <1>1, PTL DEF Spec

-----------------------------------------------------------------------------
(* Safety. *)

\* A claim on a pool finds room for it: what the pool holds after an insert
\* is within what the caller counted, plus the caller.
LEMMA InsertFindsRoom ==
  ASSUME IInv, NEW d \in Calls, Insert(d), NEW p \in Pools, p \in Basket(d)
  PROVE  Cardinality(Occupants(p)') <= capacity'[p]
<1>1. lock[p] = d /\ Counted(p)' = Counted(p) \cup {d}
  BY InsertAddsCaller
<1>2. Counted(p) \subseteq seen[d][p] /\ Cardinality(seen[d][p]) < capacity[p]
  BY <1>1 DEF IInv, CountsHold
<1>3. IsFiniteSet(seen[d][p]) /\ IsFiniteSet(Counted(p))
  <2>1. seen[d][p] \subseteq Calls
    BY DEF IInv, TypeOK
  <2> QED BY <1>2, <2>1, CallsAssumption, FS_Subset
<1>4. Cardinality(Counted(p)) <= Cardinality(seen[d][p])
  BY <1>2, <1>3, FS_Subset
<1>5. Cardinality(Counted(p) \cup {d}) <= Cardinality(Counted(p)) + 1
  <2>1. Cardinality(Counted(p)) \in Nat
    BY <1>3, FS_CardinalityType
  <2>2. \/ Cardinality(Counted(p) \cup {d}) = Cardinality(Counted(p))
        \/ Cardinality(Counted(p) \cup {d}) = Cardinality(Counted(p)) + 1
    BY <1>3, FS_AddElement
  <2> QED BY <2>1, <2>2
<1>6. capacity'[p] = capacity[p] /\ capacity[p] \in Nat
  BY CapacityAssumption DEF Insert, confVars, IInv, TypeOK
<1>7. /\ Cardinality(Counted(p)) \in Nat /\ Cardinality(seen[d][p]) \in Nat
      /\ Cardinality(Counted(p) \cup {d}) \in Nat
  BY <1>3, FS_AddElement, FS_CardinalityType
<1>8. Occupants(p)' = Counted(p) \cup {d}
  BY <1>1, CountedIsOccupants DEF Counted, Occupants, Active, Occupies, ActiveStatuses,
     Releasable, SeatHolding
<1> QED BY <1>2, <1>4, <1>5, <1>6, <1>7, <1>8

\* No step takes a pool over its capacity, for any number of calls, users,
\* passes, rooms and capacities: the property TLC checks as NeverOversold.
THEOREM NoSeatSoldTwice == Spec => NeverOversold
<1>1. IInv /\ [Next]_vars => [NoOversell]_vars
  <2> SUFFICES ASSUME IInv, [Next]_vars, NEW p \in Pools,
                      ~(Occupants(p)' \subseteq Occupants(p))
               PROVE  Cardinality(Occupants(p)') <= capacity'[p]
    BY DEF NoOversell
  <2>1. PICK d \in Calls : Insert(d)
    <3>1. Counted(p)' = Occupants(p)' /\ Counted(p) = Occupants(p)
      BY DEF Counted, Occupants, Active, Occupies, ActiveStatuses, Releasable, SeatHolding
    <3> QED BY <3>1, CountsOnlyFall DEF IInv
  <2>2. p \in Basket(d)
    <3>1. Counted(p)' = Occupants(p)' /\ Counted(p) = Occupants(p)
      BY DEF Counted, Occupants, Active, Occupies, ActiveStatuses, Releasable, SeatHolding
    <3> QED BY <2>1, <3>1, InsertAddsCaller
  <2> QED BY <2>1, <2>2, InsertFindsRoom
<1> QED BY <1>1, Inductive, PTL DEF Spec, NeverOversold

\* Nothing but an insert makes two rows collide, so a property of pairs of
\* occupied rows that holds before holds after.
LEMMA OccupancyFalls ==
  ASSUME TypeOK, [Next]_vars, \A d \in Calls : ~Insert(d), NEW r \in Calls, Occupies(r)'
  PROVE  Occupies(r)
BY RowsOnlyShrink DEF RowMoves, Occupies

\* An insert leaves the caller with one active registration for its pass.
LEMMA InsertKeepsOnePerPass ==
  ASSUME IInv, OneActivePerPass, NEW d \in Calls, Insert(d)
  PROVE  OneActivePerPass'
<1> SUFFICES ASSUME NEW a \in Calls, NEW b \in Calls, a # b, Occupies(a)', Occupies(b)',
                    req'[a].pass = req'[b].pass
             PROVE  User(a)' # User(b)'
  BY DEF OneActivePerPass
<1>1. req' = req
  BY DEF Insert, Leave
<1>2. \A r \in Calls : r # d => reg'[r] = reg[r]
  BY InsertWritesOneRow DEF IInv, TypeOK
<1>3. ASSUME NEW r \in Calls, r # d, Occupies(r), req[r].pass = req[d].pass
      PROVE  User(r) # User(d)
  <2> DEFINE p == req[d].pass
  <2>1. p \in Passes /\ p \in Pools /\ p \in Basket(d) /\ p \in Basket(r)
    BY <1>3, RequestShape DEF IInv, TypeOK, Pools, Basket
  <2>2. lock[p] = d
    BY <2>1, InsertAddsCaller
  <2>3. r \in Counted(p)
    BY <1>3, <2>1 DEF Counted, Active, Occupies, ActiveStatuses, Releasable, SeatHolding
  <2> QED BY <2>1, <2>2, <2>3 DEF IInv, CountsHold
<1>4. CASE a # d /\ b # d
  BY <1>1, <1>2, <1>4 DEF OneActivePerPass, Occupies, User
<1>5. CASE a = d
  <2>1. Occupies(b)
    BY <1>2, <1>5 DEF Occupies
  <2> QED BY <1>1, <1>3, <1>5, <2>1 DEF User
<1>6. CASE b = d
  <2>1. Occupies(a)
    BY <1>2, <1>6 DEF Occupies
  <2> QED BY <1>1, <1>3, <1>6, <2>1 DEF User
<1> QED BY <1>4, <1>5, <1>6

\* A delegate never has two active registrations for one pass, whatever the
\* interleaving of their calls: the invariant TLC checks as OneActivePerPass.
THEOREM OneRegistrationPerPass == Spec => []OneActivePerPass
<1>1. Init => OneActivePerPass
  BY DEF Init, OneActivePerPass, Occupies, Releasable, SeatHolding
<1>2. IInv /\ OneActivePerPass /\ [Next]_vars => OneActivePerPass'
  <2> SUFFICES ASSUME IInv, OneActivePerPass, [Next]_vars PROVE OneActivePerPass'
    OBVIOUS
  <2>1. CASE \E d \in Calls : Insert(d)
    BY <2>1, InsertKeepsOnePerPass
  <2>2. CASE \A d \in Calls : ~Insert(d)
    <3>1. \A r \in Calls : Occupies(r)' => Occupies(r)
      BY <2>2, OccupancyFalls DEF IInv
    <3>2. req' = req
      BY RequestsFixed
    <3> QED BY <3>1, <3>2 DEF OneActivePerPass, User
  <2> QED BY <2>1, <2>2
<1> QED BY <1>1, <1>2, Inductive, PTL DEF Spec

\* A repeated call never holds a second seat, for any number of retries: the
\* invariant TLC checks as RetryTakesNoSecondSeat.
THEOREM RetriesAreIdempotent == Spec => []RetryTakesNoSecondSeat
<1>1. Init => RetryTakesNoSecondSeat
  BY DEF Init, RetryTakesNoSecondSeat, Occupies, Releasable, SeatHolding
<1>2. IInv /\ RetryTakesNoSecondSeat /\ [Next]_vars => RetryTakesNoSecondSeat'
  <2> SUFFICES ASSUME IInv, RetryTakesNoSecondSeat, [Next]_vars,
                      NEW a \in Calls, NEW b \in Calls, a # b, Occupies(a)', Occupies(b)',
                      req'[a].key = req'[b].key, req'[a].key # NoKey
               PROVE  User(a)' # User(b)'
    BY DEF RetryTakesNoSecondSeat
  <2>1. req' = req
    BY RequestsFixed
  <2>2. CASE \A d \in Calls : ~Insert(d)
    BY <2>1, <2>2, OccupancyFalls DEF IInv, RetryTakesNoSecondSeat, User
  <2>3. ASSUME NEW d \in Calls, Insert(d) PROVE User(a)' # User(b)'
    <3>1. \A r \in Calls : r # d /\ Occupies(r)' => Occupies(r)
      BY <2>3, InsertWritesOneRow DEF IInv, TypeOK, Occupies
    <3>2. ASSUME NEW r \in Calls, Occupies(r), req[r].key = req[d].key, req[d].key # NoKey
          PROVE  User(r) # User(d)
      BY <2>3, <3>2 DEF Insert, SameKey, IInv, KeysStay
    <3>3. CASE a # d /\ b # d
      BY <2>1, <3>1, <3>3 DEF RetryTakesNoSecondSeat, User
    <3>4. CASE a = d
      BY <2>1, <3>1, <3>2, <3>4 DEF User
    <3>5. CASE b = d
      BY <2>1, <3>1, <3>2, <3>5 DEF User
    <3> QED BY <3>3, <3>4, <3>5
  <2> QED BY <2>2, <2>3
<1> QED BY <1>1, <1>2, Inductive, PTL DEF Spec

\* Only CancelConference cancels a conference.
LEMMA CancelledBy ==
  ASSUME [Next]_vars, munStatus # "CANCELLED", munStatus' = "CANCELLED"
  PROVE  CancelConference
<1>1. ASSUME NEW c \in Calls, CallStep(c) \/ Quits(c) PROVE munStatus' = munStatus
  BY <1>1
  DEF CallStep, Begin, SweepExpired, LockMun, LockPool, Insert, InsertCollides, CreateOrder,
      CreateOrderFails, RecordOrder, Quits, Refuse, Crash, confVars
<1>2. ASSUME NEW r \in Calls, RowStep(r) PROVE munStatus' = munStatus
  BY <1>2
  DEF RowStep, PaymentConfirms, PaymentReleases, CancelRegistrationAsAdmin, CheckInDelegate,
      SetDelegateAttendance, confVars
<1>3. ASSUME NEW u \in Users, DeleteOwnAccount(u) PROVE munStatus' = munStatus
  BY <1>3 DEF DeleteOwnAccount
<1>4. CASE ReleaseJob \/ Tick \/ UNCHANGED vars
  BY <1>4 DEF ReleaseJob, JobReleasesCheckouts, JobReleasesUnordered, Tick, vars, confVars
<1>5. CASE ConferenceStep
  BY <1>5 DEF ConferenceStep, CloseRegistration, StartConference, SuspendConference,
              UpdateCapacity, DeletePass
<1> QED BY <1>1, <1>2, <1>3, <1>4, <1>5 DEF Next

\* A cancelled conference holds no unpaid seat, and no call that was already
\* past its checks takes one: the invariant TLC checks under the same name.
THEOREM CancellingReleases == Spec => []CancelledConferenceHoldsNothing
<1>1. Init => CancelledConferenceHoldsNothing
  BY DEF Init, CancelledConferenceHoldsNothing
<1>2. IInv /\ CancelledConferenceHoldsNothing /\ [Next]_vars => CancelledConferenceHoldsNothing'
  <2> SUFFICES ASSUME IInv, CancelledConferenceHoldsNothing, [Next]_vars,
                      munStatus' = "CANCELLED", NEW r \in Calls
               PROVE  reg'[r] \notin Releasable
    BY DEF CancelledConferenceHoldsNothing
  <2>1. CASE munStatus # "CANCELLED"
    <3>1. reg' = Released({x \in Calls : reg[x] \in Releasable})
      BY <2>1, CancelledBy DEF CancelConference
    <3> QED BY <3>1 DEF Released, Releasable
  <2>2. CASE munStatus = "CANCELLED"
    <3>1. \A d \in Calls : ~Insert(d)
      BY <2>2 DEF Insert, AllLocked, IInv, OpenWhileShared, MunShared
    <3> QED BY <2>2, <3>1, RowsOnlyShrink DEF CancelledConferenceHoldsNothing, RowMoves, IInv
  <2> QED BY <2>1, <2>2
<1> QED BY <1>1, <1>2, Inductive, PTL DEF Spec

\* Where a call's answer comes from: a row of its own, or the caller's row
\* under the same key for the same pass.
LEMMA AnswersGiven ==
  ASSUME TypeOK, [Next]_vars, NEW c \in Calls
  PROVE  \/ answer'[c] = answer[c]
         \/ answer'[c] = Nobody
         \/ answer'[c] = c /\ (Insert(c) \/ pc[c] = "record")
         \/ \E r \in SameKey(c) : answer'[c] = r /\ req[r].pass = req[c].pass
<1>1. ASSUME NEW d \in Calls, CallStep(d) \/ Quits(d)
      PROVE  \/ answer'[c] = answer[c]
             \/ answer'[c] = Nobody
             \/ answer'[c] = c /\ (Insert(c) \/ pc[c] = "record")
             \/ \E r \in SameKey(c) : answer'[c] = r /\ req[r].pass = req[c].pass
  <2>1. CASE Begin(d) \/ InsertCollides(d) \/ \E p \in Pools : LockPool(d, p)
    <3>1. \/ UNCHANGED answer
          \/ answer' = [answer EXCEPT ![d] = Nobody]
          \/ \E r \in SameKey(d) : /\ answer' = [answer EXCEPT ![d] = r]
                                   /\ req[r].pass = req[d].pass
      BY <2>1 DEF Begin, InsertCollides, LockPool, Replay, Leave, Proceed
    <3> QED BY <3>1 DEF TypeOK
  <2>2. CASE Insert(d) \/ RecordOrder(d)
    BY <2>2 DEF Insert, RecordOrder, Leave, TypeOK
  <2>3. CASE SweepExpired(d) \/ LockMun(d) \/ CreateOrder(d) \/ CreateOrderFails(d) \/ Quits(d)
    BY <2>3
    DEF SweepExpired, LockMun, CreateOrder, CreateOrderFails, Quits, Refuse, Crash, Leave,
        Proceed, TypeOK
  <2> QED BY <1>1, <2>1, <2>2, <2>3 DEF CallStep
<1>2. CASE UNCHANGED callVars
  BY <1>2 DEF callVars
<1> QED BY <1>1, <1>2, OthersLeaveCalls

\* A call answers with its own user's registration for the pass it asked for:
\* the invariant TLC checks as AnswersOwnRegistration.
THEOREM AnswersAreOwn == Spec => []AnswersOwnRegistration
<1>1. Init => AnswersOwnRegistration
  BY CallsAssumption DEF Init, AnswersOwnRegistration
<1>2. IInv /\ AnswersOwnRegistration /\ [Next]_vars => AnswersOwnRegistration'
  <2> SUFFICES ASSUME IInv, AnswersOwnRegistration, [Next]_vars,
                      NEW c \in Calls, NEW a \in Calls, answer'[c] = a
               PROVE  reg'[a] # "none" /\ User(a)' = User(c)' /\ req'[a].pass = req'[c].pass
    BY DEF AnswersOwnRegistration
  <2>1. req' = req
    BY RequestsFixed
  <2>2. \A r \in Calls : reg[r] # "none" => reg'[r] # "none"
    <3>1. CASE \A d \in Calls : ~Insert(d)
      BY <3>1, RowsOnlyShrink DEF RowMoves, IInv
    <3>2. ASSUME NEW d \in Calls,
    Insert(d) PROVE \A r \in Calls : reg[r] # "none" => reg'[r] # "none"
      BY <3>2, InsertWritesOneRow DEF IInv, TypeOK
    <3> QED BY <3>1, <3>2
  <2>3. CASE answer'[c] = answer[c]
    BY <2>1, <2>2, <2>3 DEF AnswersOwnRegistration, User
  <2>4. CASE answer'[c] = c /\ (Insert(c) \/ pc[c] = "record")
    <3>1. reg'[c] # "none"
      <4>1. CASE Insert(c)
        BY <4>1, InsertWritesOneRow DEF IInv
      <4>2. CASE pc[c] = "record"
        BY <2>2, <4>2 DEF IInv, RowsFollowCalls
      <4> QED BY <2>4, <4>1, <4>2
    <3> QED BY <2>4, <3>1
  <2>5. ASSUME NEW r \in SameKey(c), answer'[c] = r, req[r].pass = req[c].pass
        PROVE  reg'[a] # "none" /\ User(a)' = User(c)' /\ req'[a].pass = req'[c].pass
    BY <2>1, <2>2, <2>5 DEF SameKey, IInv, KeysStay, TypeOK, User
  <2> QED BY <2>3, <2>4, <2>5, AnswersGiven, CallsAssumption DEF IInv
<1> QED BY <1>1, <1>2, Inductive, PTL DEF Spec

-----------------------------------------------------------------------------
(* Reservation implements Seats. *)

Phases == [r \in Calls |-> SeatPhase(reg[r])]

LEMMA PhaseOfStatus ==
  ASSUME NEW status \in RegistrationStatus
  PROVE  /\ SeatPhase(status) = "new"      <=> status = "none"
         /\ SeatPhase(status) = "held"     <=> status \in Releasable
         /\ SeatPhase(status) = "seated"   <=> status \in SeatHolding
         /\ SeatPhase(status) = "released" <=> status = "CANCELLED"
BY DEF SeatPhase, RegistrationStatus, Releasable, SeatHolding

\* The pools a booking of Seats has taken are the ones this module counts.
LEMMA TakenIsOccupants ==
  ASSUME TypeOK, NEW p
  PROVE  Promise!Taken(p) = Occupants(p)
<1>1. \A r \in Calls : SeatPhase(reg[r]) \in {"held", "seated"} <=> Occupies(r)
  BY PhaseOfStatus DEF TypeOK, Occupies
<1> QED BY <1>1 DEF Promise!Taken, Occupants

\* Seats counts with the same Cardinality as this module.
LEMMA SameCardinality == \A S : Promise!Cardinality(S) = Cardinality(S)
BY DEF Promise!Cardinality, Cardinality

\* Inserting the row of a call is a claim.
LEMMA InsertClaims ==
  ASSUME IInv, NEW c \in Calls, Insert(c)
  PROVE  Promise!Claim(c)
<1>1. req' = req /\ capacity' = capacity
  BY DEF Insert, Leave, confVars
<1>2. reg[c] = "none"
  BY DEF Insert, AllLocked, IInv, RowsFollowCalls
<1>3. ASSUME NEW p \in Basket(c)
      PROVE  Cardinality(Promise!Taken(p)) < capacity[p]
  <2>1. p \in Pools
    BY RequestShape DEF Basket, IInv, TypeOK
  <2>2. lock[p] = c
    BY <1>3, <2>1, InsertAddsCaller
  <2>3. Counted(p) \subseteq seen[c][p] /\ Cardinality(seen[c][p]) < capacity[p]
    BY <2>1, <2>2 DEF IInv, CountsHold
  <2>4. IsFiniteSet(seen[c][p])
    <3>1. seen[c][p] \subseteq Calls
      BY <2>1 DEF IInv, TypeOK
    <3> QED BY <3>1, CallsAssumption, FS_Subset
  <2>5. IsFiniteSet(Counted(p)) /\ Cardinality(Counted(p)) <= Cardinality(seen[c][p])
    BY <2>3, <2>4, FS_Subset
  <2>6. /\ Cardinality(Counted(p)) \in Nat /\ Cardinality(seen[c][p]) \in Nat
        /\ capacity[p] \in Nat
    BY <2>1, <2>4, <2>5, FS_CardinalityType, CapacityAssumption DEF IInv, TypeOK
  <2>7. Promise!Taken(p) = Counted(p)
    BY TakenIsOccupants, CountedIsOccupants DEF IInv
  <2> QED BY <2>3, <2>5, <2>6, <2>7
<1>4. Phases' = [Phases EXCEPT ![c] = SeatPhase(reg'[c])]
  <2>1. \A r \in Calls : r # c => reg'[r] = reg[r]
    BY InsertWritesOneRow DEF IInv, TypeOK
  <2> QED BY <2>1 DEF Phases
<1>5. SeatPhase(reg'[c]) \in {"held", "seated"} /\ SeatPhase(reg[c]) = "new"
  BY <1>2, InsertWritesOneRow, PhaseOfStatus DEF IInv, Releasable, SeatHolding,
       RegistrationStatus
<1>6. [r \in Calls |-> Basket(r)]' = [r \in Calls |-> Basket(r)]
  BY <1>1 DEF Basket
<1> QED
  BY <1>1, <1>3, <1>4, <1>5, <1>6, SameCardinality DEF Promise!Claim, Phases

\* The rest of the state of Seats, for a step that changes rows only.
LEMMA ClaimsFixed ==
  ASSUME [Next]_vars
  PROVE  [r \in Calls |-> Basket(r)]' = [r \in Calls |-> Basket(r)]
BY RequestsFixed DEF Basket

\* Releasing holds is one step of Seats, or none when there are none.
LEMMA ReleaseMaps ==
  ASSUME IInv, [Next]_vars, NEW S \in SUBSET Calls, \A r \in S : reg[r] \in Releasable,
         reg' = Released(S), capacity' = capacity
  PROVE  [Promise!Next]_(Promise!vars)
<1>1. \A r \in S : SeatPhase(reg[r]) = "held"
  BY PhaseOfStatus DEF IInv, TypeOK
<1>2. SeatPhase("CANCELLED") = "released"
  BY DEF SeatPhase, Releasable, SeatHolding
<1>3. Phases' = [r \in Calls |-> IF r \in S THEN "released" ELSE Phases[r]]
  BY <1>2 DEF Phases, Released
<1>4. CASE S = {}
  <2>1. Phases' = Phases
    BY <1>3, <1>4 DEF Phases
  <2> QED BY <2>1, ClaimsFixed DEF Promise!vars, Phases
<1>5. CASE S # {}
  <2>1. Promise!ReleaseHolds(S)
    BY <1>1, <1>3, ClaimsFixed DEF Promise!ReleaseHolds, Phases
  <2> QED BY <1>5, <2>1 DEF Promise!Next
<1> QED BY <1>4, <1>5

\* One row moves within its phase: no step of Seats.
LEMMA SamePhaseMaps ==
  ASSUME IInv, [Next]_vars, NEW r \in Calls, NEW status,
         reg' = [reg EXCEPT ![r] = status], SeatPhase(status) = SeatPhase(reg[r]),
         capacity' = capacity
  PROVE  [Promise!Next]_(Promise!vars)
<1>1. Phases' = Phases
  BY DEF Phases, IInv, TypeOK
<1> QED BY <1>1, ClaimsFixed DEF Promise!vars, Phases

\* No row and no capacity changes: no step of Seats.
LEMMA StutterMaps ==
  ASSUME [Next]_vars, UNCHANGED <<reg, capacity>>
  PROVE  [Promise!Next]_(Promise!vars)
BY ClaimsFixed DEF Promise!vars

LEMMA RowStepMaps ==
  ASSUME IInv, [Next]_vars, NEW r \in Calls, RowStep(r)
  PROVE  [Promise!Next]_(Promise!vars)
<1>0. /\ \A t \in Releasable : SeatPhase(t) = "held"
      /\ \A t \in SeatHolding : SeatPhase(t) = "seated"
      /\ SeatPhase("CANCELLED") = "released"
  BY DEF SeatPhase, Releasable, SeatHolding
<1>1. CASE PaymentConfirms(r)
  <2>1. SeatPhase(reg[r]) = "held" /\ SeatPhase("CONFIRMED") = "seated"
    BY <1>0, <1>1 DEF PaymentConfirms, Releasable, SeatHolding
  <2>2. Phases' = [Phases EXCEPT ![r] = "seated"] /\ capacity' = capacity
    BY <1>1, <2>1 DEF PaymentConfirms, Phases, confVars, IInv, TypeOK
  <2>3. Promise!Seat(r)
    BY <2>1, <2>2, ClaimsFixed DEF Promise!Seat, Phases
  <2> QED BY <2>3 DEF Promise!Next
<1>2. CASE PaymentReleases(r)
  BY <1>2, ReleaseMaps DEF PaymentReleases, Releasable, confVars
<1>3. CASE CancelRegistrationAsAdmin(r)
  <2>1. CASE reg[r] \in Releasable
    BY <1>3, <2>1, ReleaseMaps DEF CancelRegistrationAsAdmin, confVars
  <2>2. CASE reg[r] \notin Releasable
    <3>1. reg[r] \in SeatHolding
      BY <1>3, <2>2 DEF CancelRegistrationAsAdmin, IInv, TypeOK, RegistrationStatus
    <3>2. Phases' = [Phases EXCEPT ![r] = "released"] /\ capacity' = capacity
      BY <1>0, <1>3 DEF CancelRegistrationAsAdmin, Released, Phases, confVars, IInv, TypeOK
    <3>3. Promise!GiveUpSeat(r)
      BY <1>0, <3>1, <3>2, ClaimsFixed DEF Promise!GiveUpSeat, Phases
    <3> QED BY <3>3 DEF Promise!Next
  <2> QED BY <2>1, <2>2
<1>4. CASE CheckInDelegate(r)
  BY <1>0, <1>4, SamePhaseMaps DEF CheckInDelegate, SeatHolding, confVars
<1>5. ASSUME NEW status \in {"ATTENDED", "NO_SHOW"}, SetDelegateAttendance(r, status)
      PROVE  [Promise!Next]_(Promise!vars)
  BY <1>0, <1>5, SamePhaseMaps DEF SetDelegateAttendance, SeatHolding, confVars
<1> QED BY <1>1, <1>2, <1>3, <1>4, <1>5 DEF RowStep

LEMMA CallStepMaps ==
  ASSUME IInv, [Next]_vars, NEW c \in Calls, CallStep(c) \/ Quits(c)
  PROVE  [Promise!Next]_(Promise!vars)
<1>1. CASE Insert(c)
  BY <1>1, InsertClaims DEF Promise!Next
<1>2. CASE SweepExpired(c)
  <2> DEFINE S == {r \in Calls : HoldExpired(r, now)}
  <2>1. reg' = Released(S) /\ capacity' = capacity
    BY <1>2 DEF SweepExpired, confVars
  <2>2. S \in SUBSET Calls /\ \A r \in S : reg[r] \in Releasable
    BY DEF HoldExpired
  <2> HIDE DEF S
  <2> QED BY <2>1, <2>2, ReleaseMaps
<1>3. CASE CreateOrderFails(c)
  <2>1. capacity' = capacity
    BY <1>3 DEF CreateOrderFails, confVars
  <2>2. CASE reg[c] = "PENDING"
    BY <1>3, <2>1, <2>2, ReleaseMaps DEF CreateOrderFails, Releasable
  <2>3. CASE reg[c] # "PENDING"
    BY <1>3, <2>1, <2>3, StutterMaps DEF CreateOrderFails
  <2> QED BY <2>2, <2>3
<1>4. CASE RecordOrder(c)
  <2>1. capacity' = capacity
    BY <1>4 DEF RecordOrder, confVars
  <2>2. CASE reg[c] = "PENDING"
    <3>1. SeatPhase("PAYMENT_PENDING") = SeatPhase(reg[c])
      BY <2>2 DEF SeatPhase, Releasable
    <3> QED BY <1>4, <2>1, <2>2, <3>1, SamePhaseMaps DEF RecordOrder
  <2>3. CASE reg[c] # "PENDING"
    BY <1>4, <2>1, <2>3, StutterMaps DEF RecordOrder
  <2> QED BY <2>2, <2>3
<1>5. CASE \/ Begin(c) \/ LockMun(c) \/ InsertCollides(c) \/ CreateOrder(c) \/ Quits(c)
           \/ \E p \in Pools : LockPool(c, p)
  <2>1. UNCHANGED <<reg, capacity>>
    BY <1>5
    DEF Begin, LockMun, InsertCollides, CreateOrder, Quits, Refuse, Crash, LockPool, rowVars,
        confVars
  <2> QED BY <2>1, StutterMaps
<1> QED BY <1>1, <1>2, <1>3, <1>4, <1>5 DEF CallStep

LEMMA OtherStepMaps ==
  ASSUME IInv, [Next]_vars,
         \/ \E u \in Users : DeleteOwnAccount(u)
         \/ ReleaseJob \/ ConferenceStep \/ Tick \/ UNCHANGED vars
  PROVE  [Promise!Next]_(Promise!vars)
<1>1. ASSUME NEW u \in Users, DeleteOwnAccount(u) PROVE [Promise!Next]_(Promise!vars)
  <2> DEFINE S == {r \in Calls : User(r) = u /\ reg[r] \in Releasable}
  <2>1. reg' = Released(S) /\ capacity' = capacity
    BY <1>1 DEF DeleteOwnAccount
  <2>2. S \in SUBSET Calls /\ \A r \in S : reg[r] \in Releasable
    OBVIOUS
  <2> HIDE DEF S
  <2> QED BY <2>1, <2>2, ReleaseMaps
<1>2. ASSUME NEW status \in Releasable, NEW at, ReleaseStatus(status, at), capacity' = capacity
      PROVE  [Promise!Next]_(Promise!vars)
  <2> DEFINE S == {r \in Calls : reg[r] = status /\ expiresAt[r] < at}
  <2>1. reg' = Released(S)
    BY <1>2 DEF ReleaseStatus
  <2>2. S \in SUBSET Calls /\ \A r \in S : reg[r] \in Releasable
    OBVIOUS
  <2> HIDE DEF S
  <2> QED BY <1>2, <2>1, <2>2, ReleaseMaps
<1>3. CASE JobReleasesCheckouts
  BY <1>2, <1>3 DEF JobReleasesCheckouts, confVars, Releasable
<1>4. CASE JobReleasesUnordered
  BY <1>2, <1>4 DEF JobReleasesUnordered, confVars, Releasable
<1>5. CASE CancelConference
  <2> DEFINE S == {r \in Calls : reg[r] \in Releasable}
  <2>1. reg' = Released(S) /\ capacity' = capacity
    BY <1>5 DEF CancelConference
  <2>2. S \in SUBSET Calls /\ \A r \in S : reg[r] \in Releasable
    OBVIOUS
  <2> HIDE DEF S
  <2> QED BY <2>1, <2>2, ReleaseMaps
<1>6. ASSUME NEW p \in Pools, NEW n \in Capacities, UpdateCapacity(p, n)
      PROVE  [Promise!Next]_(Promise!vars)
  <2>1. Promise!Resize(p, n)
    BY <1>6, ClaimsFixed DEF UpdateCapacity, Promise!Resize, rowVars
  <2> QED BY <2>1 DEF Promise!Next
<1>7. CASE \/ CloseRegistration \/ StartConference \/ SuspendConference
           \/ Tick \/ UNCHANGED vars
           \/ \E p \in Passes : DeletePass(p)
  <2>1. UNCHANGED <<reg, capacity>>
    BY <1>7 DEF CloseRegistration, StartConference, SuspendConference, DeletePass, Tick, vars,
                confVars, rowVars
  <2> QED BY <2>1, StutterMaps
<1> QED BY <1>1, <1>3, <1>4, <1>5, <1>6, <1>7 DEF ReleaseJob, ConferenceStep

\* The reservation protocol, with its locks, sweeps, retries and crashes,
\* keeps the promise of Seats: the refinement TLC checks as KeepsSeatPromise.
THEOREM SeatPromiseKept == Spec => KeepsSeatPromise
<1>1. Init => Promise!Init
  <2> SUFFICES ASSUME Init PROVE Promise!Init
    OBVIOUS
  <2>1. \A r \in Calls : Basket(r) \in SUBSET Pools
    BY RequestShape DEF Init, Basket
  <2>2. SeatPhase("none") = "new"
    BY DEF SeatPhase, Releasable, SeatHolding
  <2> QED BY <2>1, <2>2, CapacityAssumption DEF Init, Promise!Init
<1>2. IInv /\ [Next]_vars => [Promise!Next]_(Promise!vars)
  BY CallStepMaps, RowStepMaps, OtherStepMaps DEF Next
<1> QED BY <1>1, <1>2, Inductive, PTL DEF Spec, KeepsSeatPromise, Promise!Spec
=============================================================================
