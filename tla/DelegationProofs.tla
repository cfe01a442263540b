-------------------------- MODULE DelegationProofs --------------------------
(***************************************************************************)
(* Proofs about Delegation, for every set of teams of every size, every    *)
(* capacity, and every number of invitations, links and concurrent calls   *)
(* that meets the assumptions of that module.                              *)
(***************************************************************************)
EXTENDS Delegation, TLAPS, FiniteSetTheorems

-----------------------------------------------------------------------------
(* Seats and teams. *)

\* A seat belongs to one team, the one TeamOf finds.
LEMMA SeatsByTeam ==
  /\ \A t \in Teams : \A s \in SeatsOf[t] : s \in Seats /\ TeamOf(s) = t
  /\ \A s \in Seats : TeamOf(s) \in Teams /\ s \in SeatsOf[TeamOf(s)]
  /\ \A t \in Teams : HeadSeat[t] \in SeatsOf[t] /\ HeadSeat[t] \in Seats
                      /\ Head[t] \in Delegates
  /\ Nobody \notin Delegates /\ Nobody \notin Teams /\ Nobody \notin Calls
<1>1. ASSUME NEW t \in Teams, NEW s \in SeatsOf[t] PROVE s \in Seats /\ TeamOf(s) = t
  <2>1. \A x \in Teams : s \in SeatsOf[x] => x = t
    BY <1>1, TeamsAssumption
  <2> QED BY <1>1, <2>1 DEF Seats, TeamOf
<1>2. ASSUME NEW s \in Seats PROVE TeamOf(s) \in Teams /\ s \in SeatsOf[TeamOf(s)]
  BY <1>2 DEF Seats, TeamOf
<1> QED BY <1>1, <1>2, TeamsAssumption DEF Seats

\* A pass has finitely many seats.
LEMMA SeatsFinite == IsFiniteSet(Seats)
<1> DEFINE R == {SeatsOf[t] : t \in Teams}
           f == [t \in Teams |-> SeatsOf[t]]
<1>1. f \in Surjection(Teams, R)
  BY DEF Surjection
<1>2. IsFiniteSet(R)
  BY <1>1, TeamsAssumption, FS_Surjection
<1>3. \A S \in R : IsFiniteSet(S)
  BY TeamsAssumption
<1> HIDE DEF R
<1>4. IsFiniteSet(UNION R)
  BY <1>2, <1>3, FS_UNION
<1>5. Seats = UNION R
  BY DEF Seats, R
<1> QED BY <1>4, <1>5

\* Moving rows writes the rows named and no others.
LEMMA MovedGives ==
  ASSUME NEW S \in SUBSET Seats, NEW st, status' = Moved(S, st)
  PROVE  \A s \in Seats : status'[s] = IF s \in S THEN st ELSE status[s]
BY DEF Moved

-----------------------------------------------------------------------------
(* Type correctness. *)

\* Moving rows to a status of the table keeps the type of the column.
LEMMA MovedTypes ==
  ASSUME TypeOK, NEW S, NEW st \in Active \cup {"none", "CANCELLED"}
  PROVE  Moved(S, st) \in [Seats -> Active \cup {"none", "CANCELLED"}]
BY DEF TypeOK, Moved

\* The rows of registration_group_invitations.
InvitationRows ==
  [status : {"unused", "PENDING", "ACCEPTED", "EXPIRED", "CANCELLED"},
   seat : Seats \cup {Nobody}, link : Nat,
   expiresAt : 0..(MaxTime + InviteTTL), sentAt : 0..MaxTime]

\* A statement on one invitation leaves a row of the table.
LEMMA InvitationTyped ==
  ASSUME TypeOK, NEW i \in Invitations, NEW row \in InvitationRows,
         inv' = [inv EXCEPT ![i] = row]
  PROVE  inv' \in [Invitations -> InvitationRows]
BY DEF TypeOK, InvitationRows

\* Closing an invitation changes its status and nothing else.
LEMMA StatusTyped ==
  ASSUME TypeOK, NEW i \in Invitations, NEW st \in {"ACCEPTED", "CANCELLED"},
         inv' = [inv EXCEPT ![i].status = st]
  PROVE  inv' \in [Invitations -> InvitationRows]
<1>1. inv[i] \in InvitationRows
  BY DEF TypeOK, InvitationRows
<1>2. [inv[i] EXCEPT !.status = st] \in InvitationRows
  BY <1>1 DEF InvitationRows
<1>3. inv' = [inv EXCEPT ![i] = [inv[i] EXCEPT !.status = st]]
  OBVIOUS
<1> QED BY <1>2, <1>3, InvitationTyped

LEMMA TypeInit == Init => TypeOK
BY NumbersAssumption DEF Init, TypeOK, NotSent, Idle

\* A team's own steps.
LEMMA TeamTypes ==
  ASSUME TypeOK, NEW t \in Teams, TeamStep(t)
  PROVE  TypeOK'
<1> USE NumbersAssumption, SeatsByTeam
<1>1. CASE LockPass(t)
  BY <1>1 DEF LockPass, TypeOK
<1>2. ASSUME NEW free \in BOOLEAN, InsertTeam(t, free) PROVE TypeOK'
  <2>1. status' \in [Seats -> Active \cup {"none", "CANCELLED"}]
    BY <1>2, MovedTypes DEF InsertTeam, Active, Unpaid, SeatHolding
  <2>2. owner' \in [Seats -> Delegates \cup {Nobody}]
    BY <1>2 DEF InsertTeam, TypeOK
  <2>3. now + HoldTTL \in 0..(MaxTime + HoldTTL)
    BY DEF TypeOK
  <2> QED BY <1>2, <2>1, <2>2, <2>3 DEF InsertTeam, TypeOK
<1>3. CASE RecordOrder(t)
  <2>1. status' \in [Seats -> Active \cup {"none", "CANCELLED"}]
    BY <1>3, MovedTypes DEF RecordOrder, Active, Unpaid
  <2> QED BY <1>3, <2>1 DEF RecordOrder, TypeOK
<1>4. CASE CreateOrderFails(t)
  <2>1. status' \in [Seats -> Active \cup {"none", "CANCELLED"}]
    BY <1>4, MovedTypes DEF CreateOrderFails
  <2> QED BY <1>4, <2>1 DEF CreateOrderFails, TypeOK
<1>5. ASSUME NEW at \in 0..MaxTime, Captured(t, at) PROVE TypeOK'
  <2>1. status' \in [Seats -> Active \cup {"none", "CANCELLED"}]
    <3>1. Moved(MemberScope(t), "CONFIRMED") \in [Seats -> Active \cup {"none", "CANCELLED"}]
      BY MovedTypes DEF Active, SeatHolding
    <3>2. Moved(MemberScope(t), "CANCELLED") \in [Seats -> Active \cup {"none", "CANCELLED"}]
      BY MovedTypes
    <3> QED BY <1>5, <3>1, <3>2 DEF Captured, TypeOK
  <2>2. payment' \in [Teams -> {"none", "PENDING", "FAILED", "PAID", "EXCEPTION"}]
    BY <1>5 DEF Captured, TypeOK
  <2> QED BY <1>5, <2>1, <2>2 DEF Captured, TypeOK
<1>6. CASE Failed(t)
  <2>1. status' \in [Seats -> Active \cup {"none", "CANCELLED"}]
    BY <1>6, MovedTypes DEF Failed
  <2> QED BY <1>6, <2>1 DEF Failed, TypeOK
<1> QED BY <1>1, <1>2, <1>3, <1>4, <1>5, <1>6 DEF TeamStep

\* Sweeps, staff and attendance.
LEMMA SeatTypes ==
  ASSUME TypeOK, SeatStep
  PROVE  TypeOK'
<1>1. status' \in [Seats -> Active \cup {"none", "CANCELLED"}]
  <2>1. ASSUME NEW S, NEW st \in {"CANCELLED", "ATTENDED", "NO_SHOW"}, status' = Moved(S, st)
        PROVE  status' \in [Seats -> Active \cup {"none", "CANCELLED"}]
    BY <2>1, MovedTypes DEF Active, SeatHolding
  <2> QED BY <2>1
      DEF SeatStep, ReleaseExpired, DeleteOwnAccount, CancelRegistrationAsAdmin, Attend
<1>2. UNCHANGED <<now, teamVars, owner, inv, call, resend>>
  BY DEF SeatStep, ReleaseExpired, DeleteOwnAccount, CancelRegistrationAsAdmin, Attend
<1> QED BY <1>1, <1>2 DEF TypeOK, teamVars

LEMMA InvitationTypes ==
  ASSUME TypeOK, InvitationStep
  PROVE  TypeOK'
<1> USE NumbersAssumption, SeatsByTeam
<1>0. ASSUME NEW t \in Teams, CheckInvite(t) PROVE TypeOK'
  BY <1>0 DEF CheckInvite, TypeOK
<1>1. ASSUME NEW t \in Teams, ExpireStale(t) PROVE TypeOK'
  BY <1>1 DEF ExpireStale, TypeOK, teamVars
<1>2. ASSUME NEW t \in Teams, NEW i \in Invitations, NEW s \in SeatsOf[t],
             InviteGroupMember(t, i, s)
      PROVE  TypeOK'
  <2>1. s \in Seats /\ now + InviteTTL \in 0..(MaxTime + InviteTTL)
    BY DEF TypeOK
  <2> QED BY <1>2, <2>1 DEF InviteGroupMember, TypeOK, teamVars
<1>3. ASSUME NEW i \in Invitations, CancelGroupInvitation(i) PROVE TypeOK'
  <2>1. inv' \in [Invitations -> InvitationRows]
    BY <1>3, StatusTyped DEF CancelGroupInvitation
  <2> QED BY <1>3, <2>1 DEF CancelGroupInvitation, TypeOK, teamVars, InvitationRows
<1>4. ASSUME NEW r \in Resends, NEW i \in Invitations, CheckResend(r, i) PROVE TypeOK'
  BY <1>4 DEF CheckResend, TypeOK, teamVars
<1>5. ASSUME NEW r \in Resends, NEW i \in Invitations, ResendGroupInvitation(r, i)
      PROVE  TypeOK'
  <2>1. now + InviteTTL \in 0..(MaxTime + InviteTTL)
    BY DEF TypeOK
  <2> DEFINE row == [inv[i] EXCEPT !.link = @ + 1, !.expiresAt = now + InviteTTL,
                                   !.sentAt = now]
  <2>2. row \in InvitationRows
    <3>1. inv[i] \in InvitationRows /\ now \in 0..MaxTime
      BY DEF TypeOK, InvitationRows
    <3>2. inv[i].link + 1 \in Nat
      BY <3>1 DEF InvitationRows
    <3> QED BY <2>1, <3>1, <3>2 DEF InvitationRows
  <2>3. inv' = [inv EXCEPT ![i] = row]
    BY <1>5 DEF ResendGroupInvitation
  <2> HIDE DEF row
  <2>4. inv' \in [Invitations -> InvitationRows]
    BY <2>2, <2>3, InvitationTyped
  <2> QED BY <1>5, <2>4 DEF ResendGroupInvitation, TypeOK, teamVars, InvitationRows
<1> QED BY <1>0, <1>1, <1>2, <1>3, <1>4, <1>5 DEF InvitationStep

LEMMA AcceptTypes ==
  ASSUME TypeOK, NEW c \in Calls, AcceptStep(c)
  PROVE  TypeOK'
<1>1. ASSUME NEW u \in Delegates, NEW i \in Invitations, NEW link, LockInvitation(c, u, i, link)
      PROVE  TypeOK'
  BY <1>1 DEF LockInvitation, TypeOK, teamVars
<1>2. CASE LockSeat(c)
  BY <1>2 DEF LockSeat, TypeOK, teamVars
<1>3. CASE Rollback(c)
  BY <1>3 DEF Rollback, Idle, TypeOK, teamVars
<1>4. CASE Accept(c)
  <2>1. owner' \in [Seats -> Delegates \cup {Nobody}]
    BY <1>4 DEF Accept, TypeOK
  <2>2. inv' \in [Invitations -> InvitationRows]
    <3>1. CASE call[c].inv \in Invitations
      BY <1>4, <3>1, StatusTyped DEF Accept
    <3>2. CASE call[c].inv \notin Invitations
      BY <1>4, <3>2 DEF Accept, TypeOK, InvitationRows
    <3> QED BY <3>1, <3>2
  <2> QED BY <1>4, <2>1, <2>2 DEF Accept, Idle, TypeOK, teamVars, InvitationRows
<1> QED BY <1>1, <1>2, <1>3, <1>4 DEF AcceptStep

LEMMA TypeStep == TypeOK /\ [Next]_vars => TypeOK'
<1> SUFFICES ASSUME TypeOK, [Next]_vars PROVE TypeOK'
  OBVIOUS
<1>1. CASE Tick
  BY <1>1, NumbersAssumption DEF Tick, TypeOK, teamVars
<1>2. CASE UNCHANGED vars
  BY <1>2 DEF vars, TypeOK, teamVars
<1> QED BY <1>1, <1>2, TeamTypes, SeatTypes, InvitationTypes, AcceptTypes DEF Next

\* Every variable keeps its type: the invariant TLC checks as TypeOK.
THEOREM TypeCorrect == Spec => []TypeOK
BY TypeInit, TypeStep, PTL DEF Spec

-----------------------------------------------------------------------------
(* What one step may do to the rows. *)

\* A settled, swept, cancelled or attended row: a seat an accept call has
\* claimed keeps its status.
RowMoves(s) ==
  \/ status'[s] = status[s]
  \/ status[s] \in Unpaid /\ status'[s] = "CANCELLED"
  \/ status[s] = "PAYMENT_PENDING" /\ status'[s] = "CONFIRMED"
  \/ /\ SeatFree(s) /\ status[s] \in SeatHolding
     /\ status'[s] \in {"ATTENDED", "NO_SHOW", "CANCELLED"}

\* A step that only moves rows along.
QuietStep ==
  /\ \A s \in Seats : RowMoves(s)
  /\ \A t \in Teams : payment'[t] = "none" <=> payment[t] = "none"
  /\ UNCHANGED <<phase, passLock, owner, inv, call>>

\* The answer of createOrder moves every seat of the team still PENDING.
OrderAnswered(t) ==
  /\ phase[t] = "order" /\ phase' = [phase EXCEPT ![t] = "done"]
  /\ \A s \in Seats :
       IF s \in SeatsOf[t] /\ status[s] = "PENDING"
       THEN status'[s] \in {"PAYMENT_PENDING", "CANCELLED"}
       ELSE status'[s] = status[s]
  /\ \A x \in Teams : x # t => payment'[x] = payment[x]
  /\ UNCHANGED <<passLock, owner, inv, call>>

LEMMA PaymentQuiet ==
  ASSUME TypeOK, NEW t \in Teams, Failed(t) \/ \E at \in 0..MaxTime : Captured(t, at)
  PROVE  QuietStep
<1>1. MemberScope(t) \in SUBSET Seats /\ \A s \in MemberScope(t) : status[s] = "PAYMENT_PENDING"
  BY SeatsByTeam DEF MemberScope, Having
<1>2. CASE Failed(t)
  <2>1. \A s \in Seats : RowMoves(s)
    BY <1>1, <1>2, MovedGives DEF Failed, RowMoves, Unpaid
  <2>2. \A x \in Teams : payment'[x] = "none" <=> payment[x] = "none"
    BY <1>2 DEF Failed, TypeOK
  <2> QED BY <1>2, <2>1, <2>2 DEF Failed, QuietStep
<1>3. ASSUME NEW at \in 0..MaxTime, Captured(t, at) PROVE QuietStep
  <2>1. \/ status' = status
        \/ \E st \in {"CONFIRMED", "CANCELLED"} : status' = Moved(MemberScope(t), st)
    BY <1>3 DEF Captured
  <2>2. \A s \in Seats : RowMoves(s)
    BY <1>1, <2>1, MovedGives DEF RowMoves, Unpaid
  <2>3. \A x \in Teams : payment'[x] = "none" <=> payment[x] = "none"
    BY <1>3 DEF Captured, TypeOK
  <2> QED BY <1>3, <2>2, <2>3 DEF Captured, QuietStep
<1> QED BY <1>2, <1>3

LEMMA SeatQuiet ==
  ASSUME TypeOK, SeatStep
  PROVE  QuietStep
<1>1. UNCHANGED <<phase, passLock, owner, inv, call, payment>>
  BY DEF SeatStep, ReleaseExpired, DeleteOwnAccount, CancelRegistrationAsAdmin, Attend, teamVars
<1>2. ASSUME NEW S \in SUBSET Seats, \A s \in S : status[s] \in Unpaid,
             status' = Moved(S, "CANCELLED")
      PROVE  \A s \in Seats : RowMoves(s)
  BY <1>2, MovedGives DEF RowMoves
<1>3. ASSUME NEW statuses \in {Unpaid, {"PENDING"}, {"PAYMENT_PENDING"}},
             ReleaseExpired(statuses)
      PROVE  \A s \in Seats : RowMoves(s)
  BY <1>2, <1>3 DEF ReleaseExpired, Unpaid
<1>4. ASSUME NEW u \in Delegates, DeleteOwnAccount(u) PROVE \A s \in Seats : RowMoves(s)
  BY <1>2, <1>4 DEF DeleteOwnAccount
<1>5. ASSUME NEW s \in Seats, CancelRegistrationAsAdmin(s) PROVE \A x \in Seats : RowMoves(x)
  BY <1>5, MovedGives DEF CancelRegistrationAsAdmin, RowMoves, Active
<1>6. ASSUME NEW s \in Seats, NEW st \in SeatHolding, Attend(s, st)
      PROVE  \A x \in Seats : RowMoves(x)
  BY <1>6, MovedGives DEF Attend, RowMoves
<1> QED BY <1>1, <1>3, <1>4, <1>5, <1>6 DEF SeatStep, QuietStep

LEMMA AnswerMoves ==
  ASSUME TypeOK, NEW t \in Teams, RecordOrder(t) \/ CreateOrderFails(t)
  PROVE  OrderAnswered(t)
<1>1. Having(t, "PENDING") \in SUBSET Seats
      /\ \A s \in Seats : s \in Having(t, "PENDING") <=> s \in SeatsOf[t] /\ status[s] = "PENDING"
  BY SeatsByTeam DEF Having
<1>2. CASE RecordOrder(t)
  BY <1>1, <1>2, MovedGives DEF RecordOrder, OrderAnswered, TypeOK
<1>3. CASE CreateOrderFails(t)
  BY <1>1, <1>3, MovedGives DEF CreateOrderFails, OrderAnswered
<1> QED BY <1>2, <1>3

\* A step locks the pass, adds a team, answers its order, moves rows along,
\* or belongs to an invitation.
LEMMA StepKinds ==
  ASSUME TypeOK, [Next]_vars
  PROVE  \/ \E t \in Teams : LockPass(t) \/ \E free \in BOOLEAN : InsertTeam(t, free)
         \/ \E t \in Teams : OrderAnswered(t)
         \/ QuietStep
         \/ InvitationStep
         \/ \E c \in Calls : AcceptStep(c)
<1>1. CASE Tick \/ UNCHANGED vars
  BY <1>1 DEF Tick, vars, teamVars, QuietStep, RowMoves
<1> QED BY <1>1, PaymentQuiet, SeatQuiet, AnswerMoves DEF Next, TeamStep

\* The invitations and the calls that accept them leave the teams alone.
LEMMA InvitationsLeaveTeams ==
  ASSUME InvitationStep \/ \E c \in Calls : AcceptStep(c)
  PROVE  UNCHANGED <<phase, passLock, expiresAt, payment, status>>
<1>1. CASE InvitationStep
  BY <1>1
  DEF InvitationStep, ExpireStale, CheckInvite, InviteGroupMember, CancelGroupInvitation,
      CheckResend, ResendGroupInvitation, teamVars
<1>2. ASSUME NEW c \in Calls, AcceptStep(c)
      PROVE  UNCHANGED <<phase, passLock, expiresAt, payment, status>>
  BY <1>2 DEF AcceptStep, LockInvitation, LockSeat, Rollback, Accept, teamVars
<1> QED BY <1>1, <1>2

\* Outside InsertTeam no row becomes active.
LEMMA OccupiedFalls ==
  ASSUME TypeOK, [Next]_vars,
         \A t \in Teams : \A free \in BOOLEAN : ~InsertTeam(t, free)
  PROVE  \A s \in Seats : status'[s] \in Active => status[s] \in Active
<1>1. CASE \E t \in Teams : LockPass(t)
  BY <1>1 DEF LockPass
<1>2. CASE \E t \in Teams : OrderAnswered(t)
  BY <1>2 DEF OrderAnswered, Active, Unpaid
<1>3. CASE QuietStep
  BY <1>3 DEF QuietStep, RowMoves, Active, Unpaid, SeatHolding
<1>4. CASE InvitationStep \/ \E c \in Calls : AcceptStep(c)
  BY <1>4, InvitationsLeaveTeams
<1> QED BY <1>1, <1>2, <1>3, <1>4, StepKinds

\* InsertTeam writes the rows of its team and no others.
LEMMA InsertWritesTeam ==
  ASSUME TypeOK, NEW t \in Teams, NEW free \in BOOLEAN, InsertTeam(t, free)
  PROVE  /\ \A s \in SeatsOf[t] : /\ status'[s] = IF free THEN "CONFIRMED" ELSE "PENDING"
                                  /\ owner'[s] = Head[t]
         /\ \A s \in Seats \ SeatsOf[t] : status'[s] = status[s] /\ owner'[s] = owner[s]
<1>1. SeatsOf[t] \in SUBSET Seats
  BY SeatsByTeam
<1> QED BY <1>1, MovedGives DEF InsertTeam

-----------------------------------------------------------------------------
(* The inductive invariant. *)

\* The pass is locked by the team that is being inserted, and only by it.
LockInsidePhase == \A t \in Teams : phase[t] = "reserve" <=> passLock = t

\* What a team checked under the lock of the pass still holds when it inserts:
\* there is room for all its seats, and its head has no active team.
RoomKept == \A t \in Teams : passLock = t => HasRoomFor(t)

HeadKept ==
  \A t, x \in Teams : passLock = t /\ Head[x] = Head[t] => status[HeadSeat[x]] \notin Active

\* A team's rows exist once it is inserted, and stand where its call stands;
\* an unpaid seat still belongs to the head.
RowsFollowTeams ==
  \A t \in Teams :
    /\ payment[t] # "none" => phase[t] = "done"
    /\ \A s \in SeatsOf[t] :
         /\ phase[t] \in {"idle", "reserve"} <=> status[s] = "none"
         /\ phase[t] \in {"idle", "reserve"} <=> owner[s] = Nobody
         /\ status[s] = "PENDING" => phase[t] = "order"
         /\ status[s] \in {"PAYMENT_PENDING"} \cup SeatHolding => phase[t] = "done"
         /\ status[s] \in Unpaid => owner[s] = Head[t]
         /\ s = HeadSeat[t] => owner[s] \in {Nobody, Head[t]}

\* An invitation is for a placeholder that exists.
InvitationsName ==
  \A i \in Invitations : inv[i].status # "unused" =>
    inv[i].seat \in Seats /\ ~IsHead(inv[i].seat) /\ owner[inv[i].seat] # Nobody

\* Claimed seats and accepted invitations match one to one.
OneAccepted ==
  /\ \A i \in Invitations : inv[i].status = "ACCEPTED" => Claimed(inv[i].seat)
  /\ \A s \in Seats : Claimed(s) =>
       \E i \in Invitations : inv[i].status = "ACCEPTED" /\ inv[i].seat = s
  /\ \A i, j \in Invitations :
       inv[i].status = "ACCEPTED" /\ inv[j].status = "ACCEPTED" /\ inv[i].seat = inv[j].seat
       => i = j

\* A call under way has locked a pending invitation of somebody else's team.
CallsShaped ==
  \A c \in Calls :
    /\ call[c].at = "idle" => call[c] = Idle
    /\ call[c].at # "idle" =>
         /\ call[c].inv \in Invitations /\ inv[call[c].inv].status = "PENDING"
         /\ call[c].user \in Delegates \ {Head[TeamOf(SeatWanted(c))]}

\* No two calls lock the same invitation, or claim the same seat; what a call
\* read of the seat under its lock still holds when it writes.
LocksExclude ==
  \A c, d \in Calls :
    \/ call[c].at # "idle" /\ call[d].at # "idle" /\ call[c].inv = call[d].inv
    \/ call[c].at = "claiming" /\ call[d].at = "claiming" /\ SeatWanted(c) = SeatWanted(d)
    => c = d

ClaimsHold == \A c \in Calls : call[c].at = "claiming" => Claimable(SeatWanted(c))

\* Two active head seats of one delegate are one seat: two calls of
\* initiateGroupRegistration by the same head never both get a team.
OneTeamPerHead ==
  \A t, x \in Teams :
    /\ Head[t] = Head[x]
    /\ status[HeadSeat[t]] \in Active /\ status[HeadSeat[x]] \in Active
    => t = x

IInv ==
  /\ TypeOK
  /\ LockInsidePhase
  /\ RoomKept /\ TeamsFit
  /\ HeadKept /\ OneTeamPerHead
  /\ RowsFollowTeams
  /\ InvitationsName /\ OneAccepted
  /\ CallsShaped /\ LocksExclude /\ ClaimsHold

LEMMA InitIInv == Init => IInv
<1> SUFFICES ASSUME Init PROVE IInv
  OBVIOUS
<1> USE SeatsByTeam
<1>1. TypeOK
  BY TypeInit
<1>2. LockInsidePhase /\ RoomKept /\ HeadKept
  BY DEF Init, LockInsidePhase, RoomKept, HeadKept
<1>3. TeamsFit
  <2>1. Occupied = {}
    BY DEF Init, Occupied, Active, Unpaid, SeatHolding
  <2> QED BY <2>1, FS_EmptySet, NumbersAssumption DEF TeamsFit
<1>4. OneTeamPerHead
  BY DEF Init, OneTeamPerHead, Active, Unpaid, SeatHolding
<1>5. RowsFollowTeams
  BY DEF Init, RowsFollowTeams, Unpaid, SeatHolding
<1>6. InvitationsName /\ OneAccepted
  BY DEF Init, InvitationsName, OneAccepted, NotSent, Claimed
<1>7. CallsShaped /\ LocksExclude /\ ClaimsHold
  BY DEF Init, CallsShaped, LocksExclude, ClaimsHold, Idle
<1> QED BY <1>1, <1>2, <1>3, <1>4, <1>5, <1>6, <1>7 DEF IInv

LEMMA LockInsideStep == TypeOK /\ LockInsidePhase /\ [Next]_vars => LockInsidePhase'
<1> SUFFICES ASSUME TypeOK, LockInsidePhase, [Next]_vars PROVE LockInsidePhase'
  OBVIOUS
<1> USE SeatsByTeam
<1>1. ASSUME NEW t \in Teams, LockPass(t) PROVE LockInsidePhase'
  BY <1>1 DEF LockPass, LockInsidePhase, TypeOK
<1>2. ASSUME NEW t \in Teams, NEW free \in BOOLEAN, InsertTeam(t, free) PROVE LockInsidePhase'
  BY <1>2 DEF InsertTeam, LockInsidePhase, TypeOK
<1>3. ASSUME NEW t \in Teams, OrderAnswered(t) PROVE LockInsidePhase'
  BY <1>3 DEF OrderAnswered, LockInsidePhase, TypeOK
<1>4. CASE UNCHANGED <<phase, passLock>>
  BY <1>4 DEF LockInsidePhase
<1> QED BY <1>1, <1>2, <1>3, <1>4, StepKinds, InvitationsLeaveTeams DEF QuietStep, teamVars

\* Counting seats of the pass.
LEMMA SeatsCounted ==
  ASSUME NEW S \in SUBSET Seats
  PROVE  IsFiniteSet(S) /\ Cardinality(S) \in Nat
BY SeatsFinite, FS_Subset, FS_CardinalityType

\* A step that makes no row active leaves no fewer seats.
LEMMA CountFalls ==
  ASSUME \A s \in Seats : status'[s] \in Active => status[s] \in Active
  PROVE  /\ Cardinality(Occupied') <= Cardinality(Occupied)
         /\ Cardinality(Occupied) \in Nat /\ Cardinality(Occupied') \in Nat
<1>1. Occupied' \in SUBSET Occupied /\ Occupied \in SUBSET Seats /\ Occupied' \in SUBSET Seats
  BY DEF Occupied
<1> QED BY <1>1, SeatsCounted, FS_Subset

\* Inserting a team takes at most its own seats.
LEMMA InsertCounts ==
  ASSUME TypeOK, NEW t \in Teams, NEW free \in BOOLEAN, InsertTeam(t, free)
  PROVE  Cardinality(Occupied') <= Cardinality(Occupied) + Cardinality(SeatsOf[t])
<1>1. Occupied' \subseteq Occupied \cup SeatsOf[t]
  BY InsertWritesTeam DEF Occupied
<1>2. SeatsOf[t] \in SUBSET Seats /\ Occupied \in SUBSET Seats
  BY SeatsByTeam DEF Occupied
<1>3. /\ IsFiniteSet(Occupied) /\ IsFiniteSet(SeatsOf[t])
      /\ Cardinality(Occupied) \in Nat /\ Cardinality(SeatsOf[t]) \in Nat
      /\ Cardinality(Occupied \cap SeatsOf[t]) \in Nat
  <2>1. Occupied \cap SeatsOf[t] \in SUBSET Seats
    BY <1>2
  <2> QED BY <1>2, <2>1, SeatsCounted
<1>4. /\ IsFiniteSet(Occupied \cup SeatsOf[t])
      /\ Cardinality(Occupied \cup SeatsOf[t]) =
           Cardinality(Occupied) + Cardinality(SeatsOf[t]) - Cardinality(Occupied \cap SeatsOf[t])
  BY <1>3, FS_Union
<1>5. Cardinality(Occupied') <= Cardinality(Occupied \cup SeatsOf[t])
  BY <1>1, <1>4, FS_Subset
<1>6. Cardinality(Occupied') \in Nat
  <2>1. Occupied' \in SUBSET Seats
    BY <1>1, <1>2
  <2> QED BY <2>1, SeatsCounted
<1> QED BY <1>3, <1>4, <1>5, <1>6

LEMMA FitStep == IInv /\ [Next]_vars => RoomKept' /\ TeamsFit'
<1> SUFFICES ASSUME IInv, [Next]_vars PROVE RoomKept' /\ TeamsFit'
  OBVIOUS
<1>0. TypeOK
  BY DEF IInv
<1>1. ASSUME NEW t \in Teams, NEW free \in BOOLEAN, InsertTeam(t, free)
      PROVE  RoomKept' /\ TeamsFit'
  <2>1. passLock = t /\ passLock' = Nobody
    BY <1>1 DEF InsertTeam, IInv, LockInsidePhase
  <2>2. Cardinality(Occupied) + Cardinality(SeatsOf[t]) <= Capacity
    BY <2>1 DEF IInv, RoomKept, HasRoomFor
  <2>3. /\ Cardinality(Occupied) \in Nat /\ Cardinality(SeatsOf[t]) \in Nat
        /\ Cardinality(Occupied') \in Nat
    <3>1. /\ Occupied \in SUBSET Seats /\ SeatsOf[t] \in SUBSET Seats
          /\ Occupied' \in SUBSET Seats
      BY SeatsByTeam DEF Occupied
    <3> QED BY <3>1, SeatsCounted
  <2>4. Cardinality(Occupied') <= Capacity
    BY <1>0, <1>1, <2>2, <2>3, InsertCounts, NumbersAssumption
  <2> QED BY <2>1, <2>4, SeatsByTeam DEF RoomKept, TeamsFit
<1>2. CASE \A t \in Teams : \A free \in BOOLEAN : ~InsertTeam(t, free)
  <2>1. /\ Cardinality(Occupied') <= Cardinality(Occupied)
        /\ Cardinality(Occupied) \in Nat /\ Cardinality(Occupied') \in Nat
    BY <1>0, <1>2, OccupiedFalls, CountFalls
  <2>2. TeamsFit'
    BY <2>1, NumbersAssumption DEF IInv, TeamsFit
  <2>3. ASSUME NEW t \in Teams, passLock' = t PROVE HasRoomFor(t)'
    <3>1. HasRoomFor(t)
      <4>1. CASE passLock = t
        BY <4>1 DEF IInv, RoomKept
      <4>2. CASE passLock # t
        <5>1. PICK x \in Teams : LockPass(x)
          BY <1>0, <1>2, <2>3, <4>2, StepKinds, InvitationsLeaveTeams
          DEF OrderAnswered, QuietStep, teamVars
        <5> QED BY <2>3, <5>1 DEF LockPass
      <4> QED BY <4>1, <4>2
    <3>2. Cardinality(SeatsOf[t]) \in Nat
      <4>1. SeatsOf[t] \in SUBSET Seats
        BY SeatsByTeam
      <4> QED BY <4>1, SeatsCounted
    <3> QED BY <2>1, <3>1, <3>2, NumbersAssumption DEF HasRoomFor
  <2> QED BY <2>2, <2>3 DEF RoomKept
<1> QED BY <1>1, <1>2

LEMMA HeadStep == IInv /\ [Next]_vars => HeadKept' /\ OneTeamPerHead'
<1> SUFFICES ASSUME IInv, [Next]_vars PROVE HeadKept' /\ OneTeamPerHead'
  OBVIOUS
<1> USE SeatsByTeam
<1>0. TypeOK
  BY DEF IInv
<1>1. ASSUME NEW t \in Teams, NEW free \in BOOLEAN, InsertTeam(t, free)
      PROVE  HeadKept' /\ OneTeamPerHead'
  <2>1. passLock = t /\ passLock' = Nobody
    BY <1>1 DEF InsertTeam, IInv, LockInsidePhase
  <2>2. \A x \in Teams : x # t => status'[HeadSeat[x]] = status[HeadSeat[x]]
    BY <1>0, <1>1, InsertWritesTeam
  <2>3. \A x \in Teams : Head[x] = Head[t] => status[HeadSeat[x]] \notin Active
    BY <2>1 DEF IInv, HeadKept
  <2>4. OneTeamPerHead
    BY DEF IInv
  <2> QED BY <2>1, <2>2, <2>3, <2>4 DEF HeadKept, OneTeamPerHead
<1>2. CASE \A t \in Teams : \A free \in BOOLEAN : ~InsertTeam(t, free)
  <2>1. \A s \in Seats : status'[s] \in Active => status[s] \in Active
    BY <1>0, <1>2, OccupiedFalls
  <2>2. OneTeamPerHead'
    BY <2>1 DEF IInv, OneTeamPerHead
  <2>3. ASSUME NEW t \in Teams, NEW x \in Teams, passLock' = t, Head[x] = Head[t]
        PROVE  status'[HeadSeat[x]] \notin Active
    <3>1. CASE passLock = t
      BY <2>1, <2>3, <3>1 DEF IInv, HeadKept
    <3>2. CASE passLock # t
      <4>1. PICK y \in Teams : LockPass(y)
        BY <1>0, <1>2, <2>3, <3>2, StepKinds, InvitationsLeaveTeams
        DEF OrderAnswered, QuietStep, teamVars
      <4>2. y = t /\ status' = status /\ \A s \in Occupied : owner[s] # Head[t]
        BY <2>3, <4>1 DEF LockPass
      <4>3. owner[HeadSeat[x]] \in {Nobody, Head[x]}
        BY DEF IInv, RowsFollowTeams
      <4>4. status[HeadSeat[x]] \in Active => owner[HeadSeat[x]] # Nobody
        BY DEF IInv, RowsFollowTeams, Active, Unpaid, SeatHolding
      <4> QED BY <2>3, <4>2, <4>3, <4>4 DEF Occupied
    <3> QED BY <3>1, <3>2
  <2> QED BY <2>2, <2>3 DEF HeadKept
<1> QED BY <1>1, <1>2


LEMMA RowsStep == IInv /\ [Next]_vars => RowsFollowTeams'
<1> SUFFICES ASSUME IInv, [Next]_vars PROVE RowsFollowTeams'
  OBVIOUS
<1> USE SeatsByTeam
<1>0. TypeOK /\ RowsFollowTeams
  BY DEF IInv
<1>1. ASSUME NEW t \in Teams, LockPass(t) PROVE RowsFollowTeams'
  BY <1>0, <1>1 DEF LockPass, RowsFollowTeams, TypeOK
<1>2. ASSUME NEW t \in Teams, NEW free \in BOOLEAN, InsertTeam(t, free)
      PROVE  RowsFollowTeams'
  <2> SUFFICES ASSUME NEW x \in Teams, NEW s \in SeatsOf[x]
               PROVE  /\ payment'[x] # "none" => phase'[x] = "done"
                      /\ phase'[x] \in {"idle", "reserve"} <=> status'[s] = "none"
                      /\ phase'[x] \in {"idle", "reserve"} <=> owner'[s] = Nobody
                      /\ status'[s] = "PENDING" => phase'[x] = "order"
                      /\ status'[s] \in {"PAYMENT_PENDING"} \cup SeatHolding =>
                           phase'[x] = "done"
                      /\ status'[s] \in Unpaid => owner'[s] = Head[x]
                      /\ s = HeadSeat[x] => owner'[s] \in {Nobody, Head[x]}
    BY DEF RowsFollowTeams
  <2>1. CASE x = t
    <3>1. status'[s] = (IF free THEN "CONFIRMED" ELSE "PENDING") /\ owner'[s] = Head[t]
      BY <1>0, <1>2, <2>1, InsertWritesTeam
    <3>2. phase'[t] = (IF free THEN "done" ELSE "order") /\ payment' = payment
          /\ phase[t] = "reserve"
      BY <1>0, <1>2 DEF InsertTeam, TypeOK
    <3>3. payment[t] = "none"
      BY <1>0, <3>2 DEF RowsFollowTeams
    <3>4. Head[t] # Nobody
      OBVIOUS
    <3> QED BY <2>1, <3>1, <3>2, <3>3, <3>4 DEF SeatHolding, Unpaid
  <2>2. CASE x # t
    <3>1. status'[s] = status[s] /\ owner'[s] = owner[s] /\ phase'[x] = phase[x]
          /\ payment'[x] = payment[x]
      <4>1. s \in Seats \ SeatsOf[t]
        BY <2>2
      <4>2. status'[s] = status[s] /\ owner'[s] = owner[s]
        BY <1>0, <1>2, <4>1, InsertWritesTeam
      <4>3. phase'[x] = phase[x] /\ payment'[x] = payment[x]
        BY <1>0, <1>2, <2>2 DEF InsertTeam, TypeOK
      <4> QED BY <4>2, <4>3
    <3> QED BY <1>0, <3>1 DEF RowsFollowTeams
  <2> QED BY <2>1, <2>2
<1>3. ASSUME NEW t \in Teams, OrderAnswered(t) PROVE RowsFollowTeams'
  <2> SUFFICES ASSUME NEW x \in Teams, NEW s \in SeatsOf[x]
               PROVE  /\ payment'[x] # "none" => phase'[x] = "done"
                      /\ phase'[x] \in {"idle", "reserve"} <=> status'[s] = "none"
                      /\ phase'[x] \in {"idle", "reserve"} <=> owner'[s] = Nobody
                      /\ status'[s] = "PENDING" => phase'[x] = "order"
                      /\ status'[s] \in {"PAYMENT_PENDING"} \cup SeatHolding =>
                           phase'[x] = "done"
                      /\ status'[s] \in Unpaid => owner'[s] = Head[x]
                      /\ s = HeadSeat[x] => owner'[s] \in {Nobody, Head[x]}
    BY DEF RowsFollowTeams
  <2>1. owner' = owner
    BY <1>3 DEF OrderAnswered
  <2>2. CASE x = t
    BY <1>0, <1>3, <2>1, <2>2
    DEF OrderAnswered, RowsFollowTeams, TypeOK, SeatHolding, Unpaid
  <2>3. CASE x # t
    <3>1. status'[s] = status[s] /\ phase'[x] = phase[x] /\ payment'[x] = payment[x]
      BY <1>0, <1>3, <2>3 DEF OrderAnswered, TypeOK
    <3> QED BY <1>0, <2>1, <3>1 DEF RowsFollowTeams
  <2> QED BY <2>2, <2>3
<1>4. CASE QuietStep
  <2>1. \A s \in Seats : /\ status'[s] = "none" <=> status[s] = "none"
                         /\ status'[s] \in Unpaid => status'[s] = status[s]
                         /\ status'[s] \in SeatHolding =>
                              status[s] \in {"PAYMENT_PENDING"} \cup SeatHolding
    BY <1>4 DEF QuietStep, RowMoves, Unpaid, SeatHolding
  <2>2. UNCHANGED <<phase, owner>>
        /\ \A t \in Teams : payment'[t] = "none" <=> payment[t] = "none"
    BY <1>4 DEF QuietStep
  <2> QED BY <1>0, <2>1, <2>2 DEF RowsFollowTeams, Unpaid, SeatHolding
<1>5. CASE InvitationStep
  <2>1. UNCHANGED <<phase, payment, status, owner>>
    BY <1>5
    DEF InvitationStep, ExpireStale, CheckInvite, InviteGroupMember, CancelGroupInvitation,
        CheckResend, ResendGroupInvitation, teamVars
  <2> QED BY <1>0, <2>1 DEF RowsFollowTeams
<1>6. ASSUME NEW c \in Calls, AcceptStep(c) PROVE RowsFollowTeams'
  <2>1. UNCHANGED <<phase, payment, status>>
    BY <1>6, InvitationsLeaveTeams DEF teamVars
  <2>2. CASE owner' = owner
    BY <1>0, <2>1, <2>2 DEF RowsFollowTeams
  <2>3. CASE Accept(c)
    <3> DEFINE w == SeatWanted(c)
    <3>1. w \in Seats /\ ~IsHead(w) /\ call[c].user \in Delegates
      BY <2>3 DEF Accept, IInv, CallsShaped, InvitationsName, SeatWanted
    <3>2. status[w] = "CONFIRMED"
      BY <2>3 DEF Accept, IInv, ClaimsHold, Claimable
    <3>3. \A s \in Seats : owner'[s] = IF s = w THEN call[c].user ELSE owner[s]
      BY <1>0, <2>3, <3>1 DEF Accept, TypeOK
    <3>4. \A t \in Teams : w # HeadSeat[t]
      BY <3>1 DEF IsHead
    <3> HIDE DEF w
    <3> QED BY <1>0, <2>1, <3>1, <3>2, <3>3, <3>4 DEF RowsFollowTeams, Unpaid
  <2> QED BY <1>6, <2>2, <2>3 DEF AcceptStep, LockInvitation, LockSeat, Rollback
<1> QED BY <1>0, <1>1, <1>2, <1>3, <1>4, <1>5, <1>6, StepKinds

-----------------------------------------------------------------------------
(* Invitations and the calls that accept them. *)

\* What a team's own step, a sweep or attendance leaves alone.
LEMMA TeamsLeaveInvitations ==
  ASSUME TypeOK, [Next]_vars, ~InvitationStep, \A c \in Calls : ~AcceptStep(c)
  PROVE  UNCHANGED <<inv, call>>
BY StepKinds DEF LockPass, InsertTeam, OrderAnswered, QuietStep

\* A statement on an invitation: it may be sent for a seat, close while
\* nobody holds its lock, or be resent with its status and its seat kept.
InvitationMoves(i) ==
  \/ inv'[i].status = inv[i].status /\ inv'[i].seat = inv[i].seat
  \/ /\ inv[i].status = "PENDING" /\ InvitationFree(i)
     /\ inv'[i].status \in {"EXPIRED", "CANCELLED"} /\ inv'[i].seat = inv[i].seat
  \/ /\ inv[i].status = "unused" /\ inv'[i].status = "PENDING"
     /\ \E t \in Teams : inv'[i].seat \in Candidates(t)

LEMMA InvitationStepMoves ==
  ASSUME TypeOK, InvitationStep
  PROVE  /\ \A i \in Invitations : InvitationMoves(i)
         /\ UNCHANGED <<phase, passLock, expiresAt, payment, status, owner, call>>
<1>1. UNCHANGED <<phase, passLock, expiresAt, payment, status, owner, call>>
  BY DEF InvitationStep, ExpireStale, CheckInvite, InviteGroupMember, CancelGroupInvitation,
         CheckResend, ResendGroupInvitation, teamVars
<1>2. ASSUME NEW t \in Teams, ExpireStale(t) \/ CheckInvite(t), NEW i \in Invitations
      PROVE  InvitationMoves(i)
  BY <1>2 DEF ExpireStale, CheckInvite, InvitationMoves, TypeOK
<1>3. ASSUME NEW t \in Teams, NEW j \in Invitations, NEW s \in SeatsOf[t],
             InviteGroupMember(t, j, s), NEW i \in Invitations
      PROVE  InvitationMoves(i)
  <2>1. s \in Candidates(t)
    BY <1>3 DEF InviteGroupMember, OpenSeats
  <2> QED BY <1>3, <2>1 DEF InviteGroupMember, InvitationMoves, TypeOK
<1>4. ASSUME NEW j \in Invitations, CancelGroupInvitation(j), NEW i \in Invitations
      PROVE  InvitationMoves(i)
  BY <1>4 DEF CancelGroupInvitation, InvitationMoves, TypeOK
<1>5. ASSUME NEW r \in Resends, NEW j \in Invitations, CheckResend(r, j),
             NEW i \in Invitations
      PROVE  InvitationMoves(i)
  BY <1>5 DEF CheckResend, InvitationMoves
<1>6. ASSUME NEW r \in Resends, NEW j \in Invitations, ResendGroupInvitation(r, j),
             NEW i \in Invitations
      PROVE  InvitationMoves(i)
  BY <1>6 DEF ResendGroupInvitation, InvitationMoves, TypeOK
<1> QED BY <1>1, <1>2, <1>3, <1>4, <1>5, <1>6 DEF InvitationStep

\* What an accept call holds when it writes, and what it writes.
LEMMA AcceptWrites ==
  ASSUME IInv, NEW c \in Calls, Accept(c)
  PROVE  LET i == call[c].inv
             s == SeatWanted(c)
         IN  /\ i \in Invitations /\ s \in Seats /\ ~IsHead(s)
             /\ inv[i].status = "PENDING" /\ inv[i].seat = s
             /\ ~Claimed(s) /\ Claimable(s)
             /\ call[c].user \in Delegates \ {Head[TeamOf(s)]}
             /\ inv'[i].status = "ACCEPTED" /\ inv'[i].seat = s
             /\ \A j \in Invitations \ {i} : inv'[j] = inv[j]
             /\ owner'[s] = call[c].user
             /\ \A x \in Seats \ {s} : owner'[x] = owner[x]
             /\ call'[c] = Idle
             /\ \A d \in Calls \ {c} : call'[d] = call[d]
<1> DEFINE i == call[c].inv
           s == SeatWanted(c)
<1>1. i \in Invitations /\ inv[i].status = "PENDING" /\ inv[i].seat = s
      /\ call[c].user \in Delegates \ {Head[TeamOf(s)]}
  BY DEF Accept, IInv, CallsShaped, SeatWanted
<1>2. s \in Seats /\ ~IsHead(s)
  BY <1>1 DEF IInv, InvitationsName
<1>3. Claimable(s) /\ ~Claimed(s)
  BY DEF Accept, IInv, ClaimsHold, Claimable, Claimed
<1>4. /\ inv'[i].status = "ACCEPTED" /\ inv'[i].seat = s
      /\ \A j \in Invitations \ {i} : inv'[j] = inv[j]
  BY <1>1 DEF Accept, IInv, TypeOK
<1>5. owner'[s] = call[c].user /\ \A x \in Seats \ {s} : owner'[x] = owner[x]
  BY <1>2 DEF Accept, IInv, TypeOK
<1>6. call'[c] = Idle /\ \A d \in Calls \ {c} : call'[d] = call[d]
  BY DEF Accept, IInv, TypeOK
<1> QED BY <1>1, <1>2, <1>3, <1>4, <1>5, <1>6

\* Claimed, after the step.
ClaimedNow(s) == owner'[s] \notin {Nobody, Head[TeamOf(s)]}

\* Outside Accept no seat changes hands.
LEMMA ClaimsStay ==
  ASSUME IInv, [Next]_vars, \A c \in Calls : ~Accept(c)
  PROVE  /\ \A s \in Seats : ClaimedNow(s) <=> Claimed(s)
         /\ \A s \in Seats : owner[s] # Nobody => owner'[s] = owner[s]
<1> USE SeatsByTeam
<1>0. TypeOK
  BY DEF IInv
<1>1. ASSUME NEW t \in Teams, NEW free \in BOOLEAN, InsertTeam(t, free)
      PROVE  /\ \A s \in Seats : ClaimedNow(s) <=> Claimed(s)
             /\ \A s \in Seats : owner[s] # Nobody => owner'[s] = owner[s]
  <2>1. \A s \in SeatsOf[t] : owner[s] = Nobody /\ owner'[s] = Head[t] /\ TeamOf(s) = t
    BY <1>0, <1>1, InsertWritesTeam DEF InsertTeam, IInv, RowsFollowTeams
  <2>2. \A s \in Seats \ SeatsOf[t] : owner'[s] = owner[s]
    BY <1>0, <1>1, InsertWritesTeam
  <2> QED BY <2>1, <2>2 DEF Claimed, ClaimedNow
<1>2. CASE owner' = owner
  BY <1>2 DEF Claimed, ClaimedNow
<1>3. CASE \E c \in Calls : AcceptStep(c)
  BY <1>2, <1>3 DEF AcceptStep, LockInvitation, LockSeat, Rollback
<1>4. CASE InvitationStep
  BY <1>0, <1>2, <1>4, InvitationStepMoves
<1> QED BY <1>0, <1>1, <1>2, <1>3, <1>4, StepKinds DEF LockPass, OrderAnswered, QuietStep

\* Outside Accept an invitation keeps its status, or moves as InvitationMoves
\* says.
LEMMA InvitationsMove ==
  ASSUME IInv, [Next]_vars, \A c \in Calls : ~Accept(c)
  PROVE  \A i \in Invitations : InvitationMoves(i)
<1>0. TypeOK
  BY DEF IInv
<1>1. CASE inv' = inv
  BY <1>1 DEF InvitationMoves
<1>2. CASE \E c \in Calls : AcceptStep(c)
  BY <1>1, <1>2 DEF AcceptStep, LockInvitation, LockSeat, Rollback
<1> QED BY <1>0, <1>1, <1>2, InvitationStepMoves, TeamsLeaveInvitations

LEMMA InvitationsNameStep == IInv /\ [Next]_vars => InvitationsName'
<1> SUFFICES ASSUME IInv, [Next]_vars, NEW i \in Invitations, inv'[i].status # "unused"
             PROVE  /\ inv'[i].seat \in Seats /\ ~IsHead(inv'[i].seat)
                    /\ owner'[inv'[i].seat] # Nobody
  BY DEF InvitationsName, IsHead
<1> USE SeatsByTeam
<1>1. ASSUME NEW c \in Calls, Accept(c)
      PROVE  /\ inv'[i].seat \in Seats /\ ~IsHead(inv'[i].seat)
             /\ owner'[inv'[i].seat] # Nobody
  <2>1. inv[i].status # "unused" /\ inv'[i].seat = inv[i].seat
    BY <1>1, AcceptWrites
  <2>2. inv[i].seat \in Seats /\ ~IsHead(inv[i].seat) /\ owner[inv[i].seat] # Nobody
    BY <2>1 DEF IInv, InvitationsName
  <2>3. \A s \in Seats : owner[s] # Nobody => owner'[s] # Nobody
    BY <1>1, AcceptWrites
  <2> QED BY <2>1, <2>2, <2>3
<1>2. CASE \A c \in Calls : ~Accept(c)
  <2>1. InvitationMoves(i)
    BY <1>2, InvitationsMove
  <2>2. \A s \in Seats : owner[s] # Nobody => owner'[s] # Nobody
    BY <1>2, ClaimsStay
  <2>3. CASE inv[i].status # "unused"
    <3>1. inv'[i].seat = inv[i].seat
      BY <2>1, <2>3 DEF InvitationMoves
    <3> QED BY <2>2, <2>3, <3>1 DEF IInv, InvitationsName
  <2>4. CASE inv[i].status = "unused"
    <3>1. PICK t \in Teams : inv'[i].seat \in Candidates(t)
      BY <2>1, <2>4 DEF InvitationMoves
    <3> DEFINE s == inv'[i].seat
    <3>2. s \in SeatsOf[t] /\ owner[s] = Head[t] /\ s # HeadSeat[t]
      BY <3>1 DEF Candidates
    <3>3. s \in Seats /\ TeamOf(s) = t /\ owner[s] # Nobody
      BY <3>2
    <3> QED BY <2>2, <3>2, <3>3 DEF IsHead
  <2> QED BY <2>3, <2>4
<1> QED BY <1>1, <1>2

LEMMA OneAcceptedStep == IInv /\ [Next]_vars => OneAccepted'
<1> SUFFICES ASSUME IInv, [Next]_vars PROVE OneAccepted'
  OBVIOUS
<1>0. OneAccepted /\ InvitationsName
  BY DEF IInv
<1>1. ASSUME NEW c \in Calls, Accept(c) PROVE OneAccepted'
  <2> DEFINE i == call[c].inv
             s == SeatWanted(c)
  <2>1. /\ i \in Invitations /\ s \in Seats
        /\ inv[i].status = "PENDING" /\ inv[i].seat = s
        /\ inv'[i].status = "ACCEPTED" /\ inv'[i].seat = s
        /\ \A j \in Invitations \ {i} : inv'[j] = inv[j]
    BY <1>1, AcceptWrites
  <2>2. ~Claimed(s) /\ ClaimedNow(s) /\ \A x \in Seats \ {s} : ClaimedNow(x) <=> Claimed(x)
    <3>1. /\ ~Claimed(s)
          /\ owner'[s] \in Delegates \ {Head[TeamOf(s)]}
          /\ \A x \in Seats \ {s} : owner'[x] = owner[x]
      BY <1>1, AcceptWrites
    <3> QED BY <3>1, SeatsByTeam DEF Claimed, ClaimedNow
  <2> HIDE DEF i, s
  <2>3. \A j \in Invitations \ {i} :
          inv'[j].status = "ACCEPTED" => inv'[j].seat \in Seats \ {s} /\ Claimed(inv'[j].seat)
    BY <1>0, <2>1, <2>2 DEF OneAccepted, InvitationsName
  <2>4. \A j \in Invitations : inv'[j].status = "ACCEPTED" => ClaimedNow(inv'[j].seat)
    <3> TAKE j \in Invitations
    <3>1. CASE j = i
      BY <2>1, <2>2, <3>1
    <3>2. CASE j # i
      BY <2>2, <2>3, <3>2
    <3> QED BY <3>1, <3>2
  <2>5. \A x \in Seats : ClaimedNow(x) =>
          \E j \in Invitations : inv'[j].status = "ACCEPTED" /\ inv'[j].seat = x
    <3> TAKE x \in Seats
    <3>1. CASE x = s
      BY <2>1, <3>1
    <3>2. CASE x # s
      BY <1>0, <2>1, <2>2, <3>2 DEF OneAccepted
    <3> QED BY <3>1, <3>2
  <2>6. \A j, k \in Invitations :
          inv'[j].status = "ACCEPTED" /\ inv'[k].status = "ACCEPTED"
          /\ inv'[j].seat = inv'[k].seat => j = k
    BY <1>0, <2>1, <2>3 DEF OneAccepted
  <2> QED BY <2>4, <2>5, <2>6 DEF OneAccepted, Claimed, ClaimedNow
<1>2. CASE \A c \in Calls : ~Accept(c)
  <2>1. \A i \in Invitations :
          /\ inv'[i].status = "ACCEPTED" <=> inv[i].status = "ACCEPTED"
          /\ inv[i].status = "ACCEPTED" => inv'[i].seat = inv[i].seat /\ inv[i].seat \in Seats
    BY <1>0, <1>2, InvitationsMove DEF InvitationMoves, InvitationsName
  <2>2. \A s \in Seats : ClaimedNow(s) <=> Claimed(s)
    BY <1>2, ClaimsStay
  <2>3. \A i \in Invitations : inv'[i].status = "ACCEPTED" => ClaimedNow(inv'[i].seat)
    <3> SUFFICES ASSUME NEW i \in Invitations, inv'[i].status = "ACCEPTED"
                 PROVE  ClaimedNow(inv'[i].seat)
      OBVIOUS
    <3>1. inv'[i].seat = inv[i].seat /\ inv[i].seat \in Seats /\ Claimed(inv[i].seat)
      BY <1>0, <2>1 DEF OneAccepted
    <3> QED BY <2>2, <3>1
  <2>4. \A s \in Seats : ClaimedNow(s) =>
          \E i \in Invitations : inv'[i].status = "ACCEPTED" /\ inv'[i].seat = s
    BY <1>0, <2>1, <2>2 DEF OneAccepted
  <2> QED BY <1>0, <2>1, <2>3, <2>4 DEF OneAccepted, Claimed, ClaimedNow
<1> QED BY <1>1, <1>2


\* The claim of a call under way, after the step.
WantedNow(c) == inv'[call'[c].inv].seat

\* Nobody but the call that holds an invitation changes it.
LEMMA HeldInvitationsStay ==
  ASSUME IInv, [Next]_vars, \A c \in Calls : ~AcceptStep(c)
  PROVE  /\ call' = call
         /\ \A c \in Calls : call[c].at # "idle" =>
              /\ inv'[call[c].inv].status = "PENDING"
              /\ WantedNow(c) = SeatWanted(c)
<1>0. TypeOK /\ CallsShaped
  BY DEF IInv
<1>1. call' = call
  BY <1>0, InvitationStepMoves, TeamsLeaveInvitations
<1>2. \A c \in Calls : ~Accept(c)
  BY DEF AcceptStep
<1>3. ASSUME NEW c \in Calls, call[c].at # "idle"
      PROVE  /\ inv'[call[c].inv].status = "PENDING"
             /\ WantedNow(c) = SeatWanted(c)
  <2> DEFINE i == call[c].inv
  <2>1. i \in Invitations /\ inv[i].status = "PENDING"
    BY <1>0, <1>3 DEF CallsShaped
  <2>2. ~InvitationFree(i)
    BY DEF InvitationFree
  <2>3. InvitationMoves(i)
    BY <1>2, <2>1, InvitationsMove
  <2> HIDE DEF i
  <2>4. inv'[i].status = "PENDING" /\ inv'[i].seat = inv[i].seat
    BY <2>1, <2>2, <2>3 DEF InvitationMoves
  <2> QED BY <1>1, <2>4 DEF WantedNow, SeatWanted, i
<1> QED BY <1>1, <1>3

\* A seat that an accept call has claimed keeps its row.
LEMMA ClaimedRowStays ==
  ASSUME IInv, [Next]_vars, \A c \in Calls : ~Accept(c),
         NEW d \in Calls, call[d].at = "claiming"
  PROVE  LET s == SeatWanted(d)
         IN  s \in Seats /\ owner'[s] = owner[s] /\ status'[s] = status[s]
<1> DEFINE s == SeatWanted(d)
<1>0. TypeOK
  BY DEF IInv
<1>1. s \in Seats /\ owner[s] # Nobody
  BY DEF IInv, CallsShaped, InvitationsName, SeatWanted
<1>2. owner'[s] = owner[s]
  BY <1>1, ClaimsStay
<1>3. status[s] = "CONFIRMED" /\ ~SeatFree(s)
  BY DEF IInv, ClaimsHold, Claimable, SeatFree, SeatWanted
<1> HIDE DEF s
<1>4. ASSUME NEW t \in Teams, NEW free \in BOOLEAN, InsertTeam(t, free)
      PROVE  status'[s] = status[s]
  <2>1. s \notin SeatsOf[t]
    BY <1>1, <1>4 DEF InsertTeam, IInv, RowsFollowTeams
  <2> QED BY <1>0, <1>1, <1>4, <2>1, InsertWritesTeam
<1>5. ASSUME QuietStep PROVE status'[s] = status[s]
  BY <1>1, <1>3, <1>5 DEF QuietStep, RowMoves, Unpaid
<1>6. ASSUME NEW t \in Teams, OrderAnswered(t) PROVE status'[s] = status[s]
  BY <1>1, <1>3, <1>6 DEF OrderAnswered
<1>8. status'[s] = status[s]
  BY <1>0, <1>4, <1>5, <1>6, StepKinds, InvitationsLeaveTeams DEF LockPass
<1> QED BY <1>1, <1>2, <1>8 DEF s

LEMMA CallsStep == IInv /\ [Next]_vars => CallsShaped' /\ LocksExclude' /\ ClaimsHold'
<1> SUFFICES ASSUME IInv, [Next]_vars PROVE CallsShaped' /\ LocksExclude' /\ ClaimsHold'
  OBVIOUS
<1>0. TypeOK /\ CallsShaped /\ LocksExclude /\ ClaimsHold
  BY DEF IInv
<1>d. Idle.at = "idle"
  BY DEF Idle
\* The parts, for the calls after the step.
<1> DEFINE Shaped(c) ==
             /\ call'[c].at = "idle" => call'[c] = Idle
             /\ call'[c].at # "idle" =>
                  /\ call'[c].inv \in Invitations /\ inv'[call'[c].inv].status = "PENDING"
                  /\ call'[c].user \in Delegates \ {Head[TeamOf(WantedNow(c))]}
           Exclude(c, d) ==
             \/ call'[c].at # "idle" /\ call'[d].at # "idle" /\ call'[c].inv = call'[d].inv
             \/ call'[c].at = "claiming" /\ call'[d].at = "claiming"
                /\ WantedNow(c) = WantedNow(d)
             => c = d
           Holds(c) ==
             call'[c].at = "claiming" =>
               owner'[WantedNow(c)] = Head[TeamOf(WantedNow(c))]
               /\ status'[WantedNow(c)] = "CONFIRMED"
<1>p. ASSUME \A c \in Calls : Shaped(c), \A c, d \in Calls : Exclude(c, d),
             \A c \in Calls : Holds(c)
      PROVE  CallsShaped' /\ LocksExclude' /\ ClaimsHold'
  BY <1>p DEF CallsShaped, LocksExclude, ClaimsHold, Claimable, SeatWanted, WantedNow, Idle
\* A call that is not the one to step, and is under way before and after.
<1>k. ASSUME NEW c \in Calls, call'[c] = call[c], \A d \in Calls : ~Accept(d),
             call[c].at # "idle" => /\ inv'[call[c].inv].status = "PENDING"
                                    /\ WantedNow(c) = SeatWanted(c)
      PROVE  Shaped(c) /\ Holds(c)
  <2>1. Shaped(c)
    BY <1>0, <1>k DEF CallsShaped
  <2>2. Holds(c)
    <3> SUFFICES ASSUME call[c].at = "claiming"
                 PROVE  owner'[WantedNow(c)] = Head[TeamOf(WantedNow(c))]
                        /\ status'[WantedNow(c)] = "CONFIRMED"
      BY <1>k
    <3>1. WantedNow(c) = SeatWanted(c)
      BY <1>k
    <3>2. Claimable(SeatWanted(c))
      BY <1>0 DEF ClaimsHold
    <3> QED BY <1>k, <3>1, <3>2, ClaimedRowStays DEF Claimable
  <2> QED BY <2>1, <2>2
<1>1. CASE \A c \in Calls : ~AcceptStep(c)
  <2>1. /\ call' = call /\ \A d \in Calls : ~Accept(d)
        /\ \A c \in Calls : call[c].at # "idle" =>
             inv'[call[c].inv].status = "PENDING" /\ WantedNow(c) = SeatWanted(c)
    BY <1>1, HeldInvitationsStay DEF AcceptStep
  <2>2. \A c \in Calls : Shaped(c) /\ Holds(c)
    BY <1>k, <2>1
  <2>3. \A c, d \in Calls : Exclude(c, d)
    BY <1>0, <2>1 DEF LocksExclude
  <2> QED BY <1>p, <2>2, <2>3
<1>2. ASSUME NEW e \in Calls, NEW u \in Delegates, NEW i \in Invitations, NEW link,
             LockInvitation(e, u, i, link)
      PROVE  CallsShaped' /\ LocksExclude' /\ ClaimsHold'
  <2>1. /\ call'[e] = [at |-> "invited", user |-> u, inv |-> i]
        /\ \A c \in Calls \ {e} : call'[c] = call[c]
        /\ inv' = inv
    BY <1>0, <1>2 DEF LockInvitation, TypeOK
  <2>2. /\ inv[i].status = "PENDING" /\ u # Head[TeamOf(inv[i].seat)]
        /\ \A c \in Calls : call[c].inv # i
    BY <1>2 DEF LockInvitation, InvitationFree
  <2>3. \A d \in Calls : ~Accept(d)
    <3>1. owner' = owner /\ call[e] = Idle
      BY <1>2 DEF LockInvitation
    <3> QED BY <1>0, <1>d, <2>1, <3>1 DEF Accept, TypeOK, CallsShaped
  <2>4. Shaped(e) /\ Holds(e)
    BY <2>1, <2>2 DEF WantedNow
  <2>5. \A c \in Calls \ {e} : Shaped(c) /\ Holds(c)
    BY <1>0, <1>k, <2>1, <2>3 DEF CallsShaped, WantedNow, SeatWanted
  <2>6. \A c, d \in Calls : Exclude(c, d)
    BY <1>0, <2>1, <2>2 DEF LocksExclude, WantedNow, SeatWanted
  <2> QED BY <1>p, <2>4, <2>5, <2>6
<1>3. ASSUME NEW e \in Calls, LockSeat(e)
      PROVE  CallsShaped' /\ LocksExclude' /\ ClaimsHold'
  <2>1. /\ call'[e] = [call[e] EXCEPT !.at = "claiming"]
        /\ call'[e].at = "claiming" /\ call'[e].user = call[e].user
        /\ call'[e].inv = call[e].inv
        /\ \A c \in Calls \ {e} : call'[c] = call[c]
        /\ UNCHANGED <<inv, owner, status>>
    BY <1>0, <1>3 DEF LockSeat, TypeOK
  <2>2. call[e].at = "invited" /\ Claimable(SeatWanted(e)) /\ SeatFree(SeatWanted(e))
    BY <1>3 DEF LockSeat
  <2>3. Shaped(e) /\ Holds(e)
    BY <1>0, <2>1, <2>2 DEF CallsShaped, WantedNow, SeatWanted, Claimable
  <2>4. \A c \in Calls \ {e} : Shaped(c) /\ Holds(c)
    BY <1>0, <2>1 DEF CallsShaped, ClaimsHold, Claimable, WantedNow, SeatWanted
  <2>5. \A c, d \in Calls : Exclude(c, d)
    <3>1. \A c \in Calls : /\ call'[c].inv = call[c].inv
                           /\ WantedNow(c) = SeatWanted(c)
                           /\ call'[c].at # "idle" <=> call[c].at # "idle"
      BY <2>1, <2>2 DEF WantedNow, SeatWanted
    <3>2. \A c \in Calls : call[c].at = "claiming" => SeatWanted(c) # SeatWanted(e)
      BY <2>2 DEF SeatFree, SeatWanted
    <3> QED BY <1>0, <2>1, <3>1, <3>2 DEF LocksExclude
  <2> QED BY <1>p, <2>3, <2>4, <2>5
<1>4. ASSUME NEW e \in Calls, Rollback(e)
      PROVE  CallsShaped' /\ LocksExclude' /\ ClaimsHold'
  <2>1. /\ call'[e] = Idle
        /\ \A c \in Calls \ {e} : call'[c] = call[c]
        /\ UNCHANGED <<inv, owner, status>>
    BY <1>0, <1>4 DEF Rollback, TypeOK
  <2>2. Shaped(e) /\ Holds(e)
    BY <1>d, <2>1
  <2>3. \A c \in Calls \ {e} : Shaped(c) /\ Holds(c)
    BY <1>0, <2>1 DEF CallsShaped, ClaimsHold, Claimable, WantedNow, SeatWanted
  <2>4. \A c, d \in Calls : Exclude(c, d)
    BY <1>0, <1>d, <2>1 DEF LocksExclude, WantedNow, SeatWanted
  <2> QED BY <1>p, <2>2, <2>3, <2>4
<1>5. ASSUME NEW e \in Calls, Accept(e)
      PROVE  CallsShaped' /\ LocksExclude' /\ ClaimsHold'
  <2> DEFINE i == call[e].inv
             s == SeatWanted(e)
  <2>1. /\ call'[e] = Idle /\ \A c \in Calls \ {e} : call'[c] = call[c]
        /\ \A j \in Invitations \ {i} : inv'[j] = inv[j]
        /\ \A x \in Seats \ {s} : owner'[x] = owner[x]
    BY <1>5, AcceptWrites
  <2>2. status' = status /\ call[e].at = "claiming"
    BY <1>5 DEF Accept
  <2>3. \A c \in Calls \ {e} :
          /\ call[c].at # "idle" => call[c].inv \in Invitations \ {i}
          /\ call[c].at = "claiming" => SeatWanted(c) \in Seats \ {s}
    BY <1>0, <2>2 DEF CallsShaped, LocksExclude, IInv, InvitationsName, SeatWanted
  <2>4. Shaped(e) /\ Holds(e)
    BY <1>d, <2>1
  <2>5. \A c \in Calls \ {e} : call[c].at # "idle" =>
          inv'[call[c].inv] = inv[call[c].inv] /\ WantedNow(c) = SeatWanted(c)
    BY <2>1, <2>3 DEF WantedNow, SeatWanted
  <2> HIDE DEF i, s
  <2>6. \A c \in Calls \ {e} : Shaped(c)
    BY <1>0, <2>1, <2>5 DEF CallsShaped
  <2>7. \A c \in Calls \ {e} : Holds(c)
    BY <1>0, <2>1, <2>2, <2>3, <2>5 DEF ClaimsHold, Claimable
  <2>8. \A c, d \in Calls : Exclude(c, d)
    BY <1>0, <1>d, <2>1, <2>5 DEF LocksExclude
  <2> QED BY <1>p, <2>4, <2>6, <2>7, <2>8
<1> QED BY <1>1, <1>2, <1>3, <1>4, <1>5 DEF AcceptStep

\* The invariant is inductive.
THEOREM Inductive == Spec => []IInv
<1>1. IInv /\ [Next]_vars => IInv'
  BY TypeStep, LockInsideStep, FitStep, HeadStep, RowsStep, InvitationsNameStep,
     OneAcceptedStep, CallsStep
  DEF IInv
<1> QED BY InitIInv, <1>1, PTL DEF Spec

-----------------------------------------------------------------------------
(* Safety. *)

\* Teams and solo delegates never hold more seats of the pass than it has, for
\* any number of teams of any size: the invariant TLC checks as TeamsFit.
THEOREM TeamsNeverOverfill == Spec => []TeamsFit
<1>1. IInv => TeamsFit
  BY DEF IInv
<1> QED BY <1>1, Inductive, PTL

\* A delegate who registers a team twice at once gets one: the lock on the pass
\* makes the second call see the first one's rows.  (Accepting an invitation
\* takes no such lock, which is why OneSeatPerDelegate fails.)
THEOREM HeadsHoldOneTeam == Spec => []OneTeamPerHead
<1>1. IInv => OneTeamPerHead
  BY DEF IInv
<1> QED BY <1>1, Inductive, PTL

\* A seat is claimed through exactly one invitation, for any number of links
\* and concurrent calls: the invariant TLC checks under the same name.
THEOREM OneInvitationPerSeat == Spec => []ClaimedThroughOneInvitation
<1>1. ASSUME IInv PROVE ClaimedThroughOneInvitation
  <2> SUFFICES ASSUME NEW s \in Seats
               PROVE  Cardinality({i \in Invitations : inv[i].status = "ACCEPTED"
                                                       /\ inv[i].seat = s})
                        = IF Claimed(s) THEN 1 ELSE 0
    BY DEF ClaimedThroughOneInvitation
  <2> DEFINE accepted == {i \in Invitations : inv[i].status = "ACCEPTED" /\ inv[i].seat = s}
  <2>0. OneAccepted
    BY <1>1 DEF IInv
  <2>1. CASE Claimed(s)
    <3>1. PICK i \in Invitations : inv[i].status = "ACCEPTED" /\ inv[i].seat = s
      BY <2>0, <2>1 DEF OneAccepted
    <3>2. accepted = {i}
      BY <2>0, <3>1 DEF OneAccepted
    <3> QED BY <2>1, <3>2, FS_Singleton
  <2>2. CASE ~Claimed(s)
    <3>1. accepted = {}
      BY <2>0, <2>2 DEF OneAccepted
    <3> QED BY <2>2, <3>1, FS_EmptySet
  <2> QED BY <2>1, <2>2
<1> QED BY <1>1, Inductive, PTL

\* An accepted, cancelled or expired invitation stays what it is, a resend that
\* checked it earlier included: the action property TLC checks as
\* ClosedInvitationsStay.
THEOREM ClosedInvitationsKept == Spec => ClosedInvitationsStay
<1>1. ASSUME IInv, [Next]_vars, NEW i \in Invitations,
             inv[i].status \in {"ACCEPTED", "CANCELLED", "EXPIRED"}
      PROVE  inv'[i].status = inv[i].status /\ inv'[i].seat = inv[i].seat
  <2>1. ASSUME NEW c \in Calls, Accept(c)
        PROVE  inv'[i].status = inv[i].status /\ inv'[i].seat = inv[i].seat
    <3>1. i # call[c].inv
      BY <1>1, <2>1, AcceptWrites
    <3> QED BY <1>1, <2>1, <3>1, AcceptWrites
  <2>2. CASE \A c \in Calls : ~Accept(c)
    BY <1>1, <2>2, InvitationsMove DEF InvitationMoves
  <2> QED BY <2>1, <2>2
<1>2. IInv /\ [Next]_vars =>
        [\A i \in Invitations :
           inv[i].status \in {"ACCEPTED", "CANCELLED", "EXPIRED"} =>
             inv'[i].status = inv[i].status /\ inv'[i].seat = inv[i].seat]_vars
  BY <1>1
<1> QED BY <1>2, Inductive, PTL DEF Spec, ClosedInvitationsStay

-----------------------------------------------------------------------------
(* The refinement of TeamPromise. *)

\* What the statuses of a row are in TeamPromise.
LEMMA SeatStates ==
  /\ SeatState("none") = "none" /\ SeatState("CANCELLED") = "gone"
  /\ \A st \in Unpaid : SeatState(st) = "held"
  /\ \A st \in SeatHolding : SeatState(st) = "paid"
  /\ \A st \in Active \cup {"none", "CANCELLED"} : SeatState(st) = "held" <=> st \in Unpaid
BY DEF SeatState, Unpaid, SeatHolding, Active

\* The promise is about the seats of the pass.
LEMMA PromiseSeats ==
  /\ Promise!Seats = Seats
  /\ \A s \in Seats : [x \in Seats |-> SeatState(status[x])][s] = SeatState(status[s])
BY DEF Promise!Seats, Seats

\* A step that writes no status and claims no seat is invisible.
LEMMA MembersStay ==
  ASSUME IInv, [Next]_vars, \A c \in Calls : ~Accept(c)
  PROVE  [s \in Seats |-> IF Claimed(s) THEN owner[s] ELSE Nobody]'
           = [s \in Seats |-> IF Claimed(s) THEN owner[s] ELSE Nobody]
<1>1. \A s \in Seats : ClaimedNow(s) <=> Claimed(s)
  BY ClaimsStay
<1>2. \A s \in Seats : Claimed(s) => owner'[s] = owner[s]
  BY ClaimsStay DEF Claimed
<1> QED BY <1>1, <1>2 DEF Claimed, ClaimedNow

LEMMA StutterMaps ==
  ASSUME IInv, [Next]_vars, \A c \in Calls : ~Accept(c),
         \A s \in Seats : SeatState(status'[s]) = SeatState(status[s])
  PROVE  [Promise!Next]_(Promise!vars)
BY MembersStay DEF Promise!vars

\* Writing rows puts the seats of the promise in their new state.
LEMMA PutMaps ==
  ASSUME NEW S \in SUBSET Seats, NEW what,
         \A s \in Seats : SeatState(status'[s]) = IF s \in S THEN what ELSE SeatState(status[s])
  PROVE  Promise!Put(S, what)
BY DEF Promise!Put, Promise!Seats, Seats

\* The seats of a team the promise holds are its unpaid rows.
LEMMA HeldMaps ==
  ASSUME TypeOK, NEW t \in Teams
  PROVE  Promise!HeldIn(t) = {s \in SeatsOf[t] : status[s] \in Unpaid}
<1>1. \A s \in SeatsOf[t] : s \in Seats /\ status[s] \in Active \cup {"none", "CANCELLED"}
  BY SeatsByTeam DEF TypeOK
<1> QED BY <1>1, SeatStates DEF Promise!HeldIn

\* Cancelling every unpaid row of some teams releases those teams.
LEMMA ReleaseMaps ==
  ASSUME IInv, [Next]_vars, \A c \in Calls : ~Accept(c), NEW T \in SUBSET Teams,
         status' = Moved({s \in Seats : TeamOf(s) \in T /\ status[s] \in Unpaid}, "CANCELLED")
  PROVE  Promise!Next
<1> DEFINE R == {s \in Seats : TeamOf(s) \in T /\ status[s] \in Unpaid}
<1>0. TypeOK
  BY DEF IInv
<1>1. R = UNION {Promise!HeldIn(t) : t \in T}
  <2>1. \A t \in T : Promise!HeldIn(t) = {s \in SeatsOf[t] : status[s] \in Unpaid}
    BY <1>0, HeldMaps
  <2>2. \A t \in T : \A s : s \in SeatsOf[t] <=> s \in Seats /\ TeamOf(s) = t
    BY SeatsByTeam
  <2>3. UNION {Promise!HeldIn(t) : t \in T}
          = UNION {{s \in SeatsOf[t] : status[s] \in Unpaid} : t \in T}
    BY <2>1
  <2> QED BY <2>2, <2>3
<1>2. \A s \in Seats : SeatState(status'[s]) = IF s \in R THEN "gone" ELSE SeatState(status[s])
  BY MovedGives, SeatStates
<1>3. Promise!Put(R, "gone")
  BY <1>2, PutMaps
<1>4. Promise!Release(T)
  BY <1>1, <1>3, MembersStay DEF Promise!Release
<1> QED BY <1>4 DEF Promise!Next

LEMMA InsertMaps ==
  ASSUME IInv, [Next]_vars, NEW t \in Teams, NEW free \in BOOLEAN, InsertTeam(t, free)
  PROVE  Promise!Next
<1>0. TypeOK
  BY DEF IInv
<1>1. \A s \in SeatsOf[t] : s \in Seats /\ SeatState(status[s]) = "none"
  BY SeatsByTeam, SeatStates DEF InsertTeam, IInv, RowsFollowTeams
<1>2. \A s \in Seats : SeatState(status'[s]) =
        IF s \in SeatsOf[t] THEN IF free THEN "paid" ELSE "held" ELSE SeatState(status[s])
  BY <1>0, InsertWritesTeam, SeatStates DEF SeatHolding, Unpaid
<1>3. Promise!Put(SeatsOf[t], "held") \/ Promise!Put(SeatsOf[t], "paid")
  BY <1>1, <1>2, PutMaps
<1>4. \A c \in Calls : ~Accept(c)
  <2>1. phase' # phase
    BY <1>0 DEF InsertTeam, TypeOK
  <2> QED BY <2>1 DEF Accept, teamVars
<1>5. Promise!Hold(t)
  BY <1>1, <1>3, <1>4, MembersStay DEF Promise!Hold
<1> QED BY <1>5 DEF Promise!Next

\* A step that leaves the accept calls alone is not the end of one.
LEMMA CallsUnmoved ==
  ASSUME TypeOK, call' = call
  PROVE  \A c \in Calls : ~Accept(c)
<1>1. ASSUME NEW c \in Calls, Accept(c) PROVE FALSE
  <2>1. call'[c] = Idle /\ call[c].at = "claiming"
    BY <1>1 DEF Accept, TypeOK
  <2> QED BY <2>1 DEF Idle
<1> QED BY <1>1

\* All the unpaid rows of a team stand at the same status, so a statement on
\* one status takes them all.
LEMMA TeamUnpaid ==
  ASSUME IInv, NEW t \in Teams
  PROVE  /\ phase[t] = "order" => Having(t, "PENDING") = {s \in SeatsOf[t] : status[s] \in Unpaid}
         /\ phase[t] = "done" => MemberScope(t) = {s \in SeatsOf[t] : status[s] \in Unpaid}
BY DEF IInv, RowsFollowTeams, Having, MemberScope, Unpaid

\* The rows of one team, found by their team.
LEMMA OneTeamRows ==
  ASSUME NEW t \in Teams
  PROVE  {s \in SeatsOf[t] : status[s] \in Unpaid}
           = {s \in Seats : TeamOf(s) \in {t} /\ status[s] \in Unpaid}
BY SeatsByTeam

LEMMA OrderMaps ==
  ASSUME IInv, [Next]_vars, NEW t \in Teams, RecordOrder(t) \/ CreateOrderFails(t)
  PROVE  [Promise!Next]_(Promise!vars)
<1>0. TypeOK
  BY DEF IInv
<1>1. \A c \in Calls : ~Accept(c)
  BY <1>0, CallsUnmoved DEF RecordOrder, CreateOrderFails
<1>2. CASE RecordOrder(t)
  <2>1. \A s \in Having(t, "PENDING") : SeatState(status[s]) = "held"
    BY SeatStates DEF Having, Unpaid
  <2>2. SeatState("PAYMENT_PENDING") = "held"
    BY SeatStates DEF Unpaid
  <2>3. \A s \in Seats : SeatState(status'[s]) = SeatState(status[s])
    <3>1. Having(t, "PENDING") \in SUBSET Seats
      BY SeatsByTeam DEF Having
    <3> QED BY <1>2, <2>1, <2>2, <3>1, MovedGives DEF RecordOrder
  <2> QED BY <1>1, <2>3, StutterMaps
<1>3. CASE CreateOrderFails(t)
  <2>1. status' = Moved({s \in Seats : TeamOf(s) \in {t} /\ status[s] \in Unpaid}, "CANCELLED")
    BY <1>3, TeamUnpaid, OneTeamRows DEF CreateOrderFails
  <2> QED BY <1>1, <2>1, ReleaseMaps
<1> QED BY <1>2, <1>3

LEMMA PaymentMaps ==
  ASSUME IInv, [Next]_vars, NEW t \in Teams,
         Failed(t) \/ \E at \in 0..MaxTime : Captured(t, at)
  PROVE  [Promise!Next]_(Promise!vars)
<1>0. TypeOK
  BY DEF IInv
<1>1. \A c \in Calls : ~Accept(c)
  BY <1>0, CallsUnmoved DEF Failed, Captured
<1>2. phase[t] = "done"
  BY DEF Failed, Captured, IInv, RowsFollowTeams
<1>3. MemberScope(t) = {s \in SeatsOf[t] : status[s] \in Unpaid}
  BY <1>2, TeamUnpaid
<1>4. CASE status' = Moved(MemberScope(t), "CANCELLED")
  <2>1. status' = Moved({s \in Seats : TeamOf(s) \in {t} /\ status[s] \in Unpaid}, "CANCELLED")
    BY <1>3, <1>4, OneTeamRows
  <2> QED BY <1>1, <2>1, ReleaseMaps
<1>5. CASE status' = Moved(MemberScope(t), "CONFIRMED")
           /\ status[HeadSeat[t]] = "PAYMENT_PENDING"
  <2>1. Promise!HeldIn(t) = MemberScope(t)
    BY <1>0, <1>3, HeldMaps
  <2>2. HeadSeat[t] \in MemberScope(t) /\ MemberScope(t) \in SUBSET Seats
    BY <1>5, SeatsByTeam DEF MemberScope, Having
  <2>3. \A s \in Seats :
          SeatState(status'[s]) = IF s \in MemberScope(t) THEN "paid" ELSE SeatState(status[s])
    BY <1>5, <2>2, MovedGives, SeatStates DEF SeatHolding
  <2>4. Promise!Put(MemberScope(t), "paid")
    BY <2>2, <2>3, PutMaps
  <2>5. Promise!Pay(t)
    BY <1>1, <2>1, <2>2, <2>4, MembersStay DEF Promise!Pay
  <2> QED BY <2>5 DEF Promise!Next
<1>6. CASE status' = status
  BY <1>1, <1>6, StutterMaps
<1> QED BY <1>4, <1>5, <1>6 DEF Failed, Captured, InTime

LEMMA SweepMaps ==
  ASSUME IInv, [Next]_vars,
         NEW statuses \in {Unpaid, {"PENDING"}, {"PAYMENT_PENDING"}}, ReleaseExpired(statuses)
  PROVE  [Promise!Next]_(Promise!vars)
<1> DEFINE swept == {s \in Seats : status[s] \in statuses /\ expiresAt[TeamOf(s)] < now}
           T == {t \in Teams : expiresAt[t] < now /\ \E s \in SeatsOf[t] : status[s] \in statuses}
<1>0. TypeOK /\ statuses \subseteq Unpaid
  BY DEF IInv, Unpaid
<1>1. \A c \in Calls : ~Accept(c)
  BY <1>0, CallsUnmoved DEF ReleaseExpired
\* Two unpaid rows of a team have the same status.
<1>2. ASSUME NEW t \in Teams, NEW r \in SeatsOf[t], NEW s \in SeatsOf[t],
             status[r] \in Unpaid, status[s] \in Unpaid
      PROVE  status[r] = status[s]
  BY <1>2 DEF IInv, RowsFollowTeams, Unpaid
<1>3. swept = {s \in Seats : TeamOf(s) \in T /\ status[s] \in Unpaid}
  <2>1. ASSUME NEW s \in Seats, s \in swept PROVE TeamOf(s) \in T /\ status[s] \in Unpaid
    BY <1>0, <2>1, SeatsByTeam
  <2>2. ASSUME NEW s \in Seats, TeamOf(s) \in T, status[s] \in Unpaid PROVE s \in swept
    <3>1. PICK r \in SeatsOf[TeamOf(s)] : status[r] \in statuses
      BY <2>2
    <3>2. status[s] = status[r]
      <4>1. s \in SeatsOf[TeamOf(s)] /\ TeamOf(s) \in Teams
        BY SeatsByTeam
      <4> QED BY <1>0, <1>2, <2>2, <3>1, <4>1
    <3> QED BY <2>2, <3>1, <3>2
  <2> QED BY <2>1, <2>2
<1>4. status' = Moved(swept, "CANCELLED")
  BY DEF ReleaseExpired
<1>5. T \in SUBSET Teams
  OBVIOUS
<1> HIDE DEF swept, T
<1> QED BY <1>1, <1>3, <1>4, <1>5, ReleaseMaps

LEMMA SeatStepMaps ==
  ASSUME IInv, [Next]_vars, SeatStep
  PROVE  [Promise!Next]_(Promise!vars)
<1>0. TypeOK
  BY DEF IInv
<1>1. \A c \in Calls : ~Accept(c)
  BY <1>0, CallsUnmoved
  DEF SeatStep, ReleaseExpired, DeleteOwnAccount, CancelRegistrationAsAdmin, Attend
<1>2. ASSUME NEW u \in Delegates, DeleteOwnAccount(u) PROVE [Promise!Next]_(Promise!vars)
  <2> DEFINE T == {t \in Teams : Head[t] = u}
  <2>1. \A s \in Seats : status[s] \in Unpaid => (owner[s] = u <=> TeamOf(s) \in T)
    BY SeatsByTeam DEF IInv, RowsFollowTeams
  <2>2. {s \in Seats : owner[s] = u /\ status[s] \in Unpaid}
          = {s \in Seats : TeamOf(s) \in T /\ status[s] \in Unpaid}
    BY <2>1
  <2>3. T \in SUBSET Teams
    OBVIOUS
  <2> HIDE DEF T
  <2> QED BY <1>1, <1>2, <2>2, <2>3, ReleaseMaps DEF DeleteOwnAccount
<1>3. ASSUME NEW s \in Seats, CancelRegistrationAsAdmin(s) PROVE [Promise!Next]_(Promise!vars)
  <2>1. status[s] \in Active /\ status' = Moved({s}, "CANCELLED") /\ {s} \in SUBSET Seats
    BY <1>3 DEF CancelRegistrationAsAdmin
  <2>2. SeatState(status[s]) \in {"held", "paid"}
    BY <2>1, SeatStates DEF Active
  <2>3. \A x \in Seats :
          SeatState(status'[x]) = IF x \in {s} THEN "gone" ELSE SeatState(status[x])
    BY <2>1, MovedGives, SeatStates
  <2>4. Promise!Put({s}, "gone")
    BY <2>1, <2>3, PutMaps
  <2>5. Promise!Remove(s)
    BY <1>1, <2>2, <2>4, MembersStay DEF Promise!Remove
  <2> QED BY <2>5, PromiseSeats DEF Promise!Next
<1>4. ASSUME NEW s \in Seats, NEW st \in SeatHolding, Attend(s, st)
      PROVE  [Promise!Next]_(Promise!vars)
  <2>1. /\ status[s] \in SeatHolding /\ st \in SeatHolding
        /\ status' = Moved({s}, st) /\ {s} \in SUBSET Seats
    BY <1>4 DEF Attend
  <2>2. \A x \in Seats : SeatState(status'[x]) = SeatState(status[x])
    BY <2>1, MovedGives, SeatStates
  <2> QED BY <1>1, <2>2, StutterMaps
<1> QED BY <1>2, <1>3, <1>4, SweepMaps DEF SeatStep

\* A call that accepts an invitation joins its seat.
LEMMA JoinMaps ==
  ASSUME IInv, NEW c \in Calls, Accept(c),
         NEW s \in Seats, s = SeatWanted(c), NEW u \in Delegates, u = call[c].user
  PROVE  Promise!Next
<1> DEFINE member == [x \in Seats |-> IF Claimed(x) THEN owner[x] ELSE Nobody]
<1>1. /\ ~Claimed(s) /\ Claimable(s) /\ u # Head[TeamOf(s)]
      /\ owner'[s] = u /\ \A x \in Seats \ {s} : owner'[x] = owner[x]
  BY AcceptWrites
<1>2. status' = status
  BY DEF Accept
<1>3. SeatState(status[s]) = "paid"
  BY <1>1, SeatStates DEF Claimable, SeatHolding
<1>4. \A x \in Seats : owner'[x] \notin {Nobody, Head[TeamOf(x)]}
                        <=> (x = s \/ owner[x] \notin {Nobody, Head[TeamOf(x)]})
  BY <1>1, SeatsByTeam DEF Claimed
<1>5. member' = [member EXCEPT ![s] = u]
  BY <1>1, <1>4 DEF Claimed
<1>6. Promise!Join(s, u)
  BY <1>1, <1>2, <1>3, <1>5 DEF Promise!Join
<1> QED BY <1>6, PromiseSeats DEF Promise!Next

LEMMA AcceptMaps ==
  ASSUME IInv, NEW c \in Calls, Accept(c)
  PROVE  Promise!Next
<1>1. SeatWanted(c) \in Seats /\ call[c].user \in Delegates
  BY AcceptWrites
<1> QED BY <1>1, JoinMaps

LEMMA StepMaps == IInv /\ [Next]_vars => [Promise!Next]_(Promise!vars)
<1> SUFFICES ASSUME IInv, [Next]_vars PROVE [Promise!Next]_(Promise!vars)
  OBVIOUS
<1>0. TypeOK
  BY DEF IInv
<1>1. CASE UNCHANGED <<status, owner>>
  BY <1>1 DEF Promise!vars, Claimed
<1>2. CASE InvitationStep
  BY <1>0, <1>1, <1>2, InvitationStepMoves
<1>3. ASSUME NEW c \in Calls, AcceptStep(c) PROVE [Promise!Next]_(Promise!vars)
  BY <1>1, <1>3, AcceptMaps DEF AcceptStep, LockInvitation, LockSeat, Rollback
<1>4. ASSUME NEW t \in Teams, TeamStep(t) PROVE [Promise!Next]_(Promise!vars)
  BY <1>1, <1>4, InsertMaps, OrderMaps, PaymentMaps DEF TeamStep, LockPass
<1>5. CASE Tick \/ UNCHANGED vars
  BY <1>1, <1>5 DEF Tick, vars
<1> QED BY <1>2, <1>3, <1>4, <1>5, SeatStepMaps DEF Next

\* Delegations, with their placeholders, sweeps, late payments and concurrent
\* claims, keep the promise of TeamPromise: the refinement TLC checks as
\* KeepsTeamPromise.
THEOREM TeamPromiseKept == Spec => KeepsTeamPromise
<1>1. Init => Promise!Init
  BY SeatStates DEF Init, Promise!Init, Promise!Seats, Seats, Claimed
<1> QED BY <1>1, Inductive, StepMaps, PTL DEF Spec, KeepsTeamPromise, Promise!Spec
=============================================================================
