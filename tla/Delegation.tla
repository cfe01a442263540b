----------------------------- MODULE Delegation -----------------------------
(***************************************************************************)
(* Delegations for one pass: the group half of lib/actions/registration.ts *)
(* (initiateGroupRegistration) and lib/actions/registration-group.ts       *)
(* (invite, resend, cancel, accept), with the payment of the team, the     *)
(* sweeps, staff and attendance.                                           *)
(*                                                                         *)
(* A seat is a row of registrations; every seat but the head's belongs to  *)
(* the head until a teammate accepts an invitation to it.  A team of one   *)
(* seat is a solo registration for the same pass.  Refusals that change    *)
(* nothing are left out.                                                   *)
(***************************************************************************)
EXTENDS Integers, FiniteSets

CONSTANTS
  Teams, SeatsOf, HeadSeat, Head,   \* each team's seats, head seat, head
  Delegates, Nobody,
  Capacity,        \* of the pass
  Invitations,     \* rows of registration_group_invitations
  Calls,           \* concurrent calls of acceptGroupInvitation
  Resends,         \* concurrent calls of resendGroupInvitation
  MaxLinks,        \* bound on the links sent for one invitation
  HoldTTL, InviteTTL, Cooldown, MaxTime

ASSUME TeamsAssumption ==
  /\ IsFiniteSet(Teams) /\ \A t \in Teams : IsFiniteSet(SeatsOf[t])
  /\ \A t1, t2 \in Teams : t1 # t2 => SeatsOf[t1] \cap SeatsOf[t2] = {}
  /\ \A t \in Teams : HeadSeat[t] \in SeatsOf[t] /\ Head[t] \in Delegates
  /\ Nobody \notin Delegates \cup Calls \cup Teams

ASSUME NumbersAssumption ==
  /\ Capacity \in Nat /\ MaxLinks \in Nat
  /\ HoldTTL \in Nat /\ InviteTTL \in Nat /\ Cooldown \in Nat /\ MaxTime \in Nat

Seats == UNION {SeatsOf[t] : t \in Teams}

VARIABLES
  now,
  phase,      \* where each team's initiateGroupRegistration stands
  passLock,   \* the team that holds the pass row
  status,     \* registrations.status of each seat
  owner,      \* registrations.userId
  expiresAt,  \* of the team's seats
  payment,    \* the team's payment row
  inviting,   \* teams that calls of inviteGroupMember have found paid
  inv,        \* invitations
  call,       \* accept calls
  resend      \* resend calls, between their check and their update

teamVars == <<phase, passLock, expiresAt, payment, inviting>>
vars == <<now, teamVars, status, owner, inv, call, resend>>

Unpaid      == {"PENDING", "PAYMENT_PENDING"}
SeatHolding == {"CONFIRMED", "ATTENDED", "NO_SHOW"}
Active      == Unpaid \cup SeatHolding

NotSent == [status |-> "unused", seat |-> Nobody, link |-> 0, expiresAt |-> 0, sentAt |-> 0]

Idle == [at |-> "idle", user |-> Nobody, inv |-> Nobody]

TeamOf(s) == CHOOSE t \in Teams : s \in SeatsOf[t]
IsHead(s) == s = HeadSeat[TeamOf(s)]
Claimed(s) == owner[s] \notin {Nobody, Head[TeamOf(s)]}

Init ==
  /\ now = 0
  /\ phase = [t \in Teams |-> "idle"]
  /\ passLock = Nobody
  /\ status = [s \in Seats |-> "none"]
  /\ owner = [s \in Seats |-> Nobody]
  /\ expiresAt = [t \in Teams |-> 0]
  /\ payment = [t \in Teams |-> "none"]
  /\ inviting = {}
  /\ inv = [i \in Invitations |-> NotSent]
  /\ call = [c \in Calls |-> Idle]
  /\ resend = [r \in Resends |-> Nobody]

Moved(S, st) == [s \in Seats |-> IF s \in S THEN st ELSE status[s]]

Having(t, st) == {s \in SeatsOf[t] : status[s] = st}

\* Row locks of the accept transactions.
InvitationFree(i) == \A c \in Calls : call[c].inv # i
SeatFree(s) ==
  \A c \in Calls : call[c].at = "claiming" => inv[call[c].inv].seat # s

-----------------------------------------------------------------------------
(* initiateGroupRegistration. *)

Occupied == {s \in Seats : status[s] \in Active}

\* Mutant: a team is counted as one more seat.
MutantHasRoomFor(t) == Cardinality(Occupied) + 1 <= Capacity

HasRoomFor(t) == Cardinality(Occupied) + Cardinality(SeatsOf[t]) <= Capacity

\* SELECT ... FOR UPDATE on the pass, then the checks under the lock.
LockPass(t) ==
  /\ phase[t] = "idle" /\ passLock = Nobody
  /\ \A s \in Occupied : owner[s] # Head[t]
  /\ HasRoomFor(t)
  /\ passLock' = t
  /\ phase' = [phase EXCEPT ![t] = "reserve"]
  /\ UNCHANGED <<now, status, owner, expiresAt, payment, inviting, inv, call, resend>>

\* The group, the head's row and the placeholders, all owned by the head.
InsertTeam(t, free) ==
  /\ phase[t] = "reserve"
  /\ status' = Moved(SeatsOf[t], IF free THEN "CONFIRMED" ELSE "PENDING")
  /\ owner' = [s \in Seats |-> IF s \in SeatsOf[t] THEN Head[t] ELSE owner[s]]
  /\ expiresAt' = [expiresAt EXCEPT ![t] = now + HoldTTL]
  /\ phase' = [phase EXCEPT ![t] = IF free THEN "done" ELSE "order"]
  /\ passLock' = Nobody
  /\ UNCHANGED <<now, payment, inviting, inv, call, resend>>

\* createOrder answered: one statement moves every seat still PENDING.
RecordOrder(t) ==
  /\ phase[t] = "order"
  /\ phase' = [phase EXCEPT ![t] = "done"]
  /\ status' = Moved(Having(t, "PENDING"), "PAYMENT_PENDING")
  /\ payment' = [payment EXCEPT ![t] = "PENDING"]
  /\ UNCHANGED <<now, passLock, owner, expiresAt, inviting, inv, call, resend>>

\* Mutant: the seats take the status of the payment.
MutantCreateOrderFails(t) ==
  /\ phase[t] = "order"
  /\ phase' = [phase EXCEPT ![t] = "done"]
  /\ status' = Moved(Having(t, "PENDING"), "FAILED")
  /\ UNCHANGED <<now, passLock, owner, expiresAt, payment, inviting, inv, call, resend>>

\* A group hold is all or nothing.
CreateOrderFails(t) ==
  /\ phase[t] = "order"
  /\ phase' = [phase EXCEPT ![t] = "done"]
  /\ status' = Moved(Having(t, "PENDING"), "CANCELLED")
  /\ UNCHANGED <<now, passLock, owner, expiresAt, payment, inviting, inv, call, resend>>

-----------------------------------------------------------------------------
(* The team's one payment, and what else moves its rows. *)

\* Mutant: only the row the payment is attached to settles.
MutantMemberScope(t) == {HeadSeat[t]} \cap Having(t, "PAYMENT_PENDING")

\* memberScope, with the guard of every statement that uses it.
MemberScope(t) == Having(t, "PAYMENT_PENDING")

\* at is the provider's time of the capture.
InTime(t, at) == status[HeadSeat[t]] = "PAYMENT_PENDING" /\ at <= expiresAt[t]

Captured(t, at) ==
  /\ payment[t] \in {"PENDING", "FAILED"} /\ at <= now
  /\ IF InTime(t, at)
     THEN /\ payment' = [payment EXCEPT ![t] = "PAID"]
          /\ status' = Moved(MemberScope(t), "CONFIRMED")
     ELSE /\ payment' = [payment EXCEPT ![t] = "EXCEPTION"]
          /\ status' = IF status[HeadSeat[t]] = "PAYMENT_PENDING"
                       THEN Moved(MemberScope(t), "CANCELLED") ELSE status
  /\ UNCHANGED <<now, phase, passLock, owner, expiresAt, inviting, inv, call, resend>>

Failed(t) ==
  /\ payment[t] \in {"PENDING", "FAILED"}
  /\ payment' = [payment EXCEPT ![t] = "FAILED"]
  /\ status' = Moved(MemberScope(t), "CANCELLED")
  /\ UNCHANGED <<now, phase, passLock, owner, expiresAt, inviting, inv, call, resend>>

\* The lazy sweep takes both statuses, the job one at a time.
ReleaseExpired(statuses) ==
  /\ status' = Moved({s \in Seats : /\ status[s] \in statuses
                                    /\ expiresAt[TeamOf(s)] < now}, "CANCELLED")
  /\ UNCHANGED <<now, teamVars, owner, inv, call, resend>>

\* The account's unpaid holds go, placeholders included.
DeleteOwnAccount(u) ==
  /\ status' = Moved({s \in Seats : owner[s] = u /\ status[s] \in Unpaid}, "CANCELLED")
  /\ UNCHANGED <<now, teamVars, owner, inv, call, resend>>

CancelRegistrationAsAdmin(s) ==
  /\ status[s] \in Active /\ SeatFree(s)
  /\ status' = Moved({s}, "CANCELLED")
  /\ UNCHANGED <<now, teamVars, owner, inv, call, resend>>

\* Check-in at the door, or the roster.
Attend(s, st) ==
  /\ status[s] \in SeatHolding /\ SeatFree(s)
  /\ st \in {"ATTENDED", "NO_SHOW"}
  /\ status' = Moved({s}, st)
  /\ UNCHANGED <<now, teamVars, owner, inv, call, resend>>

-----------------------------------------------------------------------------
(* Invitations. *)

\* Seats of the team the head still owns.
Candidates(t) == {s \in SeatsOf[t] : owner[s] = Head[t] /\ s # HeadSeat[t]}

Live(i) == inv[i].status = "PENDING" /\ inv[i].expiresAt > now

OpenSeats(t) == {s \in Candidates(t) : \A i \in Invitations : ~(Live(i) /\ inv[i].seat = s)}

\* expireStaleInvitations: every head-facing handler starts with it.
ExpireStale(t) ==
  /\ \E i \in Invitations : inv[i].status = "PENDING" /\ inv[i].expiresAt < now
  /\ inv' = [i \in Invitations |->
               IF /\ inv[i].status = "PENDING" /\ inv[i].expiresAt < now
                  /\ inv[i].seat \in SeatsOf[t] /\ InvitationFree(i)
               THEN [inv[i] EXCEPT !.status = "EXPIRED"] ELSE inv[i]]
  /\ UNCHANGED <<now, teamVars, status, owner, call, resend>>

\* The head's status is read before the transaction; any number of calls may
\* have read it and go on later.  A solo delegate has no group.
CheckInvite(t) ==
  /\ t \notin inviting /\ SeatsOf[t] # {HeadSeat[t]}
  /\ status[HeadSeat[t]] = "CONFIRMED"
  /\ inviting' = inviting \cup {t}
  /\ UNCHANGED <<now, phase, passLock, expiresAt, payment, status, owner, inv, call, resend>>

\* The transaction locks the seats, so one step.
InviteGroupMember(t, i, s) ==
  /\ t \in inviting /\ inv[i].status = "unused"
  /\ \A x \in Candidates(t) : SeatFree(x)
  /\ s \in OpenSeats(t)
  /\ inv' = [inv EXCEPT ![i] = [status |-> "PENDING", seat |-> s, link |-> 1,
                                expiresAt |-> now + InviteTTL, sentAt |-> now]]
  /\ UNCHANGED <<now, teamVars, status, owner, call, resend>>

CheckResend(r, i) ==
  /\ resend[r] = Nobody
  /\ inv[i].status = "PENDING" /\ inv[i].expiresAt >= now
  /\ now - inv[i].sentAt >= Cooldown
  /\ inv[i].link < MaxLinks
  /\ resend' = [resend EXCEPT ![r] = i]
  /\ UNCHANGED <<now, teamVars, status, owner, inv, call>>

\* Mutant: the resent invitation is pending again.
MutantResendGroupInvitation(r, i) ==
  /\ resend[r] = i /\ InvitationFree(i)
  /\ inv' = [inv EXCEPT ![i].link = @ + 1, ![i].expiresAt = now + InviteTTL,
                        ![i].sentAt = now, ![i].status = "PENDING"]
  /\ resend' = [resend EXCEPT ![r] = Nobody]
  /\ UNCHANGED <<now, teamVars, status, owner, call>>

\* UPDATE ... WHERE id = i, whatever became of the invitation.
ResendGroupInvitation(r, i) ==
  /\ resend[r] = i /\ InvitationFree(i)
  /\ inv' = [inv EXCEPT ![i].link = @ + 1, ![i].expiresAt = now + InviteTTL, ![i].sentAt = now]
  /\ resend' = [resend EXCEPT ![r] = Nobody]
  /\ UNCHANGED <<now, teamVars, status, owner, call>>

CancelGroupInvitation(i) ==
  /\ inv[i].status = "PENDING" /\ InvitationFree(i)
  /\ inv' = [inv EXCEPT ![i].status = "CANCELLED"]
  /\ UNCHANGED <<now, teamVars, status, owner, call, resend>>

-----------------------------------------------------------------------------
(* acceptGroupInvitation: one transaction that locks the invitation, then  *)
(* the seat, reads the delegate's other seats, and writes both rows.       *)

\* The link is looked up by its hash: only the last one sent is found.
LockInvitation(c, u, i, link) ==
  /\ call[c] = Idle
  /\ link = inv[i].link /\ inv[i].status = "PENDING" /\ inv[i].expiresAt >= now
  /\ InvitationFree(i)
  /\ u # Head[TeamOf(inv[i].seat)]
  /\ call' = [call EXCEPT ![c] = [at |-> "invited", user |-> u, inv |-> i]]
  /\ UNCHANGED <<now, teamVars, status, owner, inv, resend>>

SeatWanted(c) == inv[call[c].inv].seat

\* Neither in this team already, nor active for the pass elsewhere.
MayJoin(u, t) ==
  \A s \in Seats : owner[s] = u => s \notin SeatsOf[t] /\ status[s] \notin Active

\* Mutant: the invitation's own state is trusted.
MutantClaimable(s) == status[s] = "CONFIRMED"

Claimable(s) == owner[s] = Head[TeamOf(s)] /\ status[s] = "CONFIRMED"

LockSeat(c) ==
  LET s == SeatWanted(c)
  IN  /\ call[c].at = "invited" /\ SeatFree(s)
      /\ Claimable(s) /\ MayJoin(call[c].user, TeamOf(s))
      /\ call' = [call EXCEPT ![c].at = "claiming"]
      /\ UNCHANGED <<now, teamVars, status, owner, inv, resend>>

\* Refused under the seat's lock, or the worker died: rolled back.
Rollback(c) ==
  /\ call[c] # Idle
  /\ call' = [call EXCEPT ![c] = Idle]
  /\ UNCHANGED <<now, teamVars, status, owner, inv, resend>>

Accept(c) ==
  /\ call[c].at = "claiming"
  /\ owner' = [owner EXCEPT ![SeatWanted(c)] = call[c].user]
  /\ inv' = [inv EXCEPT ![call[c].inv].status = "ACCEPTED"]
  /\ call' = [call EXCEPT ![c] = Idle]
  /\ UNCHANGED <<now, teamVars, status, resend>>

Tick ==
  /\ now < MaxTime
  /\ now' = now + 1
  /\ UNCHANGED <<teamVars, status, owner, inv, call, resend>>

-----------------------------------------------------------------------------
TeamStep(t) ==
  \/ LockPass(t)
  \/ \E free \in BOOLEAN : InsertTeam(t, free)
  \/ RecordOrder(t) \/ CreateOrderFails(t)
  \/ \E at \in 0..MaxTime : Captured(t, at)
  \/ Failed(t)

SeatStep ==
  \/ \E statuses \in {Unpaid, {"PENDING"}, {"PAYMENT_PENDING"}} : ReleaseExpired(statuses)
  \/ \E u \in Delegates : DeleteOwnAccount(u)
  \/ \E s \in Seats : CancelRegistrationAsAdmin(s) \/ \E st \in SeatHolding : Attend(s, st)

InvitationStep ==
  \/ \E t \in Teams : ExpireStale(t) \/ CheckInvite(t)
  \/ \E t \in Teams, i \in Invitations : \E s \in SeatsOf[t] : InviteGroupMember(t, i, s)
  \/ \E i \in Invitations : CancelGroupInvitation(i)
  \/ \E r \in Resends, i \in Invitations : CheckResend(r, i) \/ ResendGroupInvitation(r, i)

AcceptStep(c) ==
  \/ \E u \in Delegates, i \in Invitations :
       \E link \in 1..inv[i].link : LockInvitation(c, u, i, link)
  \/ LockSeat(c) \/ Rollback(c) \/ Accept(c)

Next ==
  \/ \E t \in Teams : TeamStep(t)
  \/ SeatStep \/ InvitationStep
  \/ \E c \in Calls : AcceptStep(c)
  \/ Tick

Spec == Init /\ [][Next]_vars

-----------------------------------------------------------------------------
(* Properties. *)

\* Every variable keeps its type; a row is moved only between the statuses of
\* its table.
TypeOK ==
  /\ now \in 0..MaxTime
  /\ phase \in [Teams -> {"idle", "reserve", "order", "done"}]
  /\ passLock \in Teams \cup {Nobody}
  /\ status \in [Seats -> Active \cup {"none", "CANCELLED"}]
  /\ owner \in [Seats -> Delegates \cup {Nobody}]
  /\ expiresAt \in [Teams -> 0..(MaxTime + HoldTTL)]
  /\ payment \in [Teams -> {"none", "PENDING", "FAILED", "PAID", "EXCEPTION"}]
  /\ inviting \subseteq Teams
  /\ inv \in [Invitations ->
       [status : {"unused", "PENDING", "ACCEPTED", "EXPIRED", "CANCELLED"},
        seat : Seats \cup {Nobody}, link : Nat,
        expiresAt : 0..(MaxTime + InviteTTL), sentAt : 0..MaxTime]]
  /\ call \in [Calls -> [at : {"idle", "invited", "claiming"},
                         user : Delegates \cup {Nobody}, inv : Invitations \cup {Nobody}]]
  /\ resend \in [Resends -> Invitations \cup {Nobody}]

\* Teams and solo delegates never hold more seats of the pass than it has,
\* whichever of them counted first.
TeamsFit == Cardinality(Occupied) <= Capacity

\* A seat was claimed exactly when one of its invitations was accepted, and
\* never through two: links resent, replaced or left pending at the instant
\* they expire cannot both win the seat.
ClaimedThroughOneInvitation ==
  \A s \in Seats :
    LET accepted == {i \in Invitations : inv[i].status = "ACCEPTED" /\ inv[i].seat = s}
    IN  Cardinality(accepted) = IF Claimed(s) THEN 1 ELSE 0

\* An invitation that was accepted, cancelled or expired never becomes
\* anything else, though a resend that checked it earlier rewrites its row.
ClosedInvitationsStay ==
  [][\A i \in Invitations :
       inv[i].status \in {"ACCEPTED", "CANCELLED", "EXPIRED"} =>
         inv'[i].status = inv[i].status /\ inv'[i].seat = inv[i].seat]_vars

\* A delegate holds one seat of the pass, counting the seats claimed in teams
\* (acceptGroupInvitation refuses a delegate who is already in).
OneSeatPerDelegate ==
  \A u \in Delegates :
    Cardinality({s \in Occupied : owner[s] = u /\ (Claimed(s) \/ IsHead(s))}) <= 1

\* The promise of TeamPromise, read off the rows.
SeatState(st) ==
  CASE st = "none" -> "none"
    [] st \in Unpaid -> "held"
    [] st \in SeatHolding -> "paid"
    [] OTHER -> "gone"

Promise == INSTANCE TeamPromise WITH
  Unclaimed <- Nobody,
  seat <- [s \in Seats |-> SeatState(status[s])],
  member <- [s \in Seats |-> IF Claimed(s) THEN owner[s] ELSE Nobody]

\* Delegation implements TeamPromise: a team is held, paid and released as
\* one, and a paid seat is claimed once and for all.
KeepsTeamPromise == Promise!Spec
=============================================================================
