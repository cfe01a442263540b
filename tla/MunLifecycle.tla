---------------------------- MODULE MunLifecycle ----------------------------
(***************************************************************************)
(* The public life of one conference, from PUBLISHED on: the actions of    *)
(* lib/lifecycle/registration-lifecycle.ts, the administrator's moves in   *)
(* lib/actions/admin-review.ts, the organizer's edits of the dates, and    *)
(* the scheduled run that opens, closes and starts what is due.            *)
(*                                                                         *)
(* Instants are numbers and PerDay of them make an IST day.  The actions   *)
(* leave the variables of other modules to those modules.                  *)
(***************************************************************************)
EXTENDS Integers, FiniteSets, MunStates

CONSTANTS
  PerDay, MaxTime,
  NoDate,                    \* a date that is not set
  OpeningDates, Deadlines, StartDates,   \* the values a date may take
  Editors                    \* calls of updateMunDetails, one each

ASSUME TimeAssumption ==
  /\ PerDay \in Nat \ {0} /\ MaxTime \in Nat
  /\ NoDate \notin Int /\ NoDate \in OpeningDates \cup Deadlines \cup StartDates
  /\ OpeningDates \cup Deadlines \cup StartDates \subseteq Nat \cup {NoDate}

VARIABLES
  now,
  status,      \* muns.status
  dates,       \* registrationOpensAt, registrationDeadline and startDate
  ready,       \* there is a pass on sale, and payouts are set up if one is paid
  edit,        \* each editor's call, between its check and its update
  job          \* the scheduled run

munVars == <<now, status, dates, ready, edit, job>>

Dates == [opensAt : OpeningDates, deadline : Deadlines, start : StartDates]
DateFields == {"opensAt", "deadline", "start"}

\* What an edit may send: any of the fields, each with a date of its kind.
Inputs ==
  {d \in UNION {[F -> OpeningDates \cup Deadlines \cup StartDates] : F \in SUBSET DateFields} :
     \E whole \in Dates : \A f \in DOMAIN d : d[f] = whole[f]}

IsSet(d) == d # NoDate

StartOfIstDay(t) == PerDay * (t \div PerDay)

NoInput == [f \in {} |-> NoDate]
NoEdit == [at |-> "idle", input |-> NoInput]

IdleJob == [at |-> "idle", now |-> 0, found |-> FALSE]

-----------------------------------------------------------------------------
(* What each action asks of the row, as of the instant t. *)

WindowOrdered(d) ==
  IsSet(d.deadline) =>
    /\ IsSet(d.opensAt) => d.opensAt < d.deadline
    /\ IsSet(d.start) => d.deadline < d.start

\* The start date's day has begun.
StartDayReached(t) == IsSet(dates.start) /\ t >= StartOfIstDay(dates.start)

MayOpen(t) ==
  /\ status = "PUBLISHED" /\ ready
  /\ IsSet(dates.deadline) /\ dates.deadline >= t
  /\ ~StartDayReached(t)
  /\ IsSet(dates.opensAt) => dates.opensAt <= t

MayStart(t) ==
  /\ status \in {"REGISTRATION_OPEN", "REGISTRATION_CLOSED"}
  /\ IsSet(dates.start) /\ t >= StartOfIstDay(dates.start) - PerDay

\* Staff may complete at any time, and alone decide on submitted results.
MayComplete(staff, t) ==
  \/ status = "RESULTS_UNDER_REVIEW" /\ staff
  \/ /\ status = "CONFERENCE_ACTIVE"
     /\ \/ staff
        \/ IsSet(dates.start) /\ t >= StartOfIstDay(dates.start) + PerDay

Init ==
  /\ now = 0 /\ status = "PUBLISHED"
  /\ dates \in {d \in Dates : WindowOrdered(d)}
  /\ ready \in BOOLEAN
  /\ edit = [e \in Editors |-> NoEdit]
  /\ job = IdleJob

-----------------------------------------------------------------------------
(* runLifecycleAction: one transaction under the row lock. *)

Move(to) == CanTransition(status, to) /\ status' = to

Same == UNCHANGED <<now, dates, ready, edit, job>>

OpenRegistration == MayOpen(now) /\ Move("REGISTRATION_OPEN") /\ Same

CloseRegistration == status = "REGISTRATION_OPEN" /\ Move("REGISTRATION_CLOSED") /\ Same

\* Two hops in one transaction when registration is still open.
Start == MayStart(now) /\ status' = "CONFERENCE_ACTIVE" /\ Same

Complete(staff) == MayComplete(staff, now) /\ Move("COMPLETED") /\ Same

Archive == Move("ARCHIVED") /\ Same

Cancel == Move("CANCELLED") /\ Same

\* admin-review.ts.
Unpublish == Move("UNPUBLISHED") /\ Same
Suspend == Move("SUSPENDED") /\ Same
Reinstate == status = "SUSPENDED" /\ Move("VERIFICATION") /\ Same

\* The review and the queue (GoLive) bring it back to the marketplace.
Republish == status \in {"VERIFICATION", "UNPUBLISHED"} /\ status' = "PUBLISHED" /\ Same

-----------------------------------------------------------------------------
(* The organizer's edits; none of them takes the row lock. *)

\* The row as an edit leaves it.
Edited(input) == [f \in DateFields |-> IF f \in DOMAIN input THEN input[f] ELSE dates[f]]

\* updateMunDetails checks the window of the row it has read ...
CheckDates(e, input) ==
  /\ edit[e].at = "idle"
  /\ WindowOrdered(Edited(input))
  /\ edit' = [edit EXCEPT ![e] = [at |-> "checked", input |-> input]]
  /\ UNCHANGED <<now, status, dates, ready, job>>

\* ... and writes every field it was sent, changed or not.
UpdateDates(e) ==
  /\ edit[e].at = "checked"
  /\ dates' = Edited(edit[e].input)
  /\ edit' = [edit EXCEPT ![e] = [at |-> "done", input |-> NoInput]]
  /\ UNCHANGED <<now, status, ready, job>>

\* A pass is added, or the last one is archived.
ChangeReadiness == ready' = ~ready /\ UNCHANGED <<now, status, dates, edit, job>>

-----------------------------------------------------------------------------
(* runScheduledLifecycleTransitions: three steps in order, each a query    *)
(* for candidates and then a transaction, all as of the run's own instant. *)

\* Mutant: a finished run is not idle again.
MutantFollowing == [open |-> "close", close |-> "start", start |-> "finished"]

Following == [open |-> "close", close |-> "start", start |-> "idle"]

BeginRun ==
  /\ job.at = "idle"
  /\ job' = [at |-> "open", now |-> now, found |-> FALSE]
  /\ UNCHANGED <<now, status, dates, ready, edit>>

EndOfIstToday == StartOfIstDay(job.now) + PerDay

\* Mutant: a conference that starts today is not looked for until tomorrow.
MutantStartsByToday == IsSet(dates.start) /\ dates.start < StartOfIstDay(job.now)

StartsByToday == IsSet(dates.start) /\ dates.start < EndOfIstToday

\* The query of each step ...
Candidate(step) ==
  CASE step = "open" ->
         /\ status = "PUBLISHED"
         /\ IsSet(dates.opensAt) /\ dates.opensAt <= job.now
         /\ IsSet(dates.deadline) /\ dates.deadline >= job.now
         /\ ~StartsByToday
    [] step = "close" ->
         /\ status = "REGISTRATION_OPEN"
         /\ (IsSet(dates.deadline) /\ dates.deadline < job.now) \/ StartsByToday
    [] step = "start" -> status = "REGISTRATION_CLOSED" /\ StartsByToday

\* ... and what is checked again under the lock.
IsDue(step, t) ==
  CASE step = "open" -> status = "PUBLISHED" /\ IsSet(dates.opensAt) /\ dates.opensAt <= t
    [] step = "close" ->
         /\ status = "REGISTRATION_OPEN"
         /\ (IsSet(dates.deadline) /\ dates.deadline < t) \/ StartDayReached(t)
    [] step = "start" -> status = "REGISTRATION_CLOSED" /\ StartDayReached(t)

Planned(step, t) ==
  CASE step = "open" -> MayOpen(t)
    [] step = "close" -> TRUE
    [] step = "start" -> MayStart(t)

Target == [open |-> "REGISTRATION_OPEN", close |-> "REGISTRATION_CLOSED",
           start |-> "CONFERENCE_ACTIVE"]

NextStep == job' = [job EXCEPT !.at = Following[job.at], !.found = FALSE]

Query ==
  /\ job.at # "idle" /\ ~job.found
  /\ IF Candidate(job.at) THEN job' = [job EXCEPT !.found = TRUE] ELSE NextStep
  /\ UNCHANGED <<now, status, dates, ready, edit>>

RunStep ==
  /\ job.at # "idle" /\ job.found
  /\ IsDue(job.at, job.now) /\ Planned(job.at, job.now)
  /\ Move(Target[job.at]) /\ NextStep
  /\ UNCHANGED <<now, dates, ready, edit>>

SkipStep ==
  /\ job.at # "idle" /\ job.found
  /\ ~(IsDue(job.at, job.now) /\ Planned(job.at, job.now))
  /\ NextStep
  /\ UNCHANGED <<now, status, dates, ready, edit>>

\* The worker is evicted.
LoseRun == job' = IdleJob /\ job # IdleJob /\ UNCHANGED <<now, status, dates, ready, edit>>

Tick == now < MaxTime /\ now' = now + 1 /\ UNCHANGED <<status, dates, ready, edit, job>>

-----------------------------------------------------------------------------
\* The steps that change the status; each takes the row lock.
StatusStep ==
  \/ OpenRegistration \/ CloseRegistration \/ Start
  \/ \E staff \in BOOLEAN : Complete(staff)
  \/ Archive \/ Cancel
  \/ Unpublish \/ Suspend \/ Reinstate \/ Republish
  \/ RunStep

QuietStep ==
  \/ \E e \in Editors :
       \/ \E input \in Inputs : CheckDates(e, input)
       \/ UpdateDates(e)
  \/ ChangeReadiness
  \/ BeginRun \/ Query \/ SkipStep \/ LoseRun
  \/ Tick

-----------------------------------------------------------------------------
MunTypeOK ==
  /\ now \in 0..MaxTime
  /\ status \in MunStatus
  /\ dates \in Dates
  /\ ready \in BOOLEAN
  /\ edit \in [Editors -> [at : {"idle", "checked", "done"}, input : Inputs]]
  /\ job \in [at : {"idle", "open", "close", "start"}, now : 0..MaxTime, found : BOOLEAN]
=============================================================================
