---------------------------- MODULE ResultsProofs ----------------------------
(***************************************************************************)
(* Proofs about Results and the MunLifecycle it contains, for every set of *)
(* delegates, calls, editors and dates, and a day of any length.           *)
(***************************************************************************)
EXTENDS Results, TLAPS

-----------------------------------------------------------------------------
(* The calendar: what the job's query and the check under the lock say of  *)
(* the same row.                                                           *)

\* The start of a day, between an instant and the next day.
LEMMA DayBounds ==
  ASSUME NEW t \in Nat
  PROVE  /\ t \div PerDay \in Nat
         /\ PerDay * (t \div PerDay) \in Nat
         /\ PerDay * (t \div PerDay) <= t
         /\ t < PerDay * (t \div PerDay) + PerDay
<1>1. PerDay \in Nat /\ PerDay > 0
  BY TimeAssumption
<1> QED BY <1>1

\* A day has begun when its start is before the end of the present day.
LEMMA DayBegun ==
  ASSUME NEW t \in Nat, NEW start \in Nat
  PROVE  t >= StartOfIstDay(start) <=> start < StartOfIstDay(t) + PerDay
<1> DEFINE x == t \div PerDay
           y == start \div PerDay
<1>1. /\ x \in Nat /\ PerDay * x <= t /\ t < PerDay * x + PerDay /\ PerDay * x \in Nat
      /\ y \in Nat /\ PerDay * y <= start /\ start < PerDay * y + PerDay /\ PerDay * y \in Nat
  BY DayBounds
<1>2. PerDay \in Nat /\ PerDay > 0
  BY TimeAssumption
<1>3. StartOfIstDay(start) = PerDay * y /\ StartOfIstDay(t) = PerDay * x
  BY DEF StartOfIstDay
<1> HIDE DEF x, y
\* Whole days are ordered as their numbers are.
<1>4. ASSUME NEW a \in Nat, NEW b \in Nat, a < b
      PROVE  PerDay * a + PerDay <= PerDay * b
  <2>1. \E k \in Nat : b = a + 1 + k
    <3>1. b - a - 1 \in Nat /\ b = a + 1 + (b - a - 1)
      BY <1>4
    <3> QED BY <3>1
  <2>2. PICK k \in Nat : b = a + 1 + k
    BY <2>1
  <2>3. PerDay * b = PerDay * a + PerDay + PerDay * k /\ PerDay * k \in Nat /\ PerDay * a \in Nat
    BY <1>2, <2>2
  <2> QED BY <1>2, <2>3
<1>5. ASSUME t >= PerDay * y PROVE start < PerDay * x + PerDay
  <2>1. CASE y <= x
    <3>1. PerDay * y <= PerDay * x
      <4>1. CASE y = x
        BY <4>1, <1>1
      <4>2. CASE y < x
        BY <4>2, <1>1, <1>2, <1>4
      <4> QED BY <2>1, <1>1, <4>1, <4>2
    <3> QED BY <1>1, <1>2, <3>1
  <2>2. CASE x < y
    <3>1. PerDay * x + PerDay <= PerDay * y
      BY <1>1, <1>4, <2>2
    <3> QED BY <1>1, <1>2, <1>5, <3>1
  <2> QED BY <1>1, <2>1, <2>2
<1>6. ASSUME start < PerDay * x + PerDay PROVE t >= PerDay * y
  <2>1. CASE x < y
    <3>1. PerDay * x + PerDay <= PerDay * y
      BY <1>1, <1>4, <2>1
    <3> QED BY <1>1, <1>2, <1>6, <3>1
  <2>2. CASE y = x
    BY <1>1, <2>2
  <2>3. CASE y < x
    <3>1. PerDay * y + PerDay <= PerDay * x
      BY <1>1, <1>4, <2>3
    <3> QED BY <1>1, <1>2, <3>1
  <2> QED BY <1>1, <2>1, <2>2, <2>3
<1> QED BY <1>3, <1>5, <1>6

\* The scheduled run neither misses what is due nor locks a row for nothing:
\* for every date and every length of a day its query finds exactly the
\* conferences that the check under the lock lets through, but for those with
\* no pass on sale, which the query does not look at.
THEOREM QueryFindsDue ==
  ASSUME MunTypeOK, NEW step \in {"open", "close", "start"}
  PROVE  /\ IsDue(step, job.now) /\ Planned(step, job.now) => Candidate(step)
         /\ Candidate(step) /\ (step = "open" => ready) =>
              IsDue(step, job.now) /\ Planned(step, job.now)
<1>0. job.now \in Nat /\ PerDay \in Nat
  BY TimeAssumption DEF MunTypeOK
<1>1. IsSet(dates.start) => dates.start \in Nat
  BY TimeAssumption DEF MunTypeOK, Dates, IsSet
<1>2. StartDayReached(job.now) <=> StartsByToday
  BY <1>0, <1>1, DayBegun DEF StartDayReached, StartsByToday, EndOfIstToday
<1>3. CASE step = "open"
  BY <1>2, <1>3 DEF IsDue, Planned, Candidate, MayOpen
<1>4. CASE step = "close"
  BY <1>2, <1>4 DEF IsDue, Planned, Candidate
<1>5. CASE step = "start"
  <2>1. StartDayReached(job.now) => job.now >= StartOfIstDay(dates.start) - PerDay
    <3> SUFFICES ASSUME StartDayReached(job.now)
                 PROVE  job.now >= StartOfIstDay(dates.start) - PerDay
      OBVIOUS
    <3>1. dates.start \in Nat /\ job.now >= StartOfIstDay(dates.start)
      BY <1>1 DEF StartDayReached
    <3>2. StartOfIstDay(dates.start) \in Nat
      BY <3>1, DayBounds DEF StartOfIstDay
    <3> QED BY <1>0, <3>1, <3>2
  <2> QED BY <1>2, <1>5, <2>1 DEF IsDue, Planned, Candidate, MayStart, StartDayReached
<1> QED BY <1>3, <1>4, <1>5

-----------------------------------------------------------------------------
(* Type correctness. *)

\* A call under way is about a delegate, and attendance marks one of two ways.
CallsShaped ==
  \A c \in Calls :
    /\ call[c].at # "idle" => call[c].who \in Delegates
    /\ call[c].at \in {"onRoster", "marking"} => call[c].op \in {"ATTENDED", "NO_SHOW"}

\* Attendance and an award of one delegate exclude each other.
LocksExclude ==
  \A c, d \in Calls :
    ~(call[c].at = "marking" /\ call[d].at = "awarding" /\ call[c].who = call[d].who)

\* What a call read of the registration under its lock still holds when it
\* writes the award.
WinnersEligible == \A c \in Calls : call[c].at = "awarding" => reg[call[c].who] \in AwardEligible

\* While attendance is being taken, the conference admits it.
RosterOpen == ~MunFree => status \in CheckInOpen \cup AttendanceOpen

IInv ==
  /\ TypeOK /\ CallsShaped
  /\ LocksExclude
  /\ WinnersEligible
  /\ RosterOpen
  /\ NoAwardForNoShow

LEMMA Statuses ==
  /\ {"PUBLISHED", "REGISTRATION_OPEN", "REGISTRATION_CLOSED", "CONFERENCE_ACTIVE", "COMPLETED",
      "ARCHIVED", "CANCELLED", "UNPUBLISHED", "SUSPENDED", "VERIFICATION",
      "RESULTS_PENDING", "RESULTS_UNDER_REVIEW"} \subseteq MunStatus
BY DEF MunStatus, AllowedTransitions

EditRecords == [at : {"idle", "checked", "done"}, input : Inputs]

\* A date an edit sends is one of its field.
LEMMA InputDates ==
  ASSUME NEW input \in Inputs
  PROVE  /\ "opensAt" \in DOMAIN input => input["opensAt"] \in OpeningDates
         /\ "deadline" \in DOMAIN input => input["deadline"] \in Deadlines
         /\ "start" \in DOMAIN input => input["start"] \in StartDates
<1>1. PICK whole \in Dates : \A f \in DOMAIN input : input[f] = whole[f]
  BY DEF Inputs
<1>2. /\ whole["opensAt"] \in OpeningDates /\ whole["deadline"] \in Deadlines
      /\ whole["start"] \in StartDates
  BY DEF Dates
<1> QED BY <1>1, <1>2

LEMMA EmptyInput ==
  ASSUME dates \in Dates
  PROVE  NoInput \in Inputs
<1>1. DOMAIN NoInput = {} /\ NoInput \in [{} -> OpeningDates \cup Deadlines \cup StartDates]
  BY DEF NoInput
<1>2. {} \in SUBSET DateFields
  OBVIOUS
<1> QED BY <1>1, <1>2 DEF Inputs

\* An edit leaves dates of the kinds they were.
LEMMA EditedDates ==
  ASSUME dates \in Dates, NEW input \in Inputs
  PROVE  Edited(input) \in Dates
<1> DEFINE d == Edited(input)
<1>1. d = [opensAt |-> d["opensAt"], deadline |-> d["deadline"], start |-> d["start"]]
  BY DEF Edited, DateFields
<1>2. d["opensAt"] \in OpeningDates /\ d["deadline"] \in Deadlines /\ d["start"] \in StartDates
  BY InputDates DEF Edited, DateFields, Dates
<1> HIDE DEF d
<1>3. d \in Dates
  BY <1>1, <1>2 DEF Dates
<1> QED BY <1>3 DEF d

LEMMA InitIInv == ResultsInit => IInv
<1> SUFFICES ASSUME ResultsInit PROVE IInv
  OBVIOUS
<1>1. TypeOK
  <2>1. MunTypeOK
    <3>1. NoEdit \in EditRecords
      BY EmptyInput DEF ResultsInit, Init, NoEdit, EditRecords
    <3>2. edit \in [Editors -> EditRecords]
      BY <3>1 DEF ResultsInit, Init
    <3> QED BY <3>2, TimeAssumption, Statuses DEF ResultsInit, Init, MunTypeOK, IdleJob, EditRecords
  <2> QED BY <2>1 DEF ResultsInit, TypeOK, SeatHolding, Idle
<1>3. CallsShaped /\ LocksExclude /\ WinnersEligible
  BY DEF ResultsInit, Idle, CallsShaped, LocksExclude, WinnersEligible
<1>4. RosterOpen /\ NoAwardForNoShow
  BY DEF ResultsInit, Init, Idle, RosterOpen, MunFree, NoAwardForNoShow, Awarded, Standing
<1> QED BY <1>1, <1>3, <1>4 DEF IInv

JobRecords == [at : {"idle", "open", "close", "start"}, now : 0..MaxTime, found : BOOLEAN]

\* The scheduled run keeps its shape when it goes on to its next step.
LEMMA JobTyped ==
  ASSUME NEW at \in {"idle", "open", "close", "start"}, NEW t \in 0..MaxTime,
         NEW found \in BOOLEAN
  PROVE  [at |-> at, now |-> t, found |-> found] \in JobRecords
BY Zenon DEF JobRecords

LEMMA JobMovesOn ==
  ASSUME NEW j \in JobRecords, NEW at \in {"idle", "open", "close", "start"}
  PROVE  [j EXCEPT !.at = at, !.found = FALSE] \in JobRecords
BY Zenon DEF JobRecords

LEMMA NextStepTyped ==
  ASSUME job \in JobRecords, job.at # "idle", NextStep
  PROVE  job' \in JobRecords
<1>1. job.at \in {"open", "close", "start"}
  BY DEF JobRecords
<1>2. Following[job.at] \in {"idle", "open", "close", "start"}
  BY <1>1 DEF Following
<1> QED BY <1>2, JobMovesOn DEF NextStep

LEMMA StatusStepTypes ==
  ASSUME MunTypeOK, StatusStep
  PROVE  MunTypeOK'
<1>1. UNCHANGED <<now, dates, ready, edit>>
  BY DEF StatusStep, OpenRegistration, CloseRegistration, Start, Complete, Archive, Cancel,
         Unpublish, Suspend, Reinstate, Republish, RunStep, Same
<1>3. status' \in MunStatus
  <2>1. CASE RunStep
    <3>1. job.at \in {"open", "close", "start"} /\ status' = Target[job.at]
      BY <2>1 DEF RunStep, Move, MunTypeOK
    <3> QED BY <3>1, Statuses DEF Target
  <2>2. CASE ~RunStep
    BY <2>2, Statuses
    DEF StatusStep, OpenRegistration, CloseRegistration, Start, Complete, Archive, Cancel,
        Unpublish, Suspend, Reinstate, Republish, Move
  <2> QED BY <2>1, <2>2
<1>4. job' \in JobRecords
  <2>1. CASE RunStep
    BY <2>1, NextStepTyped DEF RunStep, MunTypeOK, JobRecords
  <2>2. CASE job' = job
    BY <2>2 DEF MunTypeOK, JobRecords
  <2> QED BY <2>1, <2>2
      DEF StatusStep, OpenRegistration, CloseRegistration, Start, Complete, Archive, Cancel,
          Unpublish, Suspend, Reinstate, Republish, Same
<1> QED BY <1>1, <1>3, <1>4 DEF MunTypeOK, JobRecords

LEMMA UpdateTypes ==
  ASSUME MunTypeOK, NEW e \in Editors, UpdateDates(e)
  PROVE  MunTypeOK'
<1>1. edit[e].input \in Inputs /\ dates \in Dates
  BY DEF MunTypeOK
<1>2. dates' \in Dates
  BY <1>1, EditedDates DEF UpdateDates
<1>3. NoInput \in Inputs
  BY <1>1, EmptyInput
<1> QED BY <1>2, <1>3 DEF UpdateDates, MunTypeOK

LEMMA CheckTypes ==
  ASSUME MunTypeOK, NEW e \in Editors, NEW input \in Inputs, CheckDates(e, input)
  PROVE  MunTypeOK'
BY DEF CheckDates, MunTypeOK

LEMMA QuietStepTypes ==
  ASSUME MunTypeOK, QuietStep
  PROVE  MunTypeOK'
<1>1. CASE \E e \in Editors : UpdateDates(e) \/ \E input \in Inputs : CheckDates(e, input)
  BY <1>1, CheckTypes, UpdateTypes
<1>2. CASE ChangeReadiness \/ Tick
  <2>1. now' \in 0..MaxTime
    BY <1>2, TimeAssumption DEF ChangeReadiness, Tick, MunTypeOK
  <2>2. ready' \in BOOLEAN
    BY <1>2, Zenon DEF ChangeReadiness, Tick, MunTypeOK
  <2> QED BY <1>2, <2>1, <2>2 DEF ChangeReadiness, Tick, MunTypeOK
<1>3. CASE BeginRun \/ Query \/ SkipStep \/ LoseRun
  <2>1. job' \in JobRecords
    <3>0. job \in JobRecords /\ now \in 0..MaxTime /\ 0 \in 0..MaxTime
      BY TimeAssumption DEF MunTypeOK, JobRecords
    <3>1. CASE BeginRun
      BY <3>0, <3>1, JobTyped DEF BeginRun
    <3>2. CASE LoseRun
      BY <3>0, <3>2, JobTyped DEF LoseRun, IdleJob
    <3>3. CASE SkipStep
      BY <3>0, <3>3, NextStepTyped DEF SkipStep
    <3>4. CASE Query
      <4>1. CASE NextStep
        BY <3>0, <3>4, <4>1, NextStepTyped DEF Query
      <4>2. CASE job' = [job EXCEPT !.found = TRUE]
        <5>1. job' = [at |-> job.at, now |-> job.now, found |-> TRUE]
          BY <3>0, <4>2, Zenon DEF JobRecords
        <5>2. job.at \in {"idle", "open", "close", "start"} /\ job.now \in 0..MaxTime
          BY <3>0 DEF JobRecords
        <5> QED BY <5>1, <5>2, JobTyped
      <4> QED BY <3>4, <4>1, <4>2 DEF Query
    <3> QED BY <1>3, <3>1, <3>2, <3>3, <3>4
  <2>2. UNCHANGED <<now, status, dates, ready, edit>>
    BY <1>3 DEF BeginRun, Query, SkipStep, LoseRun
  <2> QED BY <2>1, <2>2 DEF MunTypeOK, JobRecords
<1> QED BY <1>1, <1>2, <1>3 DEF QuietStep

\* The handlers' own step, one call at a time.
LEMMA CallTypes ==
  ASSUME TypeOK, CallsShaped, NEW c \in Calls, CallStep(c)
  PROVE  /\ reg' \in [Delegates -> SeatHolding \cup {"CANCELLED"}]
         /\ award' \in [Awards -> {"none", "unverified", "verified", "deleted"}]
         /\ call' \in [Calls -> [op : {"none", "ATTENDED", "NO_SHOW", "create", "delete"},
                                 at : {"idle", "onRoster", "marking", "editable", "awarding"},
                                 who : Delegates \cup {Nobody}, award : Awards \cup {Nobody}]]
         /\ UNCHANGED munVars
<1>1. UNCHANGED munVars
  BY DEF CallStep, LockMun, CheckCreate, CheckDelete, LockRegistration, Mark, Abandon, LockWinner,
         InsertAward, DeleteAward
<1>2. award' \in [Awards -> {"none", "unverified", "verified", "deleted"}]
  BY DEF CallStep, LockMun, CheckCreate, CheckDelete, LockRegistration, Mark, Abandon, LockWinner,
         InsertAward, DeleteAward, TypeOK
<1>3. reg' \in [Delegates -> SeatHolding \cup {"CANCELLED"}]
  <2>1. CASE Mark(c)
    BY <2>1 DEF Mark, CallsShaped, TypeOK, SeatHolding
  <2>2. CASE ~Mark(c)
    BY <2>2 DEF CallStep, LockMun, CheckCreate, CheckDelete, LockRegistration, Abandon, LockWinner,
                InsertAward, DeleteAward, TypeOK
  <2> QED BY <2>1, <2>2
<1>4. call' \in [Calls -> [op : {"none", "ATTENDED", "NO_SHOW", "create", "delete"},
                           at : {"idle", "onRoster", "marking", "editable", "awarding"},
                           who : Delegates \cup {Nobody}, award : Awards \cup {Nobody}]]
  <2>1. CASE \/ \E d \in Delegates : \E op \in {"ATTENDED", "NO_SHOW"} : LockMun(c, op, d)
             \/ \E d \in Delegates : CheckCreate(c, d)
             \/ \E a \in Awards : CheckDelete(c, a)
    BY <2>1, AwardsAssumption DEF LockMun, Enter, CheckCreate, CheckDelete, TypeOK
  <2>2. CASE LockRegistration(c) \/ LockWinner(c)
    BY <2>2 DEF LockRegistration, LockWinner, TypeOK
  <2>3. CASE Leave(c)
    BY <2>3 DEF Leave, Idle, TypeOK
  <2> QED BY <2>1, <2>2, <2>3 DEF CallStep, Mark, Abandon, InsertAward, DeleteAward
<1> QED BY <1>1, <1>2, <1>3, <1>4

\* Verifying the awards keeps their type and adds none.
LEMMA VerifiedAwards ==
  ASSUME TypeOK
  PROVE  /\ Verified \in [Awards -> {"none", "unverified", "verified", "deleted"}]
         /\ \A a \in Awards : Verified[a] # "unverified"
         /\ \A a \in Awards : Verified[a] = "verified" <=> a \in Standing
BY DEF Verified, Standing, TypeOK

\* What a step other than a handler's may do: the awards are verified or left
\* alone, nobody becomes a delegate again, and the status moves only when no
\* attendance is being taken.
Elsewhere ==
  /\ MunFree \/ status' = status
  /\ award' \in {award, Verified}
  /\ \/ reg' = reg
     \/ \E d \in Delegates : /\ ~Marking(d) /\ ~Awarding(d)
                             /\ reg' = [reg EXCEPT ![d] = "CANCELLED"]
  /\ call' = call

LEMMA ElsewhereSteps ==
  ASSUME [Next]_vars, \A c \in Calls : ~CallStep(c)
  PROVE  Elsewhere
<1>1. CASE ChangeStatus \/ ResultsStep
  BY <1>1 DEF ChangeStatus, AwardsAfterStep, ResultsStep, SubmitResultsForReview, ApproveResults,
              ReturnResults, resultVars, Elsewhere
<1>2. CASE QuietStep /\ UNCHANGED resultVars
  BY <1>2 DEF QuietStep, CheckDates, UpdateDates, ChangeReadiness, BeginRun, Query, SkipStep,
              LoseRun, Tick, resultVars, Elsewhere
<1>3. CASE \E d \in Delegates : CancelRegistrationAsAdmin(d)
  BY <1>3 DEF CancelRegistrationAsAdmin, munVars, Elsewhere
<1>4. CASE UNCHANGED vars
  BY <1>4 DEF vars, munVars, resultVars, Elsewhere
<1> QED BY <1>1, <1>2, <1>3, <1>4 DEF Next

LEMMA TypeStep == TypeOK /\ CallsShaped /\ [Next]_vars => TypeOK'
<1> SUFFICES ASSUME TypeOK, CallsShaped, [Next]_vars PROVE TypeOK'
  OBVIOUS
<1>1. MunTypeOK'
  <2>1. MunTypeOK
    BY DEF TypeOK
  <2>2. CASE UNCHANGED munVars
    BY <2>1, <2>2 DEF munVars, MunTypeOK
  <2>3. CASE StatusStep \/ QuietStep
    BY <2>1, <2>3, StatusStepTypes, QuietStepTypes
  <2>4. CASE ResultsStep
    BY <2>1, <2>4, Statuses
    DEF ResultsStep, SubmitResultsForReview, ApproveResults, ReturnResults, Move, Same,
        MunTypeOK
  <2>5. CASE \E c \in Calls : CallStep(c)
    BY <2>2, <2>5, CallTypes
  <2> QED BY <2>2, <2>3, <2>4, <2>5
      DEF Next, ChangeStatus, CancelRegistrationAsAdmin, vars
<1>2. CASE \E c \in Calls : CallStep(c)
  BY <1>1, <1>2, CallTypes DEF TypeOK
<1>3. CASE \A c \in Calls : ~CallStep(c)
  <2>1. Elsewhere
    BY <1>3, ElsewhereSteps
  <2>2. reg' \in [Delegates -> SeatHolding \cup {"CANCELLED"}]
    BY <2>1 DEF Elsewhere, TypeOK
  <2> QED BY <1>1, <2>1, <2>2, VerifiedAwards DEF Elsewhere, TypeOK
<1> QED BY <1>2, <1>3

-----------------------------------------------------------------------------
(* The handlers against each other and against the status. *)

\* What each step of a handler does to its call, by where the call goes next.
LEMMA CallMoves ==
  ASSUME TypeOK, NEW c \in Calls, CallStep(c)
  PROVE  /\ UNCHANGED munVars
         /\ \A d \in Calls \ {c} : call'[d] = call[d]
         /\ call'[c].at \in {"onRoster", "editable", "marking", "awarding", "idle"}
         /\ call'[c].at = "onRoster" =>
              /\ call'[c].who \in Delegates /\ call'[c].op \in {"ATTENDED", "NO_SHOW"}
              /\ status \in CheckInOpen \cup AttendanceOpen
         /\ call'[c].at = "editable" => call'[c].who \in Delegates
         /\ call'[c].at = "marking" =>
              /\ call[c].at = "onRoster" /\ ~Awarding(call[c].who)
              /\ call'[c].who = call[c].who /\ call'[c].op = call[c].op
         /\ call'[c].at = "awarding" =>
              /\ call[c].at = "editable" /\ ~Marking(call[c].who)
              /\ reg[call[c].who] \in AwardEligible
              /\ call'[c].who = call[c].who
         /\ call[c].at = "marking" => call'[c].at = "idle"
<1>1. UNCHANGED munVars
  BY DEF CallStep, LockMun, CheckCreate, CheckDelete, LockRegistration, Mark, Abandon, LockWinner,
         InsertAward, DeleteAward
<1>2. CASE \E d \in Delegates : \E op \in {"ATTENDED", "NO_SHOW"} : LockMun(c, op, d)
  BY <1>1, <1>2 DEF LockMun, Enter, TypeOK, Idle
<1>3. CASE (\E d \in Delegates : CheckCreate(c, d)) \/ \E a \in Awards : CheckDelete(c, a)
  BY <1>1, <1>3, AwardsAssumption DEF Enter, CheckCreate, CheckDelete, TypeOK, Idle
<1>4. CASE Leave(c)
  BY <1>1, <1>4 DEF Leave, TypeOK, Idle
<1>5. CASE LockRegistration(c)
  BY <1>1, <1>5 DEF LockRegistration, TypeOK
<1>6. CASE LockWinner(c)
  BY <1>1, <1>6 DEF LockWinner, TypeOK
<1> QED BY <1>2, <1>3, <1>4, <1>5, <1>6 DEF CallStep, Mark, Abandon, InsertAward, DeleteAward

\* What a handler writes when it is done.
LEMMA CallWrites ==
  ASSUME IInv, NEW c \in Calls, CallStep(c)
  PROVE  \/ UNCHANGED <<reg, award>>
         \/ /\ call[c].at = "marking" /\ award' = award
            /\ reg' = [reg EXCEPT ![call[c].who] = call[c].op]
            /\ call[c].who \in Delegates /\ call[c].op \in {"ATTENDED", "NO_SHOW"}
            /\ call[c].op = "NO_SHOW" => call[c].who \notin Awarded
         \/ /\ reg' = reg
            /\ \E a \in Awards : /\ award' = [award EXCEPT ![a] = "unverified"]
                                 /\ reg[Winner[a]] \in AwardEligible
         \/ /\ reg' = reg
            /\ award' = [award EXCEPT ![call[c].award] = "deleted"]
<1>1. CASE Mark(c)
  BY <1>1 DEF Mark, IInv, CallsShaped
<1>2. CASE \E a \in Awards : InsertAward(c, a)
  BY <1>2 DEF InsertAward, munVars, IInv, CallsShaped, WinnersEligible
<1>3. CASE DeleteAward(c)
  BY <1>3 DEF DeleteAward, munVars, IInv, CallsShaped
<1>4. CASE UNCHANGED <<reg, award>>
  BY <1>4
<1> QED BY <1>1, <1>2, <1>3, <1>4
    DEF CallStep, LockMun, CheckCreate, CheckDelete, LockRegistration, Abandon, LockWinner

LEMMA CallsShapedStep == IInv /\ [Next]_vars => CallsShaped'
<1> SUFFICES ASSUME IInv, [Next]_vars PROVE CallsShaped'
  OBVIOUS
<1>1. TypeOK /\ CallsShaped
  BY DEF IInv
<1>2. ASSUME NEW c \in Calls, CallStep(c) PROVE CallsShaped'
  <2>1. ASSUME NEW d \in Calls
        PROVE  /\ call'[d].at # "idle" => call'[d].who \in Delegates
               /\ call'[d].at \in {"onRoster", "marking"} =>
                    call'[d].op \in {"ATTENDED", "NO_SHOW"}
    <3>1. CASE d # c
      BY <1>1, <1>2, <3>1, CallMoves DEF CallsShaped
    <3>2. CASE d = c
      BY <1>1, <1>2, <3>2, CallMoves DEF CallsShaped
    <3> QED BY <3>1, <3>2
  <2> QED BY <2>1 DEF CallsShaped
<1>3. CASE \A c \in Calls : ~CallStep(c)
  BY <1>1, <1>3, ElsewhereSteps DEF Elsewhere, CallsShaped
<1> QED BY <1>2, <1>3

LEMMA LocksExcludeStep == IInv /\ [Next]_vars => LocksExclude'
<1> SUFFICES ASSUME IInv, [Next]_vars PROVE LocksExclude'
  OBVIOUS
<1>1. TypeOK /\ LocksExclude
  BY DEF IInv
<1>2. ASSUME NEW c \in Calls, CallStep(c) PROVE LocksExclude'
  <2>1. ASSUME NEW a \in Calls, NEW b \in Calls, call'[a].at = "marking",
               call'[b].at = "awarding", call'[a].who = call'[b].who
        PROVE  FALSE
    <3>1. CASE a # c /\ b # c
      BY <1>1, <1>2, <2>1, <3>1, CallMoves DEF LocksExclude
    <3>2. CASE a = c /\ b # c
      BY <1>1, <1>2, <2>1, <3>2, CallMoves DEF Awarding
    <3>3. CASE a # c /\ b = c
      BY <1>1, <1>2, <2>1, <3>3, CallMoves DEF Marking
    <3> QED BY <2>1, <3>1, <3>2, <3>3
  <2> QED BY <2>1 DEF LocksExclude
<1>3. CASE \A c \in Calls : ~CallStep(c)
  BY <1>1, <1>3, ElsewhereSteps DEF Elsewhere, LocksExclude
<1> QED BY <1>2, <1>3

LEMMA WinnersStep == IInv /\ [Next]_vars => WinnersEligible'
<1> SUFFICES ASSUME IInv, [Next]_vars PROVE WinnersEligible'
  OBVIOUS
<1>1. TypeOK /\ WinnersEligible /\ LocksExclude /\ CallsShaped
  BY DEF IInv
<1>2. ASSUME NEW c \in Calls, CallStep(c), NEW d \in Calls, call'[d].at = "awarding"
      PROVE  reg'[call'[d].who] \in AwardEligible
  <2>1. CASE call[c].at = "marking" /\ reg' = [reg EXCEPT ![call[c].who] = call[c].op]
    <3>1. d # c /\ call'[d] = call[d]
      BY <1>1, <1>2, <2>1, CallMoves
    <3>2. call[d].who # call[c].who
      BY <1>1, <1>2, <2>1, <3>1 DEF LocksExclude
    <3>3. call[d].who \in Delegates
      BY <1>1, <1>2, <3>1 DEF CallsShaped
    <3>4. reg'[call[d].who] = reg[call[d].who]
      BY <1>1, <2>1, <3>2, <3>3 DEF TypeOK
    <3> QED BY <1>1, <1>2, <3>1, <3>4 DEF WinnersEligible
  <2>2. CASE reg' = reg
    <3>1. CASE d = c
      BY <1>1, <1>2, <2>2, <3>1, CallMoves
    <3>2. CASE d # c
      BY <1>1, <1>2, <2>2, <3>2, CallMoves DEF WinnersEligible
    <3> QED BY <3>1, <3>2
  <2> QED BY <1>2, <2>1, <2>2, CallWrites
<1>3. ASSUME \A c \in Calls : ~CallStep(c), NEW d \in Calls, call'[d].at = "awarding"
      PROVE  reg'[call'[d].who] \in AwardEligible
  <2>1. Elsewhere
    BY <1>3, ElsewhereSteps
  <2>2. call[d].at = "awarding" /\ call'[d] = call[d] /\ call[d].who \in Delegates
    BY <1>1, <1>3, <2>1 DEF Elsewhere, CallsShaped
  <2>3. Awarding(call[d].who)
    BY <2>2 DEF Awarding
  <2>4. reg'[call[d].who] = reg[call[d].who]
    BY <1>1, <2>1, <2>2, <2>3 DEF Elsewhere, TypeOK
  <2> QED BY <1>1, <2>2, <2>4 DEF WinnersEligible
<1> QED BY <1>2, <1>3 DEF WinnersEligible

LEMMA RosterStep == IInv /\ [Next]_vars => RosterOpen'
<1> SUFFICES ASSUME IInv, [Next]_vars PROVE RosterOpen'
  OBVIOUS
<1>1. TypeOK /\ RosterOpen
  BY DEF IInv
<1>2. ASSUME NEW c \in Calls, CallStep(c) PROVE RosterOpen'
  <2>1. status' = status
    BY <1>1, <1>2, CallMoves DEF munVars
  <2>2. ~MunFree' => ~MunFree \/ status \in CheckInOpen \cup AttendanceOpen
    BY <1>1, <1>2, CallMoves DEF MunFree
  <2> QED BY <1>1, <2>1, <2>2 DEF RosterOpen
<1>3. CASE \A c \in Calls : ~CallStep(c)
  BY <1>1, <1>3, ElsewhereSteps DEF Elsewhere, RosterOpen, MunFree
<1> QED BY <1>2, <1>3

LEMMA NoShowStep == IInv /\ [Next]_vars => NoAwardForNoShow'
<1> SUFFICES ASSUME IInv, [Next]_vars, NEW a \in Awards, a \in Standing'
             PROVE  reg'[Winner[a]] # "NO_SHOW"
  BY DEF NoAwardForNoShow, Awarded, Standing
<1>1. /\ a \in Standing => Winner[a] \in Awarded /\ reg[Winner[a]] # "NO_SHOW"
      /\ Winner[a] \in Delegates
  BY AwardsAssumption DEF IInv, NoAwardForNoShow, Awarded
<1>2. TypeOK
  BY DEF IInv
<1>3. ASSUME NEW c \in Calls, CallStep(c) PROVE reg'[Winner[a]] # "NO_SHOW"
  <2>1. CASE award' = award
    BY <1>1, <1>2, <1>3, <2>1, CallWrites DEF TypeOK, Standing
  <2>2. CASE reg' = reg
    BY <1>1, <1>2, <1>3, <2>2, CallWrites DEF TypeOK, Standing, AwardEligible
  <2> QED BY <1>3, <2>1, <2>2, CallWrites
<1>4. CASE \A c \in Calls : ~CallStep(c)
  <2>1. Elsewhere
    BY <1>4, ElsewhereSteps
  <2>2. a \in Standing
    BY <1>2, <2>1, VerifiedAwards DEF Elsewhere, Standing
  <2> QED BY <1>1, <1>2, <2>1, <2>2 DEF Elsewhere, TypeOK
<1> QED BY <1>3, <1>4

\* The invariant is inductive.
THEOREM Inductive == Spec => []IInv
<1>1. IInv /\ [Next]_vars => IInv'
  BY TypeStep, CallsShapedStep, LocksExcludeStep, WinnersStep, RosterStep, NoShowStep DEF IInv
<1> QED BY InitIInv, <1>1, PTL DEF Spec

-----------------------------------------------------------------------------
(* Safety. *)

\* Every variable keeps its type: the invariant TLC checks as TypeOK.
THEOREM TypeCorrect == Spec => []TypeOK
<1>1. IInv => TypeOK
  BY DEF IInv
<1> QED BY <1>1, Inductive, PTL

\* No award names a no-show, for any number of calls that mark, award and
\* delete at once: the invariant TLC checks as NoAwardForNoShow.
THEOREM NoShowsWinNothing == Spec => []NoAwardForNoShow
<1>1. IInv => NoAwardForNoShow
  BY DEF IInv
<1> QED BY <1>1, Inductive, PTL

\* A mark lands only while the conference admits attendance: the share lock
\* on the conference holds the status from the check to the write.
THEOREM MarksLandWhileOpen == Spec => AttendanceWhileOpen
<1>1. ASSUME IInv, [Next]_vars, NEW d \in Delegates, reg'[d] # reg[d], reg'[d] # "CANCELLED"
      PROVE  status \in CheckInOpen \cup AttendanceOpen
  <2>0. TypeOK
    BY <1>1 DEF IInv
  <2>1. PICK c \in Calls : CallStep(c)
    <3> SUFFICES ASSUME \A c \in Calls : ~CallStep(c) PROVE FALSE
      OBVIOUS
    <3> QED BY <1>1, <2>0, ElsewhereSteps DEF Elsewhere, TypeOK
  <2>2. call[c].at = "marking"
    BY <1>1, <2>1, CallWrites
  <2>3. ~MunFree
    BY <2>2 DEF MunFree
  <2> QED BY <1>1, <2>3 DEF IInv, RosterOpen
<1>2. IInv /\ [Next]_vars =>
        [\A d \in Delegates : reg'[d] # reg[d] /\ reg'[d] # "CANCELLED" =>
           status \in CheckInOpen \cup AttendanceOpen]_vars
  BY <1>1
<1> QED BY <1>2, Inductive, PTL DEF Spec, AttendanceWhileOpen

\* However the review of the results ends in a completed conference, the award
\* rows are verified with it: the action property TLC checks under the name
\* ReviewVerifiesAwards.
THEOREM ReviewVerifies == Spec => ReviewVerifiesAwards
<1>1. ASSUME IInv, [Next]_vars, status = "RESULTS_UNDER_REVIEW", status' = "COMPLETED"
      PROVE  \A a \in Awards : award'[a] # "unverified"
  <2>0. TypeOK
    BY <1>1 DEF IInv
  <2>1. CASE ChangeStatus
    BY <1>1, <2>0, <2>1, VerifiedAwards DEF ChangeStatus, AwardsAfterStep
  <2>2. CASE ResultsStep
    BY <1>1, <2>0, <2>2, VerifiedAwards
    DEF ResultsStep, SubmitResultsForReview, ApproveResults, ReturnResults, Move
  <2>3. CASE status' = status
    BY <1>1, <2>3
  <2>4. CASE QuietStep
    BY <2>3, <2>4 DEF QuietStep, CheckDates, UpdateDates, ChangeReadiness, BeginRun, Query,
                      SkipStep, LoseRun, Tick
  <2>5. ASSUME NEW c \in Calls, CallStep(c) PROVE status' = status
    BY <1>1, <2>5, CallTypes DEF IInv, munVars
  <2> QED BY <1>1, <2>1, <2>2, <2>3, <2>4, <2>5
      DEF Next, CancelRegistrationAsAdmin, munVars, vars
<1>2. IInv /\ [Next]_vars =>
        [status = "RESULTS_UNDER_REVIEW" /\ status' = "COMPLETED" =>
           \A a \in Awards : award'[a] # "unverified"]_vars
  BY <1>1
<1> QED BY <1>2, Inductive, PTL DEF Spec, ReviewVerifiesAwards
=============================================================================
