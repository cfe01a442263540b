------------------------------- MODULE Results -------------------------------
(***************************************************************************)
(* Attendance and awards of one conference: lib/actions/check-in.ts and    *)
(* lib/actions/results.ts, together with its MunLifecycle.                 *)
(*                                                                         *)
(* Attendance is taken under a share lock on the conference and an         *)
(* exclusive lock on the registration.  Awards are checked to be editable  *)
(* first, in a statement of their own; creating one then holds a share     *)
(* lock on the registration, deleting one holds nothing.                   *)
(***************************************************************************)
EXTENDS MunLifecycle

CONSTANTS
  Delegates,   \* registrations
  Awards,      \* rows of achievements, written or not
  Winner,      \* the registration each of them names
  Calls,       \* concurrent calls of the four handlers
  Nobody

ASSUME AwardsAssumption == Winner \in [Awards -> Delegates] /\ Nobody \notin Delegates \cup Awards

VARIABLES
  reg,      \* registrations.status
  award,    \* achievements: none yet, unverified, verified or deleted
  call

resultVars == <<reg, award, call>>
vars == <<munVars, resultVars>>

SeatHolding   == {"CONFIRMED", "ATTENDED", "NO_SHOW"}
AwardEligible == {"CONFIRMED", "ATTENDED"}

CheckInOpen    == {"REGISTRATION_OPEN", "REGISTRATION_CLOSED", "CONFERENCE_ACTIVE"}
AttendanceOpen == {"CONFERENCE_ACTIVE", "RESULTS_PENDING"}
ResultsLocked  == {"RESULTS_UNDER_REVIEW", "COMPLETED", "ARCHIVED", "CANCELLED"}

Idle == [op |-> "none", at |-> "idle", who |-> Nobody, award |-> Nobody]

ResultsInit ==
  /\ Init
  /\ reg = [d \in Delegates |-> "CONFIRMED"]
  /\ award = [a \in Awards |-> "none"]
  /\ call = [c \in Calls |-> Idle]

Standing == {a \in Awards : award[a] \in {"unverified", "verified"}}
Awarded == {Winner[a] : a \in Standing}

Enter(c, op, at, d, a) ==
  call' = [call EXCEPT ![c] = [op |-> op, at |-> at, who |-> d, award |-> a]]

Leave(c) == call' = [call EXCEPT ![c] = Idle]

-----------------------------------------------------------------------------
(* Row locks. *)

\* Mutant: attendance reads the conference without a lock.
MutantMunFree == TRUE

\* A change of status waits for the attendance transactions.
MunFree == \A c \in Calls : call[c].at \notin {"onRoster", "marking"}

Marking(d) == \E c \in Calls : call[c].at = "marking" /\ call[c].who = d

\* Mutant: the award is written without a lock on the registration.
MutantAwarding(d) == FALSE

Awarding(d) == \E c \in Calls : call[c].at = "awarding" /\ call[c].who = d

-----------------------------------------------------------------------------
(* checkInDelegate and setDelegateAttendance. *)

\* The 24 hours before the conference.
CheckInWindow == IsSet(dates.start) => now >= dates.start - PerDay

LockMun(c, op, d) ==
  /\ call[c] = Idle
  /\ \/ op = "ATTENDED" /\ status \in CheckInOpen /\ CheckInWindow
     \/ status \in AttendanceOpen
  /\ Enter(c, op, "onRoster", d, Nobody)
  /\ UNCHANGED <<munVars, reg, award>>

LockRegistration(c) ==
  LET d == call[c].who
  IN  /\ call[c].at = "onRoster"
      /\ ~Marking(d) /\ ~Awarding(d)
      /\ reg[d] \in SeatHolding
      /\ call' = [call EXCEPT ![c].at = "marking"]
      /\ UNCHANGED <<munVars, reg, award>>

\* A delegate with an award is not marked a no-show.
Mark(c) ==
  LET d == call[c].who
  IN  /\ call[c].at = "marking"
      /\ call[c].op = "NO_SHOW" => d \notin Awarded
      /\ reg' = [reg EXCEPT ![d] = call[c].op]
      /\ Leave(c)
      /\ UNCHANGED <<munVars, award>>

\* Refused, or rolled back: nothing was written.
Abandon(c) == call[c] # Idle /\ Leave(c) /\ UNCHANGED <<munVars, reg, award>>

-----------------------------------------------------------------------------
(* createAchievement and deleteAchievement. *)

\* assertAwardsEditable, in no transaction.
CheckCreate(c, d) ==
  /\ call[c] = Idle /\ status \notin ResultsLocked
  /\ Enter(c, "create", "editable", d, Nobody)
  /\ UNCHANGED <<munVars, reg, award>>

CheckDelete(c, a) ==
  /\ call[c] = Idle /\ status \notin ResultsLocked
  /\ a \in Standing
  /\ Enter(c, "delete", "editable", Winner[a], a)
  /\ UNCHANGED <<munVars, reg, award>>

\* A delegate may win several awards.
LockWinner(c) ==
  LET d == call[c].who
  IN  /\ call[c].op = "create" /\ call[c].at = "editable"
      /\ ~Marking(d)
      /\ reg[d] \in AwardEligible
      /\ call' = [call EXCEPT ![c].at = "awarding"]
      /\ UNCHANGED <<munVars, reg, award>>

InsertAward(c, a) ==
  /\ call[c].at = "awarding"
  /\ award[a] = "none" /\ Winner[a] = call[c].who
  /\ award' = [award EXCEPT ![a] = "unverified"]
  /\ Leave(c)
  /\ UNCHANGED <<munVars, reg>>

\* No effect on an award that somebody else has deleted.
DeleteAward(c) ==
  /\ call[c].op = "delete" /\ call[c].at = "editable"
  /\ award' = [award EXCEPT ![call[c].award] = "deleted"]
  /\ Leave(c)
  /\ UNCHANGED <<munVars, reg>>

CancelRegistrationAsAdmin(d) ==
  /\ reg[d] \in SeatHolding /\ ~Marking(d) /\ ~Awarding(d)
  /\ reg' = [reg EXCEPT ![d] = "CANCELLED"]
  /\ UNCHANGED <<munVars, award, call>>

-----------------------------------------------------------------------------
(* Submission and review of the results, and every other change of status. *)

\* Two hops in one transaction while the conference is still active.
SubmitResultsForReview ==
  /\ status \in {"CONFERENCE_ACTIVE", "RESULTS_PENDING"} /\ MunFree
  /\ Standing # {}
  /\ status' = "RESULTS_UNDER_REVIEW"
  /\ Same /\ UNCHANGED resultVars

Verified == [a \in Awards |-> IF a \in Standing THEN "verified" ELSE award[a]]

ApproveResults ==
  /\ status = "RESULTS_UNDER_REVIEW" /\ MunFree
  /\ Move("COMPLETED") /\ award' = Verified
  /\ Same /\ UNCHANGED <<reg, call>>

ReturnResults ==
  /\ status = "RESULTS_UNDER_REVIEW" /\ MunFree
  /\ Move("RESULTS_PENDING")
  /\ Same /\ UNCHANGED resultVars

\* Mutant: only the review of the results verifies the awards.
MutantAwardsAfterStep == award

\* Completing a conference under review decides its results too.
AwardsAfterStep == IF status = "RESULTS_UNDER_REVIEW" THEN Verified ELSE award

ChangeStatus ==
  /\ MunFree /\ StatusStep
  /\ award' = AwardsAfterStep
  /\ UNCHANGED <<reg, call>>

-----------------------------------------------------------------------------
CallStep(c) ==
  \/ \E d \in Delegates :
       \/ \E op \in {"ATTENDED", "NO_SHOW"} : LockMun(c, op, d)
       \/ CheckCreate(c, d)
  \/ \E a \in Awards : CheckDelete(c, a) \/ InsertAward(c, a)
  \/ LockRegistration(c) \/ Mark(c) \/ Abandon(c)
  \/ LockWinner(c) \/ DeleteAward(c)

ResultsStep == SubmitResultsForReview \/ ApproveResults \/ ReturnResults

Next ==
  \/ ChangeStatus \/ ResultsStep
  \/ QuietStep /\ UNCHANGED resultVars
  \/ \E c \in Calls : CallStep(c)
  \/ \E d \in Delegates : CancelRegistrationAsAdmin(d)

Spec == ResultsInit /\ [][Next]_vars

\* What the run does next: its query, or its transaction.
JobStep == Query \/ SkipStep \/ (MunFree /\ RunStep)

\* The cron keeps firing, and no step of a run is lost every time.
Fairness ==
  /\ WF_vars(BeginRun /\ UNCHANGED resultVars)
  /\ \A step \in {"open", "close", "start"}, found \in BOOLEAN :
       SF_vars(job.at = step /\ job.found = found /\ JobStep /\ UNCHANGED resultVars)

FairSpec == Spec /\ Fairness

-----------------------------------------------------------------------------
(* Properties. *)

\* The statuses, dates and rows keep their types.
TypeOK ==
  /\ MunTypeOK
  /\ reg \in [Delegates -> SeatHolding \cup {"CANCELLED"}]
  /\ award \in [Awards -> {"none", "unverified", "verified", "deleted"}]
  /\ call \in [Calls -> [op : {"none", "ATTENDED", "NO_SHOW", "create", "delete"},
                         at : {"idle", "onRoster", "marking", "editable", "awarding"},
                         who : Delegates \cup {Nobody}, award : Awards \cup {Nobody}]]

\* No award names a delegate marked as a no-show, whichever of the two calls
\* came first.
NoAwardForNoShow == \A d \in Awarded : reg[d] # "NO_SHOW"

\* Attendance is taken only while the conference admits it: no mark lands
\* after the results were submitted, the conference completed or suspended.
AttendanceWhileOpen ==
  [][\A d \in Delegates :
       reg'[d] # reg[d] /\ reg'[d] # "CANCELLED" => status \in CheckInOpen \cup AttendanceOpen]_vars

\* However a conference under review is completed, all its awards are verified.
ReviewVerifiesAwards ==
  [][status = "RESULTS_UNDER_REVIEW" /\ status' = "COMPLETED" =>
       \A a \in Awards : award'[a] # "unverified"]_vars

\* Registration that is due opens, overdue registration closes and the
\* conference starts on its day, with organizers editing the dates and runs
\* that see an old instant or die half way (or somebody changes what was due).
DueTransitionsHappen ==
  \A step \in {"open", "close", "start"} :
    (IsDue(step, now) /\ Planned(step, now)) ~> ~(IsDue(step, now) /\ Planned(step, now))

\* Awards are frozen from submission onward (results.ts).
AwardsFrozen ==
  [][{status, status'} \subseteq {"RESULTS_UNDER_REVIEW", "COMPLETED", "ARCHIVED"} =>
       Standing' = Standing]_vars
=============================================================================
