----------------------------- MODULE Applications -----------------------------
(***************************************************************************)
(* Gate 1: one organizer's applications to host, lib/actions/              *)
(* organizer-application.ts and reviewMunApplication of admin-review.ts.   *)
(*                                                                         *)
(* An application is a row of its own beside the conference it asks for.   *)
(* Applying locks the organizer's users row and every change of a          *)
(* conference's status locks the conference, so each call is one action.   *)
(***************************************************************************)
EXTENDS MunStates

CONSTANT Muns   \* conferences the organizer may ask for

VARIABLES
  status,       \* muns.status, "none" before the application
  application   \* organizer_applications.status

gateOneVars == <<status, application>>

Decisions == {"APPROVED", "REJECTED", "CHANGES_REQUESTED"}

Init ==
  /\ status = [m \in Muns |-> "none"]
  /\ application = [m \in Muns |-> "none"]

Exists(m) == status[m] # "none"

\* transitionMun: the status is read again under the lock and the table asked.
Move(m, to) ==
  /\ Exists(m) /\ CanTransition(status[m], to)
  /\ status' = [status EXCEPT ![m] = to]

Waiting == {m \in Muns : application[m] = "SUBMITTED"}

SubmitOrganizerApplication(m) ==
  /\ ~Exists(m)
  /\ Waiting = {}
  /\ status' = [status EXCEPT ![m] = "SUBMITTED"]
  /\ application' = [application EXCEPT ![m] = "SUBMITTED"]

\* Mutant: only the conference goes back into the queue.
MutantResubmitOrganizerApplication(m) == Move(m, "SUBMITTED") /\ UNCHANGED application

\* After a change request.  The other applications are not looked at.
ResubmitOrganizerApplication(m) ==
  /\ Move(m, "SUBMITTED")
  /\ application' = [application EXCEPT ![m] = "SUBMITTED"]

\* Where a decision lands: approval goes on to the onboarding workspace.
Outcome(decision) == IF decision = "APPROVED" THEN "ONBOARDING" ELSE decision

\* A waiting conference is claimed and decided in one transaction.  For any
\* other only the table decides, which also lets VERIFICATION be rejected or
\* sent back.
ReviewMunApplication(m, decision) ==
  /\ Exists(m)
  /\ \/ status[m] = "SUBMITTED"
     \/ CanTransition(status[m], decision)
  /\ status' = [status EXCEPT ![m] = Outcome(decision)]
  /\ application' = [application EXCEPT ![m] = decision]

\* By its organizer or by staff, from any status the table allows.
Cancel(m) == Move(m, "CANCELLED") /\ UNCHANGED application

ApplicationStep ==
  \E m \in Muns :
    \/ SubmitOrganizerApplication(m)
    \/ ResubmitOrganizerApplication(m)
    \/ \E decision \in Decisions : ReviewMunApplication(m, decision)

Next == ApplicationStep \/ \E m \in Muns : Cancel(m)

Spec == Init /\ [][Next]_gateOneVars

-----------------------------------------------------------------------------
(* Properties. *)

\* The two statuses keep their types.
ApplicationTypeOK ==
  /\ status \in [Muns -> MunStatus \cup {"none"}]
  /\ application \in [Muns -> Decisions \cup {"none", "SUBMITTED"}]

\* organizer_applications.status and muns.status are kept in lockstep: the
\* queues of the staff read the one, the organizer's console the other.
GateOneLockstep ==
  \A m \in Muns :
    /\ status[m] \in {"SUBMITTED", "CHANGES_REQUESTED"} => application[m] = status[m]
    /\ status[m] \notin {"none", "SUBMITTED", "CHANGES_REQUESTED", "REJECTED", "CANCELLED"} =>
         application[m] = "APPROVED"

\* A new application is refused only while an earlier one still awaits review
\* (docs/autonomous-run/changes/mun-hub-f1.md).
RefusedOnlyWhileReviewed == \A m \in Waiting : status[m] = "SUBMITTED"
=============================================================================
