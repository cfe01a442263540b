-------------------------------- MODULE GoLive --------------------------------
(***************************************************************************)
(* Gates 2 and 3 of one conference: lib/lifecycle/go-live.ts, organizer-   *)
(* confirmation.ts, module-verification.ts and module-completion.ts.       *)
(*                                                                         *)
(* Most calls are one transaction that locks what it read.  Four are not,  *)
(* and are split where they let others in: the progress engine reads the   *)
(* status before it locks the conference, the final confirmation and the   *)
(* verdict on a module move the conference in a transaction of their own,  *)
(* and publishing without a round looks for the round in no transaction.   *)
(*                                                                         *)
(* What the organizer filled in is abstracted to the outcome of its        *)
(* validation, either way at each validation.                              *)
(***************************************************************************)
EXTENDS Applications, Integers, Sequences

CONSTANTS
  Focus,            \* the conference followed beyond gate 1
  Modules,          \* sections of its setup
  FinalReview,      \* the one that always stays required
  Calls,            \* concurrent calls of the split handlers
  MaxRounds         \* bound: review rounds opened

ASSUME FocusAssumption == Focus \in Muns /\ FinalReview \in Modules

VARIABLES
  rounds,     \* mun_submissions.status, by version number
  module,     \* mun_module_verifications.state
  required,   \* mun_module_verifications.isRequired, as a set
  call,
  lost        \* some worker died after a verdict, before its check

pipelineVars == <<rounds, module, required, call, lost>>
vars == <<gateOneVars, pipelineVars>>

Terminal    == {"PUBLISHED", "REJECTED", "WITHDRAWN"}
Submittable == {"ONBOARDING", "ACTION_REQUIRED", "READY_FOR_SUBMISSION", "CONTENT_SUBMITTED"}
Onboarding  == {"ONBOARDING", "ACTION_REQUIRED", "READY_FOR_SUBMISSION"}
Requeueable == {"UNPUBLISHED", "VERIFIED"}

Idle == [op |-> "none", at |-> "idle", seen |-> "none"]

PipelineInit ==
  /\ Init
  /\ rounds = <<>>
  /\ module = [m \in Modules |-> "NOT_SUBMITTED"]
  /\ required = Modules
  /\ call = [c \in Calls |-> Idle]
  /\ lost = FALSE

At(c, op, at) == call[c].op = op /\ call[c].at = at
Begin(c, op, at, seen) == call' = [call EXCEPT ![c] = [op |-> op, at |-> at, seen |-> seen]]
GoTo(c, at) == call' = [call EXCEPT ![c].at = at]
Leave(c) == call' = [call EXCEPT ![c] = Idle]

Active == {i \in DOMAIN rounds : rounds[i] \notin Terminal}
EverPublished == \E i \in DOMAIN rounds : rounds[i] = "PUBLISHED"
AllVerified == \A m \in required : module[m] = "VERIFIED"

Close(to) == [i \in DOMAIN rounds |-> IF i \in Active THEN to ELSE rounds[i]]

\* mun_submissions_active_per_mun_uq refuses a second active row.
OpenRound(before, as) ==
  /\ \A i \in DOMAIN before : before[i] \in Terminal
  /\ Len(before) < MaxRounds
  /\ rounds' = Append(before, as)

\* Mutant: the progress engine locks no module row before it reads the status.
MutantRowsFree == TRUE

\* Whoever recomputes the progress of all modules writes every row, and waits
\* for an engine that wrote its row first.  (An engine that then waits for the
\* conference is a deadlock: one of the two is rolled back.)
RowsFree == \A c \in Calls : call[c].op # "progress"

-----------------------------------------------------------------------------
(* The progress engine, at the end of every edit. *)

\* Writes the row of the edited module, then reads the status.
ReadProgress(c) ==
  /\ call[c] = Idle /\ Exists(Focus)
  /\ Begin(c, "progress", "read", status[Focus])
  /\ UNCHANGED <<gateOneVars, rounds, module, required, lost>>

\* Complete and without an open blocker, or not.
MaterializeProgress(c) ==
  /\ At(c, "progress", "read")
  /\ \A d \in Calls \ {c} : call[d].op # "progress"
  /\ \E target \in {"ACTION_REQUIRED", "READY_FOR_SUBMISSION"} :
       IF call[c].seen \in Onboarding \ {target}
         THEN Move(Focus, target)
         ELSE UNCHANGED status
  /\ Leave(c)
  /\ UNCHANGED <<application, rounds, module, required, lost>>

-----------------------------------------------------------------------------
(* Submitting and withdrawing. *)

\* A round that was sent back is closed, also when the validation then fails.
Reopened == [i \in DOMAIN rounds |->
               IF rounds[i] = "CHANGES_REQUESTED" THEN "WITHDRAWN" ELSE rounds[i]]

NoneActive == \A i \in DOMAIN Reopened : Reopened[i] \in Terminal

\* Several hops in one transaction.
SubmitMunForReview ==
  /\ status[Focus] \in Submittable /\ NoneActive
  /\ \/ /\ RowsFree
        /\ status' = [status EXCEPT ![Focus] = "ORGANIZER_CONFIRMATION"]
        /\ OpenRound(Reopened, "SUBMITTED")
     \/ /\ status' = [status EXCEPT ![Focus] = "ACTION_REQUIRED"]
        /\ rounds' = Reopened
  /\ UNCHANGED <<application, module, required, call, lost>>

WithdrawSubmission ==
  /\ status[Focus] = "ORGANIZER_CONFIRMATION" /\ RowsFree
  /\ Move(Focus, "READY_FOR_SUBMISSION")
  /\ rounds' = Close("WITHDRAWN")
  /\ UNCHANGED <<application, module, required, call, lost>>

-----------------------------------------------------------------------------
(* submitFinalConfirmation: checks, attestation, advance. *)

Confirmable == {"CONTENT_SUBMITTED", "ORGANIZER_CONFIRMATION"}

CheckConfirmation(c) ==
  /\ call[c] = Idle /\ status[Focus] \in Confirmable
  /\ Begin(c, "confirm", "checked", status[Focus])
  /\ UNCHANGED <<gateOneVars, rounds, module, required, lost>>

\* The attestation covers every module not sent for review yet.
Attest(c) ==
  /\ At(c, "confirm", "checked")
  /\ module' = [m \in Modules |->
       IF module[m] \in {"NOT_SUBMITTED", "CHANGES_REQUESTED"} THEN "PENDING_REVIEW" ELSE module[m]]
  /\ GoTo(c, "attested")
  /\ UNCHANGED <<gateOneVars, rounds, required, lost>>

\* By way of ORGANIZER_CONFIRMATION, in a transaction of its own, unless the
\* check found the conference there.  (It always does: nothing commits
\* CONTENT_SUBMITTED, which is the theorem NothingStopsHalfway.)
AdvanceToVerification(c) ==
  /\ At(c, "confirm", "attested")
  /\ IF call[c].seen = "ORGANIZER_CONFIRMATION"
       THEN Move(Focus, "VERIFICATION") /\ Leave(c)
       ELSE /\ Move(Focus, "ORGANIZER_CONFIRMATION")
            /\ call' = [call EXCEPT ![c].seen = "ORGANIZER_CONFIRMATION"]
  /\ UNCHANGED <<application, rounds, module, required, lost>>

-----------------------------------------------------------------------------
(* Modules: confirming, reviewing, and the advance after the last verdict. *)

ConfirmModule(m) ==
  /\ Exists(Focus) /\ module[m] \in {"NOT_SUBMITTED", "CHANGES_REQUESTED"}
  /\ module' = [module EXCEPT ![m] = "PENDING_REVIEW"]
  /\ UNCHANGED <<gateOneVars, rounds, required, call, lost>>

\* Mutant: the final review can be made optional.
MutantSetModuleRequirement(m) ==
  /\ Exists(Focus)
  /\ required' = IF m \in required THEN required \ {m} ELSE required \cup {m}
  /\ UNCHANGED <<gateOneVars, rounds, module, call, lost>>

SetModuleRequirement(m) ==
  /\ Exists(Focus)
  /\ \/ m \in required /\ m # FinalReview /\ required' = required \ {m}
     \/ m \notin required /\ required' = required \cup {m}
  /\ UNCHANGED <<gateOneVars, rounds, module, call, lost>>

ReviewModule(c, m, decision) ==
  /\ call[c] = Idle /\ module[m] = "PENDING_REVIEW"
  /\ module' = [module EXCEPT ![m] = decision]
  /\ IF decision = "VERIFIED"
       THEN Begin(c, "verdict", "committed", "none")
       ELSE UNCHANGED call
  /\ UNCHANGED <<gateOneVars, rounds, required, lost>>

\* Mutant: a module made optional still has to be verified.
MutantReadRows(c) ==
  /\ At(c, "verdict", "committed")
  /\ IF \A m \in Modules : module[m] = "VERIFIED" THEN GoTo(c, "verified") ELSE Leave(c)
  /\ UNCHANGED <<gateOneVars, rounds, module, required, lost>>

\* checkAllModulesVerified: two reads and a transaction, none under a lock of
\* the one before.
ReadRows(c) ==
  /\ At(c, "verdict", "committed")
  /\ IF AllVerified THEN GoTo(c, "verified") ELSE Leave(c)
  /\ UNCHANGED <<gateOneVars, rounds, module, required, lost>>

ReadStatus(c) ==
  /\ At(c, "verdict", "verified")
  /\ IF status[Focus] = "VERIFICATION" THEN GoTo(c, "advance") ELSE Leave(c)
  /\ UNCHANGED <<gateOneVars, rounds, module, required, lost>>

AdvanceToVerified(c) ==
  /\ At(c, "verdict", "advance")
  /\ Move(Focus, "VERIFIED")
  /\ Leave(c)
  /\ UNCHANGED <<application, rounds, module, required, lost>>

CheckVerdict(c) == ReadRows(c) \/ ReadStatus(c) \/ AdvanceToVerified(c)

\* A call ends half way: an error it reports, or its worker died.
Abandon(c) ==
  /\ call[c] # Idle /\ Leave(c)
  /\ lost' = (lost \/ call[c].op = "verdict")
  /\ UNCHANGED <<gateOneVars, rounds, module, required>>

-----------------------------------------------------------------------------
(* The staff's decision, the queue and the publication. *)

ApproveSubmission ==
  /\ Active # {} /\ RowsFree
  /\ Move(Focus, "VERIFIED")
  /\ module' = [m \in Modules |-> IF module[m] = "REJECTED" THEN "REJECTED" ELSE "VERIFIED"]
  /\ rounds' = Close("APPROVED")
  /\ UNCHANGED <<application, required, call, lost>>

ReturnSubmission ==
  /\ Active # {}
  /\ \/ Move(Focus, "ACTION_REQUIRED") /\ rounds' = Close("CHANGES_REQUESTED")
     \/ Move(Focus, "REJECTED") /\ rounds' = Close("REJECTED")
  /\ UNCHANGED <<application, module, required, call, lost>>

\* A conference that was live before needs no new review, only a round.
OpenRepublishSubmission ==
  /\ EverPublished /\ status[Focus] \in Requeueable
  /\ \A m \in required : module[m] \notin {"PENDING_REVIEW", "CHANGES_REQUESTED", "REJECTED"}
  /\ OpenRound(rounds, "APPROVED")

EnqueueForGoLive ==
  /\ \/ Active # {} /\ UNCHANGED rounds
     \/ Active = {} /\ OpenRepublishSubmission
  /\ Move(Focus, "GO_LIVE_QUEUE")
  /\ UNCHANGED <<application, module, required, call, lost>>

\* Through PUBLISHING, in one transaction.  A published round is a replay, and
\* a failed validation rolls back: no step.
PublishFromQueue ==
  /\ rounds # <<>> /\ rounds[Len(rounds)] # "PUBLISHED"
  /\ Exists(Focus) /\ CanTransition(status[Focus], "PUBLISHING")
  /\ status' = [status EXCEPT ![Focus] = "PUBLISHED"]
  /\ rounds' = [rounds EXCEPT ![Len(rounds)] = "PUBLISHED"]
  /\ UNCHANGED <<application, module, required, call, lost>>

\* publishMun, when it finds no active round.
FindNoRound(c) ==
  /\ call[c] = Idle /\ Exists(Focus) /\ Active = {}
  /\ Begin(c, "publish", "direct", "none")
  /\ UNCHANGED <<gateOneVars, rounds, module, required, lost>>

PublishDirectly(c) ==
  /\ At(c, "publish", "direct")
  /\ Move(Focus, "PUBLISHED")
  /\ Leave(c)
  /\ UNCHANGED <<application, rounds, module, required, lost>>

TakeDown ==
  /\ Move(Focus, "UNPUBLISHED") \/ Move(Focus, "SUSPENDED")
  /\ UNCHANGED <<application, pipelineVars>>

\* A suspended conference is reviewed again, in a round of its own.
ReinstateMun ==
  /\ status[Focus] = "SUSPENDED" /\ Move(Focus, "VERIFICATION")
  /\ IF Active # {} THEN UNCHANGED rounds ELSE OpenRound(rounds, "SUBMITTED")
  /\ UNCHANGED <<application, module, required, call, lost>>

\* Mutant: cancelling leaves the round in the staff's queue.
MutantCancelConference(m) == Cancel(m) /\ UNCHANGED pipelineVars

CancelConference(m) ==
  /\ Cancel(m)
  /\ IF m = Focus THEN rounds' = Close("WITHDRAWN") ELSE UNCHANGED rounds
  /\ UNCHANGED <<module, required, call, lost>>

-----------------------------------------------------------------------------
CallStep(c) ==
  \/ ReadProgress(c) \/ MaterializeProgress(c)
  \/ CheckConfirmation(c) \/ Attest(c) \/ AdvanceToVerification(c)
  \/ \E m \in Modules, d \in {"VERIFIED", "CHANGES_REQUESTED", "REJECTED"} : ReviewModule(c, m, d)
  \/ CheckVerdict(c)
  \/ FindNoRound(c) \/ PublishDirectly(c)
  \/ Abandon(c)

RoundStep ==
  \/ SubmitMunForReview \/ WithdrawSubmission
  \/ ApproveSubmission \/ ReturnSubmission
  \/ EnqueueForGoLive \/ PublishFromQueue
  \/ TakeDown \/ ReinstateMun

PipelineNext ==
  \/ ApplicationStep /\ UNCHANGED pipelineVars
  \/ RoundStep
  \/ \E c \in Calls : CallStep(c)
  \/ \E m \in Modules : ConfirmModule(m) \/ SetModuleRequirement(m)
  \/ \E m \in Muns : CancelConference(m)

PipelineSpec == PipelineInit /\ [][PipelineNext]_vars

\* A reviewer's request runs to its end, unless its worker dies (lost).
FairPipelineSpec == PipelineSpec /\ \A c \in Calls : WF_vars(CheckVerdict(c))

-----------------------------------------------------------------------------
(* Properties. *)

\* The rows keep their types.
TypeOK ==
  /\ ApplicationTypeOK
  /\ rounds \in Seq(Terminal \cup {"SUBMITTED", "APPROVED", "CHANGES_REQUESTED"})
  /\ module \in
       [Modules -> {"NOT_SUBMITTED", "PENDING_REVIEW", "VERIFIED", "CHANGES_REQUESTED", "REJECTED"}]
  /\ FinalReview \in required /\ required \subseteq Modules
  /\ call \in [Calls -> [op : {"none", "progress", "confirm", "verdict", "publish"},
                         at : {"idle", "read", "checked", "attested", "committed", "verified",
                               "advance", "direct"},
                         seen : MunStatus \cup {"none"}]]
  /\ lost \in BOOLEAN

\* Statuses a conference only reaches through the final confirmation.
Confirmed ==
  {"VERIFICATION", "VERIFIED", "GO_LIVE_QUEUE", "PUBLISHING", "PUBLISHED", "UNPUBLISHED",
   "REGISTRATION_OPEN", "REGISTRATION_CLOSED", "CONFERENCE_ACTIVE", "SUSPENDED"}

\* A confirmed conference has a round under review, or was published in one.
RoundBehind == status[Focus] \in Confirmed => Active # {} \/ EverPublished

\* The round follows its conference: what waits for the organizer or in the
\* queue has an open round, the latest one (the one publishing takes); nothing
\* past the confirmation, sold or suspended goes without a round, so that it
\* can be queued again; nothing of a cancelled one is left in the staff's queue.
RoundFollowsConference ==
  /\ \A i \in Active : i = Len(rounds)
  /\ status[Focus] \in {"ORGANIZER_CONFIRMATION", "GO_LIVE_QUEUE"} => Active # {}
  /\ RoundBehind
  /\ status[Focus] = "CANCELLED" => Active = {}

\* The progress engine never takes a conference out of review, publication or
\* the archive, however old the status it read.
ProgressStaysOut ==
  [][\A c \in Calls :
       call[c].op = "progress" /\ call'[c] = Idle /\ status' # status =>
         status[Focus] \in Onboarding]_vars

\* The last verdict moves the conference on, also when the last two verdicts
\* are given at once (unless a worker died, or a module became required).
LastVerdictAdvances ==
  ((\E c \in Calls : call[c].op = "verdict" /\ call[c].at = "committed")
     /\ AllVerified /\ status[Focus] = "VERIFICATION")
  ~> (status[Focus] # "VERIFICATION" \/ ~AllVerified \/ lost)
=============================================================================
