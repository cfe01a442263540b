----------------------------- MODULE GoLiveProofs -----------------------------
(***************************************************************************)
(* Proofs about GoLive and Applications, for every set of conferences,     *)
(* modules and concurrent calls and any number of review rounds.           *)
(***************************************************************************)
EXTENDS GoLive, TLAPS

-----------------------------------------------------------------------------
(* The inductive invariant. *)

\* While an engine holds its row, the conference stays where the engine saw
\* it, or is cancelled.
EnginesAgree ==
  \A c \in Calls :
    call[c].op = "progress" /\ call[c].seen \in Onboarding =>
      status[Focus] \in Onboarding \cup {"CANCELLED"}

\* The statuses a submission only passes through.
Halfway == {"CONTENT_SUBMITTED", "AUTOMATED_VALIDATION"}

\* No transaction leaves a conference there.
NoneHalfway == \A m \in Muns : status[m] \notin Halfway

IInv ==
  /\ TypeOK
  /\ GateOneLockstep
  /\ RoundFollowsConference
  /\ EnginesAgree
  /\ NoneHalfway

RoundStatus == Terminal \cup {"SUBMITTED", "APPROVED", "CHANGES_REQUESTED"}

-----------------------------------------------------------------------------
(* What the proofs use of the transition table, column by column. *)

LEMMA Table ==
  ASSUME NEW s \in MunStatus
  PROVE  /\ CanTransition(s, "SUBMITTED") => s \in {"DRAFT", "CHANGES_REQUESTED"}
         /\ CanTransition(s, "REJECTED") => s \in {"UNDER_REVIEW", "VERIFICATION"}
         /\ CanTransition(s, "CHANGES_REQUESTED") => s \in {"UNDER_REVIEW", "VERIFICATION"}
         /\ CanTransition(s, "APPROVED") => s = "UNDER_REVIEW"
         /\ CanTransition(s, "ACTION_REQUIRED") =>
              s \in {"ONBOARDING", "READY_FOR_SUBMISSION", "CONTENT_SUBMITTED",
                     "AUTOMATED_VALIDATION", "VERIFICATION"}
         /\ CanTransition(s, "READY_FOR_SUBMISSION") =>
              s \in {"ONBOARDING", "ACTION_REQUIRED", "ORGANIZER_CONFIRMATION"}
         /\ CanTransition(s, "ORGANIZER_CONFIRMATION") => s \in Halfway
         /\ CanTransition(s, "VERIFICATION") => s \in Confirmed \cup {"ORGANIZER_CONFIRMATION"}
         /\ CanTransition(s, "VERIFIED") => s \in {"VERIFICATION", "PUBLISHED"}
         /\ CanTransition(s, "GO_LIVE_QUEUE") => s \in {"VERIFIED", "PUBLISHING", "UNPUBLISHED"}
         /\ CanTransition(s, "PUBLISHING") => s = "GO_LIVE_QUEUE"
         /\ CanTransition(s, "PUBLISHED") => s \in {"VERIFIED", "PUBLISHING"}
         /\ CanTransition(s, "UNPUBLISHED") => s = "PUBLISHED"
         /\ CanTransition(s, "SUSPENDED") => s \in Confirmed
BY SMTT(60) DEF MunStatus, CanTransition, AllowedTransitions, Confirmed, Halfway

LEMMA Names ==
  {"SUBMITTED", "REJECTED", "CHANGES_REQUESTED", "APPROVED", "ONBOARDING", "ACTION_REQUIRED",
   "READY_FOR_SUBMISSION", "ORGANIZER_CONFIRMATION", "VERIFICATION", "VERIFIED", "GO_LIVE_QUEUE",
   "PUBLISHED", "UNPUBLISHED", "SUSPENDED", "CANCELLED"} \subseteq MunStatus \ {"none"}
BY DEF MunStatus, AllowedTransitions

\* Where Move leaves a conference, and where it took it from.
LEMMA Moving ==
  ASSUME ApplicationTypeOK, NEW m \in Muns, NEW to \in MunStatus, Move(m, to)
  PROVE  /\ status[m] \in MunStatus /\ status[m] # "none" /\ CanTransition(status[m], to)
         /\ status'[m] = to
         /\ \A n \in Muns \ {m} : status'[n] = status[n]
         /\ status' \in [Muns -> MunStatus \cup {"none"}]
BY Names DEF ApplicationTypeOK, Move, Exists

-----------------------------------------------------------------------------
(* What becomes of the rounds. *)

LEMMA Closing ==
  ASSUME TypeOK, NEW to \in RoundStatus, rounds' = Close(to)
  PROVE  /\ rounds' \in Seq(RoundStatus)
         /\ Active' = IF to \in Terminal THEN {} ELSE Active
         /\ EverPublished => EverPublished'
         /\ Len(rounds') = Len(rounds)
<1>1. rounds \in Seq(RoundStatus)
  BY DEF TypeOK, RoundStatus
<1>2. Len(rounds') = Len(rounds) /\ DOMAIN rounds' = DOMAIN rounds /\ rounds' \in Seq(RoundStatus)
  BY <1>1 DEF Close
<1>3. \A i \in DOMAIN rounds : rounds'[i] = IF i \in Active THEN to ELSE rounds[i]
  BY DEF Close
<1> QED BY <1>2, <1>3 DEF Active, EverPublished, Terminal

LEMMA Opening ==
  ASSUME NEW before \in Seq(RoundStatus), NEW start \in {"SUBMITTED", "APPROVED"},
         OpenRound(before, start)
  PROVE  /\ rounds' \in Seq(RoundStatus)
         /\ Active' = {Len(rounds')}
<1>1. /\ rounds' \in Seq(RoundStatus) /\ Len(rounds') = Len(before) + 1
      /\ DOMAIN rounds' = 1..(Len(before) + 1)
      /\ rounds'[Len(before) + 1] = start
      /\ \A i \in 1..Len(before) : rounds'[i] = before[i] /\ before[i] \in Terminal
  BY DEF OpenRound, RoundStatus
<1>2. start \notin Terminal /\ Len(before) \in Nat
  BY DEF Terminal
<1> QED BY <1>1, <1>2 DEF Active

LEMMA Reopening ==
  ASSUME TypeOK
  PROVE  /\ Reopened \in Seq(RoundStatus)
         /\ NoneActive /\ rounds' = Reopened => Active' = {}
<1>1. rounds \in Seq(RoundStatus)
  BY DEF TypeOK, RoundStatus
<1>2. Reopened \in Seq(RoundStatus)
  BY <1>1 DEF Reopened, RoundStatus, Terminal
<1> QED BY <1>2 DEF Active, NoneActive

LEMMA Publishing ==
  ASSUME TypeOK, RoundFollowsConference, rounds # <<>>,
         rounds' = [rounds EXCEPT ![Len(rounds)] = "PUBLISHED"]
  PROVE  rounds' \in Seq(RoundStatus) /\ Active' = {} /\ EverPublished'
<1>1. rounds \in Seq(RoundStatus) /\ "PUBLISHED" \in RoundStatus
  BY DEF TypeOK, RoundStatus, Terminal
<1>2. Len(rounds) \in DOMAIN rounds
  BY <1>1
<1>3. /\ rounds' \in Seq(RoundStatus) /\ DOMAIN rounds' = DOMAIN rounds
      /\ rounds'[Len(rounds)] = "PUBLISHED"
      /\ \A i \in DOMAIN rounds \ {Len(rounds)} : rounds'[i] = rounds[i]
  BY <1>1, <1>2
<1>4. \A i \in DOMAIN rounds \ {Len(rounds)} : rounds[i] \in Terminal
  BY DEF RoundFollowsConference, Active
<1> QED BY <1>2, <1>3, <1>4 DEF Active, EverPublished, Terminal

-----------------------------------------------------------------------------
(* The type invariant. *)

CallType ==
  [op : {"none", "progress", "confirm", "verdict", "publish"},
   at : {"idle", "read", "checked", "attested", "committed", "verified", "advance", "direct"},
   seen : MunStatus \cup {"none"}]

ModuleState == {"NOT_SUBMITTED", "PENDING_REVIEW", "VERIFIED", "CHANGES_REQUESTED", "REJECTED"}

LEMMA InitTypeOK == PipelineInit => TypeOK
<1> SUFFICES ASSUME PipelineInit PROVE TypeOK
  OBVIOUS
<1>0. Init
  BY DEF PipelineInit
<1>1. ApplicationTypeOK
  BY <1>0 DEF Init, ApplicationTypeOK
<1>2. call \in [Calls -> CallType]
  BY DEF PipelineInit, Idle, CallType
<1>3. FinalReview \in required /\ required \subseteq Modules
  BY FocusAssumption DEF PipelineInit
<1>4. /\ rounds \in Seq(RoundStatus)
      /\ module \in [Modules -> ModuleState]
  BY DEF PipelineInit, ModuleState
<1>5. lost \in BOOLEAN
  BY DEF PipelineInit
<1> QED BY <1>1, <1>2, <1>3, <1>4, <1>5 DEF TypeOK, CallType, RoundStatus, ModuleState

LEMMA ApplicationTypes ==
  ASSUME TypeOK, ApplicationStep
  PROVE  ApplicationTypeOK'
<1> USE Names DEF TypeOK, ApplicationTypeOK
<1>1. ASSUME NEW m \in Muns, SubmitOrganizerApplication(m)
      PROVE  ApplicationTypeOK'
  BY <1>1 DEF SubmitOrganizerApplication
<1>2. ASSUME NEW m \in Muns, ResubmitOrganizerApplication(m)
      PROVE  ApplicationTypeOK'
  BY <1>2 DEF ResubmitOrganizerApplication, Move
<1>3. ASSUME NEW m \in Muns, NEW decision \in Decisions, ReviewMunApplication(m, decision)
      PROVE  ApplicationTypeOK'
  <2>1. Outcome(decision) \in MunStatus
    BY DEF Outcome, Decisions
  <2> QED BY <1>3, <2>1 DEF ReviewMunApplication
<1> QED BY <1>1, <1>2, <1>3 DEF ApplicationStep

LEMMA CallTypes ==
  ASSUME TypeOK, NEW c \in Calls, CallStep(c)
  PROVE  call' \in [Calls -> CallType]
<1>1. call \in [Calls -> CallType] /\ status[Focus] \in MunStatus \cup {"none"}
  BY FocusAssumption DEF TypeOK, ApplicationTypeOK, CallType
<1>2. \A op, at, seen : Begin(c, op, at, seen) /\ [op |-> op, at |-> at, seen |-> seen] \in CallType
        => call' \in [Calls -> CallType]
  BY <1>1 DEF Begin
<1>3. Leave(c) => call' \in [Calls -> CallType]
  BY <1>1 DEF Leave, Idle, CallType
<1>4. \A at \in {"attested", "verified", "advance"} : GoTo(c, at) => call' \in [Calls -> CallType]
  BY <1>1 DEF GoTo, CallType
<1>5. CASE ReadProgress(c)
  BY <1>1, <1>2, <1>5 DEF ReadProgress, CallType
<1>6. CASE MaterializeProgress(c)
  BY <1>3, <1>6 DEF MaterializeProgress
<1>7. CASE CheckConfirmation(c)
  BY <1>1, <1>2, <1>7 DEF CheckConfirmation, CallType
<1>8. CASE Attest(c)
  BY <1>4, <1>8 DEF Attest
<1>9. CASE AdvanceToVerification(c)
  BY <1>1, <1>3, <1>9, Names DEF AdvanceToVerification, CallType
<1>10. ASSUME NEW m \in Modules, NEW d \in {"VERIFIED", "CHANGES_REQUESTED", "REJECTED"},
              ReviewModule(c, m, d)
       PROVE  call' \in [Calls -> CallType]
  BY <1>1, <1>2, <1>10 DEF ReviewModule, CallType
<1>11. CASE CheckVerdict(c)
  BY <1>3, <1>4, <1>11 DEF CheckVerdict, ReadRows, ReadStatus, AdvanceToVerified
<1>12. CASE FindNoRound(c)
  BY <1>1, <1>2, <1>12 DEF FindNoRound, CallType
<1>13. CASE PublishDirectly(c)
  BY <1>3, <1>13 DEF PublishDirectly
<1>14. CASE Abandon(c)
  BY <1>3, <1>14 DEF Abandon
<1> QED BY <1>5, <1>6, <1>7, <1>8, <1>9, <1>10, <1>11, <1>12, <1>13, <1>14 DEF CallStep

\* The setup of a conference, whoever touches it.
SetupTypeOK ==
  /\ module \in [Modules -> ModuleState]
  /\ FinalReview \in required /\ required \subseteq Modules
  /\ lost \in BOOLEAN

LEMMA TypeParts ==
  /\ TypeOK <=> /\ ApplicationTypeOK /\ rounds \in Seq(RoundStatus)
                /\ SetupTypeOK /\ call \in [Calls -> CallType]
  /\ TypeOK' <=> /\ ApplicationTypeOK' /\ rounds' \in Seq(RoundStatus)
                 /\ SetupTypeOK' /\ call' \in [Calls -> CallType]
BY DEF TypeOK, RoundStatus, SetupTypeOK, CallType, ModuleState

\* A move by itself.
LEMMA MoveTypes ==
  ASSUME ApplicationTypeOK, NEW m \in Muns, NEW to \in MunStatus, Move(m, to),
         application' = application
  PROVE  ApplicationTypeOK'
BY Moving DEF ApplicationTypeOK

LEMMA CallStepTypes ==
  ASSUME TypeOK, NEW c \in Calls, CallStep(c)
  PROVE  TypeOK'
<1> USE DEF gateOneVars
<1>1. call' \in [Calls -> CallType]
  BY CallTypes
<1>2. ApplicationTypeOK /\ rounds \in Seq(RoundStatus) /\ SetupTypeOK
  BY TypeParts
<1>3. ASSUME UNCHANGED <<gateOneVars, rounds>>, SetupTypeOK'
      PROVE  TypeOK'
  BY <1>1, <1>2, <1>3, TypeParts DEF ApplicationTypeOK
<1>4. ASSUME ApplicationTypeOK', UNCHANGED <<rounds, module, required, lost>>
      PROVE  TypeOK'
  BY <1>1, <1>2, <1>4, TypeParts DEF SetupTypeOK
<1>5. ASSUME UNCHANGED <<gateOneVars, rounds, module, required, lost>>
      PROVE  TypeOK'
  BY <1>2, <1>3, <1>5 DEF SetupTypeOK
<1>6. CASE ReadProgress(c)
  BY <1>5, <1>6 DEF ReadProgress
<1>7. CASE MaterializeProgress(c)
  <2>1. PICK target \in {"ACTION_REQUIRED", "READY_FOR_SUBMISSION"} :
          IF call[c].seen \in Onboarding \ {target} THEN Move(Focus, target) ELSE UNCHANGED status
    BY <1>7 DEF MaterializeProgress
  <2>2. application' = application
    BY <1>7 DEF MaterializeProgress
  <2>3. ApplicationTypeOK'
    <3>1. CASE Move(Focus, target)
      BY <1>2, <2>2, <3>1, MoveTypes, FocusAssumption, Names
    <3>2. CASE UNCHANGED status
      BY <1>2, <2>2, <3>2 DEF ApplicationTypeOK
    <3> QED BY <2>1, <3>1, <3>2
  <2> QED BY <1>4, <1>7, <2>3 DEF MaterializeProgress
<1>8. CASE CheckConfirmation(c)
  BY <1>5, <1>8 DEF CheckConfirmation
<1>9. CASE Attest(c)
  <2>1. SetupTypeOK'
    BY <1>2, <1>9 DEF Attest, SetupTypeOK, ModuleState
  <2> QED BY <1>3, <1>9, <2>1 DEF Attest
<1>10. CASE AdvanceToVerification(c)
  BY <1>2, <1>4, <1>10, MoveTypes, FocusAssumption, Names DEF AdvanceToVerification
<1>11. ASSUME NEW m \in Modules, NEW d \in {"VERIFIED", "CHANGES_REQUESTED", "REJECTED"},
              ReviewModule(c, m, d)
       PROVE  TypeOK'
  <2>1. SetupTypeOK'
    BY <1>2, <1>11 DEF ReviewModule, SetupTypeOK, ModuleState
  <2> QED BY <1>3, <1>11, <2>1 DEF ReviewModule
<1>12. CASE CheckVerdict(c)
  BY <1>2, <1>4, <1>5, <1>12, MoveTypes, FocusAssumption, Names
     DEF CheckVerdict, ReadRows, ReadStatus, AdvanceToVerified
<1>13. CASE FindNoRound(c)
  BY <1>5, <1>13 DEF FindNoRound
<1>14. CASE PublishDirectly(c)
  BY <1>2, <1>4, <1>14, MoveTypes, FocusAssumption, Names DEF PublishDirectly
<1>15. CASE Abandon(c)
  <2>1. lost' \in BOOLEAN
    BY <1>2, <1>15 DEF Abandon, SetupTypeOK
  <2> QED BY <1>2, <1>3, <1>15, <2>1 DEF Abandon, SetupTypeOK
<1> QED
  BY <1>6, <1>7, <1>8, <1>9, <1>10, <1>11, <1>12, <1>13, <1>14, <1>15 DEF CallStep

LEMMA RoundStepTypes ==
  ASSUME TypeOK, RoundFollowsConference, RoundStep
  PROVE  TypeOK'
<1> USE FocusAssumption, Names DEF gateOneVars, pipelineVars
<1>1. /\ ApplicationTypeOK /\ rounds \in Seq(RoundStatus) /\ SetupTypeOK
      /\ call \in [Calls -> CallType]
  BY TypeParts
<1>2. ASSUME ApplicationTypeOK', rounds' \in Seq(RoundStatus),
             UNCHANGED <<module, required, call, lost>>
      PROVE  TypeOK'
  BY <1>1, <1>2, TypeParts DEF SetupTypeOK
<1>3. {"WITHDRAWN", "REJECTED", "CHANGES_REQUESTED", "APPROVED"} \subseteq RoundStatus
  BY DEF RoundStatus, Terminal
<1>4. ASSUME NEW s \in MunStatus, status' = [status EXCEPT ![Focus] = s], UNCHANGED application
      PROVE  ApplicationTypeOK'
  BY <1>1, <1>4 DEF ApplicationTypeOK
<1>5. CASE SubmitMunForReview
  <2>1. Reopened \in Seq(RoundStatus)
    BY Reopening
  <2>2. rounds' \in Seq(RoundStatus)
    BY <1>5, <2>1, Opening DEF SubmitMunForReview
  <2>3. ApplicationTypeOK'
    BY <1>4, <1>5 DEF SubmitMunForReview
  <2> QED BY <1>2, <1>5, <2>2, <2>3 DEF SubmitMunForReview
<1>6. CASE WithdrawSubmission
  BY <1>1, <1>2, <1>3, <1>6, MoveTypes, Closing DEF WithdrawSubmission
<1>7. CASE ApproveSubmission
  <2>1. ApplicationTypeOK' /\ rounds' \in Seq(RoundStatus)
    BY <1>1, <1>3, <1>7, MoveTypes, Closing DEF ApproveSubmission
  <2>2. SetupTypeOK'
    BY <1>1, <1>7 DEF ApproveSubmission, SetupTypeOK, ModuleState
  <2>3. call' \in [Calls -> CallType]
    BY <1>1, <1>7 DEF ApproveSubmission
  <2> QED BY <2>1, <2>2, <2>3, TypeParts
<1>8. CASE ReturnSubmission
  BY <1>1, <1>2, <1>3, <1>8, MoveTypes, Closing DEF ReturnSubmission
<1>9. CASE EnqueueForGoLive
  <2>1. rounds' \in Seq(RoundStatus)
    BY <1>1, <1>9, Opening DEF EnqueueForGoLive, OpenRepublishSubmission
  <2> QED BY <1>1, <1>2, <1>9, <2>1, MoveTypes DEF EnqueueForGoLive
<1>10. CASE PublishFromQueue
  <2>1. rounds' \in Seq(RoundStatus)
    BY <1>10, Publishing DEF PublishFromQueue
  <2>2. ApplicationTypeOK'
    BY <1>4, <1>10 DEF PublishFromQueue
  <2> QED BY <1>2, <1>10, <2>1, <2>2 DEF PublishFromQueue
<1>11. CASE TakeDown
  BY <1>1, <1>2, <1>11, MoveTypes DEF TakeDown
<1>12. CASE ReinstateMun
  <2>1. rounds' \in Seq(RoundStatus)
    BY <1>1, <1>12, Opening DEF ReinstateMun
  <2> QED BY <1>1, <1>2, <1>12, <2>1, MoveTypes DEF ReinstateMun
<1> QED
  BY <1>5, <1>6, <1>7, <1>8, <1>9, <1>10, <1>11, <1>12 DEF RoundStep

LEMMA StepTypes ==
  ASSUME TypeOK, RoundFollowsConference, [PipelineNext]_vars
  PROVE  TypeOK'
<1> USE Names DEF gateOneVars, pipelineVars
<1>1. /\ ApplicationTypeOK /\ rounds \in Seq(RoundStatus) /\ SetupTypeOK
      /\ call \in [Calls -> CallType]
  BY TypeParts
<1>2. CASE ApplicationStep /\ UNCHANGED pipelineVars
  BY <1>1, <1>2, ApplicationTypes, TypeParts DEF SetupTypeOK
<1>3. CASE RoundStep
  BY <1>3, RoundStepTypes
<1>4. ASSUME NEW c \in Calls, CallStep(c) PROVE TypeOK'
  BY <1>4, CallStepTypes
<1>5. ASSUME NEW m \in Modules, ConfirmModule(m) \/ SetModuleRequirement(m) PROVE TypeOK'
  <2>1. SetupTypeOK'
    BY <1>1, <1>5 DEF ConfirmModule, SetModuleRequirement, SetupTypeOK, ModuleState
  <2> QED
    BY <1>1, <1>5, <2>1, TypeParts DEF ConfirmModule, SetModuleRequirement, ApplicationTypeOK
<1>6. ASSUME NEW m \in Muns, CancelConference(m) PROVE TypeOK'
  <2>1. ApplicationTypeOK'
    BY <1>1, <1>6, MoveTypes DEF CancelConference, Cancel
  <2>2. rounds' \in Seq(RoundStatus)
    BY <1>1, <1>6, Closing DEF CancelConference, RoundStatus, Terminal
  <2> QED BY <1>1, <1>6, <2>1, <2>2, TypeParts DEF CancelConference, SetupTypeOK
<1>7. CASE UNCHANGED vars
  BY <1>1, <1>7, TypeParts DEF vars, ApplicationTypeOK, SetupTypeOK
<1> QED BY <1>2, <1>3, <1>4, <1>5, <1>6, <1>7 DEF PipelineNext

-----------------------------------------------------------------------------
(* The invariant is inductive. *)

\* What IInv adds to the types.
Agreement == GateOneLockstep /\ RoundFollowsConference /\ EnginesAgree

LEMMA InitAgreement == PipelineInit => Agreement
<1> SUFFICES ASSUME PipelineInit PROVE Agreement
  OBVIOUS
<1>0. Init
  BY DEF PipelineInit
<1>1. Active = {} /\ status[Focus] = "none" /\ \A c \in Calls : call[c].op = "none"
  BY <1>0, FocusAssumption DEF Init, PipelineInit, Active, Idle
<1>2. GateOneLockstep
  BY <1>0 DEF Init, GateOneLockstep
<1> QED
  BY <1>1, <1>2 DEF Agreement, RoundFollowsConference, RoundBehind, EnginesAgree, Confirmed

\* A step that leaves the statuses and the rounds alone, and starts no engine
\* but on the status it reads.
LEMMA Quiet ==
  ASSUME IInv, UNCHANGED <<gateOneVars, rounds>>,
         \A c \in Calls : call'[c].op = "progress" =>
                          call'[c] = call[c] \/ call'[c].seen = status[Focus]
  PROVE  Agreement'
<1>1. UNCHANGED <<status, application, rounds>>
  BY DEF gateOneVars
<1>2. GateOneLockstep'
  BY <1>1 DEF IInv, GateOneLockstep
<1>3. Active' = Active /\ EverPublished' = EverPublished
  BY <1>1 DEF Active, EverPublished
<1>4. RoundFollowsConference'
  BY <1>1, <1>3 DEF IInv, RoundFollowsConference, RoundBehind
<1>5. EnginesAgree'
  BY <1>1 DEF IInv, EnginesAgree
<1> QED BY <1>2, <1>4, <1>5 DEF Agreement

\* The engines that run after a step ran before it.
NoNewEngine ==
  \A c \in Calls : call'[c].op = "progress" => call'[c] = call[c]

\* Gate 1 is behind every conference that moves on.
LEMMA KeepsLockstep ==
  ASSUME ApplicationTypeOK, GateOneLockstep, NEW m \in Muns,
         NEW to \in {"ACTION_REQUIRED", "READY_FOR_SUBMISSION", "VERIFICATION", "VERIFIED",
                     "GO_LIVE_QUEUE", "PUBLISHED", "UNPUBLISHED", "SUSPENDED", "REJECTED",
                     "CANCELLED"},
         Move(m, to), application' = application
  PROVE  GateOneLockstep'
<1>1. /\ status[m] \in MunStatus /\ CanTransition(status[m], to)
      /\ status'[m] = to /\ \A n \in Muns \ {m} : status'[n] = status[n]
  BY Moving, Names
<1>2. to \in {"REJECTED", "CANCELLED"} \/ application[m] = "APPROVED"
  BY <1>1, Table, Names DEF GateOneLockstep, Confirmed
<1> QED BY <1>1, <1>2 DEF GateOneLockstep

LEMMA ApplicationAgreement ==
  ASSUME IInv, ApplicationStep, UNCHANGED pipelineVars
  PROVE  Agreement'
<1>1. PICK m \in Muns :
        \/ SubmitOrganizerApplication(m)
        \/ ResubmitOrganizerApplication(m)
        \/ \E decision \in Decisions : ReviewMunApplication(m, decision)
  BY DEF ApplicationStep
<1>2. ApplicationTypeOK /\ status[m] \in MunStatus \cup {"none"}
  BY DEF IInv, TypeOK, ApplicationTypeOK
<1>3. /\ \A n \in Muns \ {m} : status'[n] = status[n] /\ application'[n] = application[n]
      /\ \/ status'[m] = "SUBMITTED" /\ application'[m] = "SUBMITTED"
         \/ status'[m] \in {"REJECTED", "CHANGES_REQUESTED"} /\ application'[m] = status'[m]
         \/ status'[m] = "ONBOARDING" /\ application'[m] = "APPROVED"
  BY <1>1, <1>2, Names
     DEF ApplicationTypeOK, SubmitOrganizerApplication, ResubmitOrganizerApplication,
         ReviewMunApplication, Move, Decisions, Outcome
<1>4. status[m] \in
        {"none", "DRAFT", "SUBMITTED", "CHANGES_REQUESTED", "UNDER_REVIEW", "VERIFICATION"}
  BY <1>1, <1>2, Table DEF SubmitOrganizerApplication, ResubmitOrganizerApplication,
     ReviewMunApplication, Move, Exists, Decisions
<1>5. GateOneLockstep'
  BY <1>3 DEF IInv, GateOneLockstep
<1>6. Active' = Active /\ EverPublished' = EverPublished /\ rounds' = rounds /\ call' = call
  BY DEF pipelineVars, Active, EverPublished
<1>7. RoundFollowsConference'
  BY <1>3, <1>6, FocusAssumption DEF IInv, RoundFollowsConference, RoundBehind, Confirmed
<1>8. EnginesAgree'
  BY <1>3, <1>4, <1>6, FocusAssumption DEF IInv, EnginesAgree, Onboarding
<1> QED BY <1>5, <1>7, <1>8 DEF Agreement

\* A move of the conference alone.
LEMMA MoveAgreement ==
  ASSUME IInv, UNCHANGED <<application, rounds>>, NoNewEngine,
         NEW to \in {"ACTION_REQUIRED", "READY_FOR_SUBMISSION", "VERIFICATION", "VERIFIED",
                     "PUBLISHED", "UNPUBLISHED", "SUSPENDED"},
         Move(Focus, to)
  PROVE  Agreement'
<1>1. /\ status[Focus] \in MunStatus /\ CanTransition(status[Focus], to) /\ status'[Focus] = to
  BY FocusAssumption, Moving, Names DEF IInv, TypeOK
<1>2. GateOneLockstep'
  BY FocusAssumption, KeepsLockstep DEF IInv, TypeOK
<1>3. Active' = Active /\ EverPublished' = EverPublished /\ rounds' = rounds
  BY DEF Active, EverPublished
<1>4. to \in {"ACTION_REQUIRED", "READY_FOR_SUBMISSION"} \/ Active # {} \/ EverPublished
  BY <1>1, Table DEF IInv, RoundBehind, RoundFollowsConference, Confirmed
<1>5. RoundFollowsConference'
  BY <1>1, <1>3, <1>4 DEF IInv, RoundFollowsConference, RoundBehind, Confirmed
<1>6. EnginesAgree'
  BY <1>1, Table DEF IInv, EnginesAgree, NoNewEngine, Onboarding, Confirmed
<1> QED BY <1>2, <1>5, <1>6 DEF Agreement

\* The confirmation never has to pass through ORGANIZER_CONFIRMATION.
LEMMA NotByHop ==
  ASSUME IInv
  PROVE  ~Move(Focus, "ORGANIZER_CONFIRMATION")
<1> SUFFICES ASSUME Move(Focus, "ORGANIZER_CONFIRMATION") PROVE FALSE
  OBVIOUS
<1>1. status[Focus] \in MunStatus /\ CanTransition(status[Focus], "ORGANIZER_CONFIRMATION")
  BY FocusAssumption, Moving, Names DEF IInv, TypeOK
<1> QED BY <1>1, FocusAssumption, Table DEF IInv, NoneHalfway

LEMMA LeavingStartsNothing ==
  ASSUME IInv, NEW c \in Calls, Leave(c)
  PROVE  NoNewEngine
BY TypeParts DEF IInv, Leave, Idle, NoNewEngine

LEMMA CallStepAgreement ==
  ASSUME IInv, NEW c \in Calls, CallStep(c)
  PROVE  Agreement'
<1> USE DEF gateOneVars
<1>1. call \in [Calls -> CallType] /\ TypeOK /\ ApplicationTypeOK
  BY TypeParts DEF IInv
<1>2. ASSUME UNCHANGED <<gateOneVars, rounds>>, NoNewEngine
      PROVE  Agreement'
  BY <1>2, Quiet DEF NoNewEngine
<1>3. \A op \in {"confirm", "verdict", "publish"} :
        \A at, seen : Begin(c, op, at, seen) => NoNewEngine
  BY <1>1 DEF Begin, NoNewEngine, CallType
<1>4. \A at : GoTo(c, at) /\ call[c].op # "progress" => NoNewEngine
  BY <1>1 DEF GoTo, NoNewEngine, CallType
<1>5. Leave(c) => NoNewEngine
  BY LeavingStartsNothing
<1>6. CASE ReadProgress(c)
  <2>1. \A d \in Calls : call'[d] = call[d] \/ call'[d].seen = status[Focus]
    BY <1>1, <1>6 DEF ReadProgress, Begin
  <2> QED BY <1>6, <2>1, Quiet DEF ReadProgress
<1>7. CASE MaterializeProgress(c)
  <2>1. PICK target \in {"ACTION_REQUIRED", "READY_FOR_SUBMISSION"} :
          IF call[c].seen \in Onboarding \ {target} THEN Move(Focus, target) ELSE UNCHANGED status
    BY <1>7 DEF MaterializeProgress
  <2>2. NoNewEngine /\ UNCHANGED <<application, rounds>>
    BY <1>5, <1>7 DEF MaterializeProgress
  <2>3. CASE Move(Focus, target)
    BY <2>2, <2>3, MoveAgreement
  <2>4. CASE UNCHANGED status
    BY <1>2, <2>2, <2>4
  <2> QED BY <2>1, <2>3, <2>4
<1>8. CASE CheckConfirmation(c)
  BY <1>2, <1>3, <1>8 DEF CheckConfirmation
<1>9. CASE Attest(c)
  BY <1>2, <1>4, <1>9 DEF Attest, At
<1>10. CASE AdvanceToVerification(c)
  <2>1. call[c].seen = "ORGANIZER_CONFIRMATION"
    BY <1>1, <1>10, NotByHop DEF AdvanceToVerification
  <2> QED BY <1>5, <1>10, <2>1, MoveAgreement DEF AdvanceToVerification
<1>11. ASSUME NEW m \in Modules, NEW d \in {"VERIFIED", "CHANGES_REQUESTED", "REJECTED"},
              ReviewModule(c, m, d)
       PROVE  Agreement'
  <2>1. NoNewEngine
    BY <1>3, <1>11 DEF ReviewModule, NoNewEngine
  <2> QED BY <1>2, <1>11, <2>1 DEF ReviewModule
<1>12. CASE ReadRows(c) \/ ReadStatus(c)
  <2>1. NoNewEngine
    BY <1>4, <1>5, <1>12 DEF ReadRows, ReadStatus, At
  <2> QED BY <1>2, <1>12, <2>1 DEF ReadRows, ReadStatus
<1>13. CASE AdvanceToVerified(c)
  BY <1>5, <1>13, MoveAgreement DEF AdvanceToVerified
<1>14. CASE FindNoRound(c)
  BY <1>2, <1>3, <1>14 DEF FindNoRound
<1>15. CASE PublishDirectly(c)
  BY <1>5, <1>15, MoveAgreement DEF PublishDirectly
<1>16. CASE Abandon(c)
  BY <1>2, <1>5, <1>16 DEF Abandon
<1> QED
  BY <1>6, <1>7, <1>8, <1>9, <1>10, <1>11, <1>12, <1>13, <1>14, <1>15, <1>16
     DEF CallStep, CheckVerdict

LEMMA RoundStepAgreement ==
  ASSUME IInv, RoundStep
  PROVE  Agreement'
<1> USE FocusAssumption DEF pipelineVars
<1>1. /\ TypeOK /\ ApplicationTypeOK /\ rounds \in Seq(RoundStatus)
      /\ status[Focus] \in MunStatus \cup {"none"} /\ status \in [Muns -> MunStatus \cup {"none"}]
  BY TypeParts DEF IInv, ApplicationTypeOK
<1>2. {"WITHDRAWN", "REJECTED", "CHANGES_REQUESTED", "APPROVED"} \subseteq RoundStatus
  BY DEF RoundStatus, Terminal
<1>3. \A to \in MunStatus : Move(Focus, to) =>
        /\ status[Focus] \in MunStatus /\ CanTransition(status[Focus], to)
        /\ status'[Focus] = to
  BY <1>1, Moving
<1>4. ASSUME RowsFree, UNCHANGED call PROVE EnginesAgree'
  BY <1>4 DEF RowsFree, EnginesAgree
<1>5. CASE SubmitMunForReview
  <2>1. application[Focus] = "APPROVED" /\ status[Focus] \in Submittable
    BY <1>5, <1>1 DEF SubmitMunForReview, IInv, GateOneLockstep, Submittable
  <2>2. /\ status' \in {[status EXCEPT ![Focus] = "ORGANIZER_CONFIRMATION"],
                        [status EXCEPT ![Focus] = "ACTION_REQUIRED"]}
        /\ UNCHANGED <<application, call>>
    BY <1>5 DEF SubmitMunForReview
  <2>3. GateOneLockstep'
    BY <1>1, <2>1, <2>2 DEF IInv, GateOneLockstep
  <2>4. CASE /\ RowsFree /\ status'[Focus] = "ORGANIZER_CONFIRMATION"
             /\ OpenRound(Reopened, "SUBMITTED")
    <3>1. Active' = {Len(rounds')}
      BY <1>1, <2>4, Reopening, Opening
    <3>2. RoundFollowsConference'
      BY <2>4, <3>1 DEF RoundFollowsConference, RoundBehind, Confirmed
    <3> QED BY <1>4, <2>2, <2>3, <2>4, <3>2 DEF Agreement
  <2>5. CASE status'[Focus] = "ACTION_REQUIRED" /\ rounds' = Reopened
    <3>1. Active' = {}
      BY <1>1, <1>5, <2>5, Reopening DEF SubmitMunForReview
    <3>2. RoundFollowsConference'
      BY <2>5, <3>1 DEF RoundFollowsConference, RoundBehind, Confirmed
    <3>3. EnginesAgree'
      BY <2>2, <2>5 DEF EnginesAgree, Onboarding
    <3> QED BY <2>3, <3>2, <3>3 DEF Agreement
  <2> QED BY <1>1, <1>5, <2>4, <2>5 DEF SubmitMunForReview
<1>6. CASE WithdrawSubmission
  <2>1. Move(Focus, "READY_FOR_SUBMISSION") /\ RowsFree /\ UNCHANGED <<application, call>>
    BY <1>6 DEF WithdrawSubmission
  <2>2. Active' = {} /\ status'[Focus] = "READY_FOR_SUBMISSION"
    BY <1>1, <1>2, <1>3, <1>6, <2>1, Closing, Names DEF WithdrawSubmission, Terminal
  <2>3. RoundFollowsConference'
    BY <2>2 DEF RoundFollowsConference, RoundBehind, Confirmed
  <2> QED BY <1>1, <1>4, <2>1, <2>3, KeepsLockstep DEF Agreement, IInv
<1>7. CASE ApproveSubmission
  <2>1. Move(Focus, "VERIFIED") /\ RowsFree /\ Active # {} /\ UNCHANGED <<application, call>>
    BY <1>7 DEF ApproveSubmission
  <2>2. Active' = Active /\ Len(rounds') = Len(rounds) /\ status'[Focus] = "VERIFIED"
    BY <1>1, <1>2, <1>3, <1>7, <2>1, Closing, Names DEF ApproveSubmission, Terminal
  <2>3. RoundFollowsConference'
    BY <2>1, <2>2 DEF IInv, RoundFollowsConference, RoundBehind, Confirmed
  <2> QED BY <1>1, <1>4, <2>1, <2>3, KeepsLockstep DEF Agreement, IInv
<1>8. CASE ReturnSubmission
  <2>1. PICK to \in {"ACTION_REQUIRED", "REJECTED"} :
          /\ Move(Focus, to)
          /\ rounds' = Close(IF to = "REJECTED" THEN "REJECTED" ELSE "CHANGES_REQUESTED")
    BY <1>8 DEF ReturnSubmission
  <2>2. (Active' = Active \/ Active' = {}) /\ Len(rounds') = Len(rounds)
    BY <1>1, <1>2, <2>1, Closing
  <2>3. status'[Focus] = to /\ CanTransition(status[Focus], to) /\ status[Focus] \in MunStatus
    BY <1>3, <2>1, Names
  <2>4. RoundFollowsConference'
    BY <2>2, <2>3 DEF IInv, RoundFollowsConference, RoundBehind, Confirmed
  <2>5. UNCHANGED <<application, call>>
    BY <1>8 DEF ReturnSubmission
  <2>6. EnginesAgree'
    BY <2>3, <2>5, Table DEF IInv, EnginesAgree, Onboarding
  <2> QED BY <1>1, <2>1, <2>4, <2>5, <2>6, KeepsLockstep DEF Agreement, IInv
<1>9. CASE EnqueueForGoLive
  <2>1. Move(Focus, "GO_LIVE_QUEUE") /\ UNCHANGED <<application, call>>
    BY <1>9 DEF EnqueueForGoLive
  <2>2. status'[Focus] = "GO_LIVE_QUEUE" /\ CanTransition(status[Focus], "GO_LIVE_QUEUE")
        /\ status[Focus] \in MunStatus
    BY <1>3, <2>1, Names
  <2>3. Active' # {} /\ \A i \in Active' : i = Len(rounds')
    <3>1. CASE Active # {} /\ UNCHANGED rounds
      BY <3>1 DEF IInv, RoundFollowsConference, Active
    <3>2. CASE OpenRepublishSubmission
      BY <1>1, <3>2, Opening DEF OpenRepublishSubmission
    <3> QED BY <1>9, <3>1, <3>2 DEF EnqueueForGoLive
  <2>4. RoundFollowsConference'
    BY <2>2, <2>3 DEF RoundFollowsConference, RoundBehind
  <2>5. EnginesAgree'
    BY <2>1, <2>2, Table DEF IInv, EnginesAgree, Onboarding
  <2> QED BY <1>1, <2>1, <2>4, <2>5, KeepsLockstep DEF Agreement, IInv
<1>10. CASE PublishFromQueue
  <2>1. status[Focus] = "GO_LIVE_QUEUE"
    BY <1>1, <1>10, Table DEF PublishFromQueue, Exists
  <2>2. status' = [status EXCEPT ![Focus] = "PUBLISHED"] /\ UNCHANGED <<application, call>>
    BY <1>10 DEF PublishFromQueue
  <2>3. Active' = {} /\ EverPublished'
    BY <1>1, <1>10, Publishing DEF PublishFromQueue, IInv
  <2>4. GateOneLockstep'
    BY <1>1, <2>1, <2>2 DEF IInv, GateOneLockstep
  <2>5. RoundFollowsConference'
    BY <1>1, <2>2, <2>3 DEF RoundFollowsConference, RoundBehind
  <2>6. EnginesAgree'
    BY <2>1, <2>2 DEF IInv, EnginesAgree, Onboarding
  <2> QED BY <2>4, <2>5, <2>6 DEF Agreement
<1>11. CASE TakeDown
  <2>1. PICK to \in {"UNPUBLISHED", "SUSPENDED"} : Move(Focus, to)
    BY <1>11 DEF TakeDown
  <2> QED BY <1>11, <2>1, MoveAgreement DEF TakeDown, NoNewEngine
<1>12. CASE ReinstateMun
  <2>1. /\ status[Focus] = "SUSPENDED" /\ Move(Focus, "VERIFICATION")
        /\ UNCHANGED <<application, call>>
    BY <1>12 DEF ReinstateMun
  <2>2. Active' # {} /\ \A i \in Active' : i = Len(rounds')
    <3>1. CASE Active # {} /\ UNCHANGED rounds
      BY <3>1 DEF IInv, RoundFollowsConference, Active
    <3>2. CASE OpenRound(rounds, "SUBMITTED")
      BY <1>1, <3>2, Opening
    <3> QED BY <1>12, <3>1, <3>2 DEF ReinstateMun
  <2>3. RoundFollowsConference'
    BY <1>3, <2>1, <2>2, Names DEF RoundFollowsConference, RoundBehind
  <2>4. EnginesAgree'
    BY <2>1 DEF IInv, EnginesAgree, Onboarding
  <2> QED BY <1>1, <2>1, <2>3, <2>4, KeepsLockstep DEF Agreement, IInv
<1> QED
  BY <1>5, <1>6, <1>7, <1>8, <1>9, <1>10, <1>11, <1>12 DEF RoundStep

LEMMA CancelAgreement ==
  ASSUME IInv, NEW m \in Muns, CancelConference(m)
  PROVE  Agreement'
<1>1. TypeOK /\ ApplicationTypeOK /\ Move(m, "CANCELLED") /\ UNCHANGED <<application, call>>
  BY DEF IInv, TypeOK, CancelConference, Cancel
<1>2. status'[m] = "CANCELLED" /\ \A n \in Muns \ {m} : status'[n] = status[n]
  BY <1>1, Moving, Names
<1>3. GateOneLockstep'
  BY <1>1, KeepsLockstep DEF IInv
<1>4. EnginesAgree'
  BY <1>1, <1>2, FocusAssumption DEF IInv, EnginesAgree
<1>5. CASE m = Focus
  <2>1. Active' = {}
    BY <1>1, <1>5, Closing DEF CancelConference, RoundStatus, Terminal
  <2> QED
    BY <1>2, <1>3, <1>4, <1>5, <2>1
       DEF Agreement, RoundFollowsConference, RoundBehind, Confirmed
<1>6. CASE m # Focus
  <2>1. rounds' = rounds /\ status'[Focus] = status[Focus]
    BY <1>2, <1>6, FocusAssumption DEF CancelConference
  <2>2. Active' = Active /\ EverPublished' = EverPublished
    BY <2>1 DEF Active, EverPublished
  <2> QED
    BY <1>3, <1>4, <2>1, <2>2 DEF Agreement, IInv, RoundFollowsConference, RoundBehind
<1> QED BY <1>5, <1>6

LEMMA StepNoneHalfway ==
  ASSUME IInv, [PipelineNext]_vars
  PROVE  NoneHalfway'
<1> USE Names, FocusAssumption DEF NoneHalfway, Halfway
<1>1. ApplicationTypeOK /\ NoneHalfway
  BY DEF IInv, TypeOK
<1>2. ASSUME UNCHANGED status PROVE NoneHalfway'
  BY <1>1, <1>2
<1>3. ASSUME NEW m \in Muns, NEW to \in MunStatus \ Halfway, Move(m, to) PROVE NoneHalfway'
  BY <1>1, <1>3, Moving
<1>4. ASSUME NEW m \in Muns, NEW to \in MunStatus \ Halfway, status' = [status EXCEPT ![m] = to]
      PROVE  NoneHalfway'
  BY <1>1, <1>4 DEF ApplicationTypeOK
<1>5. CASE ApplicationStep
  <2>1. PICK m \in Muns :
          \/ SubmitOrganizerApplication(m)
          \/ ResubmitOrganizerApplication(m)
          \/ \E decision \in Decisions : ReviewMunApplication(m, decision)
    BY <1>5 DEF ApplicationStep
  <2> QED
    BY <1>3, <1>4, <2>1 DEF SubmitOrganizerApplication, ResubmitOrganizerApplication,
       ReviewMunApplication, Outcome, Decisions
<1>6. CASE RoundStep
  BY <1>3, <1>4, <1>6
     DEF RoundStep, SubmitMunForReview, WithdrawSubmission, ApproveSubmission, ReturnSubmission,
         EnqueueForGoLive, PublishFromQueue, TakeDown, ReinstateMun
<1>7. ASSUME NEW c \in Calls, CallStep(c) PROVE NoneHalfway'
  <2>1. CASE MaterializeProgress(c)
    BY <1>2, <1>3, <2>1 DEF MaterializeProgress
  <2>2. CASE AdvanceToVerification(c) \/ AdvanceToVerified(c) \/ PublishDirectly(c)
    BY <1>3, <2>2 DEF AdvanceToVerification, AdvanceToVerified, PublishDirectly
  <2>3. CASE \/ ReadProgress(c) \/ CheckConfirmation(c) \/ Attest(c) \/ ReadRows(c)
             \/ ReadStatus(c) \/ FindNoRound(c) \/ Abandon(c)
             \/ \E m \in Modules, d \in {"VERIFIED", "CHANGES_REQUESTED", "REJECTED"} :
                  ReviewModule(c, m, d)
    BY <1>2, <2>3 DEF ReadProgress, CheckConfirmation, Attest, ReadRows, ReadStatus, FindNoRound,
       Abandon, ReviewModule, gateOneVars
  <2> QED BY <1>7, <2>1, <2>2, <2>3 DEF CallStep, CheckVerdict
<1>8. ASSUME NEW m \in Modules, ConfirmModule(m) \/ SetModuleRequirement(m) PROVE NoneHalfway'
  BY <1>2, <1>8 DEF ConfirmModule, SetModuleRequirement, gateOneVars
<1>9. ASSUME NEW m \in Muns, CancelConference(m) PROVE NoneHalfway'
  BY <1>3, <1>9 DEF CancelConference, Cancel
<1>10. CASE UNCHANGED vars
  BY <1>2, <1>10 DEF vars, gateOneVars
<1> QED BY <1>5, <1>6, <1>7, <1>8, <1>9, <1>10 DEF PipelineNext

LEMMA StepIInv == IInv /\ [PipelineNext]_vars => IInv'
<1> SUFFICES ASSUME IInv, [PipelineNext]_vars PROVE IInv'
  OBVIOUS
<1>1. TypeOK'
  BY StepTypes DEF IInv
<1>2. Agreement'
  <2>1. CASE ApplicationStep /\ UNCHANGED pipelineVars
    BY <2>1, ApplicationAgreement
  <2>2. CASE RoundStep
    BY <2>2, RoundStepAgreement
  <2>3. ASSUME NEW c \in Calls, CallStep(c) PROVE Agreement'
    BY <2>3, CallStepAgreement
  <2>4. ASSUME NEW m \in Modules, ConfirmModule(m) \/ SetModuleRequirement(m) PROVE Agreement'
    BY <2>4, Quiet DEF ConfirmModule, SetModuleRequirement
  <2>5. ASSUME NEW m \in Muns, CancelConference(m) PROVE Agreement'
    BY <2>5, CancelAgreement
  <2>6. CASE UNCHANGED vars
    BY <2>6, Quiet DEF vars, pipelineVars
  <2> QED
    BY <2>1, <2>2, <2>3, <2>4, <2>5, <2>6 DEF PipelineNext
<1>3. NoneHalfway'
  BY StepNoneHalfway
<1> QED BY <1>1, <1>2, <1>3 DEF IInv, Agreement

\* The invariant and what it was strengthened for, in every behaviour.
THEOREM Inductive == PipelineSpec => []IInv
<1>1. PipelineInit => IInv
  <2>1. PipelineInit => NoneHalfway
    BY DEF PipelineInit, Init, NoneHalfway, Halfway
  <2> QED BY <2>1, InitTypeOK, InitAgreement DEF IInv, Agreement
<1> QED BY <1>1, StepIInv, PTL DEF PipelineSpec

-----------------------------------------------------------------------------
(* The theorems. *)

\* The rows keep their types, for any number of conferences, modules, calls
\* and rounds.
THEOREM TypeCorrect == PipelineSpec => []TypeOK
<1>1. IInv => TypeOK
  BY DEF IInv
<1> QED BY <1>1, Inductive, PTL

\* The application and the conference never drift apart, whatever gates 2 and
\* 3 do to the conference meanwhile.
THEOREM GateOneStaysInLockstep == PipelineSpec => []GateOneLockstep
<1>1. IInv => GateOneLockstep
  BY DEF IInv
<1> QED BY <1>1, Inductive, PTL

\* The round on file always fits the conference: publishing the latest one is
\* publishing the active one, and nobody waits without a round.
THEOREM RoundsFollow == PipelineSpec => []RoundFollowsConference
<1>1. IInv => RoundFollowsConference
  BY DEF IInv
<1> QED BY <1>1, Inductive, PTL

\* No transaction leaves a conference in a status that a submission only passes
\* through, so the final confirmation is always the second half of its way:
\* submitMunForReview has made the hop the confirmation could also make.
THEOREM NothingStopsHalfway == PipelineSpec => []NoneHalfway
<1>1. IInv => NoneHalfway
  BY DEF IInv
<1> QED BY <1>1, Inductive, PTL

\* The status the progress engine read without a lock may be old, but never
\* so old that the engine moves a conference out of review.
THEOREM EngineStaysOut == PipelineSpec => ProgressStaysOut
<1>1. IInv /\ [PipelineNext]_vars =>
        [\A c \in Calls :
           call[c].op = "progress" /\ call'[c] = Idle /\ status' # status =>
             status[Focus] \in Onboarding]_vars
  <2> SUFFICES ASSUME IInv, PipelineNext, NEW c \in Calls,
                      call[c].op = "progress", call'[c] = Idle, status' # status
               PROVE  status[Focus] \in Onboarding
    OBVIOUS
  <2>1. call \in [Calls -> CallType] /\ ApplicationTypeOK /\ call' # call
    BY TypeParts DEF IInv, Idle
  <2>2. PICK d \in Calls : CallStep(d)
    BY <2>1 DEF PipelineNext, pipelineVars, RoundStep, SubmitMunForReview, WithdrawSubmission,
       ApproveSubmission, ReturnSubmission, EnqueueForGoLive, PublishFromQueue, TakeDown,
       ReinstateMun, ConfirmModule, SetModuleRequirement, CancelConference
  <2>3. \/ MaterializeProgress(d) \/ AdvanceToVerification(d)
        \/ AdvanceToVerified(d) \/ PublishDirectly(d)
    BY <2>2 DEF CallStep, CheckVerdict, ReadProgress, CheckConfirmation, Attest, ReviewModule,
       ReadRows, ReadStatus, FindNoRound, Abandon, gateOneVars
  <2>4. c = d
    BY <2>1, <2>3, NotByHop
       DEF MaterializeProgress, AdvanceToVerification, AdvanceToVerified, PublishDirectly,
           Leave, Idle
  <2>5. MaterializeProgress(c)
    BY <2>3, <2>4 DEF AdvanceToVerification, AdvanceToVerified, PublishDirectly, At
  <2>6. PICK target \in {"ACTION_REQUIRED", "READY_FOR_SUBMISSION"} :
          call[c].seen \in Onboarding /\ Move(Focus, target)
    BY <2>5 DEF MaterializeProgress
  <2>7. status[Focus] \in MunStatus /\ CanTransition(status[Focus], target)
    BY <2>1, <2>6, FocusAssumption, Moving, Names
  <2>8. status[Focus] # "CANCELLED"
    BY <2>7, Table
  <2> QED BY <2>6, <2>8 DEF IInv, EnginesAgree
<1> QED BY <1>1, Inductive, PTL DEF PipelineSpec, ProgressStaysOut
=============================================================================
