------------------------------ MODULE MunStates ------------------------------
(***************************************************************************)
(* The statuses of a conference and the moves lib/lifecycle/               *)
(* mun-state-machine.ts allows between them.                               *)
(***************************************************************************)

AllowedTransitions ==
  [DRAFT |-> {"SUBMITTED", "CANCELLED"},
   SUBMITTED |-> {"UNDER_REVIEW", "CANCELLED"},
   UNDER_REVIEW |-> {"APPROVED", "REJECTED", "CHANGES_REQUESTED"},
   APPROVED |-> {"ONBOARDING", "CANCELLED"},
   REJECTED |-> {},
   CHANGES_REQUESTED |-> {"SUBMITTED", "CANCELLED"},
   ONBOARDING |-> {"ACTION_REQUIRED", "READY_FOR_SUBMISSION", "CONTENT_SUBMITTED", "CANCELLED"},
   ACTION_REQUIRED |-> {"ONBOARDING", "READY_FOR_SUBMISSION", "CANCELLED"},
   READY_FOR_SUBMISSION |-> {"CONTENT_SUBMITTED", "ACTION_REQUIRED", "ONBOARDING", "CANCELLED"},
   CONTENT_SUBMITTED |->
     {"AUTOMATED_VALIDATION", "ORGANIZER_CONFIRMATION", "ACTION_REQUIRED", "CANCELLED"},
   AUTOMATED_VALIDATION |-> {"ORGANIZER_CONFIRMATION", "ACTION_REQUIRED", "CANCELLED"},
   ORGANIZER_CONFIRMATION |-> {"VERIFICATION", "READY_FOR_SUBMISSION", "CANCELLED"},
   VERIFICATION |->
     {"VERIFIED", "CHANGES_REQUESTED", "ACTION_REQUIRED", "REJECTED", "CANCELLED"},
   VERIFIED |-> {"GO_LIVE_QUEUE", "PUBLISHED", "VERIFICATION", "CANCELLED"},
   GO_LIVE_QUEUE |-> {"PUBLISHING", "VERIFICATION", "CANCELLED"},
   PUBLISHING |-> {"PUBLISHED", "GO_LIVE_QUEUE", "CANCELLED"},
   PUBLISHED |->
     {"REGISTRATION_OPEN", "VERIFICATION", "VERIFIED", "UNPUBLISHED", "SUSPENDED", "CANCELLED"},
   UNPUBLISHED |-> {"GO_LIVE_QUEUE", "VERIFICATION", "CANCELLED"},
   REGISTRATION_OPEN |-> {"REGISTRATION_CLOSED", "VERIFICATION", "SUSPENDED", "CANCELLED"},
   REGISTRATION_CLOSED |-> {"CONFERENCE_ACTIVE", "VERIFICATION", "SUSPENDED", "CANCELLED"},
   CONFERENCE_ACTIVE |-> {"RESULTS_PENDING", "COMPLETED", "SUSPENDED", "CANCELLED"},
   RESULTS_PENDING |-> {"RESULTS_UNDER_REVIEW"},
   RESULTS_UNDER_REVIEW |-> {"COMPLETED", "RESULTS_PENDING"},
   COMPLETED |-> {"ARCHIVED"},
   ARCHIVED |-> {},
   CANCELLED |-> {},
   SUSPENDED |-> {"VERIFICATION", "CANCELLED"}]

MunStatus == DOMAIN AllowedTransitions

CanTransition(from, to) == to \in AllowedTransitions[from]
=============================================================================
