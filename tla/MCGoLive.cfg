\* One conference from its application to publication and back.
CONSTANTS
  Muns = {alpha, beta}
  Focus = alpha
  Modules = {dates, final}
  FinalReview = final
  Calls = {c1, c2}
  MaxRounds = 2
SPECIFICATION FairPipelineSpec
CONSTRAINT Bounds
INVARIANTS
  TypeOK
  GateOneLockstep
  RoundFollowsConference
PROPERTIES
  ProgressStaysOut
  LastVerdictAdvances
CHECK_DEADLOCK FALSE
