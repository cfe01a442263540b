\* Safety: two calls against every other writer of the rows.
CONSTANTS
  u1 = u1  u2 = u2  k1 = k1
  gold = gold  silver = silver  room = room
  Users = {u1, u2}
  Keys = {k1}
  NoKey = NoKey
  Nobody = Nobody
  Calls = {c1, c2}
  Passes = {gold, silver}
  Extras = {room}
  Rank <- MCRank
  Requests <- MixedRequests
  InitialCapacity <- OneSeatEach
  Capacities = {1}
  HoldTTL = 1
  Deadline = 0
  MaxTime = 2
SPECIFICATION Spec
SYMMETRY Symmetry
INVARIANTS
  TypeOK
  RetryTakesNoSecondSeat
  AnswersOwnRegistration
  CancelledConferenceHoldsNothing
PROPERTIES
  NeverOversold
CHECK_DEADLOCK FALSE
