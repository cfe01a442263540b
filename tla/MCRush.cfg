\* Safety: three calls rush for the same seats while the organizer resizes.
CONSTANTS
  u1 = u1  u2 = u2  k1 = k1
  gold = gold  silver = silver  room = room
  Users = {u1, u2}
  Keys = {k1}
  NoKey = NoKey
  Nobody = Nobody
  Calls = {c1, c2, c3}
  Passes = {gold, silver}
  Extras = {room}
  Rank <- MCRank
  Requests <- RushRequests
  InitialCapacity <- OneSeatEach
  Capacities = {1, 2}
  HoldTTL = 1
  Deadline = 0
  MaxTime = 2
SPECIFICATION Spec
SYMMETRY Symmetry
CONSTRAINT RushHour
INVARIANTS
  OneActivePerPass
PROPERTIES
  NeverOversold
  KeepsSeatPromise
CHECK_DEADLOCK FALSE
