\* Liveness: two calls that want the same two pools.
CONSTANTS
  u1 = u1  u2 = u2  k1 = k1
  gold = gold  silver = silver  room = room
  Users = {u1, u2}
  Keys = {k1}
  NoKey = NoKey
  Nobody = Nobody
  Calls = {c1, c2}
  Passes = {gold}
  Extras = {room}
  Rank <- MCRank
  Requests <- PairRequests
  InitialCapacity <- OneSeatEach
  Capacities = {1}
  HoldTTL = 1
  Deadline = 0
  MaxTime = 2
SPECIFICATION FairSpec
CONSTRAINT BeforeTheConference
PROPERTIES
  CallsFinish
  HoldsEnd
CHECK_DEADLOCK FALSE
