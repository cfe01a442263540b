\* Two teams invite one delegate, who accepts both invitations at once.
CONSTANTS
  t1 = t1  t2 = t2
  a1 = a1  a2 = a2  a3 = a3  b1 = b1  b2 = b2
  h1 = h1  h2 = h2  u = u
  Nobody = Nobody
  Teams = {t1, t2}
  SeatsOf <- TwoTeams
  HeadSeat <- HeadSeats
  Head <- Heads
  Delegates = {h1, h2, u}
  Capacity = 4
  Invitations = {i1, i2}
  Calls = {c1, c2}
  Resends = {}
  MaxLinks = 1
  HoldTTL = 0
  InviteTTL = 1
  Cooldown = 0
  MaxTime = 0
SPECIFICATION Spec
CONSTRAINT PaidTeams
INVARIANTS
  OneSeatPerDelegate
CHECK_DEADLOCK FALSE
