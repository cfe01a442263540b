\* A team of three against a solo delegate, staff, sweeps and late links.
CONSTANTS
  t1 = t1  t2 = t2
  a1 = a1  a2 = a2  a3 = a3  b1 = b1  b2 = b2
  h1 = h1  h2 = h2  u = u
  Nobody = Nobody
  Teams = {t1, t2}
  SeatsOf <- TeamAndSolo
  HeadSeat <- HeadSeats
  Head <- Heads
  Delegates = {h1, h2, u}
  Capacity = 3
  Invitations = {i1, i2}
  Calls = {c1, c2}
  Resends = {r1}
  MaxLinks = 2
  HoldTTL = 0
  InviteTTL = 1
  Cooldown = 0
  MaxTime = 2
SPECIFICATION Spec
SYMMETRY Symmetry
CONSTRAINT SmallCrowd
INVARIANTS
  TypeOK
  TeamsFit
  ClaimedThroughOneInvitation
PROPERTIES
  ClosedInvitationsStay
  KeepsTeamPromise
CHECK_DEADLOCK FALSE
