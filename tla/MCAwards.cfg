\* An award created or deleted by a call that began before the submission.
CONSTANTS
  e1 = e1  e2 = e2  c1 = c1  c2 = c2  d1 = d1  a1 = a1  a2 = a2
  NoDate = NoDate  Nobody = Nobody
  PerDay = 1
  MaxTime = 1
  OpeningDates = {NoDate}
  Deadlines = {0}
  StartDates = {1}
  Editors = {}
  Delegates = {d1}
  Awards = {a1, a2}
  Winner <- OneWinner
  Calls = {c1, c2}
SPECIFICATION Spec
PROPERTIES
  AwardsFrozen
CHECK_DEADLOCK FALSE
