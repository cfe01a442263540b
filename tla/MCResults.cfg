\* Two and a half days: registration, conference and results of one conference.
CONSTANTS
  e1 = e1  e2 = e2  c1 = c1  c2 = c2  d1 = d1  a1 = a1  a2 = a2
  NoDate = NoDate  Nobody = Nobody
  PerDay = 2
  MaxTime = 4
  OpeningDates = {NoDate, 1}
  Deadlines = {2, 3}
  StartDates = {3, 4}
  Editors = {e1, e2}
  Delegates = {d1}
  Awards = {a1, a2}
  Winner <- OneWinner
  Calls = {c1, c2}
SPECIFICATION FairSpec
CONSTRAINT Bounds
INVARIANTS
  TypeOK
  NoAwardForNoShow
PROPERTIES
  AttendanceWhileOpen
  ReviewVerifiesAwards
  DueTransitionsHappen
CHECK_DEADLOCK FALSE
