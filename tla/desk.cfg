SPECIFICATION Spec
CONSTANTS
  None = None
  PerDay = 2
  WindowDays = 2
  Items = {i1}
  Sightings = {o1}
  Templates = {t1}
  Projects = {site, tower}
  site = site
  tower = tower
  Windows = {w1, w2}
  Plans <- MCPlans
  Persons = {}
  Texts = {1}
  Moments = {0, 3}
  MaxInstant = 3
  MaxRevision = 3
  MaxRoutine = 6
  Scopes <- MCScopes
SYMMETRY MCSymmetry
INVARIANTS HistoryInOrder HistoryTellsItem SeenDaysAreNotMissed DueWorkIsShown
PROPERTIES RecordsAreRevised
CHECK_DEADLOCK FALSE
