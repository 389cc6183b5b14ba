SPECIFICATION Spec
CONSTANTS
  Callers = {c1, c2}
  ContactIds = {r1, r2}
  Editors = {e1}
  MaxRemovals = 1
  MaxRekeys = 1
  NoContact = NoContact
  Keys = {k1}
  Values = {v0, v1}
  Default = v0
  Clients = {q1, q2}
  NoRows = NoRows
  Calls = {l1}
  Grace = 3
  Retention = 4
  MaxDrops = 2
  MaxUpdates = 2
  Counts <- SmallCounts
  Limits <- SmallLimits
  MinutesPerDay = 6
  Windows <- AllWindows
INVARIANTS CallerIsResolved CallerIsVisible CacheIsCurrent PlanIsGreatest HaltIsStuck WaitIsExact
PROPERTIES SkippedSaveIsStored EndedRowStaysEnded BoardFollows
CHECK_DEADLOCK FALSE
