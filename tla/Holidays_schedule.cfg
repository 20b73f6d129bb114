\* One holiday of any schedule, no game server; two commands, one change.
CONSTANTS
  k1 = k1
  s1 = s1
  t1 = t1
  Keys = {k1}
  Servers = {}
  Stats = {t1}
  Durations = {1, 2}
  Periods = {3}
  MonthLen = 3
  FirstDay = 5
  NoHoliday = NoHoliday
  NoRow = NoRow
  NoCopy = NoCopy
  MaxTime = 6
  FirstTables <- SomeTables
  GivenSchedules <- AnyType
  MaxCommands = 2
  MaxChanges = 1
  MaxLosses = 1
SPECIFICATION Spec
CHECK_DEADLOCK FALSE
INVARIANTS
  StartsOncePerDate
  CheckEndsInTime
  CheckMissesNone
