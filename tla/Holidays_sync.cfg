\* One holiday, one game server; two commands, two losses.
CONSTANTS
  k1 = k1
  s1 = s1
  t1 = t1
  Keys = {k1}
  Servers = {s1}
  Stats = {t1}
  Durations = {2}
  Periods = {3}
  MonthLen = 3
  FirstDay = 5
  NoHoliday = NoHoliday
  NoRow = NoRow
  NoCopy = NoCopy
  MaxTime = 6
  FirstTables <- ActiveOrNone
  GivenSchedules <- NoneOrMonthly
  MaxCommands = 2
  MaxChanges = 0
  MaxLosses = 2
SPECIFICATION Spec
CHECK_DEADLOCK FALSE
INVARIANTS
  TypeOK
  ServersFollowMaster
  RowsFollowMaster
