\* One active holiday; its key is removed from config.txt, which is read again.
CONSTANTS
  k1 = k1
  s1 = s1
  t1 = t1
  Keys = {k1}
  Servers = {}
  Stats = {t1}
  Durations = {2}
  Periods = {3}
  MonthLen = 3
  FirstDay = 5
  NoHoliday = NoHoliday
  NoRow = NoRow
  NoCopy = NoCopy
  MaxTime = 6
  FirstTables <- ActiveOrNone
  GivenSchedules <- NoneOrMonthly
  MaxCommands = 1
  MaxChanges = 1
  MaxLosses = 0
SPECIFICATION Spec
CHECK_DEADLOCK FALSE
INVARIANT
  RemovedKeysEnd
