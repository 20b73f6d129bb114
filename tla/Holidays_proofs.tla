-------------------------- MODULE Holidays_proofs --------------------------
(***************************************************************************)
(* Proofs about Holidays, for every set of keys, servers and statistics,   *)
(* every calendar and every bound: the types, what a check leaves behind   *)
(* and what it starts, and that game servers and tables follow the Master. *)
(***************************************************************************)
EXTENDS Holidays, TLAPS, WellFoundedInduction

Time == now \in Nat /\ now >= FirstDay
Days == 0..(MonthLen - 1)

(* The arithmetic of a period: its first day is not after now, and now is  *)
(* before the next one.                                                    *)
LEMMA Division ==
  ASSUME NEW n \in Nat, NEW p \in Nat \ {0}
  PROVE  /\ n % p \in 0..(p - 1) /\ n - (n % p) \in Nat
         /\ n \div p \in Nat
         /\ p * (n \div p) \in Nat
         /\ p * (n \div p) <= n /\ n < p * (n \div p) + p
<1>1. n % p \in 0..(p - 1) /\ n % p <= n
  OBVIOUS
<1>2. n \div p \in Nat
  OBVIOUS
<1>3. p * (n \div p) \in Nat
  BY <1>2
<1>4. p * (n \div p) <= n
  OBVIOUS
<1>5. n < p * (n \div p) + p
  OBVIOUS
<1> QED
  BY <1>1, <1>2, <1>3, <1>4, <1>5

LEMMA DataFields ==
  ASSUME NEW d \in Data
  PROVE  /\ d.active \in BOOLEAN /\ d.start \in Nat /\ d.dur \in Nat \ {0} /\ d.dur \in Durations
         /\ d.sched \in Schedules /\ d.last \in Nat /\ d.rules \subseteq Rules
BY CalendarAssumption DEF Data

LEMMA PeriodicFields ==
  ASSUME NEW c \in Schedules, c.type = "periodic"
  PROVE  c.period \in Periods /\ c.day \in 0..(c.period - 1) /\ c.period \in Nat \ {0}
BY CalendarAssumption DEF Schedules

(* What a new RANDOM schedule changes, and its start: one chosen for the   *)
(* next month is after now.                                                *)
LEMMA AssignRandom ==
  ASSUME Time, NEW d \in Data, NEW allow \in BOOLEAN, NEW r \in Days
  PROVE  LET e == AssignRandomSchedule(d, allow, r) IN
           /\ e \in Data
           /\ e.active = d.active /\ e.dur = d.dur /\ e.sched = d.sched /\ e.last = 0 /\ e.rules = d.rules
           /\ ~allow => e.start > now
<1> DEFINE today == now % MonthLen
           latest == IF d.dur <= MonthLen THEN MonthLen - d.dur ELSE 0
           canUseCurrent == allow /\ today + d.dur <= MonthLen
           days == (IF canUseCurrent THEN today ELSE 0)..latest
           month == (now - today) + (IF canUseCurrent THEN 0 ELSE MonthLen)
           start == month + (IF r \in days THEN r ELSE latest)
<1>1. MonthLen \in Nat \ {0} /\ now \in Nat
  BY CalendarAssumption DEF Time
<1>2. today \in 0..(MonthLen - 1) /\ now - today \in Nat
  BY <1>1, Division
<1> HIDE DEF today
<1>3. d.dur \in Nat \ {0}
  BY DataFields
<1>4. latest \in Nat
  BY <1>1, <1>3
<1>5. start \in Nat /\ (~allow => start > now)
  BY <1>1, <1>2, <1>4 DEF Days
<1>6. AssignRandomSchedule(d, allow, r) = [d EXCEPT !.start = start, !.last = 0]
  BY DEF AssignRandomSchedule, today
<1> HIDE DEF start
<1>7. /\ [d EXCEPT !.start = start, !.last = 0] \in Data
      /\ [d EXCEPT !.start = start, !.last = 0].start = start
  BY <1>5 DEF Data
<1> QED
  BY <1>5, <1>6, <1>7 DEF Data

(* The due date of a holiday is its start, a date of its periodic          *)
(* schedule, or none.                                                      *)
LEMMA DueDateType ==
  ASSUME Time, NEW d \in Data
  PROVE  DueDate(d) \in Nat
<1>1. CASE d.sched.type = "none"
  BY <1>1 DEF DueDate
<1>2. CASE d.sched.type = "periodic"
  <2> DEFINE p == d.sched.period
             m == now \div p
  <2>1. p \in Periods /\ p \in Nat \ {0} /\ d.sched.day \in 0..(p - 1)
    BY <1>2, DataFields, PeriodicFields
  <2>2. now \in Nat /\ now > p
    BY <2>1, CalendarAssumption DEF Time
  <2>3. m \in Nat /\ p * m \in Nat /\ p * m <= now /\ now < p * m + p
    BY <2>1, <2>2, Division
  <2>4. m # 0
    BY <2>1, <2>2, <2>3
  <2> HIDE DEF m, p
  <2>5. m - 1 \in Nat
    BY <2>3, <2>4
  <2>6. p * m \in Nat /\ p * (m - 1) \in Nat
    BY <2>1, <2>3, <2>5
  <2>7. Occurrence(d.sched, 0) = p * m + d.sched.day /\ Occurrence(d.sched, 1) = p * (m - 1) + d.sched.day
    BY <2>3 DEF Occurrence, p, m
  <2>8. Occurrence(d.sched, 0) \in Nat /\ Occurrence(d.sched, 1) \in Nat
    BY <2>1, <2>6, <2>7
  <2> QED
    BY <1>2, <2>8 DEF DueDate, PeriodicDate
<1>3. CASE d.sched.type \notin {"none", "periodic"}
  BY <1>3, DataFields DEF DueDate
<1> QED
  BY <1>1, <1>2, <1>3

-----------------------------------------------------------------------------
(* The outcomes of a check of d: it is ended or left alone, started by a   *)
(* rule, given a new RANDOM start, or started for its due date.            *)
Moved(d, e) ==
  /\ ~d.active /\ d.sched.type = "random" /\ (d.start = 0 \/ Over(d))
  /\ e.last = 0 /\ e.start > now
Dated(d, e) ==
  LET date == DueDate(d) IN
    /\ ~d.active /\ ~StartsByRule(d)
    /\ date # 0 /\ Covers(date, d) /\ d.last # date
    /\ e = [d EXCEPT !.active = TRUE, !.start = date, !.last = date]

LEMMA CheckedEffect ==
  ASSUME Time, NEW d \in Data, NEW k, NEW r \in Days
  PROVE  LET e == Checked(k, d, r) IN
           /\ e \in Data /\ e.dur = d.dur /\ e.sched = d.sched /\ e.rules = d.rules
           /\ e.active => k \in enabled /\ Covers(e.start, e)
           /\ \/ e = Ended(d) \/ e = d
              \/ ~d.active /\ StartsByRule(d) /\ e = Started(d)
              \/ Moved(d, e) /\ ~e.active
              \/ Dated(d, e)
<1> DEFINE e == Checked(k, d, r)
<1>1. now \in Nat
  BY DEF Time
<1>2. d.active \in BOOLEAN /\ d.start \in Nat /\ d.dur \in Nat \ {0}
  BY DataFields
<1>3. /\ Ended(d) \in Data /\ Ended(d).dur = d.dur /\ Ended(d).sched = d.sched /\ ~Ended(d).active
      /\ Ended(d).rules = d.rules
  BY DEF Ended, Data
<1>4. CASE k \notin enabled \/ (d.active /\ ~Covers(d.start, d))
  <2>1. e = Ended(d)
    BY <1>4 DEF Checked
  <2> QED
    BY <1>3, <2>1
<1>5. CASE k \in enabled /\ d.active /\ Covers(d.start, d)
  <2>1. e = Ended(d) \/ e = d
    BY <1>5 DEF Checked
  <2> QED
    BY <1>3, <1>5, <2>1
<1>6. CASE k \in enabled /\ ~d.active /\ StartsByRule(d)
  <2>1. e = Started(d)
    BY <1>6 DEF Checked, StartsByRule
  <2>2. /\ Started(d) \in Data /\ Started(d).dur = d.dur /\ Started(d).sched = d.sched
        /\ Started(d).start = now /\ Started(d).rules = d.rules
    BY <1>1 DEF Started, Data
  <2>3. Covers(now, Started(d))
    BY <1>1, <1>2, <2>2 DEF Covers
  <2> QED
    BY <1>6, <2>1, <2>2, <2>3
<1>7. CASE k \in enabled /\ ~d.active /\ ~StartsByRule(d)
  <2>1. e = Scheduled(d, r)
    BY <1>7 DEF Checked, StartsByRule
  <2>2. CASE d.sched.type = "random" /\ (d.start = 0 \/ Over(d))
    <3>1. e = AssignRandomSchedule(d, FALSE, r)
      BY <2>1, <2>2 DEF Scheduled
    <3> HIDE DEF e
    <3>2. /\ e \in Data
          /\ e.active = d.active /\ e.dur = d.dur /\ e.sched = d.sched /\ e.last = 0 /\ e.rules = d.rules
          /\ e.start > now
      BY <3>1, AssignRandom
    <3>3. Moved(d, e) /\ ~e.active
      BY <1>7, <2>2, <3>2 DEF Moved
    <3> QED
      BY <3>2, <3>3 DEF e
  <2>3. CASE ~(d.sched.type = "random" /\ (d.start = 0 \/ Over(d)))
    <3> DEFINE date == DueDate(d)
               f == [d EXCEPT !.active = TRUE, !.start = date, !.last = date]
    <3>1. e = IF date # 0 /\ Covers(date, d) /\ d.last # date THEN f ELSE d
      BY <2>1, <2>3 DEF Scheduled, ScheduledStart
    <3>2. date \in Nat
      BY DueDateType
    <3> HIDE DEF e, date
    <3>3. CASE e = d
      BY <1>7, <3>3 DEF e
    <3>4. CASE e # d
      <4>1. e = f /\ date # 0 /\ Covers(date, d) /\ d.last # date
        BY <3>1, <3>4
      <4>2. f \in Data /\ f.dur = d.dur /\ f.sched = d.sched /\ f.start = date /\ f.rules = d.rules
        BY <3>2 DEF Data
      <4>3. Covers(f.start, f)
        BY <4>1, <4>2 DEF Covers
      <4>4. Dated(d, e)
        BY <1>7, <4>1 DEF Dated, date
      <4> QED
        BY <1>7, <4>1, <4>2, <4>3, <4>4 DEF e
    <3> QED
      BY <3>3, <3>4
  <2> QED
    BY <2>2, <2>3
<1> QED
  BY <1>2, <1>4, <1>5, <1>6, <1>7

(* A check leaves no holiday active that is disabled or out of its window. *)
LEMMA EndsInTime == TypeOK => CheckEndsInTime
<1> SUFFICES ASSUME TypeOK, up, NEW k \in Keys, Exists(k), NEW d \in AfterCheck(k), d.active
             PROVE  k \in enabled /\ Covers(d.start, d)
  BY DEF CheckEndsInTime
<1>1. hol[k] \in Data /\ Time
  BY DEF TypeOK, Exists, Time
<1>2. PICK r \in Days : d = Checked(k, hol[k], r)
  BY DEF AfterCheck, Days
<1> QED
  BY <1>1, <1>2, CheckedEffect

-----------------------------------------------------------------------------
(* Types of what a change saves and sends. *)

HolidaySet == [Keys -> Data \cup {NoHoliday}]

LEMMA ChangeTypes ==
  /\ Nothing \in HolidaySet
  /\ \A k \in Keys, d \in Data \cup {NoHoliday} : Only(k, d) \in HolidaySet
  /\ \A h \in HolidaySet, h2 \in HolidaySet : Changes(h, h2) \in HolidaySet
BY DEF Nothing, Only, Changes, HolidaySet

LEMMA DataParts ==
  ASSUME NEW d \in Data
  PROVE  /\ Row(d) \in RowType /\ Info(d) \in Infos /\ Info(d) # NoCopy
         /\ Started(d) \in [active : {TRUE}, start : {now}, dur : {d.dur}, sched : {d.sched}, last : {d.last}, rules : {d.rules}]
         /\ Ended(d) \in Data
<1>1. Row(d) \in RowType /\ Info(d) \in Infos
  BY DEF Data, Row, Info, RowType, Infos
<1>2. Info(d) # NoCopy
  BY <1>1, InputsAssumption
<1> QED
  BY <1>1, <1>2 DEF Data, Started, Ended

LEMMA StartedType == ASSUME Time, NEW d \in Data PROVE Started(d) \in Data
BY DEF Started, Data, Time

LEMMA SavesType ==
  ASSUME NEW f \in HolidaySet, NEW k \in Keys, NEW by \in {"loop", "event"}
  PROVE  Saves(k, by, f) \in Seq(TaskType)
<1>1. CASE f[k] = NoHoliday
  BY <1>1 DEF Saves
<1>2. CASE f[k] # NoHoliday
  <2>1. f[k] \in Data
    BY <1>2 DEF HolidaySet
  <2>2. Task("update", by, Row(f[k])) \in TaskType
    BY <2>1, DataParts DEF Task, TaskType
  <2> QED
    BY <1>2, <2>2 DEF Saves
<1> QED
  BY <1>1, <1>2

LEMMA PushType ==
  ASSUME NEW f \in HolidaySet, NEW q \in Seq(Packets)
  PROVE  Packet(f) \in Packets /\ Push(q, f) \in Seq(Packets)
<1>1. ASSUME NEW k \in Keys
      PROVE  (IF f[k] = NoHoliday THEN NoCopy ELSE Info(f[k])) \in Infos \cup {NoCopy}
  BY DataParts DEF HolidaySet
<1>2. Packet(f) \in Packets
  BY <1>1 DEF Packet, Packets
<1> QED
  BY <1>2 DEF Push

LEMMA SyncType ==
  ASSUME TypeOK, NEW f \in HolidaySet, NEW g \in HolidaySet, Sync(f, g)
  PROVE  down' \in [Servers -> Seq(Packets)]
<1>1. \A s \in Servers : down[s] \in Seq(Packets)
  BY DEF TypeOK
<1>2. \A s \in Servers : Push(Push(down[s], f), g) \in Seq(Packets)
  BY <1>1, PushType
<1> QED
  BY <1>1, <1>2 DEF Sync

LEMMA SaveAndSyncType ==
  ASSUME TypeOK, NEW f \in HolidaySet, NEW g \in HolidaySet, NEW by \in {"loop", "event"}, SaveAndSync(by, f, g)
  PROVE  dbq' \in [Keys -> Seq(TaskType)] /\ down' \in [Servers -> Seq(Packets)]
<1>1. ASSUME NEW k \in Keys
      PROVE  dbq[k] \o Saves(k, by, f) \o Saves(k, by, g) \in Seq(TaskType)
  <2>1. dbq[k] \in Seq(TaskType) /\ Saves(k, by, f) \in Seq(TaskType) /\ Saves(k, by, g) \in Seq(TaskType)
    BY SavesType DEF TypeOK
  <2> QED
    BY <2>1
<1>2. dbq' = [k \in Keys |-> dbq[k] \o Saves(k, by, f) \o Saves(k, by, g)] /\ Sync(f, g)
  BY DEF SaveAndSync
<1> QED
  BY <1>1, <1>2, SyncType

LEMMA QueueType ==
  ASSUME TypeOK, NEW k \in Keys, NEW tasks \in Seq(TaskType), Queue(k, tasks)
  PROVE  dbq' \in [Keys -> Seq(TaskType)]
<1>1. dbq[k] \o tasks \in Seq(TaskType)
  BY DEF TypeOK
<1> QED
  BY <1>1 DEF Queue, TypeOK

(* A check of all holidays neither makes nor removes one. *)
LEMMA AllCheckedType ==
  ASSUME Time, NEW h \in HolidaySet, NEW pick \in Picks
  PROVE  /\ AllChecked(h, pick) \in HolidaySet
         /\ \A k \in Keys : h[k] # NoHoliday =>
              AllChecked(h, pick)[k] = Checked(k, h[k], pick[k]) /\ AllChecked(h, pick)[k] \in Data
         /\ \A k \in Keys : h[k] = NoHoliday => AllChecked(h, pick)[k] = NoHoliday
<1>1. ASSUME NEW k \in Keys, h[k] # NoHoliday
      PROVE  Checked(k, h[k], pick[k]) \in Data
  BY <1>1, CheckedEffect DEF Picks, Days, HolidaySet
<1> QED
  BY <1>1 DEF AllChecked, HolidaySet

LEMMA NotedType ==
  ASSUME NEW f \in [Keys -> Seq(Nat)], NEW h, NEW h2, \A k \in Keys : h[k] # NoHoliday => h2[k] \in Data
  PROVE  Noted(f, h, h2) \in [Keys -> Seq(Nat)]
<1>1. ASSUME NEW k \in Keys, StartsBySchedule(h, h2, k)
      PROVE  Append(f[k], h2[k].start) \in Seq(Nat)
  BY <1>1, DataFields DEF StartsBySchedule
<1> QED
  BY <1>1 DEF Noted

-----------------------------------------------------------------------------
(* Types after each action. *)

LEMMA TypeParts ==
  ASSUME TypeOK
  PROVE  /\ Time /\ hol \in HolidaySet /\ fired \in [Keys -> Seq(Nat)]
         /\ dbq \in [Keys -> Seq(TaskType)] /\ down \in [Servers -> Seq(Packets)]
         /\ \A k \in Keys : Exists(k) => hol[k] \in Data
BY DEF TypeOK, Time, HolidaySet, Exists

LEMMA CommandType ==
  ASSUME TypeOK, Command, hol' \in HolidaySet, fired' \in [Keys -> Seq(Nat)],
         dbq' \in [Keys -> Seq(TaskType)], down' \in [Servers -> Seq(Packets)]
  PROVE  TypeOK'
BY DEF TypeOK, Command, worldVars, HolidaySet

LEMMA CheckType ==
  ASSUME TypeOK, CheckScheduleAndRules
  PROVE  TypeOK'
<1>1. PICK pick \in Picks :
        LET h == AllChecked(hol, pick) IN
          /\ up
          /\ hol' = h
          /\ fired' = Noted(fired, hol, h)
          /\ SaveAndSync("loop", Changes(hol, h), Nothing)
          /\ UNCHANGED <<up, enabled, listed, rows, ruleRows, astray, srv, proc, copy, worldVars, counters>>
  BY DEF CheckScheduleAndRules
<1> DEFINE h == AllChecked(hol, pick)
<1>2. h \in HolidaySet /\ \A k \in Keys : hol[k] # NoHoliday => h[k] \in Data
  BY TypeParts, AllCheckedType
<1> HIDE DEF h
<1>3. Noted(fired, hol, h) \in [Keys -> Seq(Nat)]
  BY <1>2, TypeParts, NotedType
<1>4. Changes(hol, h) \in HolidaySet /\ Nothing \in HolidaySet
  BY <1>2, TypeParts, ChangeTypes
<1>5. dbq' \in [Keys -> Seq(TaskType)] /\ down' \in [Servers -> Seq(Packets)]
  BY <1>1, <1>4, SaveAndSyncType DEF h
<1> QED
  BY <1>1, <1>2, <1>3, <1>5 DEF TypeOK, worldVars, counters, HolidaySet, h

(* A command that gives one holiday the data d and saves and sends it. *)
LEMMA OneSavedType ==
  ASSUME TypeOK, Command, NEW k \in Keys, NEW d \in Data, hol' = [hol EXCEPT ![k] = d],
         SaveAndSync("event", Only(k, d), Nothing), fired' \in [Keys -> Seq(Nat)]
  PROVE  TypeOK'
<1>1. hol' \in HolidaySet
  BY TypeParts DEF HolidaySet
<1>2. dbq' \in [Keys -> Seq(TaskType)] /\ down' \in [Servers -> Seq(Packets)]
  BY ChangeTypes, SaveAndSyncType
<1> QED
  BY <1>1, <1>2, CommandType

LEMMA StartEndType ==
  ASSUME TypeOK, NEW k \in Keys, StartHoliday(k) \/ EndHoliday(k)
  PROVE  TypeOK'
<1>1. /\ Command /\ Exists(k) /\ UNCHANGED fired
      /\ \E d \in {Started(hol[k]), Ended(hol[k])} :
           hol' = [hol EXCEPT ![k] = d] /\ SaveAndSync("event", Only(k, d), Nothing)
  BY DEF StartHoliday, EndHoliday
<1>2. hol[k] \in Data /\ Time
  BY <1>1, TypeParts
<1>3. Started(hol[k]) \in Data /\ Ended(hol[k]) \in Data
  BY <1>2, StartedType, DataParts
<1>4. fired' \in [Keys -> Seq(Nat)]
  BY <1>1, TypeParts
<1> QED
  BY <1>1, <1>3, <1>4, OneSavedType

LEMMA DisplayTypeType ==
  ASSUME TypeOK, NEW k \in Keys, SetHolidayType(k)
  PROVE  TypeOK'
<1>1. hol[k] \in Data /\ hol' = hol /\ fired' = fired
  BY TypeParts DEF SetHolidayType
<1>2. hol = [hol EXCEPT ![k] = hol[k]]
  BY TypeParts DEF HolidaySet
<1>3. hol' = [hol EXCEPT ![k] = hol[k]] /\ fired' \in [Keys -> Seq(Nat)]
  BY <1>1, <1>2, TypeParts
<1> QED
  BY <1>1, <1>3, OneSavedType DEF SetHolidayType

LEMMA UpdateScheduleType ==
  ASSUME Time, NEW d \in Data, NEW today \in BOOLEAN, NEW r \in Days
  PROVE  UpdateScheduleData(d, today, r) \in Data
BY AssignRandom DEF UpdateScheduleData

LEMMA CreateType ==
  ASSUME TypeOK, NEW k \in Keys, NEW dur \in Durations, NEW start \in StartTimes, NEW sched \in GivenSchedules,
         NEW today \in BOOLEAN, NEW r \in Days, AdminCreateHoliday(k, dur, start, sched, today, r)
  PROVE  TypeOK'
<1> DEFINE new == [active |-> FALSE, start |-> start, dur |-> dur, sched |-> sched, last |-> 0, rules |-> {}]
           d == UpdateScheduleData(new, today, r)
<1>1. start \in Nat /\ sched \in Schedules
  BY TypeParts, InputsAssumption DEF StartTimes, Time
<1>2. new \in Data
  BY <1>1 DEF Data
<1>3. d \in Data
  BY <1>2, TypeParts, UpdateScheduleType
<1>4. /\ Command /\ hol' = [hol EXCEPT ![k] = d] /\ fired' = [fired EXCEPT ![k] = <<>>]
      /\ Queue(k, <<Task("insert", "event", Row(d))>>) /\ Sync(Only(k, d), Nothing)
  BY DEF AdminCreateHoliday
<1> HIDE DEF d
<1>5. hol' \in HolidaySet /\ fired' \in [Keys -> Seq(Nat)]
  BY <1>3, <1>4, TypeParts DEF HolidaySet
<1>6. Task("insert", "event", Row(d)) \in TaskType
  BY <1>3, DataParts DEF Task, TaskType
<1>7. dbq' \in [Keys -> Seq(TaskType)]
  <2>1. <<Task("insert", "event", Row(d))>> \in Seq(TaskType)
    BY <1>6
  <2> QED
    BY <1>4, <2>1, QueueType
<1>8. down' \in [Servers -> Seq(Packets)]
  BY <1>3, <1>4, ChangeTypes, SyncType
<1> QED
  BY <1>4, <1>5, <1>7, <1>8, CommandType

LEMMA DeleteType ==
  ASSUME TypeOK, NEW k \in Keys, AdminDeleteHoliday(k)
  PROVE  TypeOK'
<1> DEFINE ended == IF hol[k].active THEN Only(k, Ended(hol[k])) ELSE Nothing
           tasks == <<Task("delete", "event", {}), Task("clearrules", "event", {})>>
<1>1. /\ Command /\ Exists(k) /\ hol' = [hol EXCEPT ![k] = NoHoliday] /\ fired' = fired
      /\ Queue(k, Saves(k, "event", ended) \o tasks) /\ Sync(ended, Nothing)
  BY DEF AdminDeleteHoliday
<1>2. hol[k] \in Data
  BY <1>1, TypeParts
<1>3. ended \in HolidaySet /\ Nothing \in HolidaySet
  BY <1>2, DataParts, ChangeTypes
<1> HIDE DEF ended
<1>4. Saves(k, "event", ended) \in Seq(TaskType)
  BY <1>3, SavesType
<1>5. tasks \in Seq(TaskType)
  BY DEF Task, TaskType
<1> HIDE DEF tasks
<1>6. Saves(k, "event", ended) \o tasks \in Seq(TaskType)
  BY <1>4, <1>5
<1>7. dbq' \in [Keys -> Seq(TaskType)] /\ down' \in [Servers -> Seq(Packets)]
  BY <1>1, <1>3, <1>6, QueueType, SyncType
<1>8. hol' \in HolidaySet /\ fired' \in [Keys -> Seq(Nat)]
  BY <1>1, TypeParts DEF HolidaySet
<1> QED
  BY <1>1, <1>7, <1>8, CommandType

LEMMA SetAndCheckType ==
  ASSUME TypeOK, Command, NEW k \in Keys, NEW d \in Data, NEW clear \in BOOLEAN, SetAndCheck(k, d, clear)
  PROVE  TypeOK'
<1> DEFINE set == [hol EXCEPT ![k] = d]
           f == IF clear THEN [fired EXCEPT ![k] = <<>>] ELSE fired
<1>1. PICK pick \in Picks :
        LET h == AllChecked(set, pick) IN
          /\ hol' = h /\ fired' = Noted(f, set, h)
          /\ SaveAndSync("event", Only(k, d), Changes(set, h))
  BY DEF SetAndCheck
<1> DEFINE h == AllChecked(set, pick)
<1>2. set \in HolidaySet /\ f \in [Keys -> Seq(Nat)]
  BY TypeParts DEF HolidaySet
<1> HIDE DEF set, f
<1>3. h \in HolidaySet /\ \A i \in Keys : set[i] # NoHoliday => h[i] \in Data
  BY <1>2, TypeParts, AllCheckedType
<1> HIDE DEF h
<1>4. Noted(f, set, h) \in [Keys -> Seq(Nat)]
  BY <1>2, <1>3, NotedType
<1>5. Only(k, d) \in HolidaySet /\ Changes(set, h) \in HolidaySet
  BY <1>2, <1>3, ChangeTypes
<1>6. hol' = h /\ fired' = Noted(f, set, h) /\ SaveAndSync("event", Only(k, d), Changes(set, h))
  BY <1>1 DEF h
<1>7. dbq' \in [Keys -> Seq(TaskType)] /\ down' \in [Servers -> Seq(Packets)]
  BY <1>5, <1>6, SaveAndSyncType
<1> QED
  BY <1>3, <1>4, <1>6, <1>7, CommandType

LEMMA DurationType ==
  ASSUME TypeOK, NEW k \in Keys, NEW dur \in Durations, SetHolidayDuration(k, dur)
  PROVE  TypeOK'
<1>1. Command /\ SetAndCheck(k, [hol[k] EXCEPT !.dur = dur], FALSE) /\ hol[k] \in Data
  BY TypeParts DEF SetHolidayDuration
<1>2. [hol[k] EXCEPT !.dur = dur] \in Data
  BY <1>1 DEF Data
<1> QED
  BY <1>1, <1>2, SetAndCheckType

LEMMA UnixTimeType ==
  ASSUME TypeOK, NEW k \in Keys, NEW start \in StartTimes, SetHolidayUnixTime(k, start)
  PROVE  TypeOK'
<1>1. Command /\ SetAndCheck(k, [hol[k] EXCEPT !.start = start, !.last = 0], TRUE) /\ hol[k] \in Data
  BY TypeParts DEF SetHolidayUnixTime
<1>2. start \in Nat
  BY TypeParts DEF StartTimes, Time
<1>3. [hol[k] EXCEPT !.start = start, !.last = 0] \in Data
  BY <1>1, <1>2 DEF Data
<1> QED
  BY <1>1, <1>3, SetAndCheckType

LEMMA ScheduleType ==
  ASSUME TypeOK, NEW k \in Keys, NEW sched \in GivenSchedules, NEW today \in BOOLEAN, NEW r \in Days,
         SetHolidaySchedule(k, sched, today, r)
  PROVE  TypeOK'
<1> DEFINE new == [hol[k] EXCEPT !.sched = sched, !.last = 0]
           d == UpdateScheduleData(new, today, r)
<1>1. /\ Command /\ Exists(k) /\ hol' = [hol EXCEPT ![k] = d] /\ fired' = [fired EXCEPT ![k] = <<>>]
      /\ SaveAndSync("event", Only(k, d), Nothing)
  BY DEF SetHolidaySchedule
<1>2. hol[k] \in Data /\ sched \in Schedules
  BY <1>1, TypeParts, InputsAssumption
<1>3. new \in Data
  BY <1>2 DEF Data
<1>4. d \in Data
  BY <1>3, TypeParts, UpdateScheduleType
<1> HIDE DEF d
<1>5. fired' \in [Keys -> Seq(Nat)]
  BY <1>1, TypeParts
<1> QED
  BY <1>1, <1>4, <1>5, OneSavedType

(* A command that gives one holiday the rules given and queues t. *)
LEMMA OneRulesType ==
  ASSUME TypeOK, Command, NEW k \in Keys, Exists(k), NEW rules \in SUBSET Rules, NEW t \in TaskType,
         hol' = [hol EXCEPT ![k].rules = rules], Queue(k, <<t>>), UNCHANGED <<fired, down>>
  PROVE  TypeOK'
<1>1. hol[k] \in Data
  BY TypeParts
<1>2. [hol[k] EXCEPT !.rules = rules] \in Data
  BY <1>1 DEF Data
<1>3. hol' \in HolidaySet
  BY <1>2, TypeParts DEF HolidaySet
<1>4. <<t>> \in Seq(TaskType)
  OBVIOUS
<1>5. dbq' \in [Keys -> Seq(TaskType)]
  BY <1>4, QueueType
<1> QED
  BY <1>3, <1>5, TypeParts, CommandType

LEMMA RulesType ==
  ASSUME TypeOK, NEW k \in Keys,
         \/ ClearHolidayRules(k)
         \/ \E rule \in Rules : AddHolidayRule(k, rule) \/ DeleteHolidayRule(k, rule)
  PROVE  TypeOK'
<1>1. ASSUME Exists(k) PROVE hol[k].rules \subseteq Rules
  BY <1>1, TypeParts, DataFields
<1>2. CASE ClearHolidayRules(k)
  <2>1. Task("clearrules", "event", {}) \in TaskType
    BY DEF Task, TaskType
  <2> QED
    BY <1>2, <2>1, OneRulesType DEF ClearHolidayRules
<1>3. ASSUME NEW rule \in Rules, AddHolidayRule(k, rule)
      PROVE  TypeOK'
  <2>1. Task("addrule", "event", rule) \in TaskType
    BY DEF Task, TaskType
  <2>2. hol[k].rules \cup {rule} \in SUBSET Rules
    BY <1>1, <1>3 DEF AddHolidayRule
  <2>3. hol' = [hol EXCEPT ![k].rules = hol[k].rules \cup {rule}]
    BY <1>3 DEF AddHolidayRule
  <2> QED
    BY <1>3, <2>1, <2>2, <2>3, OneRulesType DEF AddHolidayRule
<1>4. ASSUME NEW rule \in Rules, DeleteHolidayRule(k, rule)
      PROVE  TypeOK'
  <2>1. Task("delrule", "event", rule) \in TaskType
    BY DEF Task, TaskType
  <2>2. hol[k].rules \ {rule} \in SUBSET Rules
    BY <1>1, <1>4 DEF DeleteHolidayRule
  <2>3. hol' = [hol EXCEPT ![k].rules = hol[k].rules \ {rule}]
    BY <1>4 DEF DeleteHolidayRule
  <2> QED
    BY <1>4, <2>1, <2>2, <2>3, OneRulesType DEF DeleteHolidayRule
<1> QED
  BY <1>2, <1>3, <1>4

(* The commands accept all the numbers of days there are but 0. *)
LEMMA DurationsAccepted == AcceptedDurations = Durations
<1>1. \A dur \in Durations : dur \in Nat \ {0}
  BY CalendarAssumption
<1>2. \A dur \in Durations : dur > 0
  BY <1>1
<1>3. ~(0 > 0)
  OBVIOUS
<1> QED
  BY <1>2, <1>3 DEF AcceptedDurations, GivenDurations

LEMMA CommandsType ==
  ASSUME TypeOK, NEW k \in Keys, Commands(k)
  PROVE  TypeOK'
BY DurationsAccepted, StartEndType, DeleteType, DisplayTypeType, RulesType, DurationType, UnixTimeType, ScheduleType, CreateType
   DEF Commands, Days

(* A task taken out of a queue leaves one of the same type. *)
LEMMA RemoveType ==
  ASSUME NEW T, NEW q \in Seq(T), NEW i \in DOMAIN q
  PROVE  RemoveAt(q, i) \in Seq(T) /\ q[i] \in T
<1>1. SubSeq(q, 1, i - 1) \in Seq(T) /\ SubSeq(q, i + 1, Len(q)) \in Seq(T) /\ q[i] \in T
  OBVIOUS
<1> QED
  BY <1>1 DEF RemoveAt

LEMMA RowAfterType ==
  ASSUME NEW row \in RowType \cup {NoRow}, NEW rules \in SUBSET Rules, NEW t \in TaskType
  PROVE  RowAfter(row, t) \in RowType \cup {NoRow} /\ RulesAfter(rules, t) \in SUBSET Rules
BY DEF RowAfter, RulesAfter, TaskType

LEMMA TaskDoneType ==
  ASSUME TypeOK, NEW k \in Keys, NEW i \in DOMAIN dbq[k], DbTask(k, i) \/ DbTaskFails(k, i)
  PROVE  TypeOK'
<1>1. dbq[k] \in Seq(TaskType) /\ rows[k] \in RowType \cup {NoRow} /\ ruleRows[k] \in SUBSET Rules
  BY DEF TypeOK
<1>2. RemoveAt(dbq[k], i) \in Seq(TaskType) /\ dbq[k][i] \in TaskType
  BY <1>1, RemoveType
<1>3. RowAfter(rows[k], dbq[k][i]) \in RowType \cup {NoRow} /\ RulesAfter(ruleRows[k], dbq[k][i]) \in SUBSET Rules
  BY <1>1, <1>2, RowAfterType
<1>4. dbq' = [dbq EXCEPT ![k] = RemoveAt(dbq[k], i)]
  BY DEF DbTask, DbTaskFails
<1>5. dbq' \in [Keys -> Seq(TaskType)]
  BY <1>2, <1>4 DEF TypeOK
<1>6. CASE DbTask(k, i)
  <2>1. rows' \in [Keys -> RowType \cup {NoRow}] /\ ruleRows' \in [Keys -> SUBSET Rules] /\ astray' \subseteq Keys
    BY <1>3, <1>6 DEF DbTask, TypeOK
  <2> QED
    BY <1>5, <1>6, <2>1 DEF DbTask, TypeOK, dataVars, netVars, worldVars, counters
<1>7. CASE DbTaskFails(k, i)
  BY <1>5, <1>7 DEF DbTaskFails, TypeOK, dataVars, netVars, worldVars
<1> QED
  BY <1>6, <1>7

LEMMA LoadedType ==
  ASSUME TypeOK, NEW k \in Keys, rows[k] # NoRow, NEW rulesOK \in BOOLEAN, NEW r \in Days
  PROVE  Loaded(k, rulesOK, r) \in Data
<1> DEFINE d == [active |-> rows[k].active, start |-> rows[k].start, dur |-> rows[k].dur, sched |-> rows[k].sched,
                 last |-> 0, rules |-> IF rulesOK THEN ruleRows[k] ELSE {}]
<1>1. d \in Data
  BY DEF TypeOK, RowType, Data
<1>2. AssignRandomSchedule(d, FALSE, r) \in Data
  BY <1>1, TypeParts, AssignRandom
<1> QED
  BY <1>1, <1>2 DEF Loaded

LEMMA LoadType ==
  ASSUME TypeOK, NEW rowsOK \in BOOLEAN, NEW rulesOK \in BOOLEAN, LoadFromDatabase(rowsOK, rulesOK)
  PROVE  TypeOK'
<1> DEFINE Held(pick) ==
             [k \in Keys |-> IF rowsOK /\ rows[k] # NoRow THEN Loaded(k, rulesOK, pick[k]) ELSE NoHoliday]
           Anew(h) == [k \in Keys |-> IF h[k] # NoHoliday /\ h[k].start # rows[k].start THEN h[k] ELSE NoHoliday]
<1>1. PICK pick \in Picks :
        /\ up' = TRUE /\ ~up
        /\ hol' = Held(pick)
        /\ dbq' = [k \in Keys |-> Saves(k, "loop", Anew(Held(pick)))]
        /\ astray' \subseteq Keys /\ (losses' = losses \/ losses' = losses + 1)
        /\ enabled' = config /\ listed' = config
        /\ UNCHANGED <<fired, rows, ruleRows, netVars, worldVars, commands, changes>>
  BY DEF LoadFromDatabase
<1>2. Held(pick) \in HolidaySet
  BY LoadedType DEF Picks, Days, HolidaySet
<1> HIDE DEF Held
<1>3. Anew(Held(pick)) \in HolidaySet
  BY <1>2 DEF HolidaySet
<1> HIDE DEF Anew
<1>4. dbq' \in [Keys -> Seq(TaskType)]
  BY <1>1, <1>3, SavesType
<1> QED
  BY <1>1, <1>2, <1>4 DEF TypeOK, HolidaySet, netVars, worldVars

LEMMA EndsType ==
  ASSUME TypeOK, MasterEnds
  PROVE  TypeOK'
<1>1. <<>> \in Seq(TaskType) /\ <<>> \in Seq(Packets) /\ <<>> \in Seq(Nat)
  OBVIOUS
<1>2. /\ hol' \in [Keys -> Data \cup {NoHoliday}] /\ fired' \in [Keys -> Seq(Nat)] /\ dbq' \in [Keys -> Seq(TaskType)]
      /\ down' \in [Servers -> Seq(Packets)]
  BY <1>1 DEF MasterEnds
<1>3. /\ srv' \in [Servers -> {"none", "authed", "ready"}] /\ proc' \in [Servers -> {"down", "linked", "cut"}]
      /\ \A s \in Servers : srv'[s] = "none" /\ proc'[s] # "linked"
  BY DEF MasterEnds, TypeOK
<1>4. astray' \subseteq Keys /\ losses' \in Nat /\ up' = FALSE /\ enabled' \subseteq Keys /\ listed' \subseteq Keys
  BY DEF MasterEnds, TypeOK
<1>5. UNCHANGED <<copy, rows, ruleRows, config, met, now, commands, changes>>
  BY DEF MasterEnds, worldVars
<1> QED
  BY <1>2, <1>3, <1>4, <1>5 DEF TypeOK

LEMMA ServerType ==
  ASSUME TypeOK, NEW s \in Servers,
         AddServer(s) \/ RemoveServer(s) \/ LoseLink(s) \/ GameEnds(s)
  PROVE  TypeOK'
<1>1. CASE AddServer(s)
  BY <1>1 DEF TypeOK, AddServer, dataVars, dbVars, worldVars, counters
<1>2. CASE RemoveServer(s)
  BY <1>2 DEF TypeOK, RemoveServer, dataVars, dbVars, worldVars, counters
<1>3. CASE LoseLink(s)
  <2>1. <<>> \in Seq(Packets)
    OBVIOUS
  <2>2. down' \in [Servers -> Seq(Packets)]
    BY <1>3, <2>1 DEF TypeOK, LoseLink
  <2> QED
    BY <1>3, <2>2 DEF TypeOK, LoseLink, dataVars, dbVars, worldVars
<1>4. CASE GameEnds(s)
  BY <1>4 DEF TypeOK, GameEnds, dataVars, dbVars, worldVars, counters
<1> QED
  BY <1>1, <1>2, <1>3, <1>4

LEMMA ReadyType ==
  ASSUME TypeOK, NEW s \in Servers, ServerReady(s)
  PROVE  TypeOK'
<1>1. Sync(hol, Nothing)
  BY DEF ServerReady
<1>2. down' \in [Servers -> Seq(Packets)]
  BY <1>1, TypeParts, ChangeTypes, SyncType
<1> QED
  BY <1>2 DEF TypeOK, ServerReady, dataVars, dbVars, worldVars, counters

LEMMA PacketType ==
  ASSUME TypeOK, NEW s \in Servers, OnTCPPacket(s)
  PROVE  TypeOK'
<1> DEFINE f == Head(down[s])
           seen == [k \in Keys |-> IF f[k] = NoCopy THEN copy[s][k] ELSE f[k]]
<1>1. down[s] \in Seq(Packets) /\ down[s] # <<>>
  BY DEF TypeOK, OnTCPPacket
<1>2. f \in Packets /\ Tail(down[s]) \in Seq(Packets)
  BY <1>1
<1> HIDE DEF f
<1>3. seen \in [Keys -> Infos \cup {NoCopy}]
  BY <1>2 DEF Packets, TypeOK
<1>4. copy' = [copy EXCEPT ![s] = seen] /\ down' = [down EXCEPT ![s] = Tail(down[s])]
  BY DEF OnTCPPacket, f, TypeOK
<1> HIDE DEF seen
<1> QED
  BY <1>2, <1>3, <1>4 DEF TypeOK, OnTCPPacket, dataVars, dbVars, worldVars, counters

LEMMA WorldType ==
  ASSUME TypeOK,
         ReloadConfig \/ Tick \/ (\E rule \in Rules : StatChanges(rule)) \/ (\E k \in Keys : EditConfig(k))
  PROVE  TypeOK'
<1>1. CASE ReloadConfig
  BY <1>1 DEF TypeOK, ReloadConfig, dbVars, netVars, worldVars
<1>2. CASE Tick
  BY <1>2, CalendarAssumption DEF TypeOK, Tick, dataVars, dbVars, netVars, counters
<1>3. CASE \E rule \in Rules : StatChanges(rule)
  BY <1>3 DEF TypeOK, StatChanges, dataVars, dbVars, netVars
<1>4. CASE \E k \in Keys : EditConfig(k)
  BY <1>4 DEF TypeOK, EditConfig, dataVars, dbVars, netVars
<1> QED
  BY <1>1, <1>2, <1>3, <1>4

LEMMA TypeInit == Init => TypeOK
<1> SUFFICES ASSUME Init PROVE TypeOK
  OBVIOUS
<1>1. PICK tables \in [Keys -> FirstTables] :
        rows = [k \in Keys |-> tables[k].row] /\ ruleRows = [k \in Keys |-> tables[k].rules]
  BY DEF Init
<1>2. \A k \in Keys : tables[k].row \in RowType \cup {NoRow} /\ tables[k].rules \in SUBSET Rules
  BY InputsAssumption
<1>3. rows \in [Keys -> RowType \cup {NoRow}] /\ ruleRows \in [Keys -> SUBSET Rules]
  BY <1>1, <1>2
<1>4. <<>> \in Seq(TaskType) /\ <<>> \in Seq(Packets) /\ <<>> \in Seq(Nat)
  OBVIOUS
<1>5. /\ fired \in [Keys -> Seq(Nat)] /\ dbq \in [Keys -> Seq(TaskType)] /\ down \in [Servers -> Seq(Packets)]
      /\ hol \in [Keys -> Data \cup {NoHoliday}] /\ copy \in [Servers -> [Keys -> Infos \cup {NoCopy}]]
  BY <1>4 DEF Init
<1>6. /\ srv \in [Servers -> {"none", "authed", "ready"}] /\ proc \in [Servers -> {"down", "linked", "cut"}]
      /\ \A s \in Servers : srv[s] = "none" /\ proc[s] # "linked"
  BY DEF Init
<1>7. /\ up = FALSE /\ enabled = {} /\ listed = {} /\ config = Keys /\ met = {} /\ astray = {}
      /\ now = FirstDay /\ commands = 0 /\ changes = 0 /\ losses = 0
  BY Zenon DEF Init
<1>8. now \in Nat /\ now >= FirstDay
  BY <1>7, CalendarAssumption
<1> QED
  BY <1>3, <1>5, <1>6, <1>7, <1>8 DEF TypeOK

LEMMA TypeNext == TypeOK /\ [Next]_vars => TypeOK'
<1> SUFFICES ASSUME TypeOK, [Next]_vars PROVE TypeOK'
  OBVIOUS
<1>1. CASE UNCHANGED vars
  BY <1>1 DEF TypeOK, vars, dataVars, dbVars, netVars, worldVars, counters
<1>2. CASE Next
  BY <1>2, CheckType, EndsType, LoadType, CommandsType, TaskDoneType, ServerType, ReadyType, PacketType, WorldType
     DEF Next
<1> QED
  BY <1>1, <1>2

(* The state stays well typed, and without the Master no server is         *)
(* registered and no link is up.                                           *)
THEOREM TypeCorrect == Spec => []TypeOK
BY TypeInit, TypeNext, PTL DEF Spec

(* Whatever was started, set or switched off, the next check leaves active *)
(* only what is enabled and inside its window.                             *)
THEOREM ChecksEndInTime == Spec => []CheckEndsInTime
BY TypeCorrect, EndsInTime, PTL

-----------------------------------------------------------------------------
(* StartsOncePerDate.  The dates a schedule has started at grow: the date  *)
(* of the next start is after each of them, because a date stays in the    *)
(* holiday's last until a later one is due.                                *)

(* What keeps x, a date d has started at, from being used again: in a      *)
(* periodic schedule last is a date of it and not before x; otherwise the  *)
(* start is x itself, and last says so, or it has moved on for good.       *)
Since(d, x) ==
  /\ 1 <= x /\ x <= now
  /\ d.sched.type = "periodic" =>
       x <= d.last /\ d.last <= now /\ \E m \in Nat : d.last = d.sched.period * m + d.sched.day
  /\ d.sched.type \in {"unix", "random"} =>
       x <= d.start /\ (d.last = x \/ (x < d.start /\ x < now))
Once(h, f) ==
  \A k \in Keys :
    /\ \A i, j \in DOMAIN f[k] : i < j => f[k][i] < f[k][j]
    /\ h[k] # NoHoliday => \A i \in DOMAIN f[k] : Since(h[k], f[k][i])
OnceInv == Once(hol, fired) /\ (~up => \A k \in Keys : fired[k] = <<>>)

LEMMA Multiples ==
  ASSUME NEW p \in Nat \ {0}, NEW m \in Nat, NEW n \in Nat, p * m < p * n + p
  PROVE  p * m <= p * n
<1> SUFFICES ASSUME m > n PROVE FALSE
  OBVIOUS
<1>1. PICK e \in Nat : m = n + 1 + e
  <2>1. m - n - 1 \in Nat /\ m = n + 1 + (m - n - 1)
    OBVIOUS
  <2> QED
    BY <2>1
<1>2. p * m = p * n + p + p * e /\ p * e \in Nat
  BY <1>1
<1> QED
  BY <1>2

(* The date found is the last one of the schedule that is not after now.   *)
LEMMA LatestDate ==
  ASSUME Time, NEW d \in Data, d.sched.type = "periodic", Covers(PeriodicDate(d), d)
  PROVE  /\ \E m \in Nat : PeriodicDate(d) = d.sched.period * m + d.sched.day
         /\ \A m \in Nat : d.sched.period * m + d.sched.day <= now =>
              d.sched.period * m + d.sched.day <= PeriodicDate(d)
<1> DEFINE p == d.sched.period
           day == d.sched.day
           n == now \div p
           date == PeriodicDate(d)
<1>1. p \in Periods /\ p \in Nat \ {0} /\ day \in 0..(p - 1)
  BY DataFields, PeriodicFields
<1>2. now \in Nat /\ now > p
  BY <1>1, CalendarAssumption DEF Time
<1>3. n \in Nat /\ p * n \in Nat /\ p * n <= now /\ now < p * n + p
  BY <1>1, <1>2, Division
<1>4. n # 0
  BY <1>1, <1>2, <1>3
<1>5. Occurrence(d.sched, 0) = p * n + day /\ Occurrence(d.sched, 1) = p * (n - 1) + day
  BY <1>3 DEF Occurrence
<1>6. Covers(date, d) /\ d.dur \in Nat \ {0}
  BY DataFields
<1>7. date = IF Covers(p * n + day, d) THEN p * n + day ELSE p * (n - 1) + day
  BY <1>5 DEF PeriodicDate
<1> HIDE DEF n, p, day, date
<1>8. n - 1 \in Nat /\ p * (n - 1) \in Nat /\ p * (n - 1) + p = p * n
  BY <1>1, <1>3, <1>4
<1>9. CASE Covers(p * n + day, d)
  <2>1. date = p * n + day
    BY <1>7, <1>9
  <2>2. ASSUME NEW m \in Nat, p * m + day <= now
        PROVE  p * m + day <= date
    <3>1. p * m \in Nat
      BY <1>1
    <3>2. p * m < p * n + p
      BY <1>1, <1>2, <1>3, <2>2, <3>1
    <3>3. p * m <= p * n
      BY <1>1, <1>3, <3>2, Multiples
    <3> QED
      BY <1>1, <1>3, <2>1, <3>1, <3>3
  <2> QED
    BY <1>3, <2>1, <2>2 DEF p, day, date
<1>10. CASE ~Covers(p * n + day, d)
  <2>1. date = p * (n - 1) + day
    BY <1>7, <1>10
  <2>2. p * n + day > now
    BY <1>1, <1>2, <1>3, <1>6, <1>8, <1>10, <2>1 DEF Covers
  <2>3. ASSUME NEW m \in Nat, p * m + day <= now
        PROVE  p * m + day <= date
    <3>1. p * m \in Nat
      BY <1>1
    <3>2. p * m < p * (n - 1) + p
      BY <1>1, <1>2, <1>3, <1>8, <2>2, <2>3, <3>1
    <3>3. p * m <= p * (n - 1)
      BY <1>1, <1>8, <3>2, Multiples
    <3> QED
      BY <1>1, <1>8, <2>1, <3>1, <3>3
  <2> QED
    BY <1>8, <2>1, <2>3 DEF p, day, date
<1> QED
  BY <1>9, <1>10

(* A check that starts d for a date starts it for one after all it has     *)
(* started at.                                                             *)
LEMMA DatedLater ==
  ASSUME Time, NEW d \in Data, NEW e, Dated(d, e)
  PROVE  /\ e.start \in Nat /\ Since(e, e.start)
         /\ \A x \in Nat : Since(d, x) => x < e.start /\ Since(e, x)
<1> DEFINE date == DueDate(d)
<1>1. /\ date # 0 /\ Covers(date, d) /\ d.last # date
      /\ e = [d EXCEPT !.active = TRUE, !.start = date, !.last = date]
  BY DEF Dated
<1>2. date \in Nat /\ now \in Nat /\ d.dur \in Nat
  BY DueDateType, DataFields DEF Time
<1>3. 1 <= date /\ date <= now
  BY <1>1, <1>2 DEF Covers
<1>4. e.start = date /\ e.last = date /\ e.sched = d.sched
  BY <1>1 DEF Data
<1>5. d.sched.type \in {"none", "unix", "random", "periodic"} /\ d.start \in Nat /\ d.last \in Nat
  BY DataFields DEF Schedules
<1>6. CASE d.sched.type = "periodic"
  <2>1. date = PeriodicDate(d)
    BY <1>6 DEF DueDate
  <2>2. /\ \E m \in Nat : date = d.sched.period * m + d.sched.day
        /\ \A m \in Nat : d.sched.period * m + d.sched.day <= now => d.sched.period * m + d.sched.day <= date
    BY <1>1, <1>6, <2>1, LatestDate
  <2> HIDE DEF date
  <2>3. Since(e, date)
    BY <1>3, <1>4, <1>6, <2>2 DEF Since
  <2>4. ASSUME NEW x \in Nat, Since(d, x)
        PROVE  x < date /\ Since(e, x)
    <3>1. 1 <= x /\ x <= now /\ x <= d.last /\ d.last <= date
      BY <1>6, <2>2, <2>4 DEF Since
    <3>2. x < date
      BY <1>1, <1>2, <1>5, <3>1
    <3> QED
      BY <1>2, <1>3, <1>4, <1>6, <2>2, <3>1, <3>2 DEF Since
  <2> QED
    BY <1>2, <1>4, <2>3, <2>4
<1>7. CASE d.sched.type \in {"unix", "random"}
  <2>1. date = d.start
    BY <1>7 DEF DueDate
  <2> HIDE DEF date
  <2> QED
    BY <1>1, <1>2, <1>3, <1>4, <1>5, <1>7, <2>1 DEF Since
<1>8. CASE d.sched.type = "none"
  BY <1>1, <1>8 DEF DueDate
<1> QED
  BY <1>5, <1>6, <1>7, <1>8

(* Neither does any other outcome of a check free a date. *)
LEMMA CheckedSince ==
  ASSUME Time, NEW d \in Data, NEW k, NEW r \in Days, NEW x \in Nat, Since(d, x)
  PROVE  Since(Checked(k, d, r), x)
<1> DEFINE e == Checked(k, d, r)
<1>1. /\ e \in Data
      /\ \/ e = Ended(d) \/ e = d
         \/ ~d.active /\ StartsByRule(d) /\ e = Started(d)
         \/ Moved(d, e) /\ ~e.active
         \/ Dated(d, e)
      /\ e.sched = d.sched
  BY CheckedEffect
<1> HIDE DEF e
<1>2. now \in Nat /\ d.start \in Nat /\ d.last \in Nat /\ d.dur \in Nat \ {0}
  BY DataFields DEF Time
<1>3. CASE e = Ended(d)
  <2>1. e.start = d.start /\ e.last = d.last
    BY <1>3 DEF Ended, Data
  <2> QED
    BY <1>1, <2>1 DEF Since, e
<1>4. CASE e = Started(d)
  <2>1. e.start = now /\ e.last = d.last
    BY <1>4 DEF Started, Data
  <2> QED
    BY <1>1, <1>2, <2>1 DEF Since, e
<1>5. CASE Moved(d, e)
  <2>1. d.sched.type = "random" /\ e.start > now /\ e.last = 0 /\ (d.start = 0 \/ now >= d.start + d.dur)
    BY <1>5 DEF Moved, Over
  <2>2. x < now /\ x < e.start
    <3>1. e.start \in Nat
      BY <1>1, DataFields
    <3> QED
      BY <1>2, <2>1, <3>1 DEF Since
  <2> QED
    BY <1>1, <1>2, <2>1, <2>2, DataFields DEF Since, e
<1>6. CASE Dated(d, e)
  BY <1>6, DatedLater DEF e
<1> QED
  BY <1>1, <1>3, <1>4, <1>5, <1>6 DEF e

LEMMA CheckedOnce ==
  ASSUME Time, NEW h \in HolidaySet, NEW f \in [Keys -> Seq(Nat)], NEW pick \in Picks, Once(h, f)
  PROVE  Once(AllChecked(h, pick), Noted(f, h, AllChecked(h, pick)))
<1> DEFINE h2 == AllChecked(h, pick)
           f2 == Noted(f, h, h2)
<1> SUFFICES ASSUME NEW k \in Keys
             PROVE  /\ \A i, j \in DOMAIN f2[k] : i < j => f2[k][i] < f2[k][j]
                    /\ h2[k] # NoHoliday => \A i \in DOMAIN f2[k] : Since(h2[k], f2[k][i])
  BY DEF Once
<1>1. /\ f[k] \in Seq(Nat)
      /\ \A i, j \in DOMAIN f[k] : i < j => f[k][i] < f[k][j]
      /\ h[k] # NoHoliday => \A i \in DOMAIN f[k] : Since(h[k], f[k][i])
  BY DEF Once
<1>2. f2[k] = IF StartsBySchedule(h, h2, k) THEN Append(f[k], h2[k].start) ELSE f[k]
  BY DEF Noted
<1>3. CASE h[k] = NoHoliday
  <2>1. h2[k] = NoHoliday /\ ~StartsBySchedule(h, h2, k)
    BY <1>3 DEF AllChecked, StartsBySchedule
  <2> QED
    BY <1>1, <1>2, <2>1
<1>4. CASE h[k] # NoHoliday
  <2>1. h[k] \in Data /\ pick[k] \in Days /\ h2[k] = Checked(k, h[k], pick[k])
    BY <1>4 DEF HolidaySet, Picks, Days, AllChecked
  <2> HIDE DEF h2, f2
  <2>2. \A i \in DOMAIN f[k] : Since(h2[k], f[k][i])
    BY <1>1, <1>4, <2>1, CheckedSince
  <2>3. CASE ~StartsBySchedule(h, h2, k)
    BY <1>1, <1>2, <2>2, <2>3
  <2>4. CASE StartsBySchedule(h, h2, k)
    <3>1. ~h[k].active /\ h2[k].active /\ ~StartsByRule(h[k])
      BY <2>4 DEF StartsBySchedule
    <3>2. ~Ended(h[k]).active
      BY <2>1 DEF Ended, Data
    <3>3. Dated(h[k], h2[k])
      BY <2>1, <3>1, <3>2, CheckedEffect
    <3>4. /\ h2[k].start \in Nat /\ Since(h2[k], h2[k].start)
          /\ \A x \in Nat : Since(h[k], x) => x < h2[k].start
      BY <2>1, <3>3, DatedLater
    <3>5. /\ DOMAIN f2[k] = 1..(Len(f[k]) + 1)
          /\ \A i \in 1..Len(f[k]) : f2[k][i] = f[k][i]
          /\ f2[k][Len(f[k]) + 1] = h2[k].start
      BY <1>1, <1>2, <2>4, <3>4
    <3>6. \A i \in 1..Len(f[k]) : f[k][i] < h2[k].start /\ f[k][i] \in Nat
      BY <1>1, <1>4, <3>4
    <3>7. \A i, j \in DOMAIN f2[k] : i < j => f2[k][i] < f2[k][j]
      BY <1>1, <3>5, <3>6
    <3> QED
      BY <1>1, <2>2, <3>4, <3>5, <3>7
  <2> QED
    BY <2>3, <2>4
<1> QED
  BY <1>3, <1>4

(* A change of one holiday that frees no date, that forgets its dates, or  *)
(* that removes it.                                                        *)
LEMMA OneOnce ==
  ASSUME TypeOK, Once(hol, fired), NEW k \in Keys, NEW d
  PROVE  /\ Exists(k) /\ (\A x \in Nat : Since(hol[k], x) => Since(d, x)) => Once([hol EXCEPT ![k] = d], fired)
         /\ Once([hol EXCEPT ![k] = d], [fired EXCEPT ![k] = <<>>])
         /\ Once([hol EXCEPT ![k] = NoHoliday], fired)
<1>1. /\ hol \in [Keys -> Data \cup {NoHoliday}] /\ fired \in [Keys -> Seq(Nat)]
      /\ \A j \in Keys : fired[j] \in Seq(Nat) /\ \A i \in DOMAIN fired[j] : fired[j][i] \in Nat
  BY DEF TypeOK
<1>2. ASSUME Exists(k), \A x \in Nat : Since(hol[k], x) => Since(d, x)
      PROVE  Once([hol EXCEPT ![k] = d], fired)
  BY <1>1, <1>2 DEF Once, Exists
<1>3. Once([hol EXCEPT ![k] = d], [fired EXCEPT ![k] = <<>>])
  <2> DEFINE f == [fired EXCEPT ![k] = <<>>]
             h == [hol EXCEPT ![k] = d]
  <2>1. ASSUME NEW j \in Keys
        PROVE  /\ \A i, n \in DOMAIN f[j] : i < n => f[j][i] < f[j][n]
               /\ h[j] # NoHoliday => \A i \in DOMAIN f[j] : Since(h[j], f[j][i])
    <3>1. CASE j = k
      <4>1. f[j] = <<>> /\ DOMAIN f[j] = {}
        BY <1>1, <3>1
      <4> QED
        BY <4>1
    <3>2. CASE j # k
      <4>1. f[j] = fired[j] /\ h[j] = hol[j]
        BY <1>1, <3>2
      <4> QED
        BY <4>1 DEF Once
    <3> QED
      BY <3>1, <3>2
  <2> QED
    BY <2>1 DEF Once
<1>4. Once([hol EXCEPT ![k] = NoHoliday], fired)
  BY <1>1 DEF Once
<1> QED
  BY <1>2, <1>3, <1>4

(* The invariant looks at the clock, which only Tick moves. *)
LEMMA OnceKept ==
  ASSUME UNCHANGED <<up, now>>, up, Once(hol', fired')
  PROVE  OnceInv'
BY DEF OnceInv, Once, Since

LEMMA SetAndCheckOnce ==
  ASSUME TypeOK, OnceInv, Command, NEW k \in Keys, NEW d \in Data, NEW clear \in BOOLEAN, SetAndCheck(k, d, clear),
         clear \/ (Exists(k) /\ \A x \in Nat : Since(hol[k], x) => Since(d, x))
  PROVE  OnceInv'
<1> DEFINE set == [hol EXCEPT ![k] = d]
           f == IF clear THEN [fired EXCEPT ![k] = <<>>] ELSE fired
<1>1. PICK pick \in Picks : hol' = AllChecked(set, pick) /\ fired' = Noted(f, set, AllChecked(set, pick))
  BY DEF SetAndCheck
<1>2. set \in HolidaySet /\ f \in [Keys -> Seq(Nat)]
  BY TypeParts DEF HolidaySet
<1>3. Once(set, f)
  BY OneOnce DEF OnceInv
<1> HIDE DEF set, f
<1>4. Once(hol', fired')
  BY <1>1, <1>2, <1>3, TypeParts, CheckedOnce
<1> QED
  BY <1>4, OnceKept DEF Command, worldVars

(* A command on the rules of a holiday changes nothing else of it. *)
LEMMA RulesStep ==
  ASSUME TypeOK, NEW k \in Keys,
         \/ ClearHolidayRules(k)
         \/ \E rule \in Rules : AddHolidayRule(k, rule) \/ DeleteHolidayRule(k, rule)
  PROVE  /\ Command /\ Exists(k) /\ fired' = fired /\ down' = down
         /\ \E rules \in SUBSET Rules : hol' = [hol EXCEPT ![k] = [hol[k] EXCEPT !.rules = rules]]
<1>1. Command /\ Exists(k) /\ fired' = fired /\ down' = down
  BY DEF ClearHolidayRules, AddHolidayRule, DeleteHolidayRule
<1>2. hol[k].rules \subseteq Rules
  BY <1>1, TypeParts, DataFields
<1>3. CASE ClearHolidayRules(k)
  BY <1>1, <1>3 DEF ClearHolidayRules
<1>4. ASSUME NEW rule \in Rules, AddHolidayRule(k, rule)
      PROVE  \E rules \in SUBSET Rules : hol' = [hol EXCEPT ![k] = [hol[k] EXCEPT !.rules = rules]]
  <2>1. hol[k].rules \cup {rule} \in SUBSET Rules
    BY <1>2
  <2> QED
    BY <1>4, <2>1 DEF AddHolidayRule
<1>5. ASSUME NEW rule \in Rules, DeleteHolidayRule(k, rule)
      PROVE  \E rules \in SUBSET Rules : hol' = [hol EXCEPT ![k] = [hol[k] EXCEPT !.rules = rules]]
  <2>1. hol[k].rules \ {rule} \in SUBSET Rules
    BY <1>2
  <2> QED
    BY <1>5, <2>1 DEF DeleteHolidayRule
<1> QED
  BY <1>1, <1>3, <1>4, <1>5

LEMMA CommandsOnce ==
  ASSUME TypeOK, OnceInv, NEW k \in Keys, Commands(k)
  PROVE  OnceInv'
<1> USE DEF OnceInv
<1> DEFINE Kept(d) == \A x \in Nat : Since(hol[k], x) => Since(d, x)
<1>0. ASSUME Command, Once(hol', fired') PROVE OnceInv'
  BY <1>0, OnceKept DEF Command, worldVars
<1>1. ASSUME Exists(k)
      PROVE  /\ Kept(Started(hol[k])) /\ Kept(Ended(hol[k])) /\ hol[k] \in Data
             /\ \A dur \in Durations : [hol[k] EXCEPT !.dur = dur] \in Data /\ Kept([hol[k] EXCEPT !.dur = dur])
             /\ \A rules \in SUBSET Rules : Kept([hol[k] EXCEPT !.rules = rules])
  <2>1. hol[k] \in Data /\ Time
    BY <1>1, TypeParts
  <2>2. Kept(Started(hol[k]))
    BY <2>1, DataFields DEF Since, Started, Data, Time
  <2>3. Kept(Ended(hol[k]))
    BY <2>1 DEF Since, Ended, Data
  <2>4. ASSUME NEW dur \in Durations
        PROVE  [hol[k] EXCEPT !.dur = dur] \in Data /\ Kept([hol[k] EXCEPT !.dur = dur])
    BY <2>1 DEF Since, Data
  <2>5. ASSUME NEW rules \in SUBSET Rules
        PROVE  Kept([hol[k] EXCEPT !.rules = rules])
    BY <2>1 DEF Since, Data
  <2> QED
    BY <2>1, <2>2, <2>3, <2>4, <2>5
<1>2. CASE StartHoliday(k) \/ EndHoliday(k)
  <2>1. /\ Command /\ Exists(k) /\ fired' = fired
        /\ \E d \in {Started(hol[k]), Ended(hol[k])} : hol' = [hol EXCEPT ![k] = d]
    BY <1>2 DEF StartHoliday, EndHoliday
  <2> QED
    BY <1>0, <1>1, <2>1, OneOnce
<1>3. CASE AdminDeleteHoliday(k)
  BY <1>0, <1>3, OneOnce DEF AdminDeleteHoliday
<1>4. CASE SetHolidayType(k)
  BY <1>0, <1>4 DEF SetHolidayType
<1>5. ASSUME NEW dur \in Durations, SetHolidayDuration(k, dur)
      PROVE  OnceInv'
  <2>1. Command /\ Exists(k) /\ SetAndCheck(k, [hol[k] EXCEPT !.dur = dur], FALSE)
    BY <1>5 DEF SetHolidayDuration
  <2> HIDE DEF OnceInv
  <2> QED
    BY <1>1, <2>1, SetAndCheckOnce
<1>6. ASSUME NEW start \in StartTimes, SetHolidayUnixTime(k, start)
      PROVE  OnceInv'
  <2>1. Command /\ Exists(k) /\ SetAndCheck(k, [hol[k] EXCEPT !.start = start, !.last = 0], TRUE)
    BY <1>6 DEF SetHolidayUnixTime
  <2>2. hol[k] \in Data /\ start \in Nat
    BY <2>1, TypeParts DEF StartTimes, Time
  <2>3. [hol[k] EXCEPT !.start = start, !.last = 0] \in Data
    BY <2>2 DEF Data
  <2> HIDE DEF OnceInv
  <2> QED
    BY <2>1, <2>3, SetAndCheckOnce
<1>7. ASSUME NEW sched, NEW today, NEW r, SetHolidaySchedule(k, sched, today, r)
      PROVE  OnceInv'
  BY <1>0, <1>7, OneOnce DEF SetHolidaySchedule
<1>8. ASSUME NEW dur, NEW start, NEW sched, NEW today, NEW r, AdminCreateHoliday(k, dur, start, sched, today, r)
      PROVE  OnceInv'
  BY <1>0, <1>8, OneOnce DEF AdminCreateHoliday
<1>9. CASE ClearHolidayRules(k) \/ \E rule \in Rules : AddHolidayRule(k, rule) \/ DeleteHolidayRule(k, rule)
  <2>1. /\ Command /\ Exists(k) /\ fired' = fired
        /\ \E rules \in SUBSET Rules : hol' = [hol EXCEPT ![k] = [hol[k] EXCEPT !.rules = rules]]
    BY <1>9, RulesStep
  <2> QED
    BY <1>0, <1>1, <2>1, OneOnce
<1> QED
  BY <1>2, <1>3, <1>4, <1>5, <1>6, <1>7, <1>8, <1>9, DurationsAccepted DEF Commands

LEMMA OnceInit == Init => OnceInv
<1> SUFFICES ASSUME Init PROVE OnceInv
  OBVIOUS
<1>1. fired = [k \in Keys |-> <<>>]
  BY Zenon DEF Init
<1>2. \A k \in Keys : fired[k] = <<>> /\ DOMAIN fired[k] = {}
  BY <1>1
<1> QED
  BY <1>2 DEF OnceInv, Once

LEMMA OnceNext == TypeOK /\ OnceInv /\ [Next]_vars => OnceInv'
<1> SUFFICES ASSUME TypeOK, OnceInv, [Next]_vars PROVE OnceInv'
  OBVIOUS
<1>1. CASE CheckScheduleAndRules
  <2>1. PICK pick \in Picks : hol' = AllChecked(hol, pick) /\ fired' = Noted(fired, hol, AllChecked(hol, pick))
    BY <1>1 DEF CheckScheduleAndRules
  <2>2. Once(hol', fired')
    BY <2>1, TypeParts, CheckedOnce DEF OnceInv
  <2> QED
    BY <1>1, <2>2, OnceKept DEF CheckScheduleAndRules, worldVars
<1>2. ASSUME NEW k \in Keys, Commands(k) PROVE OnceInv'
  BY <1>2, CommandsOnce
<1>3. CASE MasterEnds
  <2>1. \A k \in Keys : fired'[k] = <<>> /\ DOMAIN fired'[k] = {}
    BY <1>3 DEF MasterEnds
  <2> QED
    BY <2>1 DEF OnceInv, Once
<1>4. ASSUME NEW rowsOK \in BOOLEAN, NEW rulesOK \in BOOLEAN, LoadFromDatabase(rowsOK, rulesOK)
      PROVE  OnceInv'
  <2>1. up' = TRUE /\ ~up /\ fired' = fired
    BY <1>4 DEF LoadFromDatabase
  <2>2. \A k \in Keys : fired'[k] = <<>> /\ DOMAIN fired'[k] = {}
    BY <2>1 DEF OnceInv
  <2> QED
    BY <2>1, <2>2 DEF OnceInv, Once
<1>5. CASE Tick
  <2>1. UNCHANGED <<up, hol, fired>> /\ now' = now + 1 /\ now \in Nat
    BY <1>5 DEF Tick, TypeOK, dataVars
  <2>2. ASSUME NEW k \in Keys, NEW x \in Nat, hol[k] # NoHoliday, Since(hol[k], x)
        PROVE  Since(hol[k], x)'
    <3>1. hol[k] \in Data /\ hol[k].last \in Nat
      BY <2>2, TypeParts, DataFields DEF HolidaySet
    <3> QED
      BY <2>1, <2>2, <3>1 DEF Since
  <2>3. \A k \in Keys : fired[k] \in Seq(Nat) /\ \A i \in DOMAIN fired[k] : fired[k][i] \in Nat
    BY DEF TypeOK
  <2> QED
    BY <2>1, <2>2, <2>3 DEF OnceInv, Once
<1>6. CASE UNCHANGED <<up, hol, fired, now>>
  BY <1>6 DEF OnceInv, Once, Since
<1>7. ASSUME \/ ReloadConfig \/ UNCHANGED vars
             \/ \E k \in Keys : \E i \in DOMAIN dbq[k] : DbTask(k, i) \/ DbTaskFails(k, i)
             \/ \E s \in Servers : AddServer(s) \/ ServerReady(s) \/ RemoveServer(s) \/ OnTCPPacket(s)
                                     \/ LoseLink(s) \/ GameEnds(s)
             \/ (\E rule \in Rules : StatChanges(rule)) \/ (\E k \in Keys : EditConfig(k))
      PROVE  UNCHANGED <<up, hol, fired, now>>
  BY <1>7 DEF ReloadConfig, vars, DbTask, DbTaskFails, AddServer, ServerReady, RemoveServer, OnTCPPacket, LoseLink,
              GameEnds, StatChanges, EditConfig, dataVars, worldVars
<1> QED
  BY <1>1, <1>2, <1>3, <1>4, <1>5, <1>6, <1>7 DEF Next

LEMMA OnceInjective == TypeOK /\ OnceInv => StartsOncePerDate
<1> SUFFICES ASSUME TypeOK, OnceInv, NEW k \in Keys, NEW i \in DOMAIN fired[k], NEW j \in DOMAIN fired[k],
                    fired[k][i] = fired[k][j], i # j
             PROVE  FALSE
  BY DEF StartsOncePerDate, IsInjective
<1>1. fired[k] \in Seq(Nat)
  BY DEF TypeOK
<1>2. i \in Nat /\ j \in Nat /\ fired[k][i] \in Nat
  BY <1>1
<1>3. i < j \/ j < i
  BY <1>2
<1> QED
  BY <1>2, <1>3 DEF OnceInv, Once

(* No date of a schedule starts its holiday twice, whatever an admin or a  *)
(* rule does in between: the dates it has started at only grow.            *)
THEOREM OneStartPerDate == Spec => []StartsOncePerDate
<1>1. Spec => []OnceInv
  BY TypeCorrect, OnceInit, OnceNext, PTL DEF Spec
<1> QED
  BY <1>1, TypeCorrect, OnceInjective, PTL

-----------------------------------------------------------------------------
(* ServersFollowMaster.  A packet sent on a link arrives before all that   *)
(* is sent later, so the last word about a holiday decides.                *)

(* Nothing is under way to a server whose link is down, and a process that *)
(* starts knows nothing.                                                   *)
LinksInv ==
  \A s \in Servers :
    /\ proc[s] # "linked" => down[s] = <<>>
    /\ proc[s] = "down" => \A k \in Keys : copy[s][k] = NoCopy

LEMMA WillKnowMore ==
  ASSUME NEW q, NEW x, NEW k, NEW I, NEW J, WillKnow(q, x, k, I), I \subseteq J
  PROVE  WillKnow(q, x, k, J)
BY DEF WillKnow

(* What is pushed last about a holiday is what will be known. *)
LEMMA PushKnow ==
  ASSUME NEW q \in Seq(Packets), NEW f \in HolidaySet, NEW x, NEW k \in Keys
  PROVE  /\ f[k] # NoHoliday => WillKnow(Push(q, f), x, k, {Info(f[k])})
         /\ f[k] = NoHoliday => \A I : WillKnow(q, x, k, I) => WillKnow(Push(q, f), x, k, I)
<1> DEFINE q2 == Append(q, Packet(f))
<1>1. Packet(f) \in Packets
  BY PushType
<1>2. Packet(f)[k] = IF f[k] = NoHoliday THEN NoCopy ELSE Info(f[k])
  BY DEF Packet
<1> HIDE DEF Packet
<1>3. /\ DOMAIN q = 1..Len(q) /\ Len(q) \in Nat
      /\ DOMAIN q2 = 1..(Len(q) + 1)
      /\ \A i \in 1..Len(q) : q2[i] = q[i]
      /\ q2[Len(q) + 1] = Packet(f)
  BY <1>1
<1> HIDE DEF q2
<1>4. ASSUME f[k] # NoHoliday
      PROVE  WillKnow(Push(q, f), x, k, {Info(f[k])})
  <2>1. Push(q, f) = q2
    BY <1>4 DEF Push, Nothing, q2
  <2>2. f[k] \in Data
    BY <1>4 DEF HolidaySet
  <2>3. Info(f[k]) # NoCopy
    BY <2>2, DataParts
  <2>4. Len(q) + 1 \in About(q2, k) /\ \A j \in About(q2, k) : j <= Len(q) + 1
    BY <1>2, <1>3, <1>4, <2>3 DEF About
  <2>5. q2[Len(q) + 1][k] = Info(f[k])
    BY <1>2, <1>3, <1>4
  <2> QED
    BY <2>1, <2>4, <2>5 DEF WillKnow
<1>5. ASSUME f[k] = NoHoliday, NEW I, WillKnow(q, x, k, I)
      PROVE  WillKnow(Push(q, f), x, k, I)
  <2>1. About(q2, k) = About(q, k)
    BY <1>2, <1>3, <1>5 DEF About
  <2>2. \A n \in About(q, k) : q2[n] = q[n]
    BY <1>3 DEF About
  <2>3. WillKnow(q2, x, k, I)
    BY <1>5, <2>1, <2>2 DEF WillKnow
  <2> QED
    BY <1>5, <2>3 DEF Push, q2
<1> QED
  BY <1>4, <1>5

(* A server that has handled one packet will know what it would have. *)
LEMMA HandleKnow ==
  ASSUME NEW q \in Seq(Packets), q # <<>>, NEW x, NEW k \in Keys, NEW I, WillKnow(q, x, k, I)
  PROVE  WillKnow(Tail(q), IF Head(q)[k] = NoCopy THEN x ELSE Head(q)[k], k, I)
<1> DEFINE y == IF Head(q)[k] = NoCopy THEN x ELSE Head(q)[k]
           t == Tail(q)
<1>1. /\ DOMAIN q = 1..Len(q) /\ Len(q) \in Nat /\ Len(q) >= 1 /\ Head(q) = q[1]
      /\ DOMAIN t = 1..(Len(q) - 1)
      /\ \A i \in 1..(Len(q) - 1) : t[i] = q[i + 1]
  OBVIOUS
<1> HIDE DEF t
<1>2. \A i \in DOMAIN t : i \in About(t, k) <=> i + 1 \in About(q, k)
  BY <1>1 DEF About
<1>3. About(t, k) \subseteq DOMAIN t /\ About(q, k) \subseteq DOMAIN q
  BY DEF About
<1>4. CASE About(q, k) = {}
  <2>1. About(t, k) = {}
    BY <1>2, <1>3, <1>4
  <2>2. Head(q)[k] = NoCopy
    BY <1>1, <1>4 DEF About
  <2>3. x \in I
    BY <1>4 DEF WillKnow
  <2> QED
    BY <2>1, <2>2, <2>3 DEF WillKnow, t
<1>5. ASSUME NEW n \in About(q, k), \A j \in About(q, k) : j <= n, q[n][k] \in I
      PROVE  WillKnow(t, y, k, I)
  <2>1. n \in 1..Len(q) /\ q[n][k] # NoCopy
    BY <1>1, <1>5 DEF About
  <2>2. CASE n = 1
    <3>1. About(t, k) = {}
      <4> SUFFICES ASSUME NEW i \in About(t, k) PROVE FALSE
        OBVIOUS
      <4>1. i \in Nat /\ i >= 1 /\ i + 1 \in About(q, k)
        BY <1>1, <1>2, <1>3
      <4> QED
        BY <1>5, <2>2, <4>1
    <3>2. y = q[1][k] /\ y \in I
      BY <1>1, <1>5, <2>1, <2>2
    <3> QED
      BY <3>1, <3>2 DEF WillKnow
  <2>3. CASE n # 1
    <3>1. n - 1 \in DOMAIN t /\ (n - 1) + 1 = n
      BY <1>1, <2>1, <2>3
    <3>2. n - 1 \in About(t, k) /\ t[n - 1] = q[n]
      BY <1>1, <1>2, <1>5, <3>1
    <3>3. ASSUME NEW j \in About(t, k) PROVE j <= n - 1
      <4>1. j \in Nat /\ j + 1 \in About(q, k)
        BY <1>1, <1>2, <1>3
      <4> QED
        BY <1>5, <2>1, <4>1
    <3> QED
      BY <1>5, <3>2, <3>3 DEF WillKnow
  <2> QED
    BY <2>2, <2>3
<1> QED
  BY <1>4, <1>5 DEF WillKnow, t

(* A step of the Master that sends f and then g: they hold, for each key   *)
(* whose data it changes, the data it leaves.                              *)
LEMMA SyncFollows ==
  ASSUME TypeOK, TypeOK', ServersFollowMaster, LinksInv, NEW f \in HolidaySet, NEW g \in HolidaySet,
         Sync(f, g), UNCHANGED <<proc, copy>>,
         \A s \in Servers : Hears(s)' => Hears(s),
         \A k \in Keys :
           \/ g[k] # NoHoliday /\ (\A s \in Servers : Info(g[k]) \in Expected(s, k)')
           \/ g[k] = NoHoliday /\ f[k] # NoHoliday /\ (\A s \in Servers : Info(f[k]) \in Expected(s, k)')
           \/ g[k] = NoHoliday /\ f[k] = NoHoliday /\ (\A s \in Servers : Expected(s, k) \subseteq Expected(s, k)')
  PROVE  ServersFollowMaster' /\ LinksInv'
<1>1. \A s \in Servers : down[s] \in Seq(Packets)
  BY DEF TypeOK
<1>2. \A s \in Servers : down'[s] = IF Hears(s) THEN Push(Push(down[s], f), g) ELSE down[s]
  BY DEF Sync
<1>3. ASSUME NEW s \in Servers, NEW k \in Keys, Hears(s)'
      PROVE  WillKnow(down'[s], copy'[s][k], k, Expected(s, k)')
  <2> DEFINE x == copy[s][k]
             E == Expected(s, k)'
  <2>1. Hears(s) /\ copy'[s][k] = x /\ down'[s] = Push(Push(down[s], f), g)
    BY <1>2, <1>3
  <2>2. WillKnow(down[s], x, k, Expected(s, k))
    BY <2>1 DEF ServersFollowMaster
  <2>3. down[s] \in Seq(Packets) /\ Push(down[s], f) \in Seq(Packets)
    BY <1>1, PushType
  <2> HIDE DEF x, E
  <2>4. CASE g[k] # NoHoliday /\ Info(g[k]) \in E
    <3>1. WillKnow(Push(Push(down[s], f), g), x, k, {Info(g[k])})
      BY <2>3, <2>4, PushKnow
    <3> QED
      BY <2>1, <2>4, <3>1, WillKnowMore DEF E
  <2>5. CASE g[k] = NoHoliday /\ f[k] # NoHoliday /\ Info(f[k]) \in E
    <3>1. WillKnow(Push(down[s], f), x, k, {Info(f[k])})
      BY <2>3, <2>5, PushKnow
    <3>2. WillKnow(Push(Push(down[s], f), g), x, k, {Info(f[k])})
      BY <2>3, <2>5, <3>1, PushKnow
    <3> QED
      BY <2>1, <2>5, <3>2, WillKnowMore DEF E
  <2>6. CASE g[k] = NoHoliday /\ f[k] = NoHoliday /\ Expected(s, k) \subseteq E
    <3>1. WillKnow(Push(down[s], f), x, k, Expected(s, k))
      BY <2>2, <2>3, <2>6, PushKnow
    <3>2. WillKnow(Push(Push(down[s], f), g), x, k, Expected(s, k))
      BY <2>3, <2>6, <3>1, PushKnow
    <3> QED
      BY <2>1, <2>6, <3>2, WillKnowMore DEF E
  <2> QED
    BY <2>4, <2>5, <2>6 DEF E
<1>4. LinksInv'
  BY <1>2 DEF LinksInv, Hears
<1> QED
  BY <1>3, <1>4 DEF ServersFollowMaster

(* The Master sends the data of each holiday it changes. *)
LEMMA MasterFollows ==
  ASSUME TypeOK, TypeOK', ServersFollowMaster, LinksInv, NEW f \in HolidaySet, NEW g \in HolidaySet,
         Sync(f, g), UNCHANGED <<srv, proc, copy>>,
         \A k \in Keys :
           \/ g[k] # NoHoliday /\ hol'[k] = g[k]
           \/ g[k] = NoHoliday /\ f[k] # NoHoliday /\ hol'[k] = f[k]
           \/ g[k] = NoHoliday /\ f[k] = NoHoliday /\ hol'[k] = hol[k]
  PROVE  ServersFollowMaster' /\ LinksInv'
<1>1. \A s \in Servers : Hears(s)' => Hears(s)
  BY DEF Hears
<1>2. ASSUME NEW k \in Keys, NEW s \in Servers
      PROVE  /\ hol'[k] # NoHoliday => Info(hol'[k]) \in Expected(s, k)'
             /\ hol'[k] = hol[k] => Expected(s, k)' = Expected(s, k)
  BY DEF Expected, Exists
<1> QED
  BY <1>1, <1>2, SyncFollows

LEMMA SetAndCheckFollows ==
  ASSUME TypeOK, TypeOK', ServersFollowMaster, LinksInv, Command, NEW k \in Keys, NEW d \in Data, NEW clear,
         SetAndCheck(k, d, clear)
  PROVE  ServersFollowMaster' /\ LinksInv'
<1> DEFINE set == [hol EXCEPT ![k] = d]
<1>1. PICK pick \in Picks :
        LET h == AllChecked(set, pick) IN hol' = h /\ SaveAndSync("event", Only(k, d), Changes(set, h))
  BY DEF SetAndCheck
<1> DEFINE h == AllChecked(set, pick)
           f == Only(k, d)
           g == Changes(set, h)
<1>2. set \in HolidaySet
  BY TypeParts DEF HolidaySet
<1>3. h \in HolidaySet
  BY <1>2, TypeParts, AllCheckedType
<1>4. hol' = h /\ Sync(f, g)
  BY <1>1 DEF SaveAndSync
<1> HIDE DEF h
<1>5. f \in HolidaySet /\ g \in HolidaySet
  BY <1>2, <1>3, ChangeTypes
<1>6. ASSUME NEW j \in Keys
      PROVE  \/ g[j] # NoHoliday /\ hol'[j] = g[j]
             \/ g[j] = NoHoliday /\ f[j] # NoHoliday /\ hol'[j] = f[j]
             \/ g[j] = NoHoliday /\ f[j] = NoHoliday /\ hol'[j] = hol[j]
  <2>1. g[j] = IF h[j] = set[j] THEN NoHoliday ELSE h[j]
    BY DEF Changes
  <2>2. f[j] = (IF j = k THEN d ELSE NoHoliday) /\ set[j] = (IF j = k THEN d ELSE hol[j]) /\ d # NoHoliday
    BY TypeParts, InputsAssumption DEF Only, Nothing, HolidaySet
  <2> HIDE DEF f, g, set
  <2>3. h[j] = NoHoliday => set[j] = NoHoliday
    BY <1>2, TypeParts, CheckedEffect, InputsAssumption DEF h, AllChecked, Picks, Days, HolidaySet
  <2> QED
    BY <1>4, <2>1, <2>2, <2>3
<1> HIDE DEF f, g
<1> QED
  BY <1>4, <1>5, <1>6, MasterFollows DEF Command

(* A command that gives one holiday the data d and sends it. *)
LEMMA OneFollows ==
  ASSUME TypeOK, TypeOK', ServersFollowMaster, LinksInv, Command, NEW k \in Keys, NEW d \in Data,
         hol' = [hol EXCEPT ![k] = d], Sync(Only(k, d), Nothing)
  PROVE  ServersFollowMaster' /\ LinksInv'
<1> DEFINE f == Only(k, d)
<1>1. f \in HolidaySet /\ Nothing \in HolidaySet
  BY ChangeTypes
<1>2. \A j \in Keys : Nothing[j] = NoHoliday /\ f[j] = (IF j = k THEN d ELSE NoHoliday) /\ d # NoHoliday
  BY InputsAssumption DEF Only, Nothing
<1>3. \A j \in Keys : hol'[j] = IF j = k THEN d ELSE hol[j]
  BY TypeParts DEF HolidaySet
<1> HIDE DEF f
<1> QED
  BY <1>1, <1>2, <1>3, MasterFollows DEF Command, f

LEMMA DeleteFollows ==
  ASSUME TypeOK, TypeOK', ServersFollowMaster, LinksInv, NEW k \in Keys, AdminDeleteHoliday(k)
  PROVE  ServersFollowMaster' /\ LinksInv'
<1> DEFINE f == IF hol[k].active THEN Only(k, Ended(hol[k])) ELSE Nothing
<1>1. /\ Exists(k) /\ hol' = [hol EXCEPT ![k] = NoHoliday] /\ Sync(f, Nothing)
      /\ UNCHANGED <<srv, proc, copy>>
  BY DEF AdminDeleteHoliday, Command
<1>2. hol[k] \in Data
  BY <1>1, TypeParts
<1>3. Ended(hol[k]) \in Data /\ Ended(hol[k]) # NoHoliday
  BY <1>2, DataParts, InputsAssumption
<1>4. f \in HolidaySet /\ Nothing \in HolidaySet
  BY <1>3, ChangeTypes
<1>5. \A j \in Keys : /\ Nothing[j] = NoHoliday
                      /\ f[j] = IF j = k /\ hol[k].active THEN Ended(hol[k]) ELSE NoHoliday
  BY DEF Only, Nothing
<1> HIDE DEF f
<1>6. \A j \in Keys \ {k} : hol'[j] = hol[j] /\ \A s \in Servers : Expected(s, j) = Expected(s, j)'
  BY <1>1, TypeParts DEF HolidaySet, Expected, Exists
<1>7. ASSUME NEW s \in Servers
      PROVE  /\ Expected(s, k)' = [active : {FALSE}, start : Nat, dur : Durations] \cup {NoCopy}
             /\ Expected(s, k) \subseteq {Info(hol[k]), NoCopy}
  BY <1>1, TypeParts DEF HolidaySet, Expected, Exists
<1>8. Info(Ended(hol[k])) \in [active : {FALSE}, start : Nat, dur : Durations]
  BY <1>2, <1>3, DataFields DEF Info, Ended, Data
<1>9. ~hol[k].active => Info(hol[k]) \in [active : {FALSE}, start : Nat, dur : Durations]
  BY <1>2, DataFields DEF Info
<1>10. \A s \in Servers : Hears(s)' => Hears(s)
  BY <1>1 DEF Hears
<1>11. \A j \in Keys :
         \/ Nothing[j] = NoHoliday /\ f[j] # NoHoliday /\ (\A s \in Servers : Info(f[j]) \in Expected(s, j)')
         \/ Nothing[j] = NoHoliday /\ f[j] = NoHoliday /\ (\A s \in Servers : Expected(s, j) \subseteq Expected(s, j)')
  BY <1>3, <1>5, <1>6, <1>7, <1>8, <1>9
<1> QED
  BY <1>1, <1>4, <1>10, <1>11, SyncFollows

(* A step that sends nothing and changes no data the packets tell. *)
LEMMA SilentFollows ==
  ASSUME ServersFollowMaster, LinksInv, UNCHANGED <<srv, proc, down, copy>>,
         \A k \in Keys : Exists(k)' = Exists(k) /\ (Exists(k) => Info(hol'[k]) = Info(hol[k]))
  PROVE  ServersFollowMaster' /\ LinksInv'
<1>1. \A s \in Servers, k \in Keys : Expected(s, k)' = Expected(s, k)
  BY DEF Expected
<1> QED
  BY <1>1 DEF ServersFollowMaster, LinksInv, Hears

LEMMA RulesFollow ==
  ASSUME TypeOK, TypeOK', ServersFollowMaster, LinksInv, NEW k \in Keys,
         \/ ClearHolidayRules(k)
         \/ \E rule \in Rules : AddHolidayRule(k, rule) \/ DeleteHolidayRule(k, rule)
  PROVE  ServersFollowMaster' /\ LinksInv'
<1>1. /\ Command /\ Exists(k) /\ down' = down
      /\ \E rules \in SUBSET Rules : hol' = [hol EXCEPT ![k] = [hol[k] EXCEPT !.rules = rules]]
  BY RulesStep
<1>2. PICK rules \in SUBSET Rules : hol' = [hol EXCEPT ![k] = [hol[k] EXCEPT !.rules = rules]]
  BY <1>1
<1> DEFINE d == [hol[k] EXCEPT !.rules = rules]
<1>3. hol[k] \in Data
  BY <1>1, TypeParts
<1>4. d \in Data /\ Info(d) = Info(hol[k])
  BY <1>3 DEF Info, Data
<1>5. hol'[k] = d /\ \A j \in Keys \ {k} : hol'[j] = hol[j]
  BY <1>2, TypeParts DEF HolidaySet
<1>6. d # NoHoliday
  BY <1>4, InputsAssumption
<1> HIDE DEF d
<1> QED
  BY <1>1, <1>4, <1>5, <1>6, SilentFollows DEF Exists, Command

LEMMA CommandsFollow ==
  ASSUME TypeOK, TypeOK', ServersFollowMaster, LinksInv, NEW k \in Keys, Commands(k)
  PROVE  ServersFollowMaster' /\ LinksInv'
<1>1. CASE StartHoliday(k) \/ EndHoliday(k)
  <2>1. /\ Command /\ Exists(k)
        /\ \E d \in {Started(hol[k]), Ended(hol[k])} :
             hol' = [hol EXCEPT ![k] = d] /\ SaveAndSync("event", Only(k, d), Nothing)
    BY <1>1 DEF StartHoliday, EndHoliday
  <2>2. Started(hol[k]) \in Data /\ Ended(hol[k]) \in Data
    BY <2>1, TypeParts, StartedType, DataParts
  <2> QED
    BY <2>1, <2>2, OneFollows DEF SaveAndSync
<1>2. CASE AdminDeleteHoliday(k)
  BY <1>2, DeleteFollows
<1>3. CASE SetHolidayType(k)
  <2>1. /\ Command /\ Exists(k) /\ hol' = hol /\ SaveAndSync("event", Only(k, hol[k]), Nothing)
    BY <1>3 DEF SetHolidayType
  <2>2. hol[k] \in Data /\ hol' = [hol EXCEPT ![k] = hol[k]]
    BY <2>1, TypeParts DEF HolidaySet
  <2> QED
    BY <2>1, <2>2, OneFollows DEF SaveAndSync
<1>4. ASSUME NEW dur \in Durations, SetHolidayDuration(k, dur)
      PROVE  ServersFollowMaster' /\ LinksInv'
  <2>1. Command /\ Exists(k) /\ SetAndCheck(k, [hol[k] EXCEPT !.dur = dur], FALSE)
    BY <1>4 DEF SetHolidayDuration
  <2>2. hol[k] \in Data
    BY <2>1, TypeParts
  <2>3. [hol[k] EXCEPT !.dur = dur] \in Data
    BY <2>2 DEF Data
  <2> QED
    BY <2>1, <2>3, SetAndCheckFollows
<1>5. ASSUME NEW start \in StartTimes, SetHolidayUnixTime(k, start)
      PROVE  ServersFollowMaster' /\ LinksInv'
  <2>1. Command /\ Exists(k) /\ SetAndCheck(k, [hol[k] EXCEPT !.start = start, !.last = 0], TRUE)
    BY <1>5 DEF SetHolidayUnixTime
  <2>2. hol[k] \in Data /\ start \in Nat
    BY <2>1, TypeParts DEF StartTimes, Time
  <2>3. [hol[k] EXCEPT !.start = start, !.last = 0] \in Data
    BY <2>2 DEF Data
  <2> QED
    BY <2>1, <2>3, SetAndCheckFollows
<1>6. ASSUME NEW sched \in GivenSchedules, NEW today \in BOOLEAN, NEW r \in Days,
             SetHolidaySchedule(k, sched, today, r)
      PROVE  ServersFollowMaster' /\ LinksInv'
  <2> DEFINE d == UpdateScheduleData([hol[k] EXCEPT !.sched = sched, !.last = 0], today, r)
  <2>1. Command /\ Exists(k) /\ hol' = [hol EXCEPT ![k] = d] /\ SaveAndSync("event", Only(k, d), Nothing)
    BY <1>6 DEF SetHolidaySchedule
  <2>2. hol[k] \in Data /\ sched \in Schedules
    BY <2>1, TypeParts, InputsAssumption
  <2>3. [hol[k] EXCEPT !.sched = sched, !.last = 0] \in Data
    BY <2>2 DEF Data
  <2>4. d \in Data
    BY <2>3, TypeParts, UpdateScheduleType
  <2> HIDE DEF d
  <2> QED
    BY <2>1, <2>4, OneFollows DEF SaveAndSync
<1>7. ASSUME NEW dur \in Durations, NEW start \in StartTimes, NEW sched \in GivenSchedules,
             NEW today \in BOOLEAN, NEW r \in Days, AdminCreateHoliday(k, dur, start, sched, today, r)
      PROVE  ServersFollowMaster' /\ LinksInv'
  <2> DEFINE new == [active |-> FALSE, start |-> start, dur |-> dur, sched |-> sched, last |-> 0, rules |-> {}]
             d == UpdateScheduleData(new, today, r)
  <2>1. Command /\ hol' = [hol EXCEPT ![k] = d] /\ Sync(Only(k, d), Nothing)
    BY <1>7 DEF AdminCreateHoliday
  <2>2. start \in Nat /\ sched \in Schedules
    BY TypeParts, InputsAssumption DEF StartTimes, Time
  <2>3. new \in Data
    BY <2>2 DEF Data
  <2>4. d \in Data
    BY <2>3, TypeParts, UpdateScheduleType
  <2> HIDE DEF d
  <2> QED
    BY <2>1, <2>4, OneFollows
<1>8. CASE ClearHolidayRules(k) \/ \E rule \in Rules : AddHolidayRule(k, rule) \/ DeleteHolidayRule(k, rule)
  BY <1>8, RulesFollow
<1> QED
  BY <1>1, <1>2, <1>3, <1>4, <1>5, <1>6, <1>7, <1>8, DurationsAccepted DEF Commands, Days

(* The steps that come and go with servers and with the Master. *)
LEMMA MasterGoneFollows ==
  ASSUME TypeOK, TypeOK', ServersFollowMaster, LinksInv,
         MasterEnds \/ \E rowsOK, rulesOK \in BOOLEAN : LoadFromDatabase(rowsOK, rulesOK)
  PROVE  ServersFollowMaster' /\ LinksInv'
<1>1. CASE MasterEnds
  <2>1. \A s \in Servers : srv'[s] = "none" /\ down'[s] = <<>> /\ copy'[s] = copy[s]
                           /\ (proc'[s] = "down" => proc[s] = "down")
    BY <1>1 DEF MasterEnds, TypeOK
  <2> QED
    BY <2>1 DEF ServersFollowMaster, LinksInv, Hears
<1>2. CASE \E rowsOK, rulesOK \in BOOLEAN : LoadFromDatabase(rowsOK, rulesOK)
  <2>1. ~up /\ UNCHANGED <<srv, proc, down, copy>>
    BY <1>2 DEF LoadFromDatabase, netVars
  <2>2. \A s \in Servers : srv[s] = "none"
    BY <2>1 DEF TypeOK
  <2> QED
    BY <2>1, <2>2 DEF ServersFollowMaster, LinksInv, Hears
<1> QED
  BY <1>1, <1>2

LEMMA ServerFollows ==
  ASSUME TypeOK, TypeOK', ServersFollowMaster, LinksInv, NEW s \in Servers,
         AddServer(s) \/ RemoveServer(s) \/ LoseLink(s) \/ GameEnds(s) \/ OnTCPPacket(s)
  PROVE  ServersFollowMaster' /\ LinksInv'
<1>0. hol' = hol
  BY DEF AddServer, RemoveServer, LoseLink, GameEnds, OnTCPPacket, dataVars
<1>1. ASSUME NEW t \in Servers, t # s
      PROVE  UNCHANGED <<srv[t], proc[t], down[t], copy[t]>>
  BY <1>1 DEF AddServer, RemoveServer, LoseLink, GameEnds, OnTCPPacket, TypeOK
<1>2. ASSUME NEW t \in Servers, UNCHANGED <<srv[t], proc[t], down[t], copy[t]>>
      PROVE  /\ proc'[t] # "linked" => down'[t] = <<>>
             /\ proc'[t] = "down" => \A k \in Keys : copy'[t][k] = NoCopy
             /\ Hears(t)' => \A k \in Keys : WillKnow(down'[t], copy'[t][k], k, Expected(t, k)')
  <2>1. \A k \in Keys : Expected(t, k)' = Expected(t, k)
    BY <1>0, <1>2 DEF Expected, Exists
  <2> QED
    BY <1>2, <2>1 DEF ServersFollowMaster, LinksInv, Hears
<1>3. /\ proc'[s] # "linked" => down'[s] = <<>>
      /\ proc'[s] = "down" => \A k \in Keys : copy'[s][k] = NoCopy
      /\ Hears(s)' => \A k \in Keys : WillKnow(down'[s], copy'[s][k], k, Expected(s, k)')
  <2>1. CASE AddServer(s)
    <3>1. /\ down'[s] = <<>> /\ (\A k \in Keys : copy'[s][k] = NoCopy)
          /\ srv'[s] = "authed" /\ proc'[s] = "linked"
      BY <2>1 DEF AddServer, LinksInv, TypeOK
    <3>2. \A k \in Keys : NoCopy \in Expected(s, k)'
      BY <3>1 DEF Expected
    <3>3. \A k \in Keys : About(down'[s], k) = {}
      BY <3>1 DEF About
    <3> QED
      BY <3>1, <3>2, <3>3 DEF WillKnow
  <2>2. CASE RemoveServer(s)
    BY <2>2 DEF RemoveServer, LinksInv, Hears, TypeOK
  <2>3. CASE LoseLink(s)
    BY <2>3 DEF LoseLink, LinksInv, Hears, TypeOK
  <2>4. CASE GameEnds(s)
    BY <2>4 DEF GameEnds, LinksInv, Hears, TypeOK
  <2>5. CASE OnTCPPacket(s)
    <3> DEFINE p == Head(down[s])
    <3>1. /\ proc[s] = "linked" /\ down[s] \in Seq(Packets) /\ down[s] # <<>>
          /\ down'[s] = Tail(down[s]) /\ srv' = srv /\ proc' = proc
          /\ copy'[s] = [k \in Keys |-> IF p[k] = NoCopy THEN copy[s][k] ELSE p[k]]
      BY <2>5 DEF OnTCPPacket, TypeOK
    <3>2. ASSUME NEW k \in Keys, Hears(s)'
          PROVE  WillKnow(down'[s], copy'[s][k], k, Expected(s, k)')
      <4>1. Expected(s, k)' = Expected(s, k) /\ Hears(s)
        BY <1>0, <3>1, <3>2 DEF Expected, Exists, Hears
      <4>2. WillKnow(down[s], copy[s][k], k, Expected(s, k))
        BY <4>1 DEF ServersFollowMaster
      <4>3. copy'[s][k] = IF p[k] = NoCopy THEN copy[s][k] ELSE p[k]
        BY <3>1
      <4> QED
        BY <3>1, <4>1, <4>2, <4>3, HandleKnow
    <3> QED
      BY <3>1, <3>2
  <2> QED
    BY <2>1, <2>2, <2>3, <2>4, <2>5
<1>4. ASSUME NEW t \in Servers
      PROVE  /\ proc'[t] # "linked" => down'[t] = <<>>
             /\ proc'[t] = "down" => \A k \in Keys : copy'[t][k] = NoCopy
             /\ Hears(t)' => \A k \in Keys : WillKnow(down'[t], copy'[t][k], k, Expected(t, k)')
  BY <1>1, <1>2, <1>3
<1> QED
  BY <1>4 DEF ServersFollowMaster, LinksInv

(* At READY all holidays are sent, to every server. *)
LEMMA ReadyFollows ==
  ASSUME TypeOK, TypeOK', ServersFollowMaster, LinksInv, NEW s \in Servers, ServerReady(s)
  PROVE  ServersFollowMaster' /\ LinksInv'
<1>1. /\ srv[s] = "authed" /\ srv' = [srv EXCEPT ![s] = "ready"] /\ Sync(hol, Nothing)
      /\ UNCHANGED <<hol, proc, copy>>
  BY DEF ServerReady, dataVars
<1>2. hol \in HolidaySet /\ Nothing \in HolidaySet
  BY TypeParts, ChangeTypes
<1>3. \A t \in Servers : Hears(t)' => Hears(t)
  BY <1>1 DEF Hears, TypeOK
<1>4. ASSUME NEW k \in Keys
      PROVE  /\ Nothing[k] = NoHoliday
             /\ hol[k] # NoHoliday => \A t \in Servers : Info(hol[k]) \in Expected(t, k)'
             /\ hol[k] = NoHoliday => \A t \in Servers : Expected(t, k) \subseteq Expected(t, k)'
  BY <1>1 DEF Nothing, Expected, Exists
<1> QED
  BY <1>1, <1>2, <1>3, <1>4, SyncFollows

LEMMA FollowInit == Init => ServersFollowMaster /\ LinksInv
<1> SUFFICES ASSUME Init PROVE ServersFollowMaster /\ LinksInv
  OBVIOUS
<1>1. /\ srv = [s \in Servers |-> "none"] /\ down = [s \in Servers |-> <<>>]
      /\ copy = [s \in Servers |-> [k \in Keys |-> NoCopy]]
  BY Zenon DEF Init
<1> QED
  BY <1>1 DEF ServersFollowMaster, LinksInv, Hears

LEMMA FollowNext ==
  TypeOK /\ TypeOK' /\ ServersFollowMaster /\ LinksInv /\ [Next]_vars => ServersFollowMaster' /\ LinksInv'
<1> SUFFICES ASSUME TypeOK, TypeOK', ServersFollowMaster, LinksInv, [Next]_vars
             PROVE  ServersFollowMaster' /\ LinksInv'
  OBVIOUS
<1>1. CASE CheckScheduleAndRules
  <2>1. PICK pick \in Picks :
          LET h == AllChecked(hol, pick) IN hol' = h /\ SaveAndSync("loop", Changes(hol, h), Nothing)
    BY <1>1 DEF CheckScheduleAndRules
  <2> DEFINE h == AllChecked(hol, pick)
             f == Changes(hol, h)
  <2>2. h \in HolidaySet /\ hol \in HolidaySet /\ \A k \in Keys : hol[k] # NoHoliday => h[k] \in Data
    BY TypeParts, AllCheckedType
  <2>3. \A k \in Keys : hol[k] = NoHoliday => h[k] = NoHoliday
    BY DEF AllChecked
  <2>4. hol' = h /\ Sync(f, Nothing)
    BY <2>1 DEF SaveAndSync
  <2> HIDE DEF h
  <2>5. f \in HolidaySet /\ Nothing \in HolidaySet
    BY <2>2, ChangeTypes
  <2>6. \A k \in Keys : Nothing[k] = NoHoliday /\ f[k] = IF h[k] = hol[k] THEN NoHoliday ELSE h[k]
    BY DEF Nothing, Changes
  <2>7. UNCHANGED <<srv, proc, copy>>
    BY <1>1 DEF CheckScheduleAndRules
  <2> HIDE DEF f
  <2>8. \A k \in Keys : \/ f[k] # NoHoliday /\ hol'[k] = f[k]
                        \/ f[k] = NoHoliday /\ hol'[k] = hol[k]
    BY <2>2, <2>3, <2>4, <2>6, InputsAssumption
  <2> QED
    BY <2>4, <2>5, <2>6, <2>7, <2>8, MasterFollows
<1>2. ASSUME NEW k \in Keys, Commands(k) PROVE ServersFollowMaster' /\ LinksInv'
  BY <1>2, CommandsFollow
<1>3. CASE MasterEnds \/ \E rowsOK, rulesOK \in BOOLEAN : LoadFromDatabase(rowsOK, rulesOK)
  BY <1>3, MasterGoneFollows
<1>4. ASSUME NEW s \in Servers, AddServer(s) \/ RemoveServer(s) \/ LoseLink(s) \/ GameEnds(s) \/ OnTCPPacket(s)
      PROVE  ServersFollowMaster' /\ LinksInv'
  BY <1>4, ServerFollows
<1>5. ASSUME NEW s \in Servers, ServerReady(s)
      PROVE  ServersFollowMaster' /\ LinksInv'
  BY <1>5, ReadyFollows
<1>6. ASSUME \/ ReloadConfig \/ Tick \/ UNCHANGED vars
             \/ \E k \in Keys : \E i \in DOMAIN dbq[k] : DbTask(k, i) \/ DbTaskFails(k, i)
             \/ (\E rule \in Rules : StatChanges(rule)) \/ (\E k \in Keys : EditConfig(k))
      PROVE  ServersFollowMaster' /\ LinksInv'
  <2>1. UNCHANGED <<hol, srv, proc, down, copy>>
    BY <1>6 DEF ReloadConfig, Tick, vars, DbTask, DbTaskFails, StatChanges, EditConfig, dataVars, netVars
  <2> QED
    BY <2>1, SilentFollows DEF Exists
<1> QED
  BY <1>1, <1>2, <1>3, <1>4, <1>5, <1>6 DEF Next

(* Every ready server comes to know each holiday exactly as the Master has *)
(* it: however commands, checks, READY and lost links follow each other.   *)
THEOREM ServersFollow == Spec => []ServersFollowMaster
BY TypeCorrect, FollowInit, FollowNext, PTL DEF Spec

-----------------------------------------------------------------------------
(* RowsFollowMaster.  The tasks of a queue, done in turn, take the tables  *)
(* through a row of contents; a task appended adds one at its end, and the *)
(* first task done takes the first one away.                               *)

LEMMA Least ==
  ASSUME NEW T \in SUBSET Nat, T # {}
  PROVE  \E x \in T : \A y \in T : x <= y
<1>1. PICK x \in T : \A y \in T : <<y, x>> \notin OpToRel(<, Nat)
  BY NatLessThanWellFounded, WFMin
<1>2. \A y \in T : ~(y < x)
  BY <1>1 DEF OpToRel
<1> QED
  BY <1>2

Contents(x, q, n, f) ==
  f = [i \in 0..n |-> IF i = 0 THEN x ELSE TablesAfter(f[i - 1], q[i])]

LEMMA SomeContents ==
  ASSUME NEW x, NEW q, NEW n \in Nat
  PROVE  \E f : Contents(x, q, n, f)
<1> DEFINE T == {m \in Nat : ~(\E f : Contents(x, q, m, f))}
<1> SUFFICES ASSUME T # {} PROVE FALSE
  OBVIOUS
<1>1. PICK m \in T : \A y \in T : m <= y
  BY Least
<1>2. CASE m = 0
  <2> DEFINE f == [i \in 0..0 |-> x]
  <2>1. Contents(x, q, 0, f)
    <3>1. f = [i \in 0..0 |-> IF i = 0 THEN x ELSE TablesAfter(f[i - 1], q[i])]
      OBVIOUS
    <3> HIDE DEF f
    <3> QED
      BY <3>1 DEF Contents
  <2> QED
    BY <1>1, <1>2, <2>1
<1>3. CASE m # 0
  <2>1. m \in Nat /\ m - 1 \in Nat /\ ~(m <= m - 1)
    BY <1>1, <1>3
  <2>2. PICK g : Contents(x, q, m - 1, g)
    BY <1>1, <2>1
  <2> DEFINE f == [i \in 0..m |-> IF i = m THEN TablesAfter(g[m - 1], q[m]) ELSE g[i]]
  <2>3. DOMAIN f = 0..m /\ f[m] = TablesAfter(f[m - 1], q[m])
    BY <2>1
  <2>4. ASSUME NEW i \in 0..m PROVE f[i] = IF i = 0 THEN x ELSE TablesAfter(f[i - 1], q[i])
    <3>1. CASE i = m
      BY <1>3, <2>3, <3>1
    <3>2. CASE i # m
      <4>1. i \in 0..(m - 1) /\ f[i] = g[i] /\ (i # 0 => f[i - 1] = g[i - 1])
        BY <2>1, <3>2
      <4>2. g[i] = IF i = 0 THEN x ELSE TablesAfter(g[i - 1], q[i])
        BY <2>2, <4>1 DEF Contents
      <4> HIDE DEF f
      <4> QED
        BY <4>1, <4>2
    <3> QED
      BY <3>1, <3>2
  <2>5. f = [i \in DOMAIN f |-> f[i]]
    OBVIOUS
  <2> HIDE DEF f
  <2>6. f = [i \in 0..m |-> IF i = 0 THEN x ELSE TablesAfter(f[i - 1], q[i])]
    BY <2>3, <2>4, <2>5
  <2>7. Contents(x, q, m, f)
    BY <2>6 DEF Contents
  <2> QED
    BY <1>1, <2>7
<1> QED
  BY <1>2, <1>3

LEMMA ContentsOf ==
  ASSUME NEW x, NEW S, NEW q \in Seq(S)
  PROVE  \E f : Contents(x, q, Len(q), f) /\ OnceDone(x, q) = f[Len(q)]
<1>1. Len(q) \in Nat
  OBVIOUS
<1>2. \E f : Contents(x, q, Len(q), f)
  BY <1>1, SomeContents
<1> QED
  BY <1>2 DEF Contents, OnceDone

(* What the contents are, place by place. *)
LEMMA ContentsPlaces ==
  ASSUME NEW x, NEW q, NEW n \in Nat, NEW f, Contents(x, q, n, f)
  PROVE  f[0] = x /\ \A i \in 0..n : i # 0 => f[i] = TablesAfter(f[i - 1], q[i])
<1> DEFINE e(i) == IF i = 0 THEN x ELSE TablesAfter(f[i - 1], q[i])
<1>1. f = [i \in 0..n |-> e(i)] /\ 0 \in 0..n
  BY DEF Contents
<1>2. \A i \in 0..n : f[i] = e(i)
  <2> HIDE DEF e
  <2> QED
    BY <1>1
<1> QED
  BY <1>1, <1>2

(* The first n tasks of r are those of q after the first d. *)
Agree(q, d, r, n) == \A i \in 1..n : r[i] = q[i + d]

(* Two rows of contents that start alike and meet the same tasks are one;  *)
(* the second may be the end of the first.                                 *)
LEMMA SameContents ==
  ASSUME NEW x, NEW q, NEW m \in Nat, NEW f, Contents(x, q, m, f),
         NEW y, NEW r, NEW n \in Nat, NEW g, Contents(y, r, n, g),
         NEW d \in Nat, f[d] = y, n + d <= m, Agree(q, d, r, n)
  PROVE  g[n] = f[n + d]
<1> DEFINE T == {i \in Nat : i <= n /\ g[i] # f[i + d]}
<1> SUFFICES ASSUME T # {} PROVE FALSE
  OBVIOUS
<1>1. PICK i \in T : \A j \in T : i <= j
  BY Least
<1>2. i # 0
  <2>1. g[0] = f[d]
    BY ContentsPlaces
  <2>2. 0 + d = d /\ g[i] # f[i + d]
    BY <1>1
  <2> QED
    BY <2>1, <2>2
<1>3. /\ i \in Nat /\ i - 1 \in Nat /\ ~(i <= i - 1) /\ i - 1 <= n /\ i \in 1..n /\ i \in 0..n
      /\ i + d \in 0..m /\ i + d # 0 /\ (i + d) - 1 = (i - 1) + d
  BY <1>1, <1>2
<1>4. g[i - 1] = f[(i - 1) + d]
  BY <1>1, <1>3
<1>5. g[i] = TablesAfter(g[i - 1], r[i])
  BY <1>2, <1>3, ContentsPlaces
<1>7. f[i + d] = TablesAfter(f[(i - 1) + d], q[i + d])
  <2> DEFINE j == i + d
  <2>1. j \in 0..m /\ j # 0 /\ j - 1 = (i - 1) + d
    BY <1>3
  <2> HIDE DEF j
  <2>2. f[j] = TablesAfter(f[j - 1], q[j])
    BY <2>1, ContentsPlaces
  <2> QED
    BY <2>1, <2>2 DEF j
<1>6. r[i] = q[i + d]
  BY <1>3 DEF Agree
<1> QED
  BY <1>1, <1>4, <1>5, <1>6, <1>7

LEMMA SameStart ==
  ASSUME NEW x, NEW p, NEW q, NEW n \in Nat, NEW f, NEW g,
         Contents(x, p, n + 1, f), Contents(x, q, n, g), Agree(p, 0, q, n)
  PROVE  g[n] = f[n]
<1> DEFINE d == 0
           m == n + 1
<1>1. d \in Nat /\ m \in Nat /\ n + d = n /\ n + d <= m /\ Agree(p, d, q, n) /\ Contents(x, p, m, f)
  OBVIOUS
<1> HIDE DEF m
<1>2. f[d] = x
  BY <1>1, ContentsPlaces
<1> HIDE DEF d
<1>3. g[n] = f[n + d]
  BY <1>1, <1>2, SameContents
<1> QED
  BY <1>1, <1>3

LEMMA NothingDone == \A x : OnceDone(x, <<>>) = x
<1> TAKE x
<1> DEFINE q == <<>>
<1>1. q \in Seq({x}) /\ Len(q) = 0
  OBVIOUS
<1> HIDE DEF q
<1>2. PICK f : Contents(x, q, Len(q), f) /\ OnceDone(x, q) = f[Len(q)]
  BY <1>1, ContentsOf
<1>3. Contents(x, q, 0, f) /\ 0 \in Nat
  BY <1>1, <1>2
<1>4. f[0] = x
  BY <1>3, ContentsPlaces
<1> QED
  BY <1>1, <1>2, <1>4 DEF q

LEMMA LastDone ==
  ASSUME NEW S, NEW q \in Seq(S), NEW t \in S, NEW x
  PROVE  OnceDone(x, Append(q, t)) = TablesAfter(OnceDone(x, q), t)
<1> DEFINE p == Append(q, t)
           n == Len(q)
<1>1. /\ p \in Seq(S) /\ n \in Nat /\ Len(p) = n + 1 /\ p[n + 1] = t
      /\ \A i \in 1..n : q[i] = p[i]
  OBVIOUS
<1> HIDE DEF p
<1>2. PICK f : Contents(x, p, Len(p), f) /\ OnceDone(x, p) = f[Len(p)]
  BY <1>1, ContentsOf
<1>3. PICK g : Contents(x, q, n, g) /\ OnceDone(x, q) = g[n]
  BY ContentsOf
<1> HIDE DEF n
<1>4. f[0] = x /\ f[n + 1] = TablesAfter(f[n], t)
  <2>1. n + 1 \in Nat /\ n + 1 \in 0..(n + 1) /\ n + 1 # 0 /\ (n + 1) - 1 = n
    BY <1>1
  <2> QED
    BY <1>1, <1>2, <2>1, ContentsPlaces
<1>5. g[n] = f[n]
  <2>1. Contents(x, p, n + 1, f) /\ Contents(x, q, n, g)
    BY <1>1, <1>2, <1>3
  <2>2. Agree(p, 0, q, n)
    BY <1>1 DEF Agree, p, n
  <2> QED
    BY <1>1, <2>1, <2>2, SameStart
<1> QED
  BY <1>1, <1>2, <1>3, <1>4, <1>5 DEF p

LEMMA FirstDone ==
  ASSUME NEW S, NEW q \in Seq(S), q # <<>>, NEW x
  PROVE  OnceDone(TablesAfter(x, q[1]), Tail(q)) = OnceDone(x, q)
<1> DEFINE p == Tail(q)
           n == Len(p)
           y == TablesAfter(x, q[1])
<1>1. /\ p \in Seq(S) /\ n \in Nat /\ Len(q) = n + 1
      /\ \A i \in 1..n : p[i] = q[i + 1]
  OBVIOUS
<1> HIDE DEF p
<1>2. PICK f : Contents(x, q, Len(q), f) /\ OnceDone(x, q) = f[Len(q)]
  BY ContentsOf
<1>3. PICK g : Contents(y, p, n, g) /\ OnceDone(y, p) = g[n]
  BY <1>1, ContentsOf
<1> HIDE DEF n, y
<1>4. f[1] = y
  <2>1. n + 1 \in Nat /\ 1 \in 0..(n + 1) /\ 1 - 1 = 0 /\ 1 # 0
    BY <1>1
  <2>2. f[0] = x /\ f[1] = TablesAfter(f[1 - 1], q[1])
    BY <1>1, <1>2, <2>1, ContentsPlaces
  <2> QED
    BY <2>1, <2>2 DEF y
<1>5. g[n] = f[n + 1]
  <2>1. 1 \in Nat /\ n + 1 \in Nat /\ n + 1 <= n + 1
    BY <1>1
  <2>2. Agree(q, 1, p, n)
    BY <1>1 DEF Agree
  <2> QED
    BY <1>1, <1>2, <1>3, <1>4, <2>1, <2>2, SameContents
<1> QED
  BY <1>1, <1>2, <1>3, <1>5 DEF p, y

-----------------------------------------------------------------------------
(* What saving does to the tables.                                         *)

LEMMA DataRow == ASSUME NEW h \in Data PROVE AsSaved(h) = [row |-> Row(h), rules |-> h.rules] /\ Row(h) # NoRow
BY DataParts, InputsAssumption DEF AsSaved

LEMMA UpdateEffect ==
  ASSUME NEW h \in Data, NEW d \in Data, d.rules = h.rules, NEW by
  PROVE  TablesAfter(AsSaved(h), Task("update", by, Row(d))) = AsSaved(d)
<1> DEFINE row == Row(h)
           rules == h.rules
           row2 == Row(d)
<1>1. AsSaved(h) = [row |-> row, rules |-> rules] /\ AsSaved(d) = [row |-> row2, rules |-> rules] /\ row # NoRow
  BY DataRow
<1> DEFINE t == Task("update", by, row2)
           x == AsSaved(h)
<1> HIDE DEF row, rules, row2
<1>2. t.op = "update" /\ t.arg = row2
  BY DEF Task
<1>3. x.row = row /\ x.rules = rules
  BY <1>1
<1> HIDE DEF t, x
<1>4. RowAfter(x.row, t) = row2
  BY <1>1, <1>2, <1>3 DEF RowAfter
<1>5. RulesAfter(x.rules, t) = rules
  BY <1>2, <1>3 DEF RulesAfter
<1> QED
  BY <1>1, <1>4, <1>5 DEF TablesAfter, t, x, row2

LEMMA InsertEffect ==
  ASSUME NEW d \in Data, d.rules = {}, NEW by
  PROVE  TablesAfter(AsSaved(NoHoliday), Task("insert", by, Row(d))) = AsSaved(d)
<1> DEFINE row2 == Row(d)
<1>1. AsSaved(d) = [row |-> row2, rules |-> {}]
  BY DataRow
<1>2. AsSaved(NoHoliday) = [row |-> NoRow, rules |-> {}]
  BY DEF AsSaved
<1> DEFINE t == Task("insert", by, row2)
           x == AsSaved(NoHoliday)
<1> HIDE DEF row2
<1>3. t.op = "insert" /\ t.arg = row2
  BY DEF Task
<1>4. x.row = NoRow /\ x.rules = {}
  BY <1>2
<1> HIDE DEF t, x
<1>5. RowAfter(x.row, t) = row2
  BY <1>3, <1>4 DEF RowAfter
<1>6. RulesAfter(x.rules, t) = {}
  BY <1>3, <1>4 DEF RulesAfter
<1> QED
  BY <1>1, <1>5, <1>6 DEF TablesAfter, t, x, row2

LEMMA DeleteEffect ==
  ASSUME NEW h \in Data, NEW by
  PROVE  TablesAfter(TablesAfter(AsSaved(h), Task("delete", by, {})), Task("clearrules", by, {})) = AsSaved(NoHoliday)
<1> DEFINE row == Row(h)
           rules == h.rules
<1>1. AsSaved(h) = [row |-> row, rules |-> rules] /\ AsSaved(NoHoliday) = [row |-> NoRow, rules |-> {}]
  BY DataRow DEF AsSaved
<1> HIDE DEF row, rules
<1> QED
  BY <1>1 DEF TablesAfter, RowAfter, RulesAfter, Task

LEMMA RulesEffect ==
  ASSUME NEW h \in Data, NEW d \in Data, Row(d) = Row(h), NEW by, NEW rule
  PROVE  /\ d.rules = h.rules \cup {rule} => TablesAfter(AsSaved(h), Task("addrule", by, rule)) = AsSaved(d)
         /\ d.rules = h.rules \ {rule} => TablesAfter(AsSaved(h), Task("delrule", by, rule)) = AsSaved(d)
         /\ d.rules = {} => TablesAfter(AsSaved(h), Task("clearrules", by, {})) = AsSaved(d)
<1> DEFINE row == Row(h)
           rules == h.rules
           rules2 == d.rules
<1>1. AsSaved(h) = [row |-> row, rules |-> rules] /\ AsSaved(d) = [row |-> row, rules |-> rules2]
  BY DataRow
<1> HIDE DEF row, rules, rules2
<1>2. rules2 = rules \cup {rule} => TablesAfter(AsSaved(h), Task("addrule", by, rule)) = AsSaved(d)
  BY <1>1 DEF TablesAfter, RowAfter, RulesAfter, Task
<1>3. rules2 = rules \ {rule} => TablesAfter(AsSaved(h), Task("delrule", by, rule)) = AsSaved(d)
  BY <1>1 DEF TablesAfter, RowAfter, RulesAfter, Task
<1>4. rules2 = {} => TablesAfter(AsSaved(h), Task("clearrules", by, {})) = AsSaved(d)
  BY <1>1 DEF TablesAfter, RowAfter, RulesAfter, Task
<1> QED
  BY <1>2, <1>3, <1>4 DEF rules, rules2

(* A queue whose tasks make the tables h makes them f[k] once that is      *)
(* saved.                                                                  *)
LEMMA SavesDone ==
  ASSUME NEW x, NEW q \in Seq(TaskType), NEW f \in HolidaySet, NEW k \in Keys, NEW by \in {"loop", "event"},
         NEW h \in Data \cup {NoHoliday}, OnceDone(x, q) = AsSaved(h),
         f[k] # NoHoliday => h # NoHoliday /\ f[k].rules = h.rules
  PROVE  /\ q \o Saves(k, by, f) \in Seq(TaskType)
         /\ OnceDone(x, q \o Saves(k, by, f)) = AsSaved(IF f[k] = NoHoliday THEN h ELSE f[k])
<1>1. CASE f[k] = NoHoliday
  <2>1. q \o Saves(k, by, f) = q
    BY <1>1 DEF Saves
  <2> QED
    BY <1>1, <2>1
<1>2. CASE f[k] # NoHoliday
  <2> DEFINE t == Task("update", by, Row(f[k]))
  <2>1. f[k] \in Data /\ h \in Data
    BY <1>2 DEF HolidaySet
  <2>2. t \in TaskType
    BY <2>1, DataParts DEF Task, TaskType
  <2>3. TablesAfter(AsSaved(h), t) = AsSaved(f[k])
    <3> DEFINE d == f[k]
    <3>1. d \in Data /\ d.rules = h.rules
      BY <1>2, <2>1
    <3> HIDE DEF d
    <3>2. TablesAfter(AsSaved(h), Task("update", by, Row(d))) = AsSaved(d)
      BY <2>1, <3>1, UpdateEffect
    <3> QED
      BY <3>2 DEF d
  <2>5. Saves(k, by, f) = <<t>>
    BY <1>2 DEF Saves
  <2> HIDE DEF t
  <2>6. q \o <<t>> = Append(q, t) /\ Append(q, t) \in Seq(TaskType)
    BY <2>2
  <2>7. OnceDone(x, Append(q, t)) = TablesAfter(OnceDone(x, q), t)
    BY <2>2, LastDone
  <2> QED
    BY <1>2, <2>3, <2>5, <2>6, <2>7
<1> QED
  BY <1>1, <1>2

(* The tables of k follow the Master.                                      *)
Follow(k) == OnceDone(InTables(k), dbq[k]) = AsSaved(hol[k])

LEMMA RowsKept ==
  ASSUME NEW k, UNCHANGED <<rows, ruleRows>>, hol'[k] = hol[k], dbq'[k] = dbq[k], Follow(k)
  PROVE  Follow(k)'
BY DEF Follow, InTables

(* f and then g are saved.                                                 *)
LEMMA SavedRows ==
  ASSUME TypeOK, RowsFollowMaster, up, UNCHANGED <<rows, ruleRows, astray>>,
         NEW f \in HolidaySet, NEW g \in HolidaySet, NEW by \in {"loop", "event"}, SaveAndSync(by, f, g),
         \A k \in Keys :
           /\ f[k] # NoHoliday => hol[k] # NoHoliday /\ f[k].rules = hol[k].rules
           /\ g[k] # NoHoliday => hol[k] # NoHoliday /\ g[k].rules = hol[k].rules
           /\ \/ g[k] # NoHoliday /\ hol'[k] = g[k]
              \/ g[k] = NoHoliday /\ f[k] # NoHoliday /\ hol'[k] = f[k]
              \/ g[k] = NoHoliday /\ f[k] = NoHoliday /\ hol'[k] = hol[k]
  PROVE  RowsFollowMaster'
<1> SUFFICES ASSUME NEW k \in Keys, Follow(k) PROVE Follow(k)'
  BY DEF RowsFollowMaster, Follow
<1> DEFINE x == InTables(k)
           h1 == IF f[k] = NoHoliday THEN hol[k] ELSE f[k]
           h2 == IF g[k] = NoHoliday THEN h1 ELSE g[k]
           p == dbq[k] \o Saves(k, by, f)
<1>1. hol[k] \in Data \cup {NoHoliday} /\ dbq[k] \in Seq(TaskType)
  BY TypeParts DEF HolidaySet
<1>2. /\ p \in Seq(TaskType)
      /\ OnceDone(x, p) = AsSaved(h1)
  BY <1>1, SavesDone DEF Follow
<1>3. h1 \in Data \cup {NoHoliday} /\ (g[k] # NoHoliday => h1 # NoHoliday /\ g[k].rules = h1.rules)
  BY <1>1 DEF HolidaySet
<1>4. hol'[k] = h2
  OBVIOUS
<1>5. dbq'[k] = p \o Saves(k, by, g) /\ x' = x
  BY DEF SaveAndSync, InTables
<1> HIDE DEF p, x, h1
<1>6. OnceDone(x, p \o Saves(k, by, g)) = AsSaved(h2)
  BY <1>2, <1>3, SavesDone
<1> QED
  BY <1>4, <1>5, <1>6 DEF Follow, x

(* One task is queued that changes the tables as the Master has it.        *)
LEMMA QueuedRows ==
  ASSUME TypeOK, RowsFollowMaster, up, UNCHANGED <<rows, ruleRows, astray>>,
         NEW k \in Keys, NEW t \in TaskType, Queue(k, <<t>>), NEW d \in Data \cup {NoHoliday},
         hol' = [hol EXCEPT ![k] = d], TablesAfter(AsSaved(hol[k]), t) = AsSaved(d)
  PROVE  RowsFollowMaster'
<1> SUFFICES ASSUME NEW j \in Keys, Follow(j) PROVE Follow(j)'
  BY DEF RowsFollowMaster, Follow
<1>1. hol \in HolidaySet /\ dbq \in [Keys -> Seq(TaskType)]
  BY TypeParts
<1>2. hol'[j] = IF j = k THEN d ELSE hol[j]
  BY <1>1 DEF HolidaySet
<1>3. CASE j # k
  <2>1. dbq'[j] = dbq[j]
    BY <1>1, <1>3 DEF Queue
  <2> QED
    BY <1>2, <1>3, <2>1, RowsKept
<1>4. CASE j = k
  <2> DEFINE q == dbq[k]
  <2>1. q \in Seq(TaskType) /\ dbq'[k] = q \o <<t>>
    BY <1>1 DEF Queue
  <2> HIDE DEF q
  <2>2. q \o <<t>> = Append(q, t)
    BY <2>1
  <2>3. OnceDone(InTables(k), Append(q, t)) = TablesAfter(OnceDone(InTables(k), q), t)
    BY <2>1, LastDone
  <2>4. OnceDone(InTables(k), q) = AsSaved(hol[k]) /\ InTables(k)' = InTables(k)
    BY <1>4 DEF Follow, InTables, q
  <2>5. OnceDone(InTables(k)', dbq'[k]) = AsSaved(d)
    BY <2>1, <2>2, <2>3, <2>4
  <2> QED
    BY <1>2, <1>4, <2>5 DEF Follow
<1> QED
  BY <1>3, <1>4

-----------------------------------------------------------------------------
(* The rows after each action.                                             *)

(* A check neither makes nor removes a holiday, and leaves the rules.      *)
LEMMA CheckedRules ==
  ASSUME Time, NEW h \in HolidaySet, NEW pick \in Picks, NEW k \in Keys
  PROVE  /\ AllChecked(h, pick)[k] = NoHoliday <=> h[k] = NoHoliday
         /\ h[k] # NoHoliday => AllChecked(h, pick)[k].rules = h[k].rules
<1>1. AllChecked(h, pick)[k] = IF h[k] = NoHoliday THEN NoHoliday ELSE Checked(k, h[k], pick[k])
  BY DEF AllChecked
<1>2. CASE h[k] = NoHoliday
  BY <1>1, <1>2
<1>3. CASE h[k] # NoHoliday
  <2>1. h[k] \in Data /\ pick[k] \in Days
    BY <1>3 DEF HolidaySet, Picks, Days
  <2> DEFINE d == h[k]
             e == Checked(k, d, pick[k])
  <2>2. d \in Data
    BY <2>1
  <2> HIDE DEF d
  <2>3. e \in Data /\ e.rules = d.rules
    BY <2>1, <2>2, CheckedEffect
  <2> QED
    BY <1>1, <1>3, <2>3, InputsAssumption DEF d
<1> QED
  BY <1>2, <1>3

LEMMA SetAndCheckRows ==
  ASSUME TypeOK, RowsFollowMaster, Command, NEW k \in Keys, Exists(k), NEW d \in Data, d.rules = hol[k].rules,
         NEW clear, SetAndCheck(k, d, clear)
  PROVE  RowsFollowMaster'
<1> DEFINE set == [hol EXCEPT ![k] = d]
<1>1. PICK pick \in Picks :
        LET h == AllChecked(set, pick) IN hol' = h /\ SaveAndSync("event", Only(k, d), Changes(set, h))
  BY DEF SetAndCheck
<1> DEFINE h == AllChecked(set, pick)
           f == Only(k, d)
           g == Changes(set, h)
<1>2. set \in HolidaySet
  BY TypeParts DEF HolidaySet
<1>3. h \in HolidaySet
  BY <1>2, TypeParts, AllCheckedType
<1>4. hol' = h /\ SaveAndSync("event", f, g)
  BY <1>1
<1>5. \A j \in Keys : set[j] = IF j = k THEN d ELSE hol[j]
  BY TypeParts DEF HolidaySet
<1>6. \A j \in Keys : /\ h[j] = NoHoliday <=> set[j] = NoHoliday
                      /\ set[j] # NoHoliday => h[j].rules = set[j].rules
  <2> HIDE DEF set
  <2> QED
    BY <1>2, TypeParts, CheckedRules
<1> HIDE DEF h, set
<1>7. f \in HolidaySet /\ g \in HolidaySet
  BY <1>2, <1>3, ChangeTypes
<1>8. \A j \in Keys : /\ f[j] = (IF j = k THEN d ELSE NoHoliday) /\ d # NoHoliday
                      /\ g[j] = IF h[j] = set[j] THEN NoHoliday ELSE h[j]
  BY InputsAssumption DEF Only, Nothing, Changes
<1> HIDE DEF f, g
<1>9. ASSUME NEW j \in Keys
      PROVE  /\ f[j] # NoHoliday => hol[j] # NoHoliday /\ f[j].rules = hol[j].rules
             /\ g[j] # NoHoliday => hol[j] # NoHoliday /\ g[j].rules = hol[j].rules
             /\ \/ g[j] # NoHoliday /\ hol'[j] = g[j]
                \/ g[j] = NoHoliday /\ f[j] # NoHoliday /\ hol'[j] = f[j]
                \/ g[j] = NoHoliday /\ f[j] = NoHoliday /\ hol'[j] = hol[j]
  BY <1>4, <1>5, <1>6, <1>8 DEF Exists
<1> QED
  BY <1>4, <1>7, <1>9, SavedRows DEF Command

(* A command that gives one holiday the data d and saves it.               *)
LEMMA OneRows ==
  ASSUME TypeOK, RowsFollowMaster, Command, NEW k \in Keys, Exists(k), NEW d \in Data, d.rules = hol[k].rules,
         hol' = [hol EXCEPT ![k] = d], SaveAndSync("event", Only(k, d), Nothing)
  PROVE  RowsFollowMaster'
<1> DEFINE f == Only(k, d)
<1>1. f \in HolidaySet /\ Nothing \in HolidaySet
  BY ChangeTypes
<1>2. \A j \in Keys : Nothing[j] = NoHoliday /\ f[j] = (IF j = k THEN d ELSE NoHoliday) /\ d # NoHoliday
  BY InputsAssumption DEF Only, Nothing
<1>3. \A j \in Keys : hol'[j] = IF j = k THEN d ELSE hol[j]
  BY TypeParts DEF HolidaySet
<1>4. SaveAndSync("event", f, Nothing)
  OBVIOUS
<1> HIDE DEF f
<1>5. ASSUME NEW j \in Keys
      PROVE  /\ f[j] # NoHoliday => hol[j] # NoHoliday /\ f[j].rules = hol[j].rules
             /\ Nothing[j] # NoHoliday => hol[j] # NoHoliday /\ Nothing[j].rules = hol[j].rules
             /\ \/ Nothing[j] # NoHoliday /\ hol'[j] = Nothing[j]
                \/ Nothing[j] = NoHoliday /\ f[j] # NoHoliday /\ hol'[j] = f[j]
                \/ Nothing[j] = NoHoliday /\ f[j] = NoHoliday /\ hol'[j] = hol[j]
  BY <1>2, <1>3 DEF Exists
<1> QED
  BY <1>1, <1>4, <1>5, SavedRows DEF Command

LEMMA CheckRows ==
  ASSUME TypeOK, RowsFollowMaster, CheckScheduleAndRules
  PROVE  RowsFollowMaster'
<1>1. PICK pick \in Picks :
        LET h == AllChecked(hol, pick) IN hol' = h /\ SaveAndSync("loop", Changes(hol, h), Nothing)
  BY DEF CheckScheduleAndRules
<1> DEFINE h == AllChecked(hol, pick)
           f == Changes(hol, h)
<1>2. hol \in HolidaySet /\ h \in HolidaySet
  BY TypeParts, AllCheckedType
<1>3. hol' = h /\ SaveAndSync("loop", f, Nothing)
  BY <1>1
<1>4. \A j \in Keys : /\ h[j] = NoHoliday <=> hol[j] = NoHoliday
                      /\ hol[j] # NoHoliday => h[j].rules = hol[j].rules
  BY <1>2, TypeParts, CheckedRules
<1> HIDE DEF h
<1>5. f \in HolidaySet /\ Nothing \in HolidaySet
  BY <1>2, ChangeTypes
<1>6. \A j \in Keys : Nothing[j] = NoHoliday /\ f[j] = IF h[j] = hol[j] THEN NoHoliday ELSE h[j]
  BY DEF Nothing, Changes
<1> HIDE DEF f
<1>7. up /\ UNCHANGED <<rows, ruleRows, astray>>
  BY DEF CheckScheduleAndRules
<1>8. ASSUME NEW j \in Keys
      PROVE  /\ f[j] # NoHoliday => hol[j] # NoHoliday /\ f[j].rules = hol[j].rules
             /\ Nothing[j] # NoHoliday => hol[j] # NoHoliday /\ Nothing[j].rules = hol[j].rules
             /\ \/ Nothing[j] # NoHoliday /\ hol'[j] = Nothing[j]
                \/ Nothing[j] = NoHoliday /\ f[j] # NoHoliday /\ hol'[j] = f[j]
                \/ Nothing[j] = NoHoliday /\ f[j] = NoHoliday /\ hol'[j] = hol[j]
  BY <1>3, <1>4, <1>6
<1> QED
  BY <1>3, <1>5, <1>7, <1>8, SavedRows

-----------------------------------------------------------------------------
LEMMA CreateRows ==
  ASSUME TypeOK, RowsFollowMaster, NEW k \in Keys, NEW dur \in Durations, NEW start \in StartTimes,
         NEW sched \in GivenSchedules, NEW today \in BOOLEAN, NEW r \in Days,
         AdminCreateHoliday(k, dur, start, sched, today, r)
  PROVE  RowsFollowMaster'
<1> DEFINE new == [active |-> FALSE, start |-> start, dur |-> dur, sched |-> sched, last |-> 0, rules |-> {}]
           d == UpdateScheduleData(new, today, r)
           t == Task("insert", "event", Row(d))
<1>1. /\ Command /\ hol[k] = NoHoliday /\ hol' = [hol EXCEPT ![k] = d] /\ Queue(k, <<t>>)
  BY DEF AdminCreateHoliday, Exists
<1>2. start \in Nat /\ sched \in Schedules
  BY TypeParts, InputsAssumption DEF StartTimes, Time
<1>3. new \in Data /\ new.rules = {}
  BY <1>2 DEF Data
<1> HIDE DEF new
<1>4. d \in Data /\ d.rules = {}
  BY <1>3, TypeParts, AssignRandom DEF UpdateScheduleData
<1> HIDE DEF d
<1>5. t \in TaskType
  BY <1>4, DataParts DEF Task, TaskType
<1>6. TablesAfter(AsSaved(NoHoliday), t) = AsSaved(d)
  BY <1>4, InsertEffect
<1> HIDE DEF t
<1> QED
  BY <1>1, <1>4, <1>5, <1>6, QueuedRows DEF Command

LEMMA DeleteRows ==
  ASSUME TypeOK, RowsFollowMaster, NEW k \in Keys, AdminDeleteHoliday(k)
  PROVE  RowsFollowMaster'
<1> DEFINE f == IF hol[k].active THEN Only(k, Ended(hol[k])) ELSE Nothing
           gone == Task("delete", "event", {})
           clear == Task("clearrules", "event", {})
<1>1. /\ Command /\ Exists(k) /\ hol' = [hol EXCEPT ![k] = NoHoliday]
      /\ Queue(k, Saves(k, "event", f) \o <<gone, clear>>)
  BY DEF AdminDeleteHoliday
<1>2. hol[k] \in Data /\ hol[k] # NoHoliday
  BY <1>1, TypeParts DEF Exists
<1>3. Ended(hol[k]) \in Data /\ Ended(hol[k]).rules = hol[k].rules
  BY <1>2, DataParts DEF Ended, Data
<1>4. f \in HolidaySet
  BY <1>3, ChangeTypes
<1>5. f[k] # NoHoliday => f[k] = Ended(hol[k])
  BY <1>3 DEF Only, Nothing
<1>6. gone \in TaskType /\ clear \in TaskType
  BY DEF Task, TaskType
<1> HIDE DEF f
<1> SUFFICES ASSUME NEW j \in Keys, j \notin astray, Follow(j) PROVE Follow(j)'
  BY <1>1 DEF RowsFollowMaster, Follow, Command
<1>7. CASE j # k
  <2>1. dbq'[j] = dbq[j] /\ hol'[j] = hol[j]
    BY <1>1, <1>7, TypeParts DEF Queue, HolidaySet
  <2> QED
    BY <1>1, <2>1, RowsKept DEF Command
<1>8. CASE j = k
  <2> DEFINE x == InTables(k)
             h == hol[k]
             d == IF f[k] = NoHoliday THEN h ELSE f[k]
             q == dbq[k] \o Saves(k, "event", f)
  <2>1. dbq[k] \in Seq(TaskType) /\ OnceDone(x, dbq[k]) = AsSaved(h)
    BY <1>8, TypeParts DEF Follow
  <2>2. q \in Seq(TaskType) /\ OnceDone(x, q) = AsSaved(d)
    BY <1>2, <1>3, <1>4, <1>5, <2>1, SavesDone
  <2>3. d \in Data
    BY <1>2, <1>3, <1>5
  <2>4. Saves(k, "event", f) \in Seq(TaskType)
    BY <1>4, SavesType
  <2>5. dbq'[k] = dbq[k] \o (Saves(k, "event", f) \o <<gone, clear>>)
    BY <1>1, TypeParts DEF Queue
  <2> DEFINE s == Saves(k, "event", f)
             p == dbq[k]
  <2>6. p \in Seq(TaskType) /\ s \in Seq(TaskType) /\ q = p \o s /\ dbq'[k] = p \o (s \o <<gone, clear>>)
    BY <2>1, <2>4, <2>5
  <2> HIDE DEF q, d, x, h, gone, clear, s, p
  <2>7. dbq'[k] = Append(Append(q, gone), clear) /\ Append(q, gone) \in Seq(TaskType)
    BY <1>6, <2>2, <2>6
  <2>8. OnceDone(x, Append(q, gone)) = TablesAfter(AsSaved(d), gone)
    BY <1>6, <2>2, LastDone
  <2>9. OnceDone(x, Append(Append(q, gone), clear)) = TablesAfter(OnceDone(x, Append(q, gone)), clear)
    <3> DEFINE r == Append(q, gone)
    <3>1. r \in Seq(TaskType)
      BY <2>7
    <3> HIDE DEF r
    <3>2. OnceDone(x, Append(r, clear)) = TablesAfter(OnceDone(x, r), clear)
      BY <1>6, <3>1, LastDone
    <3> QED
      BY <3>2 DEF r
  <2>10. TablesAfter(TablesAfter(AsSaved(d), gone), clear) = AsSaved(NoHoliday)
    BY <2>3, DeleteEffect DEF gone, clear
  <2>11. x' = x /\ hol'[k] = NoHoliday
    BY <1>1, TypeParts DEF Command, InTables, HolidaySet, x
  <2>12. OnceDone(x', dbq'[k]) = AsSaved(hol'[k])
    BY <2>7, <2>8, <2>9, <2>10, <2>11
  <2> QED
    BY <1>8, <2>12 DEF Follow, x
<1> QED
  BY <1>7, <1>8

LEMMA RulesRows ==
  ASSUME TypeOK, RowsFollowMaster, NEW k \in Keys,
         \/ ClearHolidayRules(k)
         \/ \E rule \in Rules : AddHolidayRule(k, rule) \/ DeleteHolidayRule(k, rule)
  PROVE  RowsFollowMaster'
<1>1. Command /\ Exists(k)
  BY DEF ClearHolidayRules, AddHolidayRule, DeleteHolidayRule
<1>2. hol[k] \in Data /\ hol[k].rules \subseteq Rules
  BY <1>1, TypeParts, DataFields
<1> DEFINE With(rules) == [hol[k] EXCEPT !.rules = rules]
<1>3. \A rules \in SUBSET Rules : With(rules) \in Data /\ Row(With(rules)) = Row(hol[k]) /\ With(rules).rules = rules
  BY <1>2 DEF Data, Row
<1>4. CASE ClearHolidayRules(k)
  <2> DEFINE d == With({})
             t == Task("clearrules", "event", {})
  <2>1. d \in Data /\ Row(d) = Row(hol[k]) /\ d.rules = {}
    BY <1>3
  <2>2. hol' = [hol EXCEPT ![k] = d] /\ Queue(k, <<t>>)
    BY <1>4 DEF ClearHolidayRules
  <2>3. t \in TaskType
    BY DEF Task, TaskType
  <2> HIDE DEF d
  <2>4. TablesAfter(AsSaved(hol[k]), t) = AsSaved(d)
    BY <1>2, <2>1, RulesEffect
  <2> HIDE DEF t
  <2> QED
    BY <1>1, <2>1, <2>2, <2>3, <2>4, QueuedRows DEF Command
<1>5. ASSUME NEW rule \in Rules, AddHolidayRule(k, rule)
      PROVE  RowsFollowMaster'
  <2> DEFINE d == With(hol[k].rules \cup {rule})
             t == Task("addrule", "event", rule)
  <2>1. d \in Data /\ Row(d) = Row(hol[k]) /\ d.rules = hol[k].rules \cup {rule}
    BY <1>2, <1>3
  <2>2. hol' = [hol EXCEPT ![k] = d] /\ Queue(k, <<t>>)
    BY <1>5 DEF AddHolidayRule
  <2>3. t \in TaskType
    BY DEF Task, TaskType
  <2> HIDE DEF d
  <2>4. TablesAfter(AsSaved(hol[k]), t) = AsSaved(d)
    BY <1>2, <2>1, RulesEffect
  <2> HIDE DEF t
  <2> QED
    BY <1>1, <2>1, <2>2, <2>3, <2>4, QueuedRows DEF Command
<1>6. ASSUME NEW rule \in Rules, DeleteHolidayRule(k, rule)
      PROVE  RowsFollowMaster'
  <2> DEFINE d == With(hol[k].rules \ {rule})
             t == Task("delrule", "event", rule)
  <2>1. d \in Data /\ Row(d) = Row(hol[k]) /\ d.rules = hol[k].rules \ {rule}
    BY <1>2, <1>3
  <2>2. hol' = [hol EXCEPT ![k] = d] /\ Queue(k, <<t>>)
    BY <1>6 DEF DeleteHolidayRule
  <2>3. t \in TaskType
    BY DEF Task, TaskType
  <2> HIDE DEF d
  <2>4. TablesAfter(AsSaved(hol[k]), t) = AsSaved(d)
    BY <1>2, <2>1, RulesEffect
  <2> HIDE DEF t
  <2> QED
    BY <1>1, <2>1, <2>2, <2>3, <2>4, QueuedRows DEF Command
<1> QED
  BY <1>4, <1>5, <1>6

LEMMA CommandsRows ==
  ASSUME TypeOK, RowsFollowMaster, NEW k \in Keys, Commands(k)
  PROVE  RowsFollowMaster'
<1>1. CASE StartHoliday(k) \/ EndHoliday(k)
  <2>1. /\ Command /\ Exists(k)
        /\ \E d \in {Started(hol[k]), Ended(hol[k])} :
             hol' = [hol EXCEPT ![k] = d] /\ SaveAndSync("event", Only(k, d), Nothing)
    BY <1>1 DEF StartHoliday, EndHoliday
  <2>2. hol[k] \in Data
    BY <2>1, TypeParts
  <2>3. /\ Started(hol[k]) \in Data /\ Started(hol[k]).rules = hol[k].rules
        /\ Ended(hol[k]) \in Data /\ Ended(hol[k]).rules = hol[k].rules
    BY <2>2, TypeParts, StartedType, DataParts DEF Started, Ended, Data
  <2> QED
    BY <2>1, <2>3, OneRows
<1>2. CASE SetHolidayType(k)
  <2>1. /\ Command /\ Exists(k) /\ hol' = hol /\ SaveAndSync("event", Only(k, hol[k]), Nothing)
    BY <1>2 DEF SetHolidayType
  <2>2. hol[k] \in Data /\ hol' = [hol EXCEPT ![k] = hol[k]]
    BY <2>1, TypeParts DEF HolidaySet
  <2> QED
    BY <2>1, <2>2, OneRows
<1>3. ASSUME NEW dur \in Durations, SetHolidayDuration(k, dur)
      PROVE  RowsFollowMaster'
  <2> DEFINE d == [hol[k] EXCEPT !.dur = dur]
  <2>1. Command /\ Exists(k) /\ SetAndCheck(k, d, FALSE)
    BY <1>3 DEF SetHolidayDuration
  <2>2. hol[k] \in Data
    BY <2>1, TypeParts
  <2>3. d \in Data /\ d.rules = hol[k].rules
    BY <2>2 DEF Data
  <2> HIDE DEF d
  <2> QED
    BY <2>1, <2>3, SetAndCheckRows
<1>4. ASSUME NEW start \in StartTimes, SetHolidayUnixTime(k, start)
      PROVE  RowsFollowMaster'
  <2> DEFINE d == [hol[k] EXCEPT !.start = start, !.last = 0]
  <2>1. Command /\ Exists(k) /\ SetAndCheck(k, d, TRUE)
    BY <1>4 DEF SetHolidayUnixTime
  <2>2. hol[k] \in Data /\ start \in Nat
    BY <2>1, TypeParts DEF StartTimes, Time
  <2>3. d \in Data /\ d.rules = hol[k].rules
    BY <2>2 DEF Data
  <2> HIDE DEF d
  <2> QED
    BY <2>1, <2>3, SetAndCheckRows
<1>5. ASSUME NEW sched \in GivenSchedules, NEW today \in BOOLEAN, NEW r \in Days,
             SetHolidaySchedule(k, sched, today, r)
      PROVE  RowsFollowMaster'
  <2> DEFINE c == [hol[k] EXCEPT !.sched = sched, !.last = 0]
             d == UpdateScheduleData(c, today, r)
  <2>1. Command /\ Exists(k) /\ hol' = [hol EXCEPT ![k] = d] /\ SaveAndSync("event", Only(k, d), Nothing)
    BY <1>5 DEF SetHolidaySchedule
  <2>2. hol[k] \in Data /\ sched \in Schedules
    BY <2>1, TypeParts, InputsAssumption
  <2>3. c \in Data /\ c.rules = hol[k].rules
    BY <2>2 DEF Data
  <2> HIDE DEF c
  <2>4. d \in Data /\ d.rules = hol[k].rules
    BY <2>3, TypeParts, AssignRandom DEF UpdateScheduleData
  <2> HIDE DEF d
  <2> QED
    BY <2>1, <2>4, OneRows
<1>6. ASSUME NEW dur \in Durations, NEW start \in StartTimes, NEW sched \in GivenSchedules,
             NEW today \in BOOLEAN, NEW r \in Days, AdminCreateHoliday(k, dur, start, sched, today, r)
      PROVE  RowsFollowMaster'
  BY <1>6, CreateRows
<1>7. CASE AdminDeleteHoliday(k)
  BY <1>7, DeleteRows
<1>8. CASE ClearHolidayRules(k) \/ \E rule \in Rules : AddHolidayRule(k, rule) \/ DeleteHolidayRule(k, rule)
  BY <1>8, RulesRows
<1> QED
  BY <1>1, <1>2, <1>3, <1>4, <1>5, <1>6, <1>7, <1>8, DurationsAccepted DEF Commands, Days

(* The worker takes a task: the first of its queue, or the key is astray.  *)
LEMMA TaskRows ==
  ASSUME TypeOK, RowsFollowMaster, NEW k \in Keys, NEW i \in DOMAIN dbq[k], DbTask(k, i) \/ DbTaskFails(k, i)
  PROVE  RowsFollowMaster'
<1>1. /\ up /\ hol' = hol /\ astray \subseteq astray'
      /\ \A j \in Keys \ {k} : dbq'[j] = dbq[j] /\ InTables(j)' = InTables(j)
  BY TypeParts DEF DbTask, DbTaskFails, dataVars, InTables, TypeOK
<1> SUFFICES ASSUME NEW j \in Keys, j \notin astray', Follow(j) PROVE Follow(j)'
  BY <1>1 DEF RowsFollowMaster, Follow
<1>2. CASE j # k
  <2>1. dbq'[j] = dbq[j] /\ InTables(j)' = InTables(j) /\ hol'[j] = hol[j]
    BY <1>1, <1>2
  <2> QED
    BY <2>1 DEF Follow
<1>3. CASE j = k
  <2>1. i = 1 /\ DbTask(k, 1)
    BY <1>3 DEF DbTask, DbTaskFails
  <2> DEFINE q == dbq[k]
             x == InTables(k)
  <2>2. q \in Seq(TaskType) /\ 1 \in DOMAIN q
    BY <2>1, TypeParts
  <2>3. dbq'[k] = RemoveAt(q, 1)
    BY <2>1, TypeParts DEF DbTask
  <2>4. x' = TablesAfter(x, q[1])
    BY <2>1 DEF DbTask, TypeOK, InTables, TablesAfter
  <2>5. OnceDone(x, q) = AsSaved(hol[k])
    BY <1>3 DEF Follow
  <2> HIDE DEF q, x
  <2>6. RemoveAt(q, 1) = Tail(q) /\ q # <<>>
    <3>1. SubSeq(q, 1, 0) = <<>> /\ SubSeq(q, 2, Len(q)) = Tail(q) /\ q # <<>> /\ Tail(q) \in Seq(TaskType)
      BY <2>2
    <3>2. RemoveAt(q, 1) = SubSeq(q, 1, 0) \o SubSeq(q, 2, Len(q))
      BY DEF RemoveAt
    <3> QED
      BY <3>1, <3>2
  <2>7. OnceDone(TablesAfter(x, q[1]), Tail(q)) = OnceDone(x, q)
    BY <2>2, <2>6, FirstDone
  <2>8. OnceDone(x', dbq'[k]) = AsSaved(hol'[k])
    BY <1>1, <2>3, <2>4, <2>5, <2>6, <2>7
  <2> QED
    BY <1>3, <2>8 DEF Follow, x
<1> QED
  BY <1>2, <1>3

-----------------------------------------------------------------------------
(* What is loaded differs from the tables by a new RANDOM start at most.   *)
LEMMA LoadedRow ==
  ASSUME TypeOK, NEW k \in Keys, rows[k] # NoRow, NEW r \in Days
  PROVE  LET d == Loaded(k, TRUE, r) IN
           /\ d \in Data /\ d.rules = ruleRows[k]
           /\ d.start = rows[k].start => Row(d) = rows[k]
<1> DEFINE c == [active |-> rows[k].active, start |-> rows[k].start, dur |-> rows[k].dur, sched |-> rows[k].sched,
                 last |-> 0, rules |-> ruleRows[k]]
           d == Loaded(k, TRUE, r)
           e == AssignRandomSchedule(c, FALSE, r)
<1>1. rows[k] \in RowType /\ ruleRows[k] \in SUBSET Rules
  BY DEF TypeOK
<1>2. c \in Data
  BY <1>1 DEF RowType, Data
<1>3. /\ c.active = rows[k].active /\ c.start = rows[k].start /\ c.dur = rows[k].dur /\ c.sched = rows[k].sched
      /\ c.rules = ruleRows[k]
  OBVIOUS
<1>4. d = c \/ d = e
  BY DEF Loaded
<1> HIDE DEF c
<1>5. e \in Data /\ e.active = c.active /\ e.dur = c.dur /\ e.sched = c.sched /\ e.rules = c.rules
  BY <1>2, TypeParts, AssignRandom
<1> HIDE DEF e, d
<1>6. d \in Data /\ d.active = c.active /\ d.dur = c.dur /\ d.sched = c.sched /\ d.rules = c.rules
  BY <1>2, <1>4, <1>5
<1>7. rows[k] = [active |-> rows[k].active, start |-> rows[k].start, dur |-> rows[k].dur, sched |-> rows[k].sched]
  BY <1>1 DEF RowType
<1>8. d.start = rows[k].start => Row(d) = rows[k]
  BY <1>3, <1>6, <1>7 DEF Row
<1> QED
  BY <1>3, <1>6, <1>8 DEF d

LEMMA LoadRows ==
  ASSUME TypeOK, NEW rowsOK \in BOOLEAN, NEW rulesOK \in BOOLEAN, LoadFromDatabase(rowsOK, rulesOK)
  PROVE  RowsFollowMaster'
<1> DEFINE Held(pick) ==
             [k \in Keys |-> IF rowsOK /\ rows[k] # NoRow THEN Loaded(k, rulesOK, pick[k]) ELSE NoHoliday]
           Anew(h) == [k \in Keys |-> IF h[k] # NoHoliday /\ h[k].start # rows[k].start THEN h[k] ELSE NoHoliday]
<1>1. PICK pick \in Picks :
        /\ hol' = Held(pick)
        /\ dbq' = [k \in Keys |-> Saves(k, "loop", Anew(Held(pick)))]
        /\ rows' = rows /\ ruleRows' = ruleRows
        /\ rowsOK /\ rulesOK => astray' = {k \in Keys : rows[k] = NoRow /\ ruleRows[k] # {}}
        /\ ~(rowsOK /\ rulesOK) => astray' = Keys
  BY DEF LoadFromDatabase
<1> DEFINE h == Held(pick)
           f == Anew(h)
<1> SUFFICES ASSUME NEW k \in Keys, k \notin astray' PROVE Follow(k)'
  BY DEF RowsFollowMaster, Follow
<1>2. rowsOK /\ rulesOK /\ (rows[k] = NoRow => ruleRows[k] = {})
  BY <1>1
<1>3. h \in HolidaySet
  BY LoadedType DEF Picks, Days, HolidaySet
<1>4. h[k] = IF rows[k] # NoRow THEN Loaded(k, TRUE, pick[k]) ELSE NoHoliday
  BY <1>2
<1>5. hol'[k] = h[k] /\ dbq'[k] = Saves(k, "loop", f) /\ InTables(k)' = InTables(k)
  BY <1>1 DEF InTables
<1> HIDE DEF h
<1>6. f \in HolidaySet /\ f[k] = IF h[k] # NoHoliday /\ h[k].start # rows[k].start THEN h[k] ELSE NoHoliday
  BY <1>3 DEF HolidaySet
<1> HIDE DEF f
<1>7. CASE f[k] = NoHoliday
  <2>1. dbq'[k] = <<>>
    BY <1>5, <1>7 DEF Saves
  <2>2. InTables(k) = AsSaved(h[k])
    <3>1. CASE rows[k] = NoRow
      BY <1>2, <1>4, <3>1 DEF InTables, AsSaved
    <3>2. CASE rows[k] # NoRow
      <4> DEFINE d == h[k]
      <4>1. d \in Data /\ d.rules = ruleRows[k] /\ (d.start = rows[k].start => Row(d) = rows[k])
        BY <1>4, <3>2, LoadedRow DEF Picks, Days
      <4>2. d # NoHoliday
        BY <4>1, InputsAssumption
      <4>3. d.start = rows[k].start
        BY <1>6, <1>7, <4>2
      <4> HIDE DEF d
      <4> QED
        BY <4>1, <4>3, DataRow DEF InTables, d
    <3> QED
      BY <3>1, <3>2
  <2> QED
    BY <1>5, <2>1, <2>2, NothingDone DEF Follow
<1>8. CASE f[k] # NoHoliday
  <2>1. rows[k] # NoRow /\ f[k] = h[k]
    BY <1>4, <1>6, <1>8
  <2> DEFINE d == [active |-> rows[k].active, start |-> rows[k].start, dur |-> rows[k].dur, sched |-> rows[k].sched,
                   last |-> 0, rules |-> ruleRows[k]]
             x == InTables(k)
  <2>2. rows[k] \in RowType /\ ruleRows[k] \in SUBSET Rules
    BY <2>1 DEF TypeOK
  <2>3. d \in Data /\ d.rules = ruleRows[k] /\ Row(d) = rows[k]
    BY <2>2 DEF RowType, Data, Row
  <2> HIDE DEF d
  <2>4. x = AsSaved(d)
    BY <2>3, DataRow DEF InTables
  <2>5. f[k].rules = ruleRows[k]
    BY <1>4, <2>1, LoadedRow DEF Picks, Days
  <2>6. d # NoHoliday /\ d \in Data \cup {NoHoliday}
    BY <2>3, InputsAssumption
  <2> HIDE DEF x
  <2>7. OnceDone(x, <<>>) = AsSaved(d)
    BY <2>4, NothingDone
  <2> DEFINE q == <<>>
  <2>8. q \in Seq(TaskType) /\ OnceDone(x, q) = AsSaved(d)
    BY <2>7
  <2> HIDE DEF q
  <2>9. OnceDone(x, q \o Saves(k, "loop", f)) = AsSaved(f[k])
    BY <1>6, <1>8, <2>3, <2>5, <2>6, <2>8, SavesDone
  <2>10. q \o Saves(k, "loop", f) = Saves(k, "loop", f)
    BY <1>6, SavesType DEF q
  <2> QED
    BY <1>5, <2>1, <2>9, <2>10 DEF Follow, x
<1> QED
  BY <1>7, <1>8

LEMMA RowsNext == TypeOK /\ RowsFollowMaster /\ [Next]_vars => RowsFollowMaster'
<1> SUFFICES ASSUME TypeOK, RowsFollowMaster, [Next]_vars PROVE RowsFollowMaster'
  OBVIOUS
<1>1. CASE CheckScheduleAndRules
  BY <1>1, CheckRows
<1>2. ASSUME NEW k \in Keys, Commands(k) PROVE RowsFollowMaster'
  BY <1>2, CommandsRows
<1>3. ASSUME NEW rowsOK \in BOOLEAN, NEW rulesOK \in BOOLEAN, LoadFromDatabase(rowsOK, rulesOK)
      PROVE  RowsFollowMaster'
  BY <1>3, LoadRows
<1>4. CASE MasterEnds
  BY <1>4 DEF MasterEnds, RowsFollowMaster
<1>5. ASSUME NEW k \in Keys, NEW i \in DOMAIN dbq[k], DbTask(k, i) \/ DbTaskFails(k, i)
      PROVE  RowsFollowMaster'
  BY <1>5, TaskRows
<1>6. ASSUME \/ ReloadConfig \/ Tick \/ UNCHANGED vars
             \/ (\E rule \in Rules : StatChanges(rule)) \/ (\E k \in Keys : EditConfig(k))
             \/ \E s \in Servers : AddServer(s) \/ ServerReady(s) \/ RemoveServer(s) \/ OnTCPPacket(s)
                                     \/ LoseLink(s) \/ GameEnds(s)
      PROVE  RowsFollowMaster'
  <2>1. UNCHANGED <<up, hol, rows, ruleRows, dbq, astray>>
    BY <1>6 DEF ReloadConfig, Tick, vars, StatChanges, EditConfig, AddServer, ServerReady, RemoveServer,
                OnTCPPacket, LoseLink, GameEnds, dataVars, dbVars
  <2>2. \A k \in Keys : Follow(k) => Follow(k)'
    BY <2>1, RowsKept
  <2> QED
    BY <2>1, <2>2 DEF RowsFollowMaster, Follow
<1> QED
  BY <1>1, <1>2, <1>3, <1>4, <1>5, <1>6 DEF Next

(* Once the database tasks that wait are done, the tables hold every       *)
(* holiday as the Master has it, for every number of tasks: unless one     *)
(* failed or overtook another.                                             *)
THEOREM RowsFollow == Spec => []RowsFollowMaster
<1>1. Init => RowsFollowMaster
  BY Zenon DEF Init, RowsFollowMaster
<1> QED
  BY <1>1, TypeCorrect, RowsNext, PTL DEF Spec

-----------------------------------------------------------------------------
(* CheckMissesNone.  A day is a date of a periodic schedule if it is the   *)
(* schedule's day of some period; the date a check looks for is the latest *)
(* whose window may hold the day, and if it is in last it has been used.   *)

LEMMA Remainder ==
  ASSUME NEW n \in Nat, NEW p \in Nat \ {0}
  PROVE  n = p * (n \div p) + (n % p)
OBVIOUS

LEMMA RemainderOf ==
  ASSUME NEW p \in Nat \ {0}, NEW m \in Nat, NEW d \in 0..(p - 1)
  PROVE  (p * m + d) % p = d
<1> DEFINE x == p * m + d
           n == x \div p
           r == x % p
<1>1. p * m \in Nat /\ x \in Nat
  OBVIOUS
<1> HIDE DEF x
<1>2. x = p * n + r /\ r \in 0..(p - 1) /\ n \in Nat /\ p * n \in Nat
  BY <1>1, Remainder, Division
<1> HIDE DEF n, r
<1>3. p * m <= p * n
  <2>1. p * m < p * n + p
    BY <1>1, <1>2 DEF x
  <2> QED
    BY <1>2, <2>1, Multiples
<1>4. p * n <= p * m
  <2>1. p * n < p * m + p
    BY <1>1, <1>2 DEF x
  <2> QED
    BY <1>2, <2>1, Multiples
<1> QED
  BY <1>1, <1>2, <1>3, <1>4 DEF x, r

(* If any date of the schedule is due, the date a check looks for is.      *)
LEMMA DueIsFound ==
  ASSUME Time, NEW d \in Data, d.sched.type = "periodic", DueNow(d) # {}
  PROVE  PeriodicDate(d) # 0 /\ Covers(PeriodicDate(d), d) /\ PeriodicDate(d) \in DueNow(d)
<1> DEFINE p == d.sched.period
           day == d.sched.day
           n == now \div p
           date == PeriodicDate(d)
<1>1. p \in Periods /\ p \in Nat \ {0} /\ day \in 0..(p - 1)
  BY DataFields, PeriodicFields
<1>2. now \in Nat /\ now > p /\ d.dur \in Nat \ {0}
  BY <1>1, CalendarAssumption, DataFields DEF Time
<1>3. n \in Nat /\ p * n \in Nat /\ p * n <= now /\ now < p * n + p
  BY <1>1, <1>2, Division
<1>4. n # 0
  BY <1>1, <1>2, <1>3
<1>5. date = IF Covers(p * n + day, d) THEN p * n + day ELSE p * (n - 1) + day
  BY <1>3 DEF PeriodicDate, Occurrence
<1>6. ASSUME date \in Nat, date # 0, Covers(date, d), date % p = day
      PROVE  date \in DueNow(d)
  BY <1>2, <1>6 DEF DueNow, DatesOf, Covers
<1>7. PICK x \in 1..now : x % p = day /\ Covers(x, d)
  BY DEF DueNow, DatesOf
<1> DEFINE m == x \div p
<1>8. x \in Nat /\ m \in Nat /\ p * m \in Nat /\ x = p * m + day
  <2>1. x \in Nat
    BY <1>2, <1>7
  <2>2. x = p * (x \div p) + (x % p) /\ x \div p \in Nat /\ p * (x \div p) \in Nat
    BY <1>1, <2>1, Remainder, Division
  <2> QED
    BY <1>7, <2>1, <2>2
<1> HIDE DEF n, p, day, date, m
<1>9. n - 1 \in Nat /\ p * (n - 1) \in Nat /\ p * (n - 1) + p = p * n
  BY <1>1, <1>3, <1>4
<1>10. CASE Covers(p * n + day, d)
  <2>1. date = p * n + day /\ date \in Nat /\ date # 0
    BY <1>1, <1>3, <1>5, <1>9, <1>10
  <2>2. (p * n + day) % p = day
    BY <1>1, <1>3, RemainderOf
  <2> QED
    BY <1>6, <1>10, <2>1, <2>2 DEF date
<1>11. CASE ~Covers(p * n + day, d)
  <2>1. date = p * (n - 1) + day /\ date \in Nat
    BY <1>1, <1>5, <1>9, <1>11
  <2>2. p * m <= p * n
    <3>1. p * m < p * n + p
      BY <1>1, <1>2, <1>3, <1>7, <1>8
    <3> QED
      BY <1>1, <1>3, <1>8, <3>1, Multiples
  <2>3. p * m # p * n
    BY <1>7, <1>8, <1>11
  <2>4. p * m <= p * (n - 1)
    <3>1. p * m < p * (n - 1) + p
      BY <1>3, <1>8, <1>9, <2>2, <2>3
    <3> QED
      BY <1>1, <1>8, <1>9, <3>1, Multiples
  <2>5. x <= date /\ x \in 1..now /\ date <= now
    BY <1>1, <1>2, <1>3, <1>7, <1>8, <1>9, <2>1, <2>4
  <2>6. date # 0 /\ Covers(date, d)
    BY <1>2, <1>7, <2>1, <2>5 DEF Covers
  <2>7. (p * (n - 1) + day) % p = day
    BY <1>1, <1>9, RemainderOf
  <2> QED
    BY <1>6, <2>1, <2>6, <2>7 DEF date
<1> QED
  BY <1>10, <1>11

(* A date a schedule has last started at is one of those it has started    *)
(* at.                                                                     *)
Noting(h, f) ==
  \A k \in Keys : h[k] # NoHoliday /\ h[k].last # 0 => \E i \in DOMAIN f[k] : f[k][i] = h[k].last

LEMMA CheckedNoting ==
  ASSUME Time, NEW h \in HolidaySet, NEW f \in [Keys -> Seq(Nat)], NEW pick \in Picks, Noting(h, f)
  PROVE  Noting(AllChecked(h, pick), Noted(f, h, AllChecked(h, pick)))
<1> DEFINE h2 == AllChecked(h, pick)
           f2 == Noted(f, h, h2)
<1> SUFFICES ASSUME NEW k \in Keys, h2[k] # NoHoliday, h2[k].last # 0
             PROVE  \E i \in DOMAIN f2[k] : f2[k][i] = h2[k].last
  BY DEF Noting
<1>1. f2[k] = IF StartsBySchedule(h, h2, k) THEN Append(f[k], h2[k].start) ELSE f[k]
  BY DEF Noted
<1>2. h2[k] = IF h[k] = NoHoliday THEN NoHoliday ELSE Checked(k, h[k], pick[k])
  BY DEF AllChecked
<1> HIDE DEF h2, f2
<1> DEFINE d == h[k]
           e == h2[k]
<1>3. h[k] # NoHoliday /\ d \in Data /\ pick[k] \in Days /\ e = Checked(k, d, pick[k]) /\ f[k] \in Seq(Nat)
  BY <1>2 DEF HolidaySet, Picks, Days
<1>4. /\ e \in Data
      /\ \/ e = Ended(d) \/ e = d
         \/ ~d.active /\ StartsByRule(d) /\ e = Started(d)
         \/ Moved(d, e) /\ ~e.active
         \/ Dated(d, e)
  <2> HIDE DEF d, e
  <2> QED
    BY <1>3, CheckedEffect
<1>5. CASE e = Ended(d) \/ e = d \/ e = Started(d)
  <2>1. e.last = d.last
    BY <1>3, <1>5 DEF Ended, Started, Data
  <2>2. PICK i \in DOMAIN f[k] : f[k][i] = e.last
    BY <1>3, <2>1 DEF Noting
  <2>3. e.start \in Nat
    BY <1>4, DataFields
  <2>4. i \in DOMAIN f2[k] /\ f2[k][i] = f[k][i]
    BY <1>1, <1>3, <2>2, <2>3
  <2> QED
    BY <2>2, <2>4
<1>6. CASE Moved(d, e)
  BY <1>6 DEF Moved
<1>7. CASE Dated(d, e)
  <2>1. ~d.active /\ ~StartsByRule(d) /\ e.active /\ e.last = e.start
    BY <1>3, <1>7 DEF Dated, Data
  <2>2. f2[k] = Append(f[k], e.start) /\ e.start \in Nat
    BY <1>1, <1>3, <1>4, <2>1, DataFields DEF StartsBySchedule
  <2>3. Len(f[k]) + 1 \in DOMAIN f2[k] /\ f2[k][Len(f[k]) + 1] = e.start
    BY <1>3, <2>2
  <2> QED
    BY <2>1, <2>3
<1> QED
  BY <1>4, <1>5, <1>6, <1>7

(* A change of one holiday that keeps its last date, or sets none.         *)
LEMMA OneNoting ==
  ASSUME TypeOK, Noting(hol, fired), NEW k \in Keys, NEW d
  PROVE  /\ Exists(k) /\ d.last = hol[k].last => Noting([hol EXCEPT ![k] = d], fired)
         /\ d.last = 0 => Noting([hol EXCEPT ![k] = d], [fired EXCEPT ![k] = <<>>])
         /\ Noting([hol EXCEPT ![k] = NoHoliday], fired)
<1>1. hol \in [Keys -> Data \cup {NoHoliday}] /\ fired \in [Keys -> Seq(Nat)]
  BY DEF TypeOK
<1>2. ASSUME Exists(k), d.last = hol[k].last
      PROVE  Noting([hol EXCEPT ![k] = d], fired)
  BY <1>1, <1>2 DEF Noting, Exists
<1>3. ASSUME d.last = 0
      PROVE  Noting([hol EXCEPT ![k] = d], [fired EXCEPT ![k] = <<>>])
  BY <1>1, <1>3 DEF Noting
<1>4. Noting([hol EXCEPT ![k] = NoHoliday], fired)
  BY <1>1 DEF Noting
<1> QED
  BY <1>2, <1>3, <1>4

LEMMA SetAndCheckNoting ==
  ASSUME TypeOK, Noting(hol, fired), NEW k \in Keys, NEW d \in Data, NEW clear \in BOOLEAN, SetAndCheck(k, d, clear),
         Exists(k), IF clear THEN d.last = 0 ELSE d.last = hol[k].last
  PROVE  Noting(hol', fired')
<1> DEFINE set == [hol EXCEPT ![k] = d]
           f == IF clear THEN [fired EXCEPT ![k] = <<>>] ELSE fired
<1>1. PICK pick \in Picks : hol' = AllChecked(set, pick) /\ fired' = Noted(f, set, AllChecked(set, pick))
  BY DEF SetAndCheck
<1>2. set \in HolidaySet /\ f \in [Keys -> Seq(Nat)]
  BY TypeParts DEF HolidaySet
<1>3. Noting(set, f)
  BY OneNoting
<1> HIDE DEF set, f
<1> QED
  BY <1>1, <1>2, <1>3, TypeParts, CheckedNoting

LEMMA CommandsNoting ==
  ASSUME TypeOK, Noting(hol, fired), NEW k \in Keys, Commands(k)
  PROVE  Noting(hol', fired')
<1>1. ASSUME Exists(k)
      PROVE  /\ hol[k] \in Data /\ Started(hol[k]).last = hol[k].last /\ Ended(hol[k]).last = hol[k].last
             /\ \A rules \in SUBSET Rules : [hol[k] EXCEPT !.rules = rules].last = hol[k].last
  BY <1>1, TypeParts DEF Started, Ended, Data
<1>2. CASE StartHoliday(k) \/ EndHoliday(k)
  <2>1. /\ Exists(k) /\ fired' = fired
        /\ \E d \in {Started(hol[k]), Ended(hol[k])} : hol' = [hol EXCEPT ![k] = d]
    BY <1>2 DEF StartHoliday, EndHoliday
  <2> QED
    BY <1>1, <2>1, OneNoting
<1>3. CASE AdminDeleteHoliday(k)
  BY <1>3, OneNoting DEF AdminDeleteHoliday
<1>4. CASE SetHolidayType(k)
  BY <1>4 DEF SetHolidayType
<1>5. ASSUME NEW dur \in Durations, SetHolidayDuration(k, dur)
      PROVE  Noting(hol', fired')
  <2> DEFINE d == [hol[k] EXCEPT !.dur = dur]
  <2>1. Exists(k) /\ SetAndCheck(k, d, FALSE)
    BY <1>5 DEF SetHolidayDuration
  <2>2. d \in Data /\ d.last = hol[k].last
    BY <1>1, <2>1 DEF Data
  <2> HIDE DEF d
  <2> QED
    BY <2>1, <2>2, SetAndCheckNoting
<1>6. ASSUME NEW start \in StartTimes, SetHolidayUnixTime(k, start)
      PROVE  Noting(hol', fired')
  <2> DEFINE d == [hol[k] EXCEPT !.start = start, !.last = 0]
  <2>1. Exists(k) /\ SetAndCheck(k, d, TRUE)
    BY <1>6 DEF SetHolidayUnixTime
  <2>2. start \in Nat
    BY TypeParts DEF StartTimes, Time
  <2>3. d \in Data /\ d.last = 0
    BY <1>1, <2>1, <2>2 DEF Data
  <2> HIDE DEF d
  <2> QED
    BY <2>1, <2>3, SetAndCheckNoting
<1>7. ASSUME NEW sched \in GivenSchedules, NEW today \in BOOLEAN, NEW r \in Days,
             SetHolidaySchedule(k, sched, today, r)
      PROVE  Noting(hol', fired')
  <2> DEFINE c == [hol[k] EXCEPT !.sched = sched, !.last = 0]
             d == UpdateScheduleData(c, today, r)
  <2>1. Exists(k) /\ hol' = [hol EXCEPT ![k] = d] /\ fired' = [fired EXCEPT ![k] = <<>>]
    BY <1>7 DEF SetHolidaySchedule
  <2>2. c \in Data /\ c.last = 0
    BY <1>1, <2>1, InputsAssumption DEF Data
  <2> HIDE DEF c
  <2>3. d.last = 0
    BY <2>2, TypeParts, AssignRandom DEF UpdateScheduleData
  <2> HIDE DEF d
  <2> QED
    BY <2>1, <2>3, OneNoting
<1>8. ASSUME NEW dur \in Durations, NEW start \in StartTimes, NEW sched \in GivenSchedules,
             NEW today \in BOOLEAN, NEW r \in Days, AdminCreateHoliday(k, dur, start, sched, today, r)
      PROVE  Noting(hol', fired')
  <2> DEFINE c == [active |-> FALSE, start |-> start, dur |-> dur, sched |-> sched, last |-> 0, rules |-> {}]
             d == UpdateScheduleData(c, today, r)
  <2>1. hol' = [hol EXCEPT ![k] = d] /\ fired' = [fired EXCEPT ![k] = <<>>]
    BY <1>8 DEF AdminCreateHoliday
  <2>2. start \in Nat /\ sched \in Schedules
    BY TypeParts, InputsAssumption DEF StartTimes, Time
  <2>3. c \in Data /\ c.last = 0
    BY <2>2 DEF Data
  <2> HIDE DEF c
  <2>4. d.last = 0
    BY <2>3, TypeParts, AssignRandom DEF UpdateScheduleData
  <2> HIDE DEF d
  <2> QED
    BY <2>1, <2>4, OneNoting
<1>9. CASE ClearHolidayRules(k) \/ \E rule \in Rules : AddHolidayRule(k, rule) \/ DeleteHolidayRule(k, rule)
  <2>1. /\ Exists(k) /\ fired' = fired
        /\ \E rules \in SUBSET Rules : hol' = [hol EXCEPT ![k] = [hol[k] EXCEPT !.rules = rules]]
    BY <1>9, RulesStep
  <2> QED
    BY <1>1, <2>1, OneNoting
<1> QED
  BY <1>2, <1>3, <1>4, <1>5, <1>6, <1>7, <1>8, <1>9, DurationsAccepted DEF Commands, Days

LEMMA NotingNext == TypeOK /\ Noting(hol, fired) /\ [Next]_vars => Noting(hol', fired')
<1> SUFFICES ASSUME TypeOK, Noting(hol, fired), [Next]_vars PROVE Noting(hol', fired')
  OBVIOUS
<1>1. CASE CheckScheduleAndRules
  <2>1. PICK pick \in Picks : hol' = AllChecked(hol, pick) /\ fired' = Noted(fired, hol, AllChecked(hol, pick))
    BY <1>1 DEF CheckScheduleAndRules
  <2> QED
    BY <2>1, TypeParts, CheckedNoting
<1>2. ASSUME NEW k \in Keys, Commands(k) PROVE Noting(hol', fired')
  BY <1>2, CommandsNoting
<1>3. CASE MasterEnds
  <2>1. \A k \in Keys : hol'[k] = NoHoliday
    BY <1>3 DEF MasterEnds
  <2> QED
    BY <2>1 DEF Noting
<1>4. ASSUME NEW rowsOK \in BOOLEAN, NEW rulesOK \in BOOLEAN, LoadFromDatabase(rowsOK, rulesOK)
      PROVE  Noting(hol', fired')
  <2>1. PICK pick \in Picks :
          hol' = [k \in Keys |-> IF rowsOK /\ rows[k] # NoRow THEN Loaded(k, rulesOK, pick[k]) ELSE NoHoliday]
    BY <1>4 DEF LoadFromDatabase
  <2>2. ASSUME NEW k \in Keys, rows[k] # NoRow
        PROVE  Loaded(k, rulesOK, pick[k]).last = 0
    <3> DEFINE c == [active |-> rows[k].active, start |-> rows[k].start, dur |-> rows[k].dur, sched |-> rows[k].sched,
                     last |-> 0, rules |-> IF rulesOK THEN ruleRows[k] ELSE {}]
    <3>1. c \in Data /\ c.last = 0
      BY <2>2 DEF TypeOK, RowType, Data
    <3>2. Loaded(k, rulesOK, pick[k]) = c \/ Loaded(k, rulesOK, pick[k]) = AssignRandomSchedule(c, FALSE, pick[k])
      BY DEF Loaded
    <3> HIDE DEF c
    <3>3. pick[k] \in Days
      BY DEF Picks, Days
    <3>4. AssignRandomSchedule(c, FALSE, pick[k]).last = 0
      BY <3>1, <3>3, TypeParts, AssignRandom
    <3> QED
      BY <3>1, <3>2, <3>4
  <2>3. \A k \in Keys : hol'[k] = NoHoliday \/ hol'[k].last = 0
    BY <2>1, <2>2
  <2> QED
    BY <2>3 DEF Noting
<1>5. ASSUME \/ ReloadConfig \/ Tick \/ UNCHANGED vars
             \/ \E k \in Keys : \E i \in DOMAIN dbq[k] : DbTask(k, i) \/ DbTaskFails(k, i)
             \/ \E s \in Servers : AddServer(s) \/ ServerReady(s) \/ RemoveServer(s) \/ OnTCPPacket(s)
                                     \/ LoseLink(s) \/ GameEnds(s)
             \/ (\E rule \in Rules : StatChanges(rule)) \/ (\E k \in Keys : EditConfig(k))
      PROVE  Noting(hol', fired')
  <2>1. hol' = hol /\ fired' = fired
    BY <1>5 DEF ReloadConfig, Tick, vars, DbTask, DbTaskFails, AddServer, ServerReady, RemoveServer, OnTCPPacket,
                LoseLink, GameEnds, StatChanges, EditConfig, dataVars
  <2> QED
    BY <2>1
<1> QED
  BY <1>1, <1>2, <1>3, <1>4, <1>5 DEF Next

LEMMA NotingMisses == TypeOK /\ Noting(hol, fired) => CheckMissesNone
<1> SUFFICES ASSUME TypeOK, Noting(hol, fired), NEW k \in enabled, Exists(k), ~hol[k].active,
                    hol[k].sched.type = "periodic", hol[k].rules = {}, DueNow(hol[k]) # {},
                    DueNow(hol[k]) \cap Range(fired[k]) = {},
                    NEW r \in Days
             PROVE  Checked(k, hol[k], r).active
  BY DEF CheckMissesNone, AfterCheck, Days
<1> DEFINE d == hol[k]
           date == PeriodicDate(d)
<1>1. k \in Keys /\ d \in Data /\ Time
  BY TypeParts DEF TypeOK
<1>2. date # 0 /\ Covers(date, d) /\ date \in DueNow(d)
  <2> HIDE DEF d
  <2> QED
    BY <1>1, DueIsFound DEF d
<1>3. d.last # date
  <2> SUFFICES ASSUME d.last = date PROVE FALSE
    OBVIOUS
  <2>1. date \in Range(fired[k])
    BY <1>1, <1>2 DEF Noting, Exists, Range
  <2> QED
    BY <1>2, <2>1
<1>4. Checked(k, d, r) = Scheduled(d, r)
  BY DEF Checked, IsRuleTypeTriggered
<1>5. Scheduled(d, r) = [d EXCEPT !.active = TRUE, !.start = date, !.last = date]
  BY <1>2, <1>3 DEF Scheduled, ScheduledStart, DueDate
<1> QED
  BY <1>1, <1>4, <1>5 DEF Data

(* A check misses no period of a monthly or yearly schedule, in every      *)
(* calendar: if any of its windows holds the day, an inactive holiday      *)
(* without rules is started, or already was for a date that is still due.  *)
THEOREM NoneMissed == Spec => []CheckMissesNone
<1>1. Init => Noting(hol, fired)
  <2> SUFFICES ASSUME Init PROVE Noting(hol, fired)
    OBVIOUS
  <2>1. hol = [k \in Keys |-> NoHoliday]
    BY Zenon DEF Init
  <2> QED
    BY <2>1 DEF Noting
<1>2. TypeOK /\ Noting(hol, fired) /\ [Next]_vars => Noting(hol, fired)'
  BY NotingNext
<1> QED
  BY <1>1, <1>2, TypeCorrect, NotingMisses, PTL DEF Spec
=============================================================================
