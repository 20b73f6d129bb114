------------------------------ MODULE Holidays ------------------------------
(***************************************************************************)
(* Holidays: time-limited events the Master switches on and off, by an     *)
(* admin's command, by a schedule or by rules on statistics.  The Master   *)
(* saves each change to the database and sends it to the game servers,     *)
(* whose players see the holiday; a server that becomes ready makes the    *)
(* Master send all holidays to all servers.                                *)
(*                                                                         *)
(* Time is a count of days since some epoch and does not wrap: the code    *)
(* keeps the end of a holiday as 32 bits of seconds, so the model is of    *)
(* holidays that end before 2106; no command checks that.                  *)
(*                                                                         *)
(* MONTHLY and YEARLY are both a "periodic" schedule, [period, day]:       *)
(* months have one length, and so do years.  A rule is a type and a        *)
(* statistic; met is the set of the rules that hold by the statistics as   *)
(* they are.  The holiday's display type is left out, and SetHolidayType   *)
(* only saves and sends.                                                   *)
(*                                                                         *)
(* Commands run on the Master's event thread and checks on its game loop:  *)
(* each is a step here, though nothing in the code keeps the two apart.    *)
(* Their database tasks share one worker, whose queue keeps the order of   *)
(* each thread only.  Tasks on different holidays commute, so the queue is *)
(* modelled by one queue for each holiday.                                 *)
(*                                                                         *)
(* Bounds: MaxTime caps the clock, MaxCommands the commands, MaxChanges    *)
(* the changes of statistics and of config.txt, MaxLosses the lost links   *)
(* and processes and the database tasks that fail.  FirstTables is what    *)
(* the tables may hold of a key at first, GivenSchedules the schedules     *)
(* commands give.                                                          *)
(***************************************************************************)
EXTENDS Integers, Sequences, FiniteSets, SequencesExt

CONSTANTS Keys, Servers, Stats, Durations, Periods, MonthLen, FirstDay,
          NoHoliday, NoRow, NoCopy, FirstTables, GivenSchedules,
          MaxTime, MaxCommands, MaxChanges, MaxLosses

ASSUME CalendarAssumption ==
  /\ Durations \subseteq Nat \ {0} /\ Periods \subseteq Nat \ {0}
  /\ MonthLen \in Nat \ {0} /\ FirstDay \in Nat \ {0}
  /\ \A p \in Periods : p < FirstDay
ASSUME BoundsAssumption ==
  MaxTime \in Nat /\ MaxCommands \in Nat /\ MaxChanges \in Nat /\ MaxLosses \in Nat

VARIABLES
  up,       \* whether the Master runs
  hol,      \* Master m_holidays: the HolidayData of each key, or NoHoliday
  enabled,  \* Master enabledHolidays
  config,   \* the keys config.txt lists, and
  listed,   \* those it listed when the Master last read it
  met,      \* the rules the statistics meet
  now,      \* the day
  rows, ruleRows,  \* the tables Holidays and HolidayRules
  dbq,      \* the database tasks that wait, by key
  srv,      \* Master m_servers: "none", "authed" (AddServer) or "ready"
  proc,     \* game process: "down", "linked" to the Master, or "cut" off
  down,     \* packets from the Master to each game server
  copy,     \* game server m_holidays, as far as the packets tell
  fired,    \* history: the dates each schedule has started at (see below)
  astray,   \* history: the keys whose rows may differ for good (see below)
  commands, changes, losses

dataVars == <<hol, enabled, listed, fired>>
dbVars == <<rows, ruleRows, dbq, astray>>
netVars == <<srv, proc, down, copy>>
worldVars == <<config, met, now>>
counters == <<commands, changes, losses>>
vars == <<up, dataVars, dbVars, netVars, worldVars, counters>>

Rules == [type : {"start", "end"}, stat : Stats]
Schedules ==
  [type : {"none", "unix", "random"}]
    \cup UNION {[type : {"periodic"}, period : {p}, day : 0..(p - 1)] : p \in Periods}
Data == [active : BOOLEAN, start : Nat, dur : Durations, sched : Schedules, last : Nat, rules : SUBSET Rules]

Infos == [active : BOOLEAN, start : Nat, dur : Durations]
RowType == [active : BOOLEAN, start : Nat, dur : Durations, sched : Schedules]
ASSUME InputsAssumption ==
  /\ FirstTables \subseteq [row : RowType \cup {NoRow}, rules : SUBSET Rules]
  /\ GivenSchedules \subseteq Schedules
  /\ NoHoliday \notin Data /\ NoCopy \notin Infos /\ NoRow \notin RowType

Info(d) == [active |-> d.active, start |-> d.start, dur |-> d.dur]
Row(d) == [active |-> d.active, start |-> d.start, dur |-> d.dur, sched |-> d.sched]

-----------------------------------------------------------------------------
(* What a check does to one holiday.                                       *)

Started(d) == [d EXCEPT !.active = TRUE, !.start = now]
Ended(d) == [d EXCEPT !.active = FALSE]

(* now is in the half-open window of a holiday that starts on date.        *)
Covers(date, d) == date <= now /\ now < date + d.dur
Over(d) == now >= d.start + d.dur

IsRuleTypeTriggered(d, type) == \E r \in d.rules : r.type = type /\ r \in met

(* A start in the next month, or from today on in this one if that is      *)
(* asked for and the holiday fits; r is the random choice.                 *)
AssignRandomSchedule(d, allowCurrentMonth, r) ==
  LET today == now % MonthLen
      latest == IF d.dur <= MonthLen THEN MonthLen - d.dur ELSE 0
      canUseCurrent == allowCurrentMonth /\ today + d.dur <= MonthLen
      days == (IF canUseCurrent THEN today ELSE 0)..latest
      month == (now - today) + (IF canUseCurrent THEN 0 ELSE MonthLen)
  IN [d EXCEPT !.start = month + (IF r \in days THEN r ELSE latest), !.last = 0]

(* The date in this period, or the one before if this one's window does    *)
(* not hold the day.                                                       *)
Occurrence(sched, back) == sched.period * (now \div sched.period - back) + sched.day
PeriodicDateThisPeriod(d) == Occurrence(d.sched, 0) \* a defect
PeriodicDate(d) ==
  IF Covers(Occurrence(d.sched, 0), d) THEN Occurrence(d.sched, 0) ELSE Occurrence(d.sched, 1)
DueDate(d) ==
  CASE d.sched.type = "none" -> 0
    [] d.sched.type = "periodic" -> PeriodicDate(d)
    [] OTHER -> d.start

ScheduledStartAgain(d) == \* a defect: the last date is not compared
  LET date == DueDate(d) IN
    IF date # 0 /\ Covers(date, d) THEN [d EXCEPT !.active = TRUE, !.start = date, !.last = date] ELSE d
ScheduledStart(d) ==
  LET date == DueDate(d) IN
    IF date # 0 /\ Covers(date, d) /\ d.last # date
    THEN [d EXCEPT !.active = TRUE, !.start = date, !.last = date] ELSE d

Scheduled(d, r) ==
  IF d.sched.type = "random" /\ (d.start = 0 \/ Over(d)) THEN AssignRandomSchedule(d, FALSE, r)
  ELSE ScheduledStart(d)

CheckedNotExpired(k, d, r) == \* a defect: an active holiday ends by rules only
  IF k \notin enabled \/ (d.active /\ IsRuleTypeTriggered(d, "end")) THEN Ended(d)
  ELSE IF d.active THEN d
  ELSE IF IsRuleTypeTriggered(d, "start") /\ ~IsRuleTypeTriggered(d, "end") THEN Started(d)
  ELSE Scheduled(d, r)
Checked(k, d, r) ==
  IF k \notin enabled \/ (d.active /\ ~Covers(d.start, d)) THEN Ended(d)
  ELSE IF d.active THEN (IF IsRuleTypeTriggered(d, "end") THEN Ended(d) ELSE d)
  ELSE IF IsRuleTypeTriggered(d, "start") /\ ~IsRuleTypeTriggered(d, "end") THEN Started(d)
  ELSE Scheduled(d, r)

Exists(k) == hol[k] # NoHoliday
Picks == [Keys -> 0..(MonthLen - 1)]
AllChecked(h, pick) ==
  [k \in Keys |-> IF h[k] = NoHoliday THEN NoHoliday ELSE Checked(k, h[k], pick[k])]

-----------------------------------------------------------------------------
(* What is saved and sent.  A change gives each key the data to be saved   *)
(* and sent, or NoHoliday for none; the packets of one pass are one.       *)

Nothing == [k \in Keys |-> NoHoliday]
Only(k, d) == [Nothing EXCEPT ![k] = d]
Changes(h, h2) == [k \in Keys |-> IF h2[k] = h[k] THEN NoHoliday ELSE h2[k]]

Task(op, by, arg) == [op |-> op, by |-> by, arg |-> arg]
Saves(k, by, f) == IF f[k] = NoHoliday THEN <<>> ELSE <<Task("update", by, Row(f[k]))>>

Queue(k, tasks) == dbq' = [dbq EXCEPT ![k] = @ \o tasks]

Hears(s) == srv[s] # "none" /\ proc[s] = "linked"
Packet(f) == [k \in Keys |-> IF f[k] = NoHoliday THEN NoCopy ELSE Info(f[k])]
Push(q, f) == IF f = Nothing THEN q ELSE Append(q, Packet(f))
Sync(f, g) == down' = [s \in Servers |-> IF Hears(s) THEN Push(Push(down[s], f), g) ELSE down[s]]

(* SaveHolidayToDatabase and SyncHolidayViaTCP of f, and then of g. *)
SaveAndSync(by, f, g) ==
  /\ dbq' = [k \in Keys |-> dbq[k] \o Saves(k, by, f) \o Saves(k, by, g)]
  /\ Sync(f, g)

(* The keys a check starts by their schedule: such a start notes its date. *)
(* A start by hand or by a rule notes none, as StartHoliday leaves         *)
(* lastTriggeredStart alone.                                               *)
StartsByRule(d) == IsRuleTypeTriggered(d, "start") /\ ~IsRuleTypeTriggered(d, "end")
StartsBySchedule(h, h2, k) == h[k] # NoHoliday /\ ~h[k].active /\ h2[k].active /\ ~StartsByRule(h[k])
Noted(f, h, h2) ==
  [k \in Keys |-> IF StartsBySchedule(h, h2, k) THEN Append(f[k], h2[k].start) ELSE f[k]]

-----------------------------------------------------------------------------
(* The Master.                                                             *)

CheckScheduleAndRules ==
  \E pick \in Picks : LET h == AllChecked(hol, pick) IN
    /\ up
    /\ hol' = h
    /\ fired' = Noted(fired, hol, h)
    /\ SaveAndSync("loop", Changes(hol, h), Nothing)
    /\ UNCHANGED <<up, enabled, listed, rows, ruleRows, astray, srv, proc, copy, worldVars, counters>>

(* Of each command; its key is looked up first. *)
Command ==
  /\ up
  /\ commands < MaxCommands /\ commands' = commands + 1
  /\ UNCHANGED <<up, enabled, listed, rows, ruleRows, astray, srv, proc, copy, worldVars, changes, losses>>

StartHoliday(k) ==
  /\ Command
  /\ Exists(k) /\ ~hol[k].active
  /\ hol' = [hol EXCEPT ![k] = Started(@)]
  /\ SaveAndSync("event", Only(k, Started(hol[k])), Nothing)
  /\ UNCHANGED fired

EndHoliday(k) ==
  /\ Command
  /\ Exists(k) /\ hol[k].active
  /\ hol' = [hol EXCEPT ![k] = Ended(@)]
  /\ SaveAndSync("event", Only(k, Ended(hol[k])), Nothing)
  /\ UNCHANGED fired

(* UpdateScheduleData with forceReassign; today asks for a RANDOM start in *)
(* the current month.                                                      *)
UpdateScheduleData(d, today, r) == IF d.sched.type = "random" THEN AssignRandomSchedule(d, today, r) ELSE d

AdminCreateHoliday(k, dur, start, sched, today, r) ==
  LET new == [active |-> FALSE, start |-> start, dur |-> dur, sched |-> sched, last |-> 0, rules |-> {}]
      d == UpdateScheduleData(new, today, r)
  IN /\ Command
     /\ ~Exists(k)
     /\ hol' = [hol EXCEPT ![k] = d]
     /\ fired' = [fired EXCEPT ![k] = <<>>]
     /\ Queue(k, <<Task("insert", "event", Row(d))>>)
     /\ Sync(Only(k, d), Nothing)

(* Two defects of AdminDeleteHoliday: it does not tell the game servers, or *)
(* it leaves the rules in their table.                                     *)
AdminDeleteHolidayQuiet(k) ==
  /\ Command
  /\ Exists(k)
  /\ hol' = [hol EXCEPT ![k] = NoHoliday]
  /\ Queue(k, <<Task("delete", "event", {}), Task("clearrules", "event", {})>>)
  /\ UNCHANGED <<fired, down>>
AdminDeleteHolidayKeepRules(k) ==
  LET ended == IF hol[k].active THEN Only(k, Ended(hol[k])) ELSE Nothing IN
  /\ Command
  /\ Exists(k)
  /\ hol' = [hol EXCEPT ![k] = NoHoliday]
  /\ Queue(k, Saves(k, "event", ended) \o <<Task("delete", "event", {})>>)
  /\ Sync(ended, Nothing)
  /\ UNCHANGED fired

(* An active holiday is ended first.  What is left of it on the game       *)
(* servers stays, inactive.                                                *)
AdminDeleteHoliday(k) ==
  LET ended == IF hol[k].active THEN Only(k, Ended(hol[k])) ELSE Nothing IN
  /\ Command
  /\ Exists(k)
  /\ hol' = [hol EXCEPT ![k] = NoHoliday]
  /\ Queue(k, Saves(k, "event", ended) \o <<Task("delete", "event", {}), Task("clearrules", "event", {})>>)
  /\ Sync(ended, Nothing)
  /\ UNCHANGED fired

(* A setting is saved and sent, and then all holidays are checked. *)
SetAndCheck(k, d, clear) ==
  \E pick \in Picks :
    LET set == [hol EXCEPT ![k] = d]
        h == AllChecked(set, pick)
    IN /\ hol' = h
       /\ fired' = Noted(IF clear THEN [fired EXCEPT ![k] = <<>>] ELSE fired, set, h)
       /\ SaveAndSync("event", Only(k, d), Changes(set, h))

SetHolidayDuration(k, dur) ==
  /\ Command
  /\ Exists(k)
  /\ SetAndCheck(k, [hol[k] EXCEPT !.dur = dur], FALSE)

SetHolidayUnixTime(k, start) ==
  /\ Command
  /\ Exists(k)
  /\ SetAndCheck(k, [hol[k] EXCEPT !.start = start, !.last = 0], TRUE)

SetHolidayType(k) ==
  /\ Command
  /\ Exists(k)
  /\ SaveAndSync("event", Only(k, hol[k]), Nothing)
  /\ UNCHANGED <<hol, fired>>

SetHolidaySchedule(k, sched, today, r) ==
  LET d == UpdateScheduleData([hol[k] EXCEPT !.sched = sched, !.last = 0], today, r) IN
  /\ Command
  /\ Exists(k)
  /\ hol' = [hol EXCEPT ![k] = d]
  /\ fired' = [fired EXCEPT ![k] = <<>>]
  /\ SaveAndSync("event", Only(k, d), Nothing)

AddHolidayRule(k, rule) ==
  /\ Command
  /\ Exists(k)
  /\ hol' = [hol EXCEPT ![k].rules = @ \cup {rule}]
  /\ Queue(k, <<Task("addrule", "event", rule)>>)
  /\ UNCHANGED <<fired, down>>
DeleteHolidayRule(k, rule) ==
  /\ Command
  /\ Exists(k) /\ rule \in hol[k].rules
  /\ hol' = [hol EXCEPT ![k].rules = @ \ {rule}]
  /\ Queue(k, <<Task("delrule", "event", rule)>>)
  /\ UNCHANGED <<fired, down>>
ClearHolidayRules(k) ==
  /\ Command
  /\ Exists(k)
  /\ hol' = [hol EXCEPT ![k].rules = {}]
  /\ Queue(k, <<Task("clearrules", "event", {})>>)
  /\ UNCHANGED <<fired, down>>

(* /creload config: LoadConfig adds the keys the file lists. *)
ReloadConfig ==
  /\ up
  /\ commands < MaxCommands /\ commands' = commands + 1
  /\ enabled' = enabled \cup config
  /\ listed' = config
  /\ UNCHANGED <<up, hol, fired, dbVars, netVars, worldVars, changes, losses>>

-----------------------------------------------------------------------------
(* The database.  A statement on a row that is missing changes nothing,    *)
(* and an insert of a key that has a row fails.                            *)

RowAfter(row, t) ==
  CASE t.op = "update" -> (IF row = NoRow THEN NoRow ELSE t.arg)
    [] t.op = "insert" -> (IF row = NoRow THEN t.arg ELSE row)
    [] t.op = "delete" -> NoRow
    [] OTHER -> row
RulesAfter(rules, t) ==
  CASE t.op = "addrule" -> rules \cup {t.arg}
    [] t.op = "delrule" -> rules \ {t.arg}
    [] t.op = "clearrules" -> {}
    [] OTHER -> rules

(* The first waiting task of each thread may be the next. *)
Runnable(k, i) == \A j \in 1..(i - 1) : dbq[k][j].by # dbq[k][i].by

DbTask(k, i) ==
  /\ up
  /\ Runnable(k, i)
  /\ rows' = [rows EXCEPT ![k] = RowAfter(@, dbq[k][i])]
  /\ ruleRows' = [ruleRows EXCEPT ![k] = RulesAfter(@, dbq[k][i])]
  /\ dbq' = [dbq EXCEPT ![k] = RemoveAt(@, i)]
  /\ astray' = IF i = 1 THEN astray ELSE astray \cup {k}
  /\ UNCHANGED <<up, dataVars, netVars, worldVars, counters>>

(* The connection is lost or the task waited too long; nobody retries. *)
DbTaskFails(k, i) ==
  /\ up
  /\ Runnable(k, i)
  /\ losses < MaxLosses /\ losses' = losses + 1
  /\ dbq' = [dbq EXCEPT ![k] = RemoveAt(@, i)]
  /\ astray' = astray \cup {k}
  /\ UNCHANGED <<up, dataVars, rows, ruleRows, netVars, worldVars, commands, changes>>

-----------------------------------------------------------------------------
(* Start and end of the Master.  It loads both tables before it listens;   *)
(* a table that cannot be read counts as empty.  A RANDOM start that is    *)
(* over is chosen anew and saved.                                          *)

Loaded(k, rulesOK, r) ==
  LET d == [active |-> rows[k].active, start |-> rows[k].start, dur |-> rows[k].dur, sched |-> rows[k].sched,
            last |-> 0, rules |-> IF rulesOK THEN ruleRows[k] ELSE {}]
  IN IF d.sched.type = "random" /\ (d.start = 0 \/ Over(d)) THEN AssignRandomSchedule(d, FALSE, r) ELSE d

LoadFromDatabase(rowsOK, rulesOK) ==
  \E pick \in Picks :
    LET h == [k \in Keys |-> IF rowsOK /\ rows[k] # NoRow THEN Loaded(k, rulesOK, pick[k]) ELSE NoHoliday]
        anew == [k \in Keys |-> IF h[k] # NoHoliday /\ h[k].start # rows[k].start THEN h[k] ELSE NoHoliday]
    IN /\ ~up /\ up' = TRUE
       /\ hol' = h
       /\ dbq' = [k \in Keys |-> Saves(k, "loop", anew)]
       /\ IF rowsOK /\ rulesOK
          THEN astray' = {k \in Keys : rows[k] = NoRow /\ ruleRows[k] # {}} /\ UNCHANGED losses
          ELSE astray' = Keys /\ losses < MaxLosses /\ losses' = losses + 1
       /\ enabled' = config /\ listed' = config
       /\ UNCHANGED <<fired, rows, ruleRows, netVars, worldVars, commands, changes>>

(* The Master ends; what its threads have queued is lost. *)
MasterEnds ==
  /\ up /\ up' = FALSE
  /\ losses < MaxLosses /\ losses' = losses + 1
  /\ hol' = [k \in Keys |-> NoHoliday]
  /\ enabled' = {} /\ listed' = {}
  /\ fired' = [k \in Keys |-> <<>>]
  /\ dbq' = [k \in Keys |-> <<>>]
  /\ astray' = {}
  /\ srv' = [s \in Servers |-> "none"]
  /\ proc' = [s \in Servers |-> IF proc[s] = "linked" THEN "cut" ELSE proc[s]]
  /\ down' = [s \in Servers |-> <<>>]
  /\ UNCHANGED <<copy, rows, ruleRows, worldVars, commands, changes>>

-----------------------------------------------------------------------------
(* Game servers come and go, as in WorldPresence: who loses the Master     *)
(* never reconnects, and has to be started anew.                           *)

AddServer(s) ==
  /\ up /\ srv[s] = "none" /\ proc[s] = "down"
  /\ srv' = [srv EXCEPT ![s] = "authed"]
  /\ proc' = [proc EXCEPT ![s] = "linked"]
  /\ UNCHANGED <<up, dataVars, dbVars, down, copy, worldVars, counters>>

(* TCPEvent_Ready: all holidays are sent, to all servers. *)
ServerReady(s) ==
  /\ up /\ srv[s] = "authed" /\ proc[s] = "linked"
  /\ srv' = [srv EXCEPT ![s] = "ready"]
  /\ Sync(hol, Nothing)
  /\ UNCHANGED <<up, dataVars, dbVars, proc, copy, worldVars, counters>>

RemoveServer(s) ==
  /\ srv[s] # "none" /\ proc[s] # "linked"
  /\ srv' = [srv EXCEPT ![s] = "none"]
  /\ UNCHANGED <<up, dataVars, dbVars, proc, down, copy, worldVars, counters>>

OnTCPPacket(s) ==
  /\ proc[s] = "linked" /\ down[s] # <<>>
  /\ LET f == Head(down[s]) IN
       copy' = [copy EXCEPT ![s] = [k \in Keys |-> IF f[k] = NoCopy THEN @[k] ELSE f[k]]]
  /\ down' = [down EXCEPT ![s] = Tail(@)]
  /\ UNCHANGED <<up, dataVars, dbVars, srv, proc, worldVars, counters>>

LoseLink(s) ==
  /\ proc[s] = "linked" /\ proc' = [proc EXCEPT ![s] = "cut"]
  /\ losses < MaxLosses /\ losses' = losses + 1
  /\ down' = [down EXCEPT ![s] = <<>>]
  /\ UNCHANGED <<up, dataVars, dbVars, srv, copy, worldVars, commands, changes>>

(* A server that is cut off is stopped. *)
GameEnds(s) ==
  /\ proc[s] = "cut" /\ proc' = [proc EXCEPT ![s] = "down"]
  /\ copy' = [copy EXCEPT ![s] = [k \in Keys |-> NoCopy]]
  /\ UNCHANGED <<up, dataVars, dbVars, srv, down, worldVars, counters>>

-----------------------------------------------------------------------------
(* The world: time passes, statistics change, config.txt is edited.        *)
Tick ==
  /\ now < MaxTime /\ now' = now + 1
  /\ UNCHANGED <<up, dataVars, dbVars, netVars, config, met, counters>>
StatChanges(rule) ==
  /\ changes < MaxChanges /\ changes' = changes + 1
  /\ met' = IF rule \in met THEN met \ {rule} ELSE met \cup {rule}
  /\ UNCHANGED <<up, dataVars, dbVars, netVars, config, now, commands, losses>>
EditConfig(k) ==
  /\ changes < MaxChanges /\ changes' = changes + 1
  /\ config' = IF k \in config THEN config \ {k} ELSE config \cup {k}
  /\ UNCHANGED <<up, dataVars, dbVars, netVars, met, now, commands, losses>>

Init ==
  /\ up = FALSE
  /\ hol = [k \in Keys |-> NoHoliday]
  /\ enabled = {} /\ listed = {}
  /\ config = Keys
  /\ met = {}
  /\ now = FirstDay
  /\ \E tables \in [Keys -> FirstTables] :
       rows = [k \in Keys |-> tables[k].row] /\ ruleRows = [k \in Keys |-> tables[k].rules]
  /\ dbq = [k \in Keys |-> <<>>]
  /\ srv = [s \in Servers |-> "none"]
  /\ proc = [s \in Servers |-> "down"]
  /\ down = [s \in Servers |-> <<>>]
  /\ copy = [s \in Servers |-> [k \in Keys |-> NoCopy]]
  /\ fired = [k \in Keys |-> <<>>]
  /\ astray = {}
  /\ commands = 0 /\ changes = 0 /\ losses = 0

(* The start times commands give: none, the present, the future. *)
StartTimes == {0, now, now + 1}

(* The numbers of days commands give; 0 is refused. *)
GivenDurations == Durations \cup {0}
AcceptedDurationsAll == GivenDurations \* a defect
AcceptedDurations == {dur \in GivenDurations : dur > 0}

Commands(k) ==
  \/ StartHoliday(k) \/ EndHoliday(k) \/ AdminDeleteHoliday(k) \/ SetHolidayType(k) \/ ClearHolidayRules(k)
  \/ \E dur \in AcceptedDurations : SetHolidayDuration(k, dur)
  \/ \E start \in StartTimes : SetHolidayUnixTime(k, start)
  \/ \E sched \in GivenSchedules, today \in BOOLEAN, r \in 0..(MonthLen - 1) :
       \/ SetHolidaySchedule(k, sched, today, r)
       \/ \E dur \in AcceptedDurations, start \in StartTimes : AdminCreateHoliday(k, dur, start, sched, today, r)
  \/ \E rule \in Rules : AddHolidayRule(k, rule) \/ DeleteHolidayRule(k, rule)

Next ==
  \/ CheckScheduleAndRules \/ ReloadConfig \/ MasterEnds
  \/ \E rowsOK, rulesOK \in BOOLEAN : LoadFromDatabase(rowsOK, rulesOK)
  \/ \E k \in Keys : Commands(k) \/ \E i \in DOMAIN dbq[k] : DbTask(k, i) \/ DbTaskFails(k, i)
  \/ \E s \in Servers :
       AddServer(s) \/ ServerReady(s) \/ RemoveServer(s) \/ OnTCPPacket(s) \/ LoseLink(s) \/ GameEnds(s)
  \/ Tick \/ (\E rule \in Rules : StatChanges(rule)) \/ (\E k \in Keys : EditConfig(k))

Spec == Init /\ [][Next]_vars

-----------------------------------------------------------------------------
(* Properties.                                                             *)

Packets == [Keys -> Infos \cup {NoCopy}]
TaskType ==
  [op : {"update", "insert"}, by : {"loop", "event"}, arg : RowType]
    \cup [op : {"delete", "clearrules"}, by : {"event"}, arg : {{}}]
    \cup [op : {"addrule", "delrule"}, by : {"event"}, arg : Rules]

(* The state is well typed; without the Master no server is registered, no *)
(* link is up and nothing is queued.                                       *)
TypeOK ==
  /\ up \in BOOLEAN
  /\ hol \in [Keys -> Data \cup {NoHoliday}]
  /\ enabled \subseteq Keys /\ listed \subseteq Keys /\ config \subseteq Keys
  /\ met \subseteq Rules
  /\ now \in Nat /\ now >= FirstDay
  /\ rows \in [Keys -> RowType \cup {NoRow}]
  /\ ruleRows \in [Keys -> SUBSET Rules]
  /\ dbq \in [Keys -> Seq(TaskType)]
  /\ srv \in [Servers -> {"none", "authed", "ready"}]
  /\ proc \in [Servers -> {"down", "linked", "cut"}]
  /\ down \in [Servers -> Seq(Packets)]
  /\ copy \in [Servers -> [Keys -> Infos \cup {NoCopy}]]
  /\ fired \in [Keys -> Seq(Nat)]
  /\ astray \subseteq Keys
  /\ commands \in Nat /\ changes \in Nat /\ losses \in Nat
  /\ ~up => \A s \in Servers : srv[s] = "none" /\ proc[s] # "linked"

(* What a game server that knows x of k knows once it has handled the      *)
(* packets of q is in I.                                                   *)
About(q, k) == {i \in DOMAIN q : q[i][k] # NoCopy}
WillKnow(q, x, k, I) ==
  \/ About(q, k) = {} /\ x \in I
  \/ \E n \in About(q, k) : (\A j \in About(q, k) : j <= n) /\ q[n][k] \in I

(* Every ready server comes to know each holiday exactly as the Master has *)
(* it, and none that is deleted stays active: however commands, checks and *)
(* the list sent at READY follow each other.  A server not yet ready       *)
(* already hears of changes and knows nothing wrong.                       *)
Expected(s, k) ==
  IF Exists(k) THEN {Info(hol[k])} \cup (IF srv[s] = "authed" THEN {NoCopy} ELSE {})
  ELSE [active : {FALSE}, start : Nat, dur : Durations] \cup {NoCopy}
ServersFollowMaster == \A s \in Servers, k \in Keys : 
  Hears(s) => WillKnow(down[s], copy[s][k], k, Expected(s, k))

(* Once the tasks that wait are done the tables hold what the Master has,  *)
(* so a restart brings every holiday back as it was: unless a task failed, *)
(* or the worker took one of the loop before an older one of a command.    *)
TablesAfter(x, t) == [row |-> RowAfter(x.row, t), rules |-> RulesAfter(x.rules, t)]
OnceDone(x, q) ==
  LET after[i \in 0..Len(q)] == IF i = 0 THEN x ELSE TablesAfter(after[i - 1], q[i]) IN after[Len(q)]
InTables(k) == [row |-> rows[k], rules |-> ruleRows[k]]
AsSaved(h) == IF h = NoHoliday THEN [row |-> NoRow, rules |-> {}] ELSE [row |-> Row(h), rules |-> h.rules]
RowsFollowMaster == up => \A k \in Keys \ astray : OnceDone(InTables(k), dbq[k]) = AsSaved(hol[k])

(* From every state a check leaves no holiday active that is disabled or   *)
(* out of its window: whether it was started by hand, by a rule or by the  *)
(* check itself, and whatever was set since.                               *)
AfterCheck(k) == {Checked(k, hol[k], r) : r \in 0..(MonthLen - 1)}
CheckEndsInTime ==
  up => \A k \in Keys : Exists(k) =>
    \A d \in AfterCheck(k) : d.active => k \in enabled /\ Covers(d.start, d)

(* No schedule starts a holiday twice for one date, by one Master and      *)
(* until the date or the schedule is set anew: what a schedule started and *)
(* an admin or a rule ended, it leaves alone for the rest of the window.   *)
(* Starts by hand or by a rule do not count.  They set startTimeUnix to    *)
(* the present, and a UNIX or RANDOM schedule starts the holiday once more *)
(* for that very start when it is ended within its window.                 *)
StartsOncePerDate == \A k \in Keys : IsInjective(fired[k])

(* A check misses no period: if some date of a monthly or yearly schedule  *)
(* has a window that holds the day, and rules have no say, an inactive     *)
(* holiday is started, unless it already was for such a date.              *)
DatesOf(sched) == {d \in 1..now : d % sched.period = sched.day}
DueNow(d) == {date \in DatesOf(d.sched) : Covers(date, d)}
CheckMissesNone ==
  up => \A k \in enabled :
    Exists(k) /\ ~hol[k].active /\ hol[k].sched.type = "periodic" /\ hol[k].rules = {} /\ DueNow(hol[k]) # {} =>
      \/ \A d \in AfterCheck(k) : d.active
      \/ DueNow(hol[k]) \cap Range(fired[k]) # {}

(* What the documentation says of removing a key from enabled_holidays:    *)
(* the next check leaves no holiday active that config.txt did not list    *)
(* when it was last read.                                                  *)
RemovedKeysEnd ==
  up => \A k \in Keys : Exists(k) => \A d \in AfterCheck(k) : d.active => k \in listed
=============================================================================
