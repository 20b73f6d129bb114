----------------------------- MODULE MCHolidays -----------------------------
(* Small instances of Holidays, with months of three days; the run begins  *)
(* in the middle of the second.                                            *)
EXTENDS Holidays
CONSTANTS k1, s1, t1

Monthly == [type |-> "periodic", period |-> 3, day |-> 2]
AnyType == [type : {"none", "unix", "random"}] \cup {Monthly}
NoneOrMonthly == [type : {"none"}] \cup {Monthly}

NoTable == [row |-> NoRow, rules |-> {}]
Inactive(sched) == [row |-> [active |-> FALSE, start |-> 4, dur |-> 2, sched |-> sched], rules |-> {}]
Active(rules) == [row |-> [active |-> TRUE, start |-> 4, dur |-> 2, sched |-> [type |-> "unix"]], rules |-> rules]

(* No holiday; one with a schedule; one that was started and has rules. *)
SomeTables == {NoTable, Inactive(Monthly), Inactive([type |-> "random"]), Active(Rules)}
ActiveOrNone == {NoTable, Active({})}
=============================================================================
