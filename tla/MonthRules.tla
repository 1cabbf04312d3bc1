----------------------------- MODULE MonthRules -----------------------------
(***************************************************************************)
(* The month arithmetic of src/vms/db/partition_manager.py.  The name of a *)
(* monthly partition is a year and a month; an instant is a number of      *)
(* half months since year 0, that is, all months are equally long.         *)
(***************************************************************************)
EXTENDS Integers

Name == [year : Nat, month : 1..12]

\* datetime(year, month, 1).
FirstDay(year, month) == 2 * (12 * year + (month - 1))

AddMonths(n, delta) ==
  LET total == (n.month - 1) + delta
  IN  [year |-> n.year + (total \div 12), month |-> (total % 12) + 1]

\* _month_bounds, the end excluded.
MonthStart(n) == FirstDay(n.year, n.month)

MonthEnd(n) ==
  IF n.month = 12 THEN FirstDay(n.year + 1, 1) ELSE FirstDay(n.year, n.month + 1)

InMonth(n, t) == MonthStart(n) <= t /\ t < MonthEnd(n)

\* now.year and now.month.
MonthOf(t) == [year |-> (t \div 24), month |-> ((t \div 2) % 12) + 1]
=============================================================================
