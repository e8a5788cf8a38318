---------------------------- MODULE BudgetLedger ----------------------------
(***************************************************************************)
(* The row arithmetic shared by the two spend ledgers of the server:       *)
(* middleware/budgetKillSwitch.ts (one row per UTC day) and                *)
(* middleware/tenantBudget.ts (one row per slug and UTC day).  Each SQL     *)
(* statement is one operator: the statement is atomic in SQLite, so the    *)
(* operator is applied in one step.  Money is counted in whole cents.      *)
(***************************************************************************)
EXTENDS Integers

Row == [spent : Nat, reserved : Nat]

\* INSERT OR IGNORE ... VALUES (.., 0, 0, ..): the row every mutator ensures.
FreshRow == [spent |-> 0, reserved |-> 0]

\* MAX(0, n)
NonNeg(n) == IF n > 0 THEN n ELSE 0

Larger(m, n) == IF m > n THEN m ELSE n

\* Mutant of Fits: the cap looks at what was spent, not at what is reserved.
FitsSpentOnly(row, max, cap) == row.spent + max <= cap

\* The cap predicate in the WHERE clause of the conditional UPDATE.
Fits(row, max, cap) == row.spent + row.reserved + max <= cap

Reserved(row, max) ==
    [spent |-> row.spent, reserved |-> row.reserved + max]

\* Mutant of Recorded: the clamp is missing.
RecordedUnclamped(row, max, actual) ==
    [spent |-> row.spent + actual, reserved |-> row.reserved - max]

Recorded(row, max, actual) ==
    [spent |-> row.spent + actual, reserved |-> NonNeg(row.reserved - max)]

Released(row, max) ==
    [spent |-> row.spent, reserved |-> NonNeg(row.reserved - max)]
=============================================================================
