----------------------------- MODULE Valuation -----------------------------
(***************************************************************************)
(* lib/domain/valuation.ts: the value of a count line from the cost and    *)
(* case size snapshotted on it, and the totals of a count.                 *)
(*                                                                         *)
(* Units of measure: a fill level is a number of tenths of a bottle, a     *)
(* cost a number of ten-thousandths of a dollar (DECIMAL(10,4)), a value a *)
(* number of cents (DECIMAL(12,2)).  JavaScript's binary rounding noise is *)
(* abstracted: Math.round(x * 100) / 100 is rounding half up to the cent.  *)
(***************************************************************************)
EXTENDS Integers, Sequences, FiniteSets, Functions

CONSTANT NULL         \* SQL NULL: not recorded when the line was counted
CONSTANT NoLine       \* the count has no line for that slot

Fill == 0..10         \* fillFractionSchema: 0 (empty) .. 1 (full bottle)

(* The product columns snapshotted on a line: current_unit_cost, case_size *)
PriceType == [cost : Nat \cup {NULL}, caseSize : Nat \cup {NULL}]

(* A count_line row: sealed quantities, open-bottle fills, the snapshot.   *)
RowType == [cases : Nat, eaches : Nat, fills : Seq(Fill), price : PriceType]

(* computeLineUnits: indeterminate iff there are cases of unknown size.    *)
UnitsKnown(row) == row.cases <= 0 \/ row.price.caseSize # NULL

CaseSizeOrZero(row) == IF row.price.caseSize = NULL THEN 0 ELSE row.price.caseSize

UnitTenths(row) ==
  10 * (row.cases * CaseSizeOrZero(row) + row.eaches) + SumFunction(row.fills)

(* computeLineValuation: a line without cost or units has no value, which  *)
(* is not a value of zero.                                                 *)
Valued(row) == UnitsKnown(row) /\ row.price.cost # NULL

ExtendedCents(row) == (UnitTenths(row) * row.price.cost + 500) \div 1000

(* summarizeValuation over a sheet: a function from slots to rows          *)
(* (NoLine where the count has none).                                      *)
SummarizeValuation(sheet) ==
  LET lines  == {s \in DOMAIN sheet : sheet[s] # NoLine}
      valued == {s \in lines : Valued(sheet[s])}
      sized  == {s \in lines : UnitsKnown(sheet[s])}
  IN  [totalValue        |-> SumFunction([s \in valued |-> ExtendedCents(sheet[s])]),
       totalUnits        |-> SumFunction([s \in sized |-> UnitTenths(sheet[s])]),
       pricedLineCount   |-> Cardinality(valued),
       excludedLineCount |-> Cardinality(lines \ valued)]

=============================================================================
