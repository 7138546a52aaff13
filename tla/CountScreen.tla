---------------------------- MODULE CountScreen ----------------------------
(***************************************************************************)
(* The lines a counting screen shows and the writes its entry screens      *)
(* offer: the optimistic reducers of components/count/count-leg.tsx,       *)
(* quantity-entry.tsx and fill-entry.tsx.  Pure functions of a line as the *)
(* screen holds it.                                                        *)
(***************************************************************************)
EXTENDS CountLine, Barcode

CONSTANT Sealed    \* the locations counted by quantities only

(* A line on the screen.  It is saved once the server has told its id; the *)
(* case size is the line's snapshot, or the product's until then.          *)
LocalType ==
  [saved : BOOLEAN, cases : Int, eaches : Int, fills : Seq(Fill),
   caseSize : Nat \cup {NULL}]

ASSUME ScreenAssumption ==
  /\ Sealed \subseteq Locations
  /\ NoLine \notin LocalType

BaseLine(caseSize) ==
  [saved |-> FALSE, cases |-> 0, eaches |-> 0, fills |-> <<>>, caseSize |-> caseSize]

Local(row) ==
  [saved |-> TRUE, cases |-> row.cases, eaches |-> row.eaches, fills |-> row.fills,
   caseSize |-> row.price.caseSize]

Shown(row) == IF row = NoLine THEN NoLine ELSE Local(row)

(* applyIncrement, applySet and applyFillCorrection; caseSize is what the  *)
(* screen knows of the product.                                            *)
ApplyIncrement(local, i) ==
  [local EXCEPT !.cases = @ + i.cases, !.eaches = @ + i.eaches, !.fills = @ \o i.fills]

ApplySet(local, i) == [local EXCEPT !.cases = i.cases, !.eaches = i.eaches]

ApplyFillCorrection(local, i) == [local EXCEPT !.fills = i.fills]

Optimistic(shown, i, caseSize) ==
  LET local == IF shown = NoLine THEN BaseLine(caseSize) ELSE shown
  IN  CASE i.op = "increment" -> ApplyIncrement(local, i)
        [] i.op = "set"       -> ApplySet(local, i)
        [] i.op = "fills"     -> ApplyFillCorrection(local, i)

(* computeUnits, in tenths.                                                *)
ComputeUnits(local) ==
  IF local.cases > 0 /\ local.caseSize = NULL THEN NULL
  ELSE 10 * (local.cases * (IF local.caseSize = NULL THEN 0 ELSE local.caseSize)
             + local.eaches)
       + SumFunction(local.fills)

-----------------------------------------------------------------------------
(* QuantityEntry.  What is typed, in a mode: nothing in the cases of a     *)
(* product that is not counted by the case.                                *)
SubmissionType == [mode : {"add", "set"}, cases : Nat, eaches : Nat]

Entered(mode, caseInput, eaches, category, unitType) ==
  [mode |-> mode, eaches |-> eaches,
   cases |-> IF CountedByCase(category, unitType) THEN caseInput ELSE 0]

CurrentCases(shown)  == IF shown = NoLine THEN 0 ELSE shown.cases
CurrentEaches(shown) == IF shown = NoLine THEN 0 ELSE shown.eaches

(* canSet, canCorrect: there is a row on the server to correct.            *)
OnServer(shown) == shown # NoLine /\ shown.saved

(* The button is dead while nothing is entered: exactly zero cannot be set.*)
CanSubmit(shown, q) ==
  /\ q.cases > 0 \/ q.eaches > 0
  /\ q.mode = "set" => OnServer(shown)

(* The consequence the button states before it is pressed.                 *)
NextCases(shown, q)  == IF q.mode = "add" THEN CurrentCases(shown) + q.cases ELSE q.cases
NextEaches(shown, q) == IF q.mode = "add" THEN CurrentEaches(shown) + q.eaches ELSE q.eaches

(* The write it makes.                                                     *)
QuantityWrite(shown, q, c, s) ==
  [op |-> IF q.mode = "set" /\ OnServer(shown) THEN "set" ELSE "increment",
   count |-> c, slot |-> s, cases |-> q.cases, eaches |-> q.eaches, fills |-> <<>>]

(* FillEntry: readings to append; or, of a line that has some, a draft     *)
(* that replaces them all.                                                 *)
FillsWrite(fills, c, s) ==
  [op |-> "increment", count |-> c, slot |-> s, cases |-> 0, eaches |-> 0, fills |-> fills]

CorrectionWrite(draft, c, s) ==
  [op |-> "fills", count |-> c, slot |-> s, cases |-> 0, eaches |-> 0, fills |-> draft]

(* The writes the entry screen of a slot offers.                           *)
Offered(shown, i) ==
  \/ \E mode \in {"add", "set"} :
       LET q == [mode |-> mode, cases |-> i.cases, eaches |-> i.eaches]
       IN  CanSubmit(shown, q) /\ i = QuantityWrite(shown, q, i.count, i.slot)
  \/ /\ Location(i.slot) \notin Sealed
     /\ \/ i.fills # <<>> /\ i = FillsWrite(i.fills, i.count, i.slot)
        \/ /\ OnServer(shown) /\ shown.fills # <<>>
           /\ i = CorrectionWrite(i.fills, i.count, i.slot)

=============================================================================
