--------------------------- MODULE MCCountClient ---------------------------
(***************************************************************************)
(* Instances of CountClient for TLC.                                       *)
(***************************************************************************)
EXTENDS CountClient, TLC

CONSTANTS c1, p1, rail, cellar

(* Fill levels are read at the rail, sealed bottles counted in the cellar. *)
Write(op, place, cases, eaches, fills) ==
  [op |-> op, count |-> c1, slot |-> <<p1, place>>, cases |-> cases, eaches |-> eaches,
   fills |-> fills]

Scan    == ScanIntent(c1, <<p1, cellar>>, "each", 1)
Set     == Write("set", cellar, 0, 3, <<>>)
Open    == Write("increment", rail, 0, 0, <<3>>)
Correct == Write("fills", rail, 0, 0, <<7>>)

ScanSetFills == {Scan, Set, Open, Correct}
AddAndSet    == {Write("increment", cellar, 0, 2, <<>>), Set}

OnePrice == {[cost |-> 25000, caseSize |-> 6]}

(* Two bottles; or one and the correction of its line, as a quantity or as *)
(* readings, which is offered once the line is saved.                      *)
Pairs == {<<Scan, Scan>>, <<Scan, Set>>, <<Open, Correct>>}

PairInit == Init /\ <<intent[1], intent[2]>> \in Pairs

ClientSpec == PairInit /\ [][Next]_vars

(* Bound: flushes overlap only with a bottle and its correction.           *)
OneFlushForOtherPairs ==
  <<intent[1], intent[2]>> # <<Scan, Set>> =>
    \A f, g \in Flushes : f # g => Idle(f) \/ Idle(g)

(* Which flush is which does not matter.                                   *)
AnyFlush == Permutations(Flushes)

(* A bottle, a correction, then two more bottles.                          *)
SetThenAdd ==
  Spec /\ intent[1].op = "increment" /\ intent[2].op = "set" /\ intent[3].op = "increment"

=============================================================================
