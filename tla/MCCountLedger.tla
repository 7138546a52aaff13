--------------------------- MODULE MCCountLedger ---------------------------
(***************************************************************************)
(* Instances of CountLedger for TLC: payloads, prices and lock owners.     *)
(***************************************************************************)
EXTENDS CountLedger, TLC

CONSTANTS c1, c2, p1, l1, l2

Priced   == [cost |-> 25000, caseSize |-> 6]
Unpriced == [cost |-> NULL, caseSize |-> NULL]

Slot1 == <<p1, l1>>

Write(op, c, s, cases, eaches, fills) ==
  [op |-> op, count |-> c, slot |-> s, cases |-> cases, eaches |-> eaches, fills |-> fills]

(* A correction of the sealed quantities, one of the open bottles.         *)
SetIntent   == Write("set", c1, Slot1, 3, 0, <<>>)
FillsIntent == Write("fills", c1, Slot1, 0, 0, <<7>>)

(* A scan of a bottle, an open bottle found, a scan of a carton.           *)
ScanOnly     == {ScanIntent(c1, Slot1, "each", 1)}
ScanAndSet   == {Write("increment", c1, Slot1, 0, 1, <<4>>), SetIntent}
AllOps       == {Write("increment", c1, Slot1, 0, 1, <<4>>), SetIntent, FillsIntent}
TwoCounts    == {Write("increment", c1, Slot1, 1, 0, <<4>>), ScanIntent(c2, Slot1, "case", 2)}

OnePrice  == {Priced}
TwoPrices == {Priced, Unpriced}

=============================================================================
