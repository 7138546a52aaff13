----------------------------- MODULE CountLine -----------------------------
(***************************************************************************)
(* The writes of a count and what each does to its count_line row: the     *)
(* data half of the handlers in lib/domain/counts.ts.  A line is           *)
(* identified by its count and its slot, the (product, location) pair of   *)
(* the composite unique key; rows are never deleted.                       *)
(***************************************************************************)
EXTENDS Valuation

CONSTANTS
  Counts,             \* count sessions of one organization
  Products,
  Locations,
  Intents,            \* the payloads a write may carry
  Prices              \* the cost/case-size pairs a product may have

Slots == Products \X Locations

Product(s)  == s[1]
Location(s) == s[2]

(* The input schemas of the three write paths; a correction uses the       *)
(* fields it corrects.                                                     *)
IntentType ==
  [op : {"increment", "set", "fills"}, count : Counts, slot : Slots,
   cases : Nat, eaches : Nat, fills : Seq(Fill)]

(* A count_line_write row.                                                 *)
EntryType ==
  [count : Counts, slot : Slots, cases : Int, eaches : Int, fills : Seq(Fill)]

ASSUME RowsAssumption ==
  /\ Intents \subseteq IntentType
  /\ Prices \subseteq PriceType
  /\ NoLine \notin RowType

(* scanCountLine: the barcode's pack level picks the bucket it increments. *)
ScanIntent(c, s, packLevel, qty) ==
  [op |-> "increment", count |-> c, slot |-> s,
   cases  |-> IF packLevel = "case" THEN qty ELSE 0,
   eaches |-> IF packLevel = "each" THEN qty ELSE 0,
   fills  |-> <<>>]

(* The first write of a line snapshots the product's price; later ones add *)
(* to the quantities and append the newly found open bottles.              *)
Inserted(i, p) ==
  [cases |-> i.cases, eaches |-> i.eaches, fills |-> i.fills, price |-> p]

Incremented(row, i) ==
  [cases |-> row.cases + i.cases, eaches |-> row.eaches + i.eaches,
   fills |-> row.fills \o i.fills, price |-> row.price]

(* setCountLineQuantities and editCountLineFills set what they correct.    *)
Corrected(row, i) ==
  IF i.op = "set"
  THEN [cases |-> i.cases, eaches |-> i.eaches, fills |-> row.fills, price |-> row.price]
  ELSE [cases |-> row.cases, eaches |-> row.eaches, fills |-> i.fills, price |-> row.price]

(* The row after a write, p being the price of its product.                *)
NewRow(row, i, p) ==
  IF i.op # "increment" THEN Corrected(row, i)
  ELSE IF row = NoLine THEN Inserted(i, p)
  ELSE Incremented(row, i)

(* Mistake: a correction records its target, not the difference it makes.  *)
EntryOfTarget(row, i) ==
  [count |-> i.count, slot |-> i.slot, cases |-> i.cases, eaches |-> i.eaches,
   fills |-> IF i.op = "set" THEN <<>> ELSE i.fills]

(* The delta the ledger keeps of a write: an increment carries it, a       *)
(* correction of quantities makes it target - current, on the row as it is *)
(* when the write takes effect.                                            *)
EntryOf(row, i) ==
  [count  |-> i.count,
   slot   |-> i.slot,
   cases  |-> IF i.op = "set" THEN i.cases - row.cases ELSE i.cases,
   eaches |-> IF i.op = "set" THEN i.eaches - row.eaches ELSE i.eaches,
   fills  |-> IF i.op = "set" THEN <<>> ELSE i.fills]

=============================================================================
