------------------------- MODULE CountClientProofs -------------------------
(***************************************************************************)
(* What the counting screen and its queue keep, for any number of writes,  *)
(* products, places and overlapping flushes, and any number of faults: the *)
(* types, the order in which a flush replays, and that every write meets a *)
(* fate WriteFate allows.                                                  *)
(***************************************************************************)
EXTENDS CountClient, FiniteSetTheorems, SequenceTheorems, TLAPS

-----------------------------------------------------------------------------
(* The screen: what it shows and says before the server has answered,      *)
(* against what the server makes of the write, for every line, payload and *)
(* price.                                                                  *)

(* A row of the server and the line a screen makes of it.                  *)
LEMMA LocalFields ==
  ASSUME NEW row \in RowType
  PROVE  /\ Local(row) \in LocalType
         /\ Local(row).saved
         /\ Local(row).cases = row.cases /\ Local(row).eaches = row.eaches
         /\ Local(row).fills = row.fills /\ Local(row).caseSize = row.price.caseSize
  BY DEF Local, LocalType, RowType, PriceType

LEMMA ShownIsLocal ==
  ASSUME NEW row \in RowType
  PROVE  Shown(row) = Local(row) /\ Shown(row) # NoLine
  BY RowsAssumption, ScreenAssumption, LocalFields DEF Shown

(* A record is the sum of its fields.                                      *)
LEMMA LocalOf ==
  ASSUME NEW a, NEW b, NEW c, NEW d, NEW e,
         NEW r \in [saved : {a}, cases : {b}, eaches : {c}, fills : {d}, caseSize : {e}]
  PROVE  r = [saved |-> a, cases |-> b, eaches |-> c, fills |-> d, caseSize |-> e]
  OBVIOUS

(* The reducers, field by field.                                           *)
LEMMA Reduced ==
  ASSUME NEW local \in LocalType, NEW i \in IntentType
  PROVE  /\ ApplyIncrement(local, i)
              = [saved |-> local.saved, cases |-> local.cases + i.cases,
                 eaches |-> local.eaches + i.eaches, fills |-> local.fills \o i.fills,
                 caseSize |-> local.caseSize]
         /\ ApplySet(local, i)
              = [saved |-> local.saved, cases |-> i.cases, eaches |-> i.eaches,
                 fills |-> local.fills, caseSize |-> local.caseSize]
         /\ ApplyFillCorrection(local, i)
              = [saved |-> local.saved, cases |-> local.cases, eaches |-> local.eaches,
                 fills |-> i.fills, caseSize |-> local.caseSize]
         /\ [local EXCEPT !.saved = FALSE]
              = [saved |-> FALSE, cases |-> local.cases, eaches |-> local.eaches,
                 fills |-> local.fills, caseSize |-> local.caseSize]
  <1>1. ApplyIncrement(local, i)
          \in [saved : {local.saved}, cases : {local.cases + i.cases},
               eaches : {local.eaches + i.eaches}, fills : {local.fills \o i.fills},
               caseSize : {local.caseSize}]
    BY DEF ApplyIncrement, LocalType
  <1>2. ApplySet(local, i)
          \in [saved : {local.saved}, cases : {i.cases}, eaches : {i.eaches},
               fills : {local.fills}, caseSize : {local.caseSize}]
    BY DEF ApplySet, LocalType
  <1>3. ApplyFillCorrection(local, i)
          \in [saved : {local.saved}, cases : {local.cases}, eaches : {local.eaches},
               fills : {i.fills}, caseSize : {local.caseSize}]
    BY DEF ApplyFillCorrection, LocalType
  <1>4. [local EXCEPT !.saved = FALSE]
          \in [saved : {FALSE}, cases : {local.cases}, eaches : {local.eaches},
               fills : {local.fills}, caseSize : {local.caseSize}]
    BY DEF LocalType
  <1> QED  BY <1>1, <1>2, <1>3, <1>4, LocalOf

(* Between the tap and the answer the screen shows what the server will    *)
(* have if it accepts the write: the reducers of count-leg.tsx and the     *)
(* statements of counts.ts make the same line of an existing one, whatever *)
(* the screen believes the product's case size to be.                      *)
THEOREM OptimisticMirrorsServer ==
  ASSUME NEW row \in RowType, NEW i \in IntentType, NEW p \in PriceType, NEW caseSize
  PROVE  Optimistic(Shown(row), i, caseSize) = Local(NewRow(row, i, p))
  <1>2. CASE i.op = "increment"
    <2>1. NewRow(row, i, p) = Incremented(row, i)
      BY <1>2, RowsAssumption DEF NewRow
    <2>2. ApplyIncrement(Local(row), i) = Local(Incremented(row, i))
      <3>1. ApplyIncrement(Local(row), i)
              = [saved |-> Local(row).saved, cases |-> Local(row).cases + i.cases,
                 eaches |-> Local(row).eaches + i.eaches, fills |-> Local(row).fills \o i.fills,
                 caseSize |-> Local(row).caseSize]
        BY Reduced, LocalFields
      <3>2. Local(Incremented(row, i))
              = [saved |-> TRUE, cases |-> row.cases + i.cases, eaches |-> row.eaches + i.eaches,
                 fills |-> row.fills \o i.fills, caseSize |-> row.price.caseSize]
        BY DEF Local, Incremented
      <3> QED  BY <3>1, <3>2, LocalFields
    <2>3. Optimistic(Shown(row), i, caseSize) = ApplyIncrement(Local(row), i)
      BY <1>2, ShownIsLocal DEF Optimistic
    <2> QED  BY <2>1, <2>2, <2>3
  <1>3. CASE i.op = "set"
    <2>1. NewRow(row, i, p) = Corrected(row, i)
      BY <1>3 DEF NewRow
    <2>2. ApplySet(Local(row), i) = Local(Corrected(row, i))
      <3>1. ApplySet(Local(row), i)
              = [saved |-> Local(row).saved, cases |-> i.cases, eaches |-> i.eaches,
                 fills |-> Local(row).fills, caseSize |-> Local(row).caseSize]
        BY Reduced, LocalFields
      <3>2. Local(Corrected(row, i))
              = [saved |-> TRUE, cases |-> i.cases, eaches |-> i.eaches, fills |-> row.fills,
                 caseSize |-> row.price.caseSize]
        BY <1>3 DEF Local, Corrected
      <3> QED  BY <3>1, <3>2, LocalFields
    <2>3. Optimistic(Shown(row), i, caseSize) = ApplySet(Local(row), i)
      BY <1>3, ShownIsLocal DEF Optimistic
    <2> QED  BY <2>1, <2>2, <2>3
  <1>4. CASE i.op = "fills"
    <2>1. NewRow(row, i, p) = Corrected(row, i)
      BY <1>4 DEF NewRow
    <2>2. ApplyFillCorrection(Local(row), i) = Local(Corrected(row, i))
      <3>1. ApplyFillCorrection(Local(row), i)
              = [saved |-> Local(row).saved, cases |-> Local(row).cases,
                 eaches |-> Local(row).eaches, fills |-> i.fills,
                 caseSize |-> Local(row).caseSize]
        BY Reduced, LocalFields
      <3>2. Local(Corrected(row, i))
              = [saved |-> TRUE, cases |-> row.cases, eaches |-> row.eaches, fills |-> i.fills,
                 caseSize |-> row.price.caseSize]
        BY <1>4 DEF Local, Corrected
      <3> QED  BY <3>1, <3>2, LocalFields
    <2>3. Optimistic(Shown(row), i, caseSize) = ApplyFillCorrection(Local(row), i)
      BY <1>4, ShownIsLocal DEF Optimistic
    <2> QED  BY <2>1, <2>2, <2>3
  <1> QED  BY <1>2, <1>3, <1>4 DEF IntentType

(* Of a line that is not there yet, too, but for the id only the server    *)
(* can give, provided the screen knows the case size the server snapshots. *)
THEOREM OptimisticFirstWrite ==
  ASSUME NEW i \in IntentType, NEW p \in PriceType, i.op = "increment"
  PROVE  Optimistic(NoLine, i, p.caseSize)
           = [Local(NewRow(NoLine, i, p)) EXCEPT !.saved = FALSE]
  <1>1. Optimistic(NoLine, i, p.caseSize) = ApplyIncrement(BaseLine(p.caseSize), i)
    BY DEF Optimistic
  <1>2. NewRow(NoLine, i, p) = Inserted(i, p)
    BY DEF NewRow
  <1>3. /\ 0 + i.cases = i.cases /\ 0 + i.eaches = i.eaches
        /\ <<>> \o i.fills = i.fills
    BY ConcatEmptySeq DEF IntentType
  <1>4. ApplyIncrement(BaseLine(p.caseSize), i)
          = [saved |-> FALSE, cases |-> i.cases, eaches |-> i.eaches, fills |-> i.fills,
             caseSize |-> p.caseSize]
    <2>1. BaseLine(p.caseSize) \in LocalType
      BY DEF BaseLine, LocalType, PriceType
    <2>2. ApplyIncrement(BaseLine(p.caseSize), i)
            = [saved |-> BaseLine(p.caseSize).saved, cases |-> BaseLine(p.caseSize).cases + i.cases,
               eaches |-> BaseLine(p.caseSize).eaches + i.eaches,
               fills |-> BaseLine(p.caseSize).fills \o i.fills,
               caseSize |-> BaseLine(p.caseSize).caseSize]
      BY <2>1, Reduced
    <2> QED  BY <1>3, <2>2 DEF BaseLine
  <1>5. [Local(Inserted(i, p)) EXCEPT !.saved = FALSE]
          = [saved |-> FALSE, cases |-> i.cases, eaches |-> i.eaches, fills |-> i.fills,
             caseSize |-> p.caseSize]
    <2>1. Inserted(i, p) \in RowType
      BY DEF Inserted, RowType, IntentType
    <2> DEFINE local == Local(Inserted(i, p))
    <2>2. [local EXCEPT !.saved = FALSE]
            = [saved |-> FALSE, cases |-> local.cases, eaches |-> local.eaches,
               fills |-> local.fills, caseSize |-> local.caseSize]
      BY <2>1, LocalFields, Reduced
    <2> QED  BY <2>1, <2>2, LocalFields DEF Inserted
  <1> QED  BY <1>1, <1>2, <1>4, <1>5

(* The units computed on the screen are those of valuation.ts: unknown for *)
(* the same lines, and the same number for the others.                     *)
THEOREM UnitsOnScreen ==
  ASSUME NEW row \in RowType
  PROVE  ComputeUnits(Local(row)) = IF UnitsKnown(row) THEN UnitTenths(row) ELSE NULL
  <1>1. (Local(row).cases > 0 /\ Local(row).caseSize = NULL) <=> ~UnitsKnown(row)
    BY LocalFields DEF UnitsKnown, RowType
  <1> QED  BY <1>1, LocalFields DEF ComputeUnits, UnitTenths, CaseSizeOrZero

(* The consequence the button of the quantity screen states comes true:    *)
(* the write it makes leaves the line with exactly those quantities, and   *)
(* its open bottles and price alone.                                       *)
THEOREM ButtonKeepsItsPromise ==
  ASSUME NEW row \in RowType, NEW q \in SubmissionType, CanSubmit(Shown(row), q),
         NEW c \in Counts, NEW s \in Slots, NEW p \in PriceType
  PROVE  LET after == NewRow(row, QuantityWrite(Shown(row), q, c, s), p)
         IN  /\ after.cases = NextCases(Shown(row), q)
             /\ after.eaches = NextEaches(Shown(row), q)
             /\ after.fills = row.fills /\ after.price = row.price
  <1> DEFINE w == QuantityWrite(Shown(row), q, c, s)
  <1>1. /\ Shown(row) = Local(row) /\ Shown(row) # NoLine
        /\ OnServer(Shown(row)) /\ row # NoLine
    BY ShownIsLocal, LocalFields, RowsAssumption DEF OnServer
  <1>2. CurrentCases(Shown(row)) = row.cases /\ CurrentEaches(Shown(row)) = row.eaches
    BY <1>1, LocalFields DEF CurrentCases, CurrentEaches
  <1>3. w.cases = q.cases /\ w.eaches = q.eaches /\ w.fills = <<>>
    BY DEF QuantityWrite
  <1>4. CASE q.mode = "add"
    <2>1. w.op = "increment"
      BY <1>4 DEF QuantityWrite
    <2>2. NewRow(row, w, p) = Incremented(row, w)
      BY <2>1, <1>1 DEF NewRow
    <2>3. row.fills \o <<>> = row.fills
      BY ConcatEmptySeq DEF RowType
    <2> QED  BY <1>2, <1>3, <1>4, <2>2, <2>3 DEF Incremented, NextCases, NextEaches
  <1>5. CASE q.mode = "set"
    <2>1. w.op = "set"
      BY <1>1, <1>5 DEF QuantityWrite
    <2>2. NewRow(row, w, p) = Corrected(row, w)
      BY <2>1 DEF NewRow
    <2> QED  BY <1>3, <1>5, <2>1, <2>2 DEF Corrected, NextCases, NextEaches
  <1> QED  BY <1>4, <1>5 DEF SubmissionType

-----------------------------------------------------------------------------
(* The queue.                                                              *)

(* The queue has or had it.                                                *)
Past(w) == stage[w] \in {"await", "done"}

(* The counter makes the writes one by one, and nobody but the screen      *)
(* knows of one before the queue has it.                                   *)
UnknownBeforeKept ==
  \A w \in Writes :
    /\ stage[w] = "new" <=> w > made
    /\ ~Past(w) => /\ w \notin queued /\ w \notin refused /\ w \notin named
                   /\ applied[w] = 0 /\ late[w] = 0

(* The queue gets the writes in the order they are made.                   *)
KeptInOrder ==
  \A v, w \in Writes : Past(w) /\ v < w => stage[v] \notin {"new", "enqueue"}

(* Calls are made of writes the queue has or had, those of a flush for the *)
(* head of its snapshot.                                                   *)
CallsHaveAWrite ==
  /\ \A w \in Writes : call[w] # NoCall => stage[w] = "await"
  /\ \A f \in Flushes : call[f] # NoCall => todo[f] # <<>>
  /\ \A f \in Flushes : \A i \in DOMAIN todo[f] : Past(todo[f][i])

(* A flush reads the queue once, and one whose leg is gone has something   *)
(* left to do.                                                             *)
FlushesHaveWork ==
  \A f \in Flushes : /\ f \in due => todo[f] = <<>>
                     /\ f \in orphans => ~Idle(f)

(* Success is answered, with the row of its line, only of a write that     *)
(* took effect, which is the only kind the ledger has.                     *)
AnswersAreTrue ==
  /\ \A a \in Callers :
       /\ call[a].state \in {"ok", "okDropped"} =>
            applied[WriteOf(a)] > 0 /\ call[a].row # NoLine
       /\ call[a].state = "refusedDropped" => WriteOf(a) \in refused
  /\ \A w \in Writes : /\ ledger[w] # NoEntry => applied[w] > 0
                       /\ applied[w] > 0 => Row(w) # NoLine

(* The queue keeps a write until it is counted or refused.                 *)
KeptUntilSettled ==
  \A w \in Writes : Past(w) /\ applied[w] = 0 /\ w \notin refused => w \in queued

(* What a flush has left out is settled: each write older than one it has  *)
(* still to send comes before it or is.                                    *)
OlderFirst ==
  \A f \in Flushes : \A i \in DOMAIN todo[f] : \A v \in Writes :
    v < todo[f][i] => Settled(v) \/ \E j \in 1..(i - 1) : todo[f][j] = v

IInv ==
  /\ TypeOK /\ UnknownBeforeKept /\ KeptInOrder /\ CallsHaveAWrite /\ FlushesHaveWork
  /\ AnswersAreTrue /\ KeptUntilSettled /\ OlderFirst

-----------------------------------------------------------------------------
(* Rows and lines.                                                         *)

(* A write leaves a row, if there was one to correct.                      *)
LEMMA RowTyped ==
  ASSUME NEW i \in IntentType, NEW row \in RowType \cup {NoLine}, NEW p \in PriceType,
         i.op # "increment" => row # NoLine
  PROVE  NewRow(row, i, p) \in RowType
  <1>1. CASE i.op # "increment"
    BY <1>1 DEF NewRow, Corrected, RowType, IntentType
  <1>2. CASE i.op = "increment" /\ row = NoLine
    BY <1>2 DEF NewRow, Inserted, RowType, IntentType
  <1>3. CASE i.op = "increment" /\ row # NoLine
    <2>1. row.fills \o i.fills \in Seq(Fill)
      BY <1>3, ConcatProperties DEF RowType, IntentType
    <2>2. row.cases + i.cases \in Nat /\ row.eaches + i.eaches \in Nat
      BY <1>3 DEF RowType, IntentType
    <2> QED  BY <1>3, <2>1, <2>2 DEF NewRow, Incremented, RowType
  <1> QED  BY <1>1, <1>2, <1>3

(* And an entry of the ledger.                                             *)
LEMMA EntryIsTyped ==
  ASSUME NEW i \in IntentType, NEW row, i.op = "increment" \/ row \in RowType
  PROVE  EntryOf(row, i) \in EntryType
  <1>1. CASE i.op # "set"
    BY <1>1 DEF IntentType, EntryType, EntryOf
  <1>2. CASE i.op = "set"
    <2>1. i.cases - row.cases \in Int /\ i.eaches - row.eaches \in Int
      BY <1>2 DEF IntentType, RowType
    <2>2. <<>> \in Seq(Fill)
      OBVIOUS
    <2> QED  BY <1>2, <2>1, <2>2 DEF IntentType, EntryType, EntryOf
  <1> QED  BY <1>1, <1>2

(* What the screen shows of a write is a line.                             *)
LEMMA OptimisticTyped ==
  ASSUME NEW i \in IntentType, NEW shown \in LocalType \cup {NoLine}, NEW p \in PriceType
  PROVE  Optimistic(shown, i, p.caseSize) \in LocalType
  <1> DEFINE local == IF shown = NoLine THEN BaseLine(p.caseSize) ELSE shown
  <1>1. local \in LocalType
    <2>1. <<>> \in Seq(Fill)
      OBVIOUS
    <2> QED  BY <2>1 DEF BaseLine, LocalType, PriceType
  <1> HIDE DEF local
  <1>2. /\ local.cases + i.cases \in Int /\ local.eaches + i.eaches \in Int
        /\ local.fills \o i.fills \in Seq(Fill) /\ i.fills \in Seq(Fill)
        /\ i.cases \in Int /\ i.eaches \in Int
    BY <1>1, ConcatProperties DEF LocalType, IntentType
  <1>3. /\ ApplyIncrement(local, i) \in LocalType
        /\ ApplySet(local, i) \in LocalType
        /\ ApplyFillCorrection(local, i) \in LocalType
    BY <1>1, <1>2 DEF ApplyIncrement, ApplySet, ApplyFillCorrection, LocalType
  <1> QED  BY <1>3 DEF Optimistic, IntentType, local

(* Every write has a payload.                                              *)
LEMMA IntentOfWrite ==
  ASSUME TypeOK, NEW w \in Writes
  PROVE  /\ intent[w] \in IntentType
         /\ intent[w].count \in Counts /\ intent[w].slot \in Slots
  BY RowsAssumption DEF TypeOK, IntentType

-----------------------------------------------------------------------------
(* Calls and snapshots.                                                    *)

LEMMA CallTypes ==
  /\ NoCall \in CallType /\ Sent \in CallType
  /\ Sent # NoCall /\ Sent.state = "sent" /\ NoCall.state = "none"
  BY DEF CallType, NoCall, Sent

(* The queue oldest first is a sequence of exactly the queued writes.      *)
LEMMA PendingTyped ==
  ASSUME queued \subseteq Writes, NEW p \in PendingFor
  PROVE  /\ p \in Seq(Writes)
         /\ \A w \in Writes : w \in queued <=> \E i \in DOMAIN p : p[i] = w
         /\ \A i, j \in DOMAIN p : p[i] < p[j] => i < j
         /\ \A i \in DOMAIN p : i \in Nat /\ i >= 1 /\ p[i] \in queued
  <1>1. IsFiniteSet(queued)
    <2>1. IsFiniteSet(Writes)
      BY FS_Interval, ClientAssumption DEF Writes
    <2> QED  BY <2>1, FS_Subset
  <1>2. Cardinality(queued) \in Nat
    BY <1>1, FS_CardinalityType
  <1>3. p \in [1..Cardinality(queued) -> queued] /\ Range(p) = queued
    BY DEF PendingFor
  <1>4. \A i, j \in DOMAIN p : i < j => p[i] < p[j]
    BY DEF PendingFor
  <1>5. p \in Seq(queued)
    BY <1>2, <1>3
  <1>6. \A i \in DOMAIN p : i \in Nat /\ i >= 1 /\ p[i] \in queued
    BY <1>2, <1>3
  <1>7. \A w \in Writes : w \in queued <=> \E i \in DOMAIN p : p[i] = w
    BY <1>3, <1>6 DEF Range
  <1>8. \A i, j \in DOMAIN p : p[i] < p[j] => i < j
    <2> SUFFICES ASSUME NEW i \in DOMAIN p, NEW j \in DOMAIN p, p[i] < p[j]
                 PROVE  i < j
      OBVIOUS
    <2>1. i \in Nat /\ j \in Nat /\ p[i] \in Writes /\ p[j] \in Writes
      BY <1>6
    <2> DEFINE a == p[i]  b == p[j]
    <2>2. a \in Int /\ b \in Int
      BY <2>1 DEF Writes
    <2>3. j < i => b < a
      BY <1>4
    <2>4. a < b
      OBVIOUS
    <2> HIDE DEF a, b
    <2>5. i # j
      BY <2>2, <2>4 DEF a, b
    <2> QED  BY <2>1, <2>2, <2>3, <2>4, <2>5
  <1>9. p \in Seq(Writes)
    BY <1>5
  <1> QED  BY <1>6, <1>7, <1>8, <1>9

(* The rest of a snapshot.                                                 *)
LEMMA TailTyped ==
  ASSUME NEW s \in Seq(Writes), s # <<>>
  PROVE  /\ Head(s) \in Writes /\ Head(s) = s[1] /\ 1 \in DOMAIN s
         /\ Tail(s) \in Seq(Writes)
         /\ \A i \in DOMAIN Tail(s) :
              i \in Nat /\ i >= 1 /\ i + 1 \in DOMAIN s /\ Tail(s)[i] = s[i + 1]
  <1>1. Len(s) \in Nat /\ Len(s) > 0
    BY EmptySeq
  <1> QED  BY <1>1, HeadTailProperties

(* Which write a context calls for.                                        *)
LEMMA WriteOfCall ==
  ASSUME TypeOK, CallsHaveAWrite, NEW a \in Callers, call[a] # NoCall
  PROVE  WriteOf(a) \in Writes /\ Past(WriteOf(a))
  <1>1. CASE a \in Writes
    <2>1. a \notin Flushes
      BY <1>1, ClientAssumption
    <2> QED  BY <1>1, <2>1 DEF WriteOf, CallsHaveAWrite, Past
  <1>2. CASE a \in Flushes
    <2>1. todo[a] \in Seq(Writes) /\ todo[a] # <<>>
      BY <1>2 DEF TypeOK, CallsHaveAWrite
    <2>2. WriteOf(a) = todo[a][1] /\ 1 \in DOMAIN todo[a] /\ todo[a][1] \in Writes
      BY <1>2, <2>1, TailTyped DEF WriteOf
    <2> QED  BY <1>2, <2>2 DEF CallsHaveAWrite
  <1> QED  BY <1>1, <1>2 DEF Callers

-----------------------------------------------------------------------------
(* What the server does with a request, as far as the screen can tell.     *)

LineRows    == [Counts -> [Slots -> RowType \cup {NoLine}]]
LedgerTypes == [Writes -> EntryType \cup {NoEntry}]

(* The book speaks of the same rows and entries.                           *)
LEMMA SameRows ==
  ASSUME NEW row, NEW i, NEW p
  PROVE  Book!NewRow(row, i, p) = NewRow(row, i, p) /\ Book!EntryOf(row, i) = EntryOf(row, i)
  BY DEF Book!NewRow, Book!Corrected, Book!Inserted, Book!Incremented, Book!EntryOf,
         NewRow, Corrected, Inserted, Incremented, EntryOf

LEMMA AcceptTyped ==
  ASSUME TypeOK, NEW w \in Writes, Accept(w)
  PROVE  /\ intent' = intent /\ line' \in LineRows /\ ledger' \in LedgerTypes
         /\ applied' = [applied EXCEPT ![w] = @ + 1]
         /\ \A v \in Writes : v # w => ledger'[v] = ledger[v]
         /\ Row(w)' # NoLine
         /\ \A v \in Writes : Row(v) # NoLine => Row(v)' # NoLine
  <1> DEFINE i == intent[w]
             row == line[i.count][i.slot]
  <1>1. PICK p \in Prices : Book!Apply(w, p)
    BY DEF Accept
  <1>2. i \in IntentType /\ i.count \in Counts /\ i.slot \in Slots
    BY IntentOfWrite
  <1>3. line \in LineRows /\ ledger \in LedgerTypes
    BY DEF TypeOK, LineRows, LedgerTypes
  <1>4. row \in RowType \cup {NoLine} /\ p \in PriceType
    BY <1>2, <1>3, RowsAssumption DEF LineRows
  <1>5. i.op # "increment" => row # NoLine
    BY <1>1 DEF Book!Apply
  <1>6. NewRow(row, i, p) \in RowType
    BY <1>2, <1>4, <1>5, RowTyped
  <1>7. line' = [line EXCEPT ![i.count][i.slot] = NewRow(row, i, p)]
    BY ZenonT(30), <1>1, SameRows DEF Book!Apply
  <1>8. line' \in LineRows
    BY <1>2, <1>3, <1>6, <1>7 DEF LineRows
  <1>9. ledger' \in LedgerTypes /\ \A v \in Writes : v # w => ledger'[v] = ledger[v]
    <2>1. CASE i.op = "fills"
      BY <1>1, <1>3, <2>1 DEF Book!Apply
    <2>2. CASE i.op # "fills"
      <3>1. ledger' = [ledger EXCEPT ![w] = EntryOf(row, i)]
        BY <1>1, <2>2, SameRows DEF Book!Apply
      <3>2. EntryOf(row, i) \in EntryType
        BY <1>2, <1>4, <1>5, EntryIsTyped
      <3> QED  BY <1>3, <3>1, <3>2 DEF LedgerTypes
    <2> QED  BY <2>1, <2>2
  <1>10. intent' = intent /\ applied' = [applied EXCEPT ![w] = @ + 1]
    BY <1>1 DEF Book!Apply, Accept
  <1>11. NewRow(row, i, p) # NoLine
    BY <1>6, RowsAssumption
  <1>12. Row(w)' = NewRow(row, i, p)
    BY <1>2, <1>3, <1>7, <1>10 DEF Row, LineRows
  <1>13. ASSUME NEW v \in Writes, Row(v) # NoLine  PROVE Row(v)' # NoLine
    <2>1. intent[v].count \in Counts /\ intent[v].slot \in Slots
      BY IntentOfWrite
    <2> QED  BY <1>2, <1>3, <1>7, <1>10, <1>11, <1>13, <2>1 DEF Row, LineRows
  <1> QED  BY <1>8, <1>9, <1>10, <1>11, <1>12, <1>13

(* At most it applies the write once more, and it says "ok" only of one    *)
(* that took effect.                                                       *)
LEMMA HandleStep ==
  ASSUME TypeOK, AnswersAreTrue, NEW w \in Writes, NEW answer, Handle(w, answer)
  PROVE  /\ intent' = intent /\ line' \in LineRows /\ ledger' \in LedgerTypes
         /\ applied' = applied \/ applied' = [applied EXCEPT ![w] = @ + 1]
         /\ applied' \in [Writes -> Nat]
         /\ \A v \in Writes : applied[v] > 0 => applied'[v] > 0
         /\ \A v \in Writes : v # w => applied'[v] = applied[v]
         /\ answer = "ok" => applied'[w] > 0
         /\ \A v \in Writes : ledger'[v] # NoEntry => applied'[v] > 0
         /\ \A v \in Writes : applied'[v] > 0 => Row(v)' # NoLine
         /\ faults' \in 0..MaxFaults
         /\ answer \in {"ok", "refused"}
  <1>1. /\ line \in LineRows /\ ledger \in LedgerTypes /\ applied \in [Writes -> Nat]
        /\ faults \in 0..MaxFaults /\ MaxFaults \in Nat
    BY ClientAssumption DEF TypeOK, LineRows, LedgerTypes
  <1>2. \A v \in Writes : /\ ledger[v] # NoEntry => applied[v] > 0
                          /\ applied[v] > 0 => Row(v) # NoLine
    BY DEF AnswersAreTrue
  <1>3. UNCHANGED faults \/ (faults < MaxFaults /\ faults' = faults + 1)
    BY DEF Handle
  <1>4. faults' \in 0..MaxFaults
    BY <1>1, <1>3
  <1>5. answer \in {"ok", "refused"}
    BY DEF Handle
  <1>6. CASE Accept(w)
    <2>1. /\ intent' = intent /\ line' \in LineRows /\ ledger' \in LedgerTypes
          /\ applied' = [applied EXCEPT ![w] = @ + 1]
          /\ \A v \in Writes : v # w => ledger'[v] = ledger[v]
          /\ Row(w)' # NoLine
          /\ \A v \in Writes : Row(v) # NoLine => Row(v)' # NoLine
      BY <1>6, AcceptTyped
    <2>2. /\ applied' \in [Writes -> Nat] /\ applied'[w] > 0
          /\ \A v \in Writes : applied[v] > 0 => applied'[v] > 0
          /\ \A v \in Writes : v # w => applied'[v] = applied[v]
      BY <1>1, <2>1
    <2>3. ASSUME NEW v \in Writes
          PROVE  /\ ledger'[v] # NoEntry => applied'[v] > 0
                 /\ applied'[v] > 0 => Row(v)' # NoLine
      <3>1. CASE v = w
        BY <2>1, <2>2, <3>1
      <3>2. CASE v # w
        BY <1>2, <2>1, <2>2, <3>2
      <3> QED  BY <3>1, <3>2
    <2> QED  BY <1>4, <1>5, <2>1, <2>2, <2>3
  <1>7. CASE UNCHANGED <<book, applied>> /\ (answer = "ok" => ledger[w] # NoEntry)
    <2>1. \A v \in Writes : Row(v)' = Row(v)
      BY <1>7 DEF book, Row
    <2>2. /\ intent' = intent /\ line' = line /\ ledger' = ledger
          /\ applied' = applied
      BY <1>7 DEF book
    <2>3. \A v \in Writes : /\ ledger'[v] # NoEntry => applied'[v] > 0
                            /\ applied'[v] > 0 => Row(v)' # NoLine
      BY <1>2, <2>1, <2>2
    <2>4. answer = "ok" => applied'[w] > 0
      BY <1>2, <1>7, <2>2
    <2> QED  BY <1>1, <1>4, <1>5, <2>2, <2>3, <2>4
  <1>8. Accept(w) \/ (UNCHANGED <<book, applied>> /\ (answer = "ok" => ledger[w] # NoEntry))
    BY DEF Handle
  <1> QED  BY <1>6, <1>7, <1>8

-----------------------------------------------------------------------------
(* Types.                                                                  *)

(* TypeOK without what it says of the head of a snapshot.                  *)
Shapes ==
  /\ intent \in [Writes -> Intents] /\ line \in LineRows /\ ledger \in LedgerTypes
  /\ applied \in [Writes -> Nat] /\ late \in [Writes -> Nat]
  /\ queued \subseteq Writes /\ made \in 0..MaxWrites
  /\ offline \in BOOLEAN /\ orphans \subseteq Callers
  /\ stage \in [Writes -> {"new", "enqueue", "await", "done", "lost"}]
  /\ before \in [Writes -> LocalType \cup {NoLine}]
  /\ lines \in [Slots -> LocalType \cup {NoLine}]
  /\ busy \in BOOLEAN /\ rapid \in Writes \cup {NoWrite}
  /\ due \subseteq Flushes /\ todo \in [Flushes -> Seq(Writes)]
  /\ call \in [Callers -> CallType]
  /\ refused \subseteq Writes /\ named \subseteq Writes
  /\ faults \in 0..MaxFaults

LEMMA TypesAreShapes == TypeOK => Shapes
  BY DEF TypeOK, Shapes, LineRows, LedgerTypes

(* A flush calls only for what it holds.                                   *)
FlushHolds == \A f \in Flushes : call[f] # NoCall => todo[f] # <<>>

LEMMA ShapesAreTypes == Shapes /\ FlushHolds => TypeOK
  <1> SUFFICES ASSUME Shapes, FlushHolds  PROVE TypeOK
    OBVIOUS
  <1>1. ASSUME NEW a \in Callers, call[a] # NoCall  PROVE WriteOf(a) \in Writes
    <2>1. CASE a \in Flushes
      <3>1. todo[a] \in Seq(Writes) /\ todo[a] # <<>>
        BY <1>1, <2>1 DEF Shapes, FlushHolds
      <3> QED  BY <2>1, <3>1, TailTyped DEF WriteOf
    <2>2. CASE a \notin Flushes
      BY <2>2 DEF WriteOf, Callers
    <2> QED  BY <2>1, <2>2
  <1> QED  BY <1>1 DEF TypeOK, Shapes, LineRows, LedgerTypes

(* A line of the screen.                                                   *)
LEMMA ShownTyped ==
  ASSUME NEW row \in RowType \cup {NoLine}
  PROVE  Shown(row) \in LocalType \cup {NoLine}
  BY LocalFields DEF Shown

LEMMA InitTyped == Init => TypeOK
  <1> SUFFICES ASSUME Init  PROVE TypeOK
    OBVIOUS
  <1>1. <<>> \in Seq(Writes) /\ 0 \in 0..MaxWrites /\ 0 \in 0..MaxFaults
    BY ClientAssumption
  <1>2. intent \in [Writes -> Intents] /\ line \in LineRows /\ ledger \in LedgerTypes
    BY DEF Init, Book!Init, LineRows, LedgerTypes, Book!Slots, Slots
  <1>3. Shapes
    BY <1>1, <1>2, CallTypes DEF Init, Shapes
  <1>4. \A f \in Flushes : call[f] = NoCall
    BY DEF Init, Callers
  <1> QED  BY <1>3, <1>4, ShapesAreTypes DEF FlushHolds

(* runWrite shows a line.                                                  *)
LEMMA RunWriteTyped ==
  ASSUME TypeOK, NEW w \in Writes, RunWrite(w)
  PROVE  /\ lines' \in [Slots -> LocalType \cup {NoLine}]
         /\ before' \in [Writes -> LocalType \cup {NoLine}]
  <1> DEFINE s == intent[w].slot
  <1>1. intent[w] \in IntentType /\ s \in Slots
    BY IntentOfWrite
  <1>2. lines \in [Slots -> LocalType \cup {NoLine}]
    BY DEF TypeOK
  <1>3. PICK p \in Prices :
          lines' = [lines EXCEPT ![s] = Optimistic(lines[s], intent[w], p.caseSize)]
    BY DEF RunWrite
  <1>4. Optimistic(lines[s], intent[w], p.caseSize) \in LocalType
    BY <1>1, <1>2, RowsAssumption, OptimisticTyped
  <1>5. lines' \in [Slots -> LocalType \cup {NoLine}]
    BY <1>2, <1>3, <1>4
  <1> QED  BY <1>1, <1>2, <1>5 DEF RunWrite, TypeOK

-----------------------------------------------------------------------------
(* What the steps come to.                                                 *)

(* The queue has the write, and the server is called unless the store      *)
(* fails in between.                                                       *)
Shelved(w) ==
  /\ stage[w] = "enqueue" /\ \A v \in 1..(w - 1) : stage[v] # "enqueue"
  /\ queued' = queued \cup {w}
  /\ \/ /\ stage' = [stage EXCEPT ![w] = "await"]
        /\ call' = [call EXCEPT ![w] = Sent] /\ orphans' = orphans
     \/ /\ stage' = [stage EXCEPT ![w] = "done"]
        /\ call' = call /\ orphans' = orphans \ {w}
  /\ UNCHANGED news

NotShelved(w) ==
  /\ stage[w] = "enqueue"
  /\ stage' = [stage EXCEPT ![w] = "lost"] /\ orphans' = orphans \ {w}
  /\ UNCHANGED <<queued, call, news>>

(* An answer takes a write out of the queue.                               *)
Dropped(a) ==
  /\ call[a].state \in {"ok", "refused"}
  /\ queued' = queued \ {WriteOf(a)}
  /\ refused' = IF call[a].state = "ok" THEN refused ELSE refused \cup {WriteOf(a)}
  /\ call' = [call EXCEPT ![a].state = IF @ = "ok" THEN "okDropped" ELSE "refusedDropped"]
  /\ UNCHANGED <<stage, orphans, named>>

Ended(w) ==
  /\ call[w] # NoCall /\ call' = [call EXCEPT ![w] = NoCall]
  /\ stage' = [stage EXCEPT ![w] = "done"] /\ orphans' = orphans \ {w}
  /\ queued' \in {queued, queued \cup {w}} /\ refused' = refused
  /\ named' = IF call[w].state = "refusedDropped" THEN Named(w) ELSE named

LEMMA EndMoves ==
  ASSUME NEW w \in Writes, Finish(w) \/ Abandon(w)
  PROVE  /\ stage' = [stage EXCEPT ![w] = "done"] /\ orphans' = orphans \ {w}
         /\ before' = [before EXCEPT ![w] = NoLine] /\ rapid' \in {rapid, NoWrite}
         /\ busy' \in {busy, busy /\ w \in orphans}
         /\ faults' = faults \/ (faults < MaxFaults /\ faults' = faults + 1)
  BY DEF Finish, Abandon, EndRun, StoreRejects

LEMMA RunMoves ==
  ASSUME NEW w \in Writes, RunStep(w)
  PROVE  /\ UNCHANGED <<server, offline, made, flush>>
         /\ Shelved(w) \/ NotShelved(w) \/ Dropped(w) \/ Ended(w)
  <1> USE DEF news, runs, flush
  <1>a. w \notin Flushes /\ WriteOf(w) = w
    BY ClientAssumption DEF WriteOf
  <1>b. NoCall.state = "none"
    BY CallTypes
  <1>1. CASE Enqueue(w)
    BY <1>1, EndMoves DEF Enqueue, Shelved
  <1>2. CASE EnqueueRejected(w)
    BY <1>2 DEF EnqueueRejected, NotShelved
  <1>3. CASE Dequeue(w)
    BY <1>3 DEF Dequeue, Dropped
  <1>4. CASE DequeueRejected(w)
    BY <1>4, <1>b, EndMoves DEF DequeueRejected, Ended
  <1>5. CASE RunAccepted(w)
    BY <1>5, <1>b, EndMoves DEF RunAccepted, Ended
  <1>6. CASE RunRefused(w)
    BY <1>6, <1>b, EndMoves DEF RunRefused, Ended
  <1>7. CASE MarkAttempt(w)
    BY <1>7, <1>a, <1>b, EndMoves DEF MarkAttempt, Ended
  <1> QED  BY <1>1, <1>2, <1>3, <1>4, <1>5, <1>6, <1>7 DEF RunStep

(* A flush is over when it has nothing left to send.                       *)
LEMMA WorkMoves ==
  ASSUME NEW f \in Flushes, NEW rest, Work(f, rest)
  PROVE  /\ todo' = [todo EXCEPT ![f] = rest] /\ orphans' \in {orphans, orphans \ {f}}
         /\ rest = <<>> => f \notin orphans'
  BY DEF Work

(* It reads the queue, or is refused it.                                   *)
LEMMA FlushMoves ==
  ASSUME NEW f \in Flushes, Flush(f)
  PROVE  /\ f \in due /\ due' = due \ {f}
         /\ \E rest \in PendingFor \cup {<<>>} : Work(f, rest)
         /\ faults' = faults \/ (faults < MaxFaults /\ faults' = faults + 1)
         /\ UNCHANGED <<server, queued, offline, runs, view, call, news>>
  BY DEF Flush, StoreRejects

(* Its call threw, and it gives up.                                        *)
GaveUp(f) ==
  /\ call[f].state \in {"marking", "unmarked"}
  /\ call' = [call EXCEPT ![f] = NoCall]
  /\ queued' \in {queued, queued \cup {WriteOf(f)}}
  /\ Work(f, <<>>)
  /\ faults' = faults \/ (faults < MaxFaults /\ faults' = faults + 1)
  /\ UNCHANGED <<server, offline, runs, view, due, news>>

LEMMA FlushGivesUp ==
  ASSUME NEW f \in Flushes, MarkAttempt(f)
  PROVE  GaveUp(f)
  BY DEF MarkAttempt, GaveUp, StoreRejects, runs, view

(* A leg is left, or the tab is.                                           *)
Leaves(f) == LeaveAndReturn(f) \/ Reload(f)

LEMMA LeaveMoves ==
  ASSUME TypeOK, NEW f \in Flushes, Leaves(f)
  PROVE  /\ faults < MaxFaults /\ faults' = faults + 1
         /\ before' = [w \in Writes |-> NoLine]
         /\ lines' \in [Slots -> LocalType \cup {NoLine}]
         /\ busy' = FALSE /\ rapid' = NoWrite /\ offline' \in {offline, FALSE}
         /\ orphans' \subseteq {a \in Callers : Running(a)}
         /\ UNCHANGED <<book, applied, queued, made, news>>
  <1>1. Mount(f)
    BY DEF Leaves, LeaveAndReturn, Reload
  <1>2. lines' \in [Slots -> LocalType \cup {NoLine}]
    <2>1. PICK w \in Writes : w = 1
      BY <1>1, ClientAssumption DEF Mount, TypeOK, Writes
    <2>2. (CHOOSE c \in Counts : TRUE) \in Counts
      BY <2>1, IntentOfWrite
    <2>3. \A s \in Slots : line[CHOOSE c \in Counts : TRUE][s] \in RowType \cup {NoLine}
      BY <2>2 DEF TypeOK
    <2> QED  BY <1>1, <2>3, ShownTyped DEF Mount, InitialLines
  <1>3. orphans' \subseteq {a \in Callers : Running(a)}
    BY DEF Leaves, LeaveAndReturn, Reload
  <1> QED  BY <1>1, <1>2, <1>3 DEF Mount, Leaves, LeaveAndReturn, Reload, server, news

(* A reload counts the requests under way.                                 *)
LEMMA ReloadTyped ==
  ASSUME TypeOK, NEW f \in Flushes, Reload(f)
  PROVE  /\ late' \in [Writes -> Nat] /\ \A w \in Writes : late'[w] >= late[w]
         /\ \A w \in Writes : late'[w] > late[w] => \E a \in Callers : call[a] # NoCall /\ WriteOf(a) = w
  <1>1. IsFiniteSet(Callers)
    <2>1. IsFiniteSet(Writes) /\ IsFiniteSet(Flushes)
      BY FS_Interval, ClientAssumption DEF Writes
    <2> QED  BY <2>1, FS_Union DEF Callers
  <1> DEFINE C(w) == {a \in Callers : call[a] = Sent /\ WriteOf(a) = w}
  <1>2. \A w \in Writes : Cardinality(C(w)) \in Nat /\ (Cardinality(C(w)) = 0 <=> C(w) = {})
    <2> SUFFICES ASSUME NEW w \in Writes
                 PROVE  Cardinality(C(w)) \in Nat /\ (Cardinality(C(w)) = 0 <=> C(w) = {})
      OBVIOUS
    <2>1. IsFiniteSet(C(w))
      BY <1>1, FS_Subset
    <2> QED  BY <2>1, FS_CardinalityType, FS_EmptySet
  <1>3. late' = [w \in Writes |-> late[w] + Cardinality(C(w))]
    BY DEF Reload
  <1>4. \A w \in Writes : C(w) # {} => \E a \in Callers : call[a] # NoCall /\ WriteOf(a) = w
    BY CallTypes
  <1> HIDE DEF C
  <1>5. late \in [Writes -> Nat]
    BY DEF TypeOK
  <1>6. /\ late' \in [Writes -> Nat] /\ \A w \in Writes : late'[w] >= late[w]
        /\ \A w \in Writes : late'[w] > late[w] => C(w) # {}
    BY <1>2, <1>3, <1>5
  <1> QED  BY <1>4, <1>6

(* A step keeps the types, and a flush calls only for what it holds.       *)
LEMMA ShapesStep ==
  ASSUME IInv, Next
  PROVE  Shapes' /\ FlushHolds'
  <1> USE DEF server, book, view, runs, flush, news
  <1>a. Shapes /\ FlushHolds
    BY TypesAreShapes DEF IInv, CallsHaveAWrite, FlushHolds
  <1>b. /\ MaxFaults \in Nat /\ MaxWrites \in Nat /\ NoCall \in CallType /\ Sent \in CallType
        /\ <<>> \in Seq(Writes) /\ Writes \cap Flushes = {}
    BY CallTypes, ClientAssumption
  <1>1. CASE OnBarcode
    BY <1>a, <1>1 DEF OnBarcode, Shapes, FlushHolds
  <1>2. ASSUME NEW w \in Writes, SubmitEntry(w) \/ RapidScan(w)  PROVE Shapes' /\ FlushHolds'
    <2>1. RunWrite(w) /\ rapid' \in {rapid, w}
      BY <1>2 DEF SubmitEntry, RapidScan
    <2>2. /\ lines' \in [Slots -> LocalType \cup {NoLine}]
          /\ before' \in [Writes -> LocalType \cup {NoLine}]
      BY <2>1, RunWriteTyped DEF IInv
    <2> QED  BY SMTT(30), <1>a, <1>b, <2>1, <2>2 DEF RunWrite, Shapes, FlushHolds, Writes
  <1>3. ASSUME NEW w \in Writes, RunStep(w)  PROVE Shapes' /\ FlushHolds'
    <2>a. w \in Callers /\ WriteOf(w) = w
      BY <1>b DEF Callers, WriteOf
    <2>1. /\ UNCHANGED <<server, offline, made, flush>>
          /\ Shelved(w) \/ NotShelved(w) \/ Dropped(w) \/ Ended(w)
      BY <1>3, RunMoves
    <2>2. lines' \in [Slots -> LocalType \cup {NoLine}]
      <3>1. CASE RunAccepted(w)
        <4>1. call[w].row \in RowType
          BY <1>a, <2>a, <3>1 DEF RunAccepted, IInv, AnswersAreTrue, Shapes, CallType
        <4>2. Adopted(call[w].row) \in LocalType
          BY <4>1, LocalFields DEF Adopted
        <4> QED  BY <1>a, <3>1, <4>2 DEF RunAccepted, Shapes
      <3>2. CASE Dequeue(w) \/ DequeueRejected(w)
        <4>1. lines' = Undone(w)
          BY <3>2 DEF Dequeue, DequeueRejected
        <4>2. before[w] \in LocalType \cup {NoLine}
          BY <1>a DEF Shapes
        <4> QED  BY <1>a, <4>1, <4>2 DEF Undone, Shapes
      <3>3. CASE lines' = lines
        BY <1>a, <3>3 DEF Shapes
      <3> QED  BY <1>3, <3>1, <3>2, <3>3
               DEF RunStep, Enqueue, EnqueueRejected, RunRefused, MarkAttempt
    <2>3. /\ before' \in [Writes -> LocalType \cup {NoLine}]
          /\ busy' \in BOOLEAN /\ rapid' \in Writes \cup {NoWrite}
          /\ faults' \in 0..MaxFaults
      <3>1. CASE Finish(w) \/ Abandon(w)
        <4>1. /\ before' = [before EXCEPT ![w] = NoLine] /\ rapid' \in {rapid, NoWrite}
              /\ busy' \in {busy, busy /\ w \in orphans}
              /\ faults' = faults \/ (faults < MaxFaults /\ faults' = faults + 1)
          BY <3>1, EndMoves
        <4>2. busy' \in BOOLEAN
          BY Zenon, <1>a, <4>1 DEF Shapes
        <4> QED  BY <1>a, <1>b, <4>1, <4>2 DEF Shapes
      <3>2. CASE EnqueueRejected(w)
        BY <1>a, <1>b, <3>2 DEF EnqueueRejected, StoreRejects, Shapes
      <3>3. CASE UNCHANGED <<before, busy, rapid, faults>>
        BY <1>a, <3>3 DEF Shapes
      <3> QED  BY <1>b, <1>3, <3>1, <3>2, <3>3
               DEF RunStep, Enqueue, Dequeue, DequeueRejected, RunAccepted, RunRefused, MarkAttempt
    <2>4. /\ queued' \subseteq Writes /\ refused' \subseteq Writes /\ named' \subseteq Writes
          /\ orphans' \subseteq Callers
          /\ stage' \in [Writes -> {"new", "enqueue", "await", "done", "lost"}]
      BY <1>a, <2>a, <2>1 DEF Shelved, NotShelved, Dropped, Ended, Named, Shapes
    <2>5. call' \in [Callers -> CallType]
      <3>1. CASE Dropped(w)
        BY <1>a, <2>a, <3>1 DEF Dropped, Shapes, CallType
      <3>2. CASE Shelved(w) \/ NotShelved(w) \/ Ended(w)
        <4>1. \/ call' = call
              \/ call' = [call EXCEPT ![w] = Sent]
              \/ call' = [call EXCEPT ![w] = NoCall]
          BY <3>2 DEF Shelved, NotShelved, Ended
        <4>2. call \in [Callers -> CallType]
          BY <1>a DEF Shapes
        <4> QED  BY <1>b, <4>1, <4>2
      <3> QED  BY <2>1, <3>1, <3>2
    <2>6. FlushHolds'
      BY <1>a, <1>b, <2>1 DEF Shelved, NotShelved, Dropped, Ended, Shapes, FlushHolds, Callers
    <2> QED  BY <1>a, <2>1, <2>2, <2>3, <2>4, <2>5, <2>6 DEF Shapes
  <1>4. ASSUME NEW f \in Flushes, MarkAttempt(f)  PROVE Shapes' /\ FlushHolds'
    <2>1. GaveUp(f) /\ Work(f, <<>>)
      BY <1>4, FlushGivesUp DEF GaveUp
    <2>2. WriteOf(f) \in Writes
      BY <2>1, CallTypes DEF GaveUp, IInv, TypeOK, Callers
    <2>3. todo' = [todo EXCEPT ![f] = <<>>] /\ orphans' \subseteq orphans
      BY <2>1, WorkMoves
    <2> QED  BY <1>a, <1>b, <2>1, <2>2, <2>3 DEF GaveUp, Shapes, FlushHolds, Callers
  <1>5. ASSUME NEW w \in Writes, ServeLate(w)  PROVE Shapes' /\ FlushHolds'
    <2>1. PICK answer : Handle(w, answer)
      BY <1>5 DEF ServeLate
    <2>2. /\ intent' = intent /\ line' \in LineRows /\ ledger' \in LedgerTypes
          /\ applied' \in [Writes -> Nat] /\ faults' \in 0..MaxFaults
      BY <2>1, HandleStep DEF IInv
    <2>3. late' \in [Writes -> Nat]
      BY <1>a, <1>5 DEF ServeLate, Shapes
    <2> QED  BY <1>a, <1>5, <2>2, <2>3 DEF ServeLate, Shapes, FlushHolds
  <1>6. ASSUME NEW f \in Flushes, Flush(f)  PROVE Shapes' /\ FlushHolds'
    <2>1. /\ f \in due /\ due' = due \ {f}
          /\ faults' = faults \/ (faults < MaxFaults /\ faults' = faults + 1)
          /\ UNCHANGED <<server, queued, offline, runs, view, call, news>>
      BY <1>6, FlushMoves
    <2>2. PICK rest \in PendingFor \cup {<<>>} : Work(f, rest)
      BY <1>6, FlushMoves
    <2>3. rest \in Seq(Writes)
      BY <1>a, <1>b, PendingTyped DEF Shapes
    <2>4. todo' = [todo EXCEPT ![f] = rest] /\ orphans' \subseteq orphans
      BY <2>2, WorkMoves
    <2>5. call[f] = NoCall
      BY <1>a, <2>1 DEF IInv, FlushesHaveWork, FlushHolds
    <2> QED  BY <1>a, <1>b, <2>1, <2>3, <2>4, <2>5 DEF Shapes, FlushHolds
  <1>7. ASSUME NEW f \in Flushes, SendQueued(f)  PROVE Shapes' /\ FlushHolds'
    BY <1>a, <1>b, <1>7 DEF SendQueued, Shapes, FlushHolds, Callers
  <1>8. ASSUME NEW f \in Flushes, Dequeue(f)  PROVE Shapes' /\ FlushHolds'
    <2>1. call[f] # NoCall /\ f \in Callers
      BY <1>8, CallTypes DEF Dequeue, Callers
    <2>2. WriteOf(f) \in Writes
      BY <2>1 DEF IInv, TypeOK
    <2>3. call' \in [Callers -> CallType]
      BY <1>a, <1>8, <2>1 DEF Dequeue, Shapes, CallType
    <2>4. lines' = lines
      BY <1>b, <1>8 DEF Dequeue, Undone
    <2>5. FlushHolds'
      BY <1>a, <1>8, <2>1 DEF Dequeue, Shapes, FlushHolds, Callers
    <2> QED  BY <1>a, <1>8, <2>2, <2>3, <2>4, <2>5 DEF Dequeue, Shapes
  <1>9. ASSUME NEW f \in Flushes, FlushAnswered(f)  PROVE Shapes' /\ FlushHolds'
    <2>1. call[f] # NoCall /\ f \in Callers
      BY <1>9, CallTypes DEF FlushAnswered, Callers
    <2>2. todo[f] # <<>> /\ todo[f] \in Seq(Writes) /\ WriteOf(f) \in Writes
      BY <1>a, <2>1 DEF FlushHolds, Shapes, IInv, TypeOK
    <2>3. Tail(todo[f]) \in Seq(Writes)
      BY <2>2, TailTyped
    <2>4. todo' = [todo EXCEPT ![f] = Tail(todo[f])] /\ orphans' \subseteq orphans
      BY <1>9, WorkMoves DEF FlushAnswered
    <2> QED  BY <1>a, <1>b, <1>9, <2>2, <2>3, <2>4
             DEF FlushAnswered, Named, Shapes, FlushHolds, Callers
  <1>10. ASSUME NEW a \in Callers, Serve(a)  PROVE Shapes' /\ FlushHolds'
    <2>1. WriteOf(a) \in Writes
      BY <1>10, CallTypes DEF Serve, IInv, TypeOK
    <2>2. PICK answer : /\ Handle(WriteOf(a), answer)
                        /\ call' = [call EXCEPT ![a] =
                             [state |-> answer,
                              row |-> IF answer = "ok"
                                      THEN line'[intent[WriteOf(a)].count][intent[WriteOf(a)].slot]
                                      ELSE NoLine]]
      BY <1>10 DEF Serve
    <2>3. /\ intent' = intent /\ line' \in LineRows /\ ledger' \in LedgerTypes
          /\ applied' \in [Writes -> Nat] /\ faults' \in 0..MaxFaults
          /\ answer \in {"ok", "refused"}
      BY <2>1, <2>2, HandleStep DEF IInv
    <2> DEFINE row == IF answer = "ok"
                      THEN line'[intent[WriteOf(a)].count][intent[WriteOf(a)].slot]
                      ELSE NoLine
    <2>4. row \in RowType \cup {NoLine}
      BY <2>1, <2>3, IntentOfWrite DEF IInv, LineRows
    <2>5. [state |-> answer, row |-> row] \in CallType
      BY <2>3, <2>4 DEF CallType
    <2>6. call' \in [Callers -> CallType]
      BY <1>a, <2>2, <2>5 DEF Shapes
    <2>7. FlushHolds'
      BY <1>a, <1>10, <2>2, CallTypes DEF Serve, FlushHolds, Shapes
    <2> QED  BY <1>a, <1>10, <2>3, <2>6, <2>7 DEF Serve, Shapes
  <1>11. ASSUME NEW a \in Callers, Throw(a)  PROVE Shapes' /\ FlushHolds'
    <2>1. call[a] # NoCall
      BY <1>11, CallTypes DEF Throw
    <2>2. WriteOf(a) \in Writes
      BY <2>1 DEF IInv, TypeOK
    <2>3. late' \in [Writes -> Nat]
      BY <1>a, <1>11, <2>2 DEF Throw, Shapes
    <2>4. call' \in [Callers -> CallType]
      BY <1>a, <1>11 DEF Throw, Shapes, CallType
    <2>5. FlushHolds'
      BY <1>a, <1>11, <2>1 DEF Throw, FlushHolds, Shapes
    <2> QED  BY <1>a, <1>b, <1>11, <2>3, <2>4, <2>5 DEF Throw, Shapes
  <1>12. ASSUME NEW c \in Counts, CountStep(c)  PROVE Shapes' /\ FlushHolds'
    BY <1>a, <1>12 DEF CountStep, Book!Open, Book!Submit, Book!Reopen, Book!Move, Shapes, FlushHolds
  <1>13. ASSUME NEW f \in Flushes, Leaves(f)  PROVE Shapes' /\ FlushHolds'
    <2>1. /\ faults < MaxFaults /\ faults' = faults + 1
          /\ before' = [w \in Writes |-> NoLine]
          /\ lines' \in [Slots -> LocalType \cup {NoLine}]
          /\ busy' = FALSE /\ rapid' = NoWrite /\ offline' \in {offline, FALSE}
          /\ orphans' \subseteq Callers
          /\ UNCHANGED <<book, applied, queued, made, news>>
      BY <1>13, LeaveMoves DEF IInv
    <2>a. busy' \in BOOLEAN /\ offline' \in BOOLEAN
      BY Zenon, <1>a, <2>1 DEF Shapes
    <2>b. faults' \in 0..MaxFaults /\ before' \in [Writes -> LocalType \cup {NoLine}]
      BY <1>a, <1>b, <2>1 DEF Shapes
    <2>2. CASE LeaveAndReturn(f)
      BY <1>a, <2>1, <2>a, <2>b, <2>2 DEF LeaveAndReturn, Shapes, FlushHolds
    <2>3. CASE Reload(f)
      <3>1. late' \in [Writes -> Nat]
        BY <2>3, ReloadTyped DEF IInv
      <3>2. stage' \in [Writes -> {"new", "enqueue", "await", "done", "lost"}]
        BY <1>a, <2>3 DEF Reload, Shapes
      <3>3. FlushHolds'
        BY <2>3 DEF Reload, FlushHolds, Callers
      <3> QED  BY <1>a, <1>b, <2>1, <2>a, <2>b, <2>3, <3>1, <3>2, <3>3 DEF Reload, Shapes
    <2> QED  BY <1>13, <2>2, <2>3 DEF Leaves
  <1>14. CASE GoOffline
    BY <1>a, <1>14 DEF GoOffline, Shapes, FlushHolds
  <1>15. ASSUME NEW f \in Flushes, Online(f)  PROVE Shapes' /\ FlushHolds'
    BY <1>a, <1>15 DEF Online, Shapes, FlushHolds
  <1> QED  BY <1>1, <1>2, <1>3, <1>4, <1>5, <1>6, <1>7, <1>8, <1>9, <1>10, <1>11, <1>12,
              <1>13, <1>14, <1>15
           DEF Next, Counter, Browser, FlushStep, Leaves

-----------------------------------------------------------------------------
(* What a step may do to a write.                                          *)
Moves(w) ==
  /\ stage'[w] = "new" <=> w > made'
  /\ \/ stage'[w] = stage[w]
     \/ stage[w] = "new" /\ stage'[w] = "enqueue"
     \/ stage[w] = "enqueue" /\ stage'[w] = "lost"
     \/ /\ stage[w] = "enqueue" /\ stage'[w] \in {"await", "done"} /\ w \in queued'
        /\ \A v \in 1..(w - 1) : stage[v] # "enqueue"
     \/ stage[w] = "await" /\ stage'[w] = "done"
  /\ ~Past(w) => /\ w \notin refused' /\ w \notin named'
                 /\ applied'[w] = 0 /\ late'[w] = 0
  /\ w \in queued' => w \in queued \/ Past(w)'
  /\ applied[w] > 0 => applied'[w] > 0
  /\ (w \in refused => w \in refused') /\ (w \in named => w \in named')
  /\ w \in queued \ queued' => w \in refused' \/ applied[w] > 0

LEMMA StepMoves ==
  ASSUME IInv, Next, NEW w \in Writes
  PROVE  Moves(w)
  <1> USE DEF server, book, view, runs, flush, news
  <1>s. Shapes
    BY TypesAreShapes DEF IInv
  <1>a. /\ Shapes /\ w \in Int /\ made \in Int /\ applied[w] \in Nat
        /\ stage[w] \in {"new", "enqueue", "await", "done", "lost"}
    BY <1>s, ClientAssumption DEF Shapes, Writes
  <1>b. /\ stage[w] = "new" <=> w > made
        /\ ~Past(w) => /\ w \notin queued /\ w \notin refused /\ w \notin named
                       /\ applied[w] = 0 /\ late[w] = 0
    BY DEF IInv, UnknownBeforeKept
  <1>c. \A a \in Callers : call[a] # NoCall => WriteOf(a) \in Writes /\ Past(WriteOf(a))
    BY WriteOfCall DEF IInv
  <1>d. \A a \in Callers : call[a].state \in {"ok", "okDropped"} => applied[WriteOf(a)] > 0
    BY DEF IInv, AnswersAreTrue
  <1>e. NoCall.state = "none" /\ Sent # NoCall /\ \A u \in Writes : u \in Callers /\ WriteOf(u) = u
    BY CallTypes, ClientAssumption DEF Callers, WriteOf
  <1>0. CASE UNCHANGED <<stage, refused, named, queued, applied, late, made>>
    BY <1>0, <1>a, <1>b DEF Moves, Past
  <1>1. CASE OnBarcode \/ GoOffline
    BY <1>1, <1>0 DEF OnBarcode, GoOffline
  <1>2. ASSUME NEW u \in Writes, SubmitEntry(u) \/ RapidScan(u)  PROVE Moves(w)
    <2>1. RunWrite(u)
      BY <1>2 DEF SubmitEntry, RapidScan
    <2>2. /\ made' = made + 1 /\ u = made + 1
          /\ stage' = [stage EXCEPT ![u] = "enqueue"]
          /\ UNCHANGED <<refused, named, queued, applied, late>>
      BY <2>1 DEF RunWrite
    <2> QED  BY <1>a, <1>b, <2>2 DEF Moves, Past, Shapes
  <1>3. ASSUME NEW a \in Callers, Dropped(a), UNCHANGED <<made, applied, late>>  PROVE Moves(w)
    <2>1. /\ WriteOf(a) \in Writes /\ Past(WriteOf(a))
          /\ call[a].state = "ok" => applied[WriteOf(a)] > 0
      BY <1>3, <1>c, <1>d, <1>e DEF Dropped
    <2> QED  BY <1>3, <1>a, <1>b, <2>1 DEF Dropped, Moves, Past, Shapes
  <1>4. ASSUME NEW u \in Writes, RunStep(u)  PROVE Moves(w)
    <2>1. UNCHANGED <<made, applied, late>> /\ (Shelved(u) \/ NotShelved(u) \/ Dropped(u) \/ Ended(u))
      BY <1>4, RunMoves
    <2>2. CASE Shelved(u)
      BY <2>1, <2>2, <1>a, <1>b DEF Shelved, Moves, Past, Shapes
    <2>3. CASE NotShelved(u)
      BY <2>1, <2>3, <1>a, <1>b DEF NotShelved, Moves, Past, Shapes
    <2>4. CASE Ended(u)
      <3>1. stage[u] = "await"
        BY <2>4 DEF Ended, IInv, CallsHaveAWrite
      <3> QED  BY <2>1, <2>4, <3>1, <1>a, <1>b, <1>e DEF Ended, Named, Moves, Past, Shapes
    <2> QED  BY <2>1, <2>2, <2>3, <2>4, <1>3, <1>e
  <1>5. ASSUME NEW f \in Flushes, MarkAttempt(f)  PROVE Moves(w)
    <2>1. GaveUp(f) /\ f \in Callers
      BY <1>5, FlushGivesUp DEF Callers
    <2>2. WriteOf(f) \in Writes /\ Past(WriteOf(f))
      BY <2>1, <1>c, <1>e DEF GaveUp
    <2> QED  BY <2>1, <2>2, <1>a, <1>b DEF GaveUp, Moves, Past, Shapes
  <1>6. ASSUME NEW u \in Writes, ServeLate(u)  PROVE Moves(w)
    <2>1. PICK answer : Handle(u, answer)
      BY <1>6 DEF ServeLate
    <2>2. /\ applied[w] > 0 => applied'[w] > 0
          /\ w # u => applied'[w] = applied[w]
      BY <2>1, HandleStep DEF IInv
    <2>3. Past(u)
      BY <1>6 DEF ServeLate, IInv, UnknownBeforeKept
    <2> QED  BY <1>6, <1>a, <1>b, <2>2, <2>3 DEF ServeLate, Moves, Past, Shapes
  <1>7. ASSUME NEW f \in Flushes, Flush(f)  PROVE Moves(w)
    BY <1>7, <1>0, FlushMoves
  <1>8. ASSUME NEW f \in Flushes, SendQueued(f) \/ Online(f)  PROVE Moves(w)
    BY <1>8, <1>0 DEF SendQueued, Online
  <1>9. ASSUME NEW f \in Flushes, Dequeue(f)  PROVE Moves(w)
    BY <1>9, <1>3 DEF Dequeue, Dropped, Callers
  <1>10. ASSUME NEW f \in Flushes, FlushAnswered(f)  PROVE Moves(w)
    <2>1. f \in Callers /\ call[f] # NoCall
      BY <1>10, <1>e DEF FlushAnswered, Callers
    <2>2. WriteOf(f) \in Writes /\ Past(WriteOf(f))
      BY <2>1, <1>c
    <2> QED  BY <1>10, <1>a, <1>b, <2>2 DEF FlushAnswered, Named, Moves, Past, Shapes
  <1>11. ASSUME NEW a \in Callers, Serve(a)  PROVE Moves(w)
    <2>1. WriteOf(a) \in Writes /\ Past(WriteOf(a))
      BY <1>11, <1>c, <1>e DEF Serve
    <2>2. PICK answer : Handle(WriteOf(a), answer)
      BY <1>11 DEF Serve
    <2>3. /\ applied[w] > 0 => applied'[w] > 0
          /\ w # WriteOf(a) => applied'[w] = applied[w]
      BY <2>1, <2>2, HandleStep DEF IInv
    <2> QED  BY <1>11, <1>a, <1>b, <2>1, <2>3 DEF Serve, Moves, Past, Shapes
  <1>12. ASSUME NEW a \in Callers, Throw(a)  PROVE Moves(w)
    <2>1. WriteOf(a) \in Writes /\ Past(WriteOf(a))
      BY <1>12, <1>c, <1>e DEF Throw
    <2> QED  BY <1>12, <1>a, <1>b, <2>1 DEF Throw, Moves, Past, Shapes
  <1>13. ASSUME NEW c \in Counts, CountStep(c)  PROVE Moves(w)
    BY <1>13, <1>0 DEF CountStep
  <1>14. ASSUME NEW f \in Flushes, LeaveAndReturn(f)  PROVE Moves(w)
    BY <1>14, <1>0, LeaveMoves DEF LeaveAndReturn, Leaves, IInv
  <1>15. ASSUME NEW f \in Flushes, Reload(f)  PROVE Moves(w)
    <2>1. late'[w] > late[w] => Past(w)
      BY <1>15, <1>c, ReloadTyped DEF IInv
    <2>2. late'[w] \in Nat /\ late[w] \in Nat /\ late'[w] >= late[w]
      BY <1>15, <1>a, ReloadTyped DEF IInv, Shapes
    <2>3. ~Past(w) => late'[w] = 0
      BY <1>b, <2>1, <2>2
    <2>4. stage'[w] = CASE stage[w] = "enqueue" -> "lost"
                        [] stage[w] = "await" -> "done"
                        [] OTHER -> stage[w]
      BY <1>15 DEF Reload
    <2>5. UNCHANGED <<made, refused, named, queued, applied>>
      BY <1>15 DEF Reload
    <2> QED  BY <1>a, <1>b, <2>3, <2>4, <2>5 DEF Moves, Past
  <1> QED  BY <1>1, <1>2, <1>4, <1>5, <1>6, <1>7, <1>8, <1>9, <1>10, <1>11, <1>12,
              <1>13, <1>14, <1>15
           DEF Next, Counter, Browser, FlushStep

(* What is settled stays so, and what the queue has had it has had.        *)
LEMMA SettledStays ==
  ASSUME NEW w \in Writes, Moves(w)
  PROVE  /\ Settled(w) => Settled(w)'
         /\ Past(w) => Past(w)'
  BY DEF Moves, Settled, Past

(* What a step may do to a snapshot: take one, be done with its head, or   *)
(* give it up.                                                             *)
SnapshotMoves(f) ==
  \/ todo'[f] = todo[f]
  \/ todo'[f] = <<>> /\ call'[f] = NoCall
  \/ f \in due /\ todo'[f] \in PendingFor /\ call'[f] = NoCall
  \/ /\ todo[f] # <<>> /\ todo'[f] = Tail(todo[f]) /\ call'[f] = NoCall
     /\ applied'[todo[f][1]] > 0 \/ todo[f][1] \in refused'

(* A flush is started only when it is idle, and left running only when it  *)
(* is not.                                                                 *)
TidyMoves(f) ==
  /\ f \in due' => todo'[f] = <<>> /\ (f \in due \/ f \notin orphans')
  /\ f \in orphans' => ~Idle(f)'

LEMMA StepSnapshots ==
  ASSUME IInv, Next, NEW f \in Flushes
  PROVE  SnapshotMoves(f) /\ TidyMoves(f)
  <1> USE DEF server, book, view, runs, flush, news
  <1>a. /\ todo \in [Flushes -> Seq(Writes)] /\ call \in [Callers -> CallType]
        /\ due \subseteq Flushes /\ refused \subseteq Writes /\ f \in Callers
    BY DEF IInv, TypeOK, Callers
  <1>b. /\ f \in due => todo[f] = <<>>
        /\ f \in orphans => ~Idle(f)
    BY DEF IInv, FlushesHaveWork
  <1>1. CASE UNCHANGED flush /\ orphans' \subseteq orphans
    BY <1>1, <1>b DEF SnapshotMoves, TidyMoves, Idle
  <1>2. ASSUME NEW g \in Flushes, Flush(g)  PROVE SnapshotMoves(f) /\ TidyMoves(f)
    <2>1. g \in due /\ due' = due \ {g} /\ todo[g] = <<>> /\ call' = call
      BY <1>2, FlushMoves DEF IInv, FlushesHaveWork
    <2>2. PICK rest \in PendingFor \cup {<<>>} : Work(g, rest)
      BY <1>2, FlushMoves
    <2>3. /\ todo' = [todo EXCEPT ![g] = rest] /\ orphans' \subseteq orphans
          /\ rest = <<>> => g \notin orphans'
      BY <2>2, WorkMoves
    <2>4. call'[g] = NoCall
      BY <2>1 DEF IInv, CallsHaveAWrite
    <2>5. CASE f = g
      BY <1>a, <2>1, <2>2, <2>3, <2>4, <2>5 DEF SnapshotMoves, TidyMoves, Idle
    <2>6. CASE f # g
      BY <1>a, <1>b, <2>1, <2>3, <2>6 DEF SnapshotMoves, TidyMoves, Idle
    <2> QED  BY <2>5, <2>6
  <1>3. ASSUME NEW g \in Flushes, FlushAnswered(g)  PROVE SnapshotMoves(f) /\ TidyMoves(f)
    <2>1. call[g] # NoCall /\ g \in Callers
      BY <1>3, CallTypes DEF FlushAnswered, Callers
    <2>2. todo[g] # <<>> /\ todo[g] \in Seq(Writes)
      BY <1>a, <2>1 DEF IInv, CallsHaveAWrite
    <2>3. WriteOf(g) = todo[g][1] /\ WriteOf(g) \in Writes
      BY <2>2, TailTyped DEF WriteOf
    <2>4. /\ Work(g, Tail(todo[g])) /\ due' = due
          /\ call' = [call EXCEPT ![g] = NoCall]
          /\ call[g].state \in {"okDropped", "refusedDropped"}
          /\ applied' = applied /\ refused' = refused
      BY <1>3 DEF FlushAnswered
    <2>5. /\ todo' = [todo EXCEPT ![g] = Tail(todo[g])] /\ orphans' \subseteq orphans
          /\ Tail(todo[g]) = <<>> => g \notin orphans'
      BY <2>4, WorkMoves
    <2>6. applied'[todo[g][1]] > 0 \/ todo[g][1] \in refused'
      BY <2>1, <2>3, <2>4 DEF IInv, AnswersAreTrue
    <2>7. CASE f = g
      BY <1>a, <1>b, <2>1, <2>2, <2>4, <2>5, <2>6, <2>7 DEF SnapshotMoves, TidyMoves, Idle
    <2>8. CASE f # g
      BY <1>a, <1>b, <2>4, <2>5, <2>8 DEF SnapshotMoves, TidyMoves, Idle
    <2> QED  BY <2>7, <2>8
  <1>4. ASSUME NEW g \in Flushes, MarkAttempt(g)  PROVE SnapshotMoves(f) /\ TidyMoves(f)
    <2>1. Work(g, <<>>) /\ call' = [call EXCEPT ![g] = NoCall] /\ due' = due
      BY <1>4, FlushGivesUp DEF GaveUp
    <2>2. todo' = [todo EXCEPT ![g] = <<>>] /\ orphans' \subseteq orphans /\ g \notin orphans'
      BY <2>1, WorkMoves
    <2> QED  BY <1>a, <1>b, <2>1, <2>2 DEF SnapshotMoves, TidyMoves, Idle
  <1>5. ASSUME NEW g \in Flushes, Online(g)  PROVE SnapshotMoves(f) /\ TidyMoves(f)
    BY <1>5, <1>b DEF Online, SnapshotMoves, TidyMoves, Idle
  <1>6. ASSUME NEW g \in Flushes, LeaveAndReturn(g)  PROVE SnapshotMoves(f) /\ TidyMoves(f)
    BY <1>6, <1>b DEF LeaveAndReturn, SnapshotMoves, TidyMoves, Idle, Running
  <1>7. ASSUME NEW g \in Flushes, Reload(g)  PROVE SnapshotMoves(f) /\ TidyMoves(f)
    BY <1>a, <1>7 DEF Reload, SnapshotMoves, TidyMoves
  <1>8. \/ UNCHANGED flush /\ orphans' \subseteq orphans
        \/ \E g \in Flushes : \/ Flush(g) \/ FlushAnswered(g) \/ MarkAttempt(g) \/ Online(g)
                              \/ LeaveAndReturn(g) \/ Reload(g)
    <2>1. ASSUME NEW u \in Writes, SubmitEntry(u) \/ RapidScan(u) \/ ServeLate(u)
          PROVE  UNCHANGED <<due, todo, orphans>>
      BY <2>1 DEF SubmitEntry, RapidScan, RunWrite, ServeLate
    <2>2. ASSUME NEW u \in Writes, RunStep(u)  PROVE UNCHANGED flush /\ orphans' \subseteq orphans
      BY <2>2, RunMoves DEF Shelved, NotShelved, Dropped, Ended
    <2>3. ASSUME NEW a \in Callers, Serve(a) \/ Throw(a)  PROVE UNCHANGED <<due, todo, orphans>>
      BY <2>3 DEF Serve, Throw
    <2>4. ASSUME NEW g \in Flushes, SendQueued(g) \/ Dequeue(g)  PROVE UNCHANGED <<due, todo, orphans>>
      BY <2>4 DEF SendQueued, Dequeue
    <2>5. OnBarcode \/ GoOffline => UNCHANGED <<due, todo, orphans>>
      BY DEF OnBarcode, GoOffline
    <2>6. ASSUME NEW c \in Counts, CountStep(c)  PROVE UNCHANGED <<due, todo, orphans>>
      BY <2>6 DEF CountStep
    <2> QED  BY <2>1, <2>2, <2>3, <2>4, <2>5, <2>6 DEF Next, Counter, Browser, FlushStep
  <1> QED  BY <1>1, <1>2, <1>3, <1>4, <1>5, <1>6, <1>7, <1>8

(* What a step may do to a call: end it, make it, let it throw, answer it  *)
(* truly, or drop the write it is about.                                   *)
CallMoves(a) ==
  \/ call'[a] = NoCall
  \/ /\ call[a] # NoCall \/ a \in Flushes \/ stage'[a] = "await"
     /\ a \in Writes => stage'[a] = stage[a] \/ stage'[a] = "await"
     /\ \/ call'[a].state \in {"none", "sent", "refused", "marking", "unmarked"}
        \/ call'[a] = call[a]
        \/ /\ call[a].state = "ok" /\ call'[a].state = "okDropped"
           /\ call'[a].row = call[a].row
        \/ /\ call[a].state = "refused" /\ call'[a].state = "refusedDropped"
           /\ WriteOf(a) \in refused'
  \/ /\ call[a] = Sent /\ stage' = stage /\ WriteOf(a)' = WriteOf(a)
     /\ call'[a].state = "ok" => applied'[WriteOf(a)] > 0 /\ call'[a].row # NoLine
     /\ call'[a].state \in {"ok", "refused"}

LEMMA StepCalls ==
  ASSUME IInv, Next, NEW a \in Callers
  PROVE  CallMoves(a)
  <1> USE DEF server, book, view, runs, flush, news
  <1>a. /\ call \in [Callers -> CallType] /\ Writes \cap Flushes = {} /\ a \in Writes \cup Flushes
        /\ stage \in [Writes -> {"new", "enqueue", "await", "done", "lost"}]
        /\ call[a].state \in {"none", "sent", "ok", "okDropped", "refused", "refusedDropped",
                              "marking", "unmarked"}
    BY ClientAssumption DEF IInv, TypeOK, Callers, CallType
  <1>b. NoCall.state = "none" /\ Sent.state = "sent"
    BY CallTypes
  <1>0. CASE UNCHANGED <<call, stage>>
    BY <1>a, <1>0 DEF CallMoves, IInv, CallsHaveAWrite
  <1>1. ASSUME NEW u \in Writes, SubmitEntry(u) \/ RapidScan(u)  PROVE CallMoves(a)
    <2>1. call' = call /\ stage' = [stage EXCEPT ![u] = "enqueue"] /\ stage[u] = "new"
      <3>1. u = made + 1
        BY <1>1 DEF SubmitEntry, RapidScan, RunWrite
      <3>2. stage[u] = "new"
        BY <3>1 DEF IInv, TypeOK, UnknownBeforeKept
      <3> QED  BY <1>1, <3>2 DEF SubmitEntry, RapidScan, RunWrite
    <2>2. a = u => call[a] = NoCall
      BY <2>1 DEF IInv, CallsHaveAWrite
    <2> QED  BY <1>a, <1>b, <2>1, <2>2 DEF CallMoves, IInv, CallsHaveAWrite
  <1>2. ASSUME NEW b \in Callers, Dropped(b)  PROVE CallMoves(a)
    <2>1. CASE a = b
      <3>1. stage' = stage /\ call[a] # NoCall
        BY <1>2, <1>b, <2>1 DEF Dropped
      <3>2. call'[a] = [call[a] EXCEPT !.state = IF call[a].state = "ok" THEN "okDropped"
                                                 ELSE "refusedDropped"]
        BY <1>2, <1>a, <2>1 DEF Dropped
      <3>3. call[a] \in CallType
        BY <1>a
      <3>4. /\ call[a].state = "ok" => call'[a].state = "okDropped" /\ call'[a].row = call[a].row
            /\ call[a].state = "refused" => call'[a].state = "refusedDropped"
        BY <3>2, <3>3 DEF CallType
      <3>5. call[a].state = "refused" => WriteOf(a) \in refused'
        BY <1>2, <2>1 DEF Dropped
      <3> QED  BY <1>2, <2>1, <3>1, <3>4, <3>5 DEF Dropped, CallMoves
    <2>2. CASE a # b
      <3>1. call'[a] = call[a] /\ stage' = stage
        BY <1>2, <1>a, <2>2 DEF Dropped
      <3> QED  BY <1>a, <3>1 DEF CallMoves, IInv, CallsHaveAWrite
    <2> QED  BY <2>1, <2>2
  <1>3. ASSUME NEW u \in Writes, RunStep(u)  PROVE CallMoves(a)
    <2>1. u \in Callers /\ (Shelved(u) \/ NotShelved(u) \/ Dropped(u) \/ Ended(u))
      BY <1>3, RunMoves DEF Callers
    <2>2. stage[u] = "enqueue" => call[u] = NoCall
      BY DEF IInv, CallsHaveAWrite
    <2>3. CASE Shelved(u)
      BY <1>a, <1>b, <2>2, <2>3 DEF Shelved, CallMoves, IInv, CallsHaveAWrite
    <2>4. CASE NotShelved(u)
      BY <1>a, <1>b, <2>2, <2>4 DEF NotShelved, CallMoves, IInv, CallsHaveAWrite
    <2>5. CASE Ended(u)
      BY <1>a, <1>b, <2>5 DEF Ended, CallMoves, IInv, CallsHaveAWrite
    <2> QED  BY <1>2, <2>1, <2>3, <2>4, <2>5
  <1>4. ASSUME NEW f \in Flushes, MarkAttempt(f)  PROVE CallMoves(a)
    <2>1. call' = [call EXCEPT ![f] = NoCall] /\ stage' = stage
      BY <1>4, FlushGivesUp DEF GaveUp
    <2> QED  BY <1>a, <1>b, <2>1 DEF CallMoves, IInv, CallsHaveAWrite
  <1>5. ASSUME NEW f \in Flushes, SendQueued(f)  PROVE CallMoves(a)
    BY <1>5, <1>a, <1>b DEF SendQueued, CallMoves, IInv, CallsHaveAWrite
  <1>6. ASSUME NEW f \in Flushes, FlushAnswered(f)  PROVE CallMoves(a)
    BY <1>6, <1>a, <1>b DEF FlushAnswered, CallMoves, IInv, CallsHaveAWrite
  <1>7. ASSUME NEW b \in Callers, Serve(b)  PROVE CallMoves(a)
    <2>1. PICK w \in Writes : w = WriteOf(b)
      BY <1>7, CallTypes DEF Serve, IInv, TypeOK
    <2>2. PICK answer :
            /\ Handle(w, answer)
            /\ call' = [call EXCEPT ![b] =
                 [state |-> answer,
                  row |-> IF answer = "ok" THEN line'[intent[w].count][intent[w].slot]
                          ELSE NoLine]]
      BY <1>7, <2>1 DEF Serve
    <2>3. /\ intent' = intent /\ (answer = "ok" => applied'[w] > 0)
          /\ applied'[w] > 0 => Row(w)' # NoLine
          /\ answer \in {"ok", "refused"}
      BY <2>2, HandleStep DEF IInv
    <2>4. /\ call'[b].state = answer
          /\ answer = "ok" => call'[b].row = Row(w)'
      BY <1>a, <1>7, <2>2, <2>3 DEF Row, Serve
    <2>5. stage' = stage /\ WriteOf(b)' = w /\ call[b] = Sent
      BY <1>7, <2>1 DEF Serve, WriteOf
    <2>6. CASE a = b
      BY <2>1, <2>3, <2>4, <2>5, <2>6 DEF CallMoves
    <2>7. CASE a # b
      BY <1>a, <1>b, <2>2, <2>5, <2>7 DEF CallMoves, IInv, CallsHaveAWrite
    <2> QED  BY <2>6, <2>7
  <1>8. ASSUME NEW b \in Callers, Throw(b)  PROVE CallMoves(a)
    <2>1. call[b] # NoCall /\ stage' = stage
      BY <1>8, <1>b DEF Throw
    <2>2. PICK state \in {"marking", "unmarked"} :
            call' = [call EXCEPT ![b] = [state |-> state, row |-> NoLine]]
      BY <1>8 DEF Throw
    <2> QED  BY <1>a, <1>b, <2>1, <2>2 DEF CallMoves, IInv, CallsHaveAWrite
  <1>9. ASSUME NEW f \in Flushes, Reload(f)  PROVE CallMoves(a)
    BY <1>9 DEF Reload, CallMoves
  <1>10. ASSUME NEW f \in Flushes, Flush(f)  PROVE CallMoves(a)
    BY <1>10, <1>0, FlushMoves
  <1>11. ASSUME NEW u \in Writes, ServeLate(u)  PROVE CallMoves(a)
    BY <1>11, <1>0 DEF ServeLate
  <1>12. ASSUME NEW c \in Counts, CountStep(c)  PROVE CallMoves(a)
    BY <1>12, <1>0 DEF CountStep
  <1>13. CASE OnBarcode \/ GoOffline
    BY <1>13, <1>0 DEF OnBarcode, GoOffline
  <1>14. ASSUME NEW f \in Flushes, LeaveAndReturn(f) \/ Online(f)  PROVE CallMoves(a)
    BY <1>14, <1>0 DEF LeaveAndReturn, Online
  <1>15. ASSUME NEW f \in Flushes, Dequeue(f)  PROVE CallMoves(a)
    BY <1>2, <1>15 DEF Dequeue, Dropped, Callers
  <1> QED  BY <1>1, <1>3, <1>4, <1>5, <1>6, <1>7, <1>8, <1>9, <1>10, <1>11, <1>12,
              <1>13, <1>14, <1>15
           DEF Next, Counter, Browser, FlushStep

(* What has taken effect has a row.                                        *)
LEMMA LedgerStep ==
  ASSUME IInv, Next, NEW w \in Writes
  PROVE  /\ ledger'[w] # NoEntry => applied'[w] > 0
         /\ applied'[w] > 0 => Row(w)' # NoLine
  <1> USE DEF server, book, view, runs
  <1>a. /\ ledger[w] # NoEntry => applied[w] > 0
        /\ applied[w] > 0 => Row(w) # NoLine
    BY DEF IInv, AnswersAreTrue
  <1>1. CASE UNCHANGED <<line, ledger, intent, applied>>
    BY <1>1, <1>a DEF Row
  <1>2. ASSUME NEW v \in Writes, NEW answer, Handle(v, answer)
        PROVE  /\ ledger'[w] # NoEntry => applied'[w] > 0
               /\ applied'[w] > 0 => Row(w)' # NoLine
    BY <1>2, HandleStep DEF IInv
  <1>3. \/ UNCHANGED <<line, ledger, intent, applied>>
        \/ \E v \in Writes : \E answer : Handle(v, answer)
    <2>1. ASSUME NEW u \in Writes, SubmitEntry(u) \/ RapidScan(u)
          PROVE  UNCHANGED <<line, ledger, intent, applied>>
      BY <2>1 DEF SubmitEntry, RapidScan, RunWrite
    <2>2. ASSUME NEW u \in Writes, RunStep(u)  PROVE UNCHANGED <<line, ledger, intent, applied>>
      BY <2>2, RunMoves
    <2>3. ASSUME NEW f \in Flushes, FlushStep(f) \/ Online(f)
          PROVE  UNCHANGED <<line, ledger, intent, applied>>
      BY <2>3, FlushMoves, FlushGivesUp
         DEF FlushStep, SendQueued, Dequeue, FlushAnswered, GaveUp, Online
    <2>4. ASSUME NEW f \in Flushes, Leaves(f)  PROVE UNCHANGED <<line, ledger, intent, applied>>
      BY <2>4, LeaveMoves DEF IInv
    <2>5. ASSUME NEW c \in Counts, CountStep(c)
          PROVE  UNCHANGED <<line, ledger, intent, applied>>
      BY <2>5 DEF CountStep, Book!Open, Book!Submit, Book!Reopen, Book!Move
    <2>6. ASSUME NEW u \in Writes, ServeLate(u)  PROVE \E answer : Handle(u, answer)
      BY <2>6 DEF ServeLate
    <2>7. ASSUME NEW a \in Callers, Serve(a)
          PROVE  \E v \in Writes : \E answer : Handle(v, answer)
      <3>1. WriteOf(a) \in Writes
        BY <2>7, CallTypes DEF Serve, IInv, TypeOK
      <3> QED  BY <2>7, <3>1 DEF Serve
    <2>8. ASSUME NEW a \in Callers, Throw(a)  PROVE UNCHANGED <<line, ledger, intent, applied>>
      BY <2>8 DEF Throw
    <2>9. OnBarcode \/ GoOffline => UNCHANGED <<line, ledger, intent, applied>>
      BY DEF OnBarcode, GoOffline
    <2> QED  BY <2>1, <2>2, <2>3, <2>4, <2>5, <2>6, <2>7, <2>8, <2>9
             DEF Next, Counter, Browser, Leaves
  <1> QED  BY <1>1, <1>2, <1>3

-----------------------------------------------------------------------------
(* The invariant.                                                          *)

LEMMA InitInvariant == Init => IInv
  <1> SUFFICES ASSUME Init  PROVE IInv
    OBVIOUS
  <1>1. TypeOK
    BY InitTyped
  <1>2. /\ \A w \in Writes : stage[w] = "new" /\ ~Past(w) /\ applied[w] = 0 /\ late[w] = 0
                             /\ ledger[w] = NoEntry /\ w > made
        /\ \A f \in Flushes : DOMAIN todo[f] = {}
        /\ \A a \in Callers : call[a] = NoCall
        /\ queued = {} /\ refused = {} /\ named = {} /\ due = {} /\ orphans = {}
    BY DEF Init, Book!Init, Past, Writes
  <1>3. NoCall.state = "none" /\ Flushes \subseteq Callers /\ Writes \subseteq Callers
    BY CallTypes DEF Callers
  <1>4. AnswersAreTrue
    BY <1>2, <1>3 DEF AnswersAreTrue
  <1> QED  BY <1>1, <1>2, <1>3, <1>4
           DEF IInv, UnknownBeforeKept, KeptInOrder, CallsHaveAWrite, KeptUntilSettled,
               OlderFirst, FlushesHaveWork

LEMMA InvariantStep ==
  ASSUME IInv, Next
  PROVE  IInv'
  <1>a. /\ \A w \in Writes : Moves(w) /\ (Settled(w) => Settled(w)') /\ (Past(w) => Past(w)')
        /\ \A f \in Flushes : SnapshotMoves(f) /\ TidyMoves(f)
        /\ \A a \in Callers : CallMoves(a)
    BY StepMoves, SettledStays, StepSnapshots, StepCalls
  <1>b. Shapes /\ Shapes' /\ FlushHolds'
    BY TypesAreShapes, ShapesStep DEF IInv
  <1>1. TypeOK'
    BY <1>b, ShapesAreTypes, PTL
  <1>2. UnknownBeforeKept'
    BY <1>a DEF IInv, UnknownBeforeKept, Moves, Past
  <1>3. KeptInOrder'
    <2> SUFFICES ASSUME NEW v \in Writes, NEW w \in Writes, Past(w)', v < w
                 PROVE  stage'[v] \notin {"new", "enqueue"}
      BY DEF KeptInOrder, Past
    <2>1. v \in Int /\ w \in Int /\ v \in 1..(w - 1) /\ made \in Int
      BY <1>b, ClientAssumption DEF Writes, Shapes
    <2>2. stage[v] \notin {"new", "enqueue"}
      <3>1. CASE Past(w)
        BY <3>1 DEF IInv, KeptInOrder
      <3>2. CASE ~Past(w)
        <4>1. stage[w] = "enqueue" /\ stage[v] # "enqueue"
          BY <1>a, <2>1, <3>2 DEF Moves, Past
        <4>2. ~(w > made)
          BY <4>1 DEF IInv, UnknownBeforeKept
        <4>3. ~(v > made)
          BY <2>1, <4>2
        <4> QED  BY <4>1, <4>3 DEF IInv, UnknownBeforeKept
      <3> QED  BY <3>1, <3>2
    <2> QED  BY <1>a, <2>2 DEF Moves
  <1>4. CallsHaveAWrite'
    <2>1. ASSUME NEW w \in Writes, call'[w] # NoCall  PROVE stage'[w] = "await"
      <3>1. CallMoves(w) /\ (call[w] # NoCall => stage[w] = "await") /\ w \notin Flushes
        BY <1>a, ClientAssumption DEF IInv, CallsHaveAWrite, Callers
      <3> QED  BY <2>1, <3>1, CallTypes DEF CallMoves
    <2>2. ASSUME NEW f \in Flushes, NEW i \in DOMAIN todo'[f]  PROVE stage'[todo'[f][i]] \in {"await", "done"}
      <3>1. \A w \in queued : w \in Writes /\ Past(w)
        BY <1>b DEF Shapes, IInv, UnknownBeforeKept
      <3>2. todo[f] \in Seq(Writes) /\ \A j \in DOMAIN todo[f] : todo[f][j] \in Writes /\ Past(todo[f][j])
        BY <1>b DEF Shapes, IInv, CallsHaveAWrite
      <3>3. PICK w : w = todo'[f][i]
        OBVIOUS
      <3>4. w \in Writes /\ Past(w)
        <4>1. CASE todo'[f] = todo[f]
          BY <2>2, <3>2, <3>3, <4>1
        <4>2. CASE todo'[f] = <<>>
          BY <2>2, <4>2
        <4>3. CASE todo'[f] \in PendingFor
          BY <1>b, <2>2, <3>1, <3>3, <4>3, PendingTyped DEF Shapes
        <4>4. CASE todo[f] # <<>> /\ todo'[f] = Tail(todo[f])
          BY <2>2, <3>2, <3>3, <4>4, TailTyped
        <4> QED  BY <1>a, <4>1, <4>2, <4>3, <4>4 DEF SnapshotMoves
      <3> QED  BY <1>a, <3>3, <3>4 DEF Past
    <2> QED  BY <1>b, <2>1, <2>2 DEF CallsHaveAWrite, FlushHolds, Past
  <1>5. AnswersAreTrue'
    <2>1. ASSUME NEW a \in Callers
          PROVE  /\ call'[a].state \in {"ok", "okDropped"} =>
                      applied'[WriteOf(a)'] > 0 /\ call'[a].row # NoLine
                 /\ call'[a].state = "refusedDropped" => WriteOf(a)' \in refused'
      <3>1. CallMoves(a) /\ NoCall.state = "none" /\ Sent.state = "sent"
        BY <1>a, CallTypes
      <3>2. CASE call'[a] = NoCall
        BY <3>1, <3>2
      <3>3. CASE call'[a] # NoCall /\ call[a] # NoCall
        <4>1. WriteOf(a)' = WriteOf(a) /\ WriteOf(a) \in Writes
          BY <1>a, <3>3 DEF WriteOf, SnapshotMoves, IInv, TypeOK
        <4>2. /\ call[a].state \in {"ok", "okDropped"} =>
                   applied[WriteOf(a)] > 0 /\ call[a].row # NoLine
              /\ call[a].state = "refusedDropped" => WriteOf(a) \in refused
          BY DEF IInv, AnswersAreTrue
        <4>3. Moves(WriteOf(a))
          BY <1>a, <4>1
        <4> QED  BY <3>1, <3>3, <4>1, <4>2, <4>3 DEF CallMoves, Moves
      <3>4. CASE call[a] = NoCall
        BY <3>1, <3>4 DEF CallMoves
      <3> QED  BY <3>2, <3>3, <3>4
    <2>2. ASSUME NEW w \in Writes
          PROVE  /\ ledger'[w] # NoEntry => applied'[w] > 0
                 /\ applied'[w] > 0 => Row(w)' # NoLine
      BY LedgerStep
    <2> QED  BY <2>1, <2>2 DEF AnswersAreTrue
  <1>6. KeptUntilSettled'
    <2> SUFFICES ASSUME NEW w \in Writes, Past(w)', applied'[w] = 0, w \notin refused'
                 PROVE  w \in queued'
      BY DEF KeptUntilSettled, Past
    <2>1. applied[w] \in Nat /\ Moves(w) /\ (Past(w) /\ applied[w] = 0 /\ w \notin refused => w \in queued)
      BY <1>a, <1>b DEF Shapes, IInv, KeptUntilSettled
    <2> QED  BY <2>1 DEF Moves, Past
  <1>7. OlderFirst'
    <2> SUFFICES ASSUME NEW f \in Flushes, NEW i \in DOMAIN todo'[f], NEW v \in Writes,
                        v < todo'[f][i]
                 PROVE  Settled(v)' \/ \E j \in 1..(i - 1) : todo'[f][j] = v
      BY DEF OlderFirst
    <2>1. todo[f] \in Seq(Writes) /\ v \in Int /\ (Settled(v) => Settled(v)')
      BY <1>a, <1>b DEF Shapes, Writes
    <2>2. CASE todo'[f] = todo[f]
      <3>1. Settled(v) \/ \E j \in 1..(i - 1) : todo[f][j] = v
        BY <2>2 DEF IInv, OlderFirst
      <3> QED  BY <2>1, <2>2, <3>1
    <2>3. CASE todo'[f] = <<>>
      BY <2>3
    <2>4. CASE todo'[f] \in PendingFor
      <3>0. PICK p \in PendingFor : p = todo'[f]
        BY <2>4
      <3>1. /\ \A w \in Writes : w \in queued <=> \E j \in DOMAIN p : p[j] = w
            /\ \A j, k \in DOMAIN p : p[j] < p[k] => j < k
            /\ \A j \in DOMAIN p : j \in Nat /\ j >= 1 /\ p[j] \in queued
        BY <1>b, PendingTyped DEF Shapes
      <3>2. p[i] \in Writes /\ Past(p[i])
        BY <1>b, <3>0, <3>1 DEF Shapes, IInv, UnknownBeforeKept
      <3>3. stage[v] \notin {"new", "enqueue"}
        BY <3>0, <3>2 DEF IInv, KeptInOrder
      <3>4. Settled(v) \/ v \in queued
        BY <1>b, <3>3 DEF IInv, KeptUntilSettled, Settled, Past, Shapes
      <3>5. ASSUME v \in queued  PROVE \E j \in 1..(i - 1) : p[j] = v
        <4>1. PICK j \in DOMAIN p : p[j] = v
          BY <3>1, <3>5
        <4>2. j < i /\ i \in Nat /\ j \in Nat /\ j >= 1
          BY <3>0, <3>1, <4>1
        <4> QED  BY <4>1, <4>2
      <3> QED  BY <2>1, <3>0, <3>4, <3>5
    <2>5. CASE todo[f] # <<>> /\ todo'[f] = Tail(todo[f])
               /\ (applied'[todo[f][1]] > 0 \/ todo[f][1] \in refused')
      <3>1. i \in Nat /\ i >= 1 /\ i + 1 \in DOMAIN todo[f] /\ todo'[f][i] = todo[f][i + 1]
        BY <2>1, <2>5, TailTyped
      <3>2. Settled(v) \/ \E j \in 1..i : todo[f][j] = v
        BY <3>1 DEF IInv, OlderFirst
      <3>3. ASSUME NEW j \in 1..i, todo[f][j] = v
            PROVE  Settled(v)' \/ \E k \in 1..(i - 1) : todo'[f][k] = v
        <4>1. CASE j = 1
          BY <2>5, <3>3, <4>1 DEF Settled
        <4>2. CASE j # 1
          <5>1. j - 1 \in 1..(i - 1) /\ j - 1 \in DOMAIN Tail(todo[f])
            BY <2>1, <2>5, <3>1, <4>2, HeadTailProperties
          <5>2. todo'[f][j - 1] = todo[f][j]
            BY SMTT(30), <2>1, <2>5, <5>1, TailTyped
          <5> QED  BY <3>3, <5>1, <5>2
        <4> QED  BY <4>1, <4>2
      <3> QED  BY <2>1, <3>2, <3>3
    <2> QED  BY <1>a, <2>2, <2>3, <2>4, <2>5 DEF SnapshotMoves
  <1>8. FlushesHaveWork'
    BY <1>a DEF FlushesHaveWork, TidyMoves
  <1> QED  BY <1>1, <1>2, <1>3, <1>4, <1>5, <1>6, <1>7, <1>8 DEF IInv

(* The invariant holds of every behaviour.                                 *)
LEMMA Invariance == Spec => []IInv
  <1>1. IInv /\ [Next]_vars => IInv'
    <2>1. ASSUME IInv, UNCHANGED vars  PROVE IInv'
      BY <2>1 DEF IInv, TypeOK, UnknownBeforeKept, KeptInOrder, CallsHaveAWrite,
                  FlushesHaveWork, Idle, AnswersAreTrue, KeptUntilSettled, OlderFirst, Past,
                  Settled, Row, WriteOf, vars, server, book, view, runs, flush, news
    <2> QED  BY <2>1, InvariantStep
  <1> QED  BY <1>1, InitInvariant, PTL DEF Spec

(* Every variable of the screen, its queue and the server keeps its type,  *)
(* on every path of thrown calls, legs left, reloads, rejections of the    *)
(* store and overlapping flushes; in particular what a call is about is    *)
(* always a write the counter made.                                        *)
THEOREM ClientTypes == Spec => []TypeOK
  BY Invariance, PTL DEF IInv

(* Whatever a flush gets to the server, every earlier write is settled by  *)
(* then: for any number of overlapping flushes, each working through a     *)
(* snapshot the queue has moved on from.                                   *)
THEOREM ReplaysInOrder == Spec => FlushReplaysInOrder
  <1> DEFINE Ordered ==
        \A f \in Flushes :
          call[f] = Sent /\ call'[f].state \in {"ok", "refused"} =>
            \A v \in Writes : SameLine(v, WriteOf(f)) /\ v < WriteOf(f) => Settled(v)
  <1>1. IInv => Ordered
    <2> SUFFICES ASSUME IInv, NEW f \in Flushes, call[f] = Sent, NEW v \in Writes,
                        v < WriteOf(f)
                 PROVE  Settled(v)
      OBVIOUS
    <2>1. todo[f] # <<>> /\ todo[f] \in Seq(Writes)
      BY CallTypes DEF IInv, CallsHaveAWrite, TypeOK
    <2>2. WriteOf(f) = todo[f][1] /\ 1 \in DOMAIN todo[f]
      BY <2>1, TailTyped DEF WriteOf
    <2>3. Settled(v) \/ \E j \in 1..(1 - 1) : todo[f][j] = v
      BY <2>2 DEF IInv, OlderFirst
    <2> QED  BY <2>3
  <1>2. IInv => [Ordered]_vars
    BY <1>1
  <1>3. Spec => [][Ordered]_vars
    BY <1>2, Invariance, PTL
  <1> QED  BY <1>3 DEF FlushReplaysInOrder

-----------------------------------------------------------------------------
(* The promise.                                                            *)

(* A context has dropped the write and will name it.                       *)
Names(a, w) == a \notin orphans /\ call[a].state = "refusedDropped" /\ WriteOf(a) = w

Astray == UNION {InHand(a) : a \in orphans}

(* Nothing the fate of a write depends on changes, but for who will name   *)
(* it.                                                                     *)
Quiet(w) ==
  /\ applied'[w] = applied[w] /\ stage'[w] = stage[w]
  /\ w \in queued' <=> w \in queued
  /\ w \in refused' <=> w \in refused
  /\ w \in named' <=> w \in named

(* A step of one context is about the write it holds.                      *)
Footprint(b, u) ==
  /\ b \in Callers /\ orphans' \in {orphans, orphans \ {b}}
  /\ \A a \in Callers : a # b => call'[a] = call[a] /\ WriteOf(a)' = WriteOf(a)
  /\ call[b] # NoCall => WriteOf(b) = u
  /\ call'[b] # NoCall => WriteOf(b)' = u
  /\ \A w \in Writes : w # u => Quiet(w)
  /\ Names(b, u) => Names(b, u)' \/ u \in named'
  /\ u \in named' => u \in named \/ Names(b, u)
  /\ u \in queued \ queued' => \/ applied[u] > 0 \/ Names(b, u)'
                               \/ b \in orphans /\ call[b] # NoCall

(* A step of nobody's.                                                     *)
NoContext(u) ==
  /\ UNCHANGED <<call, orphans, queued, refused, named>>
  /\ \A a \in Callers : call[a] # NoCall => WriteOf(a)' = WriteOf(a)
  /\ \A w \in Writes : w # u => Quiet(w)

LEMMA OneContext ==
  ASSUME IInv, Next
  PROVE  \/ \E f \in Flushes : Leaves(f)
         \/ \E u : NoContext(u) \/ \E b : Footprint(b, u)
  <1> USE DEF server, book, view, runs, flush, news
  <1>a. /\ Shapes /\ \A a \in Callers : call[a] # NoCall => WriteOf(a) \in Writes
        /\ Writes \cap Flushes = {} /\ NoCall.state = "none" /\ Sent # NoCall
        /\ Sent.state = "sent"
    BY TypesAreShapes, CallTypes, ClientAssumption DEF IInv, TypeOK
  <1>b. \A u \in Writes : u \in Callers /\ WriteOf(u) = u /\ WriteOf(u)' = u
    BY <1>a DEF Callers, WriteOf
  <1>1. ASSUME NEW u \in Writes, SubmitEntry(u) \/ RapidScan(u)  PROVE NoContext(u)
    BY <1>1, <1>a DEF SubmitEntry, RapidScan, RunWrite, NoContext, Quiet, Shapes, WriteOf
  <1>2. ASSUME NEW b \in Callers, Dropped(b), UNCHANGED <<applied, todo>>
        PROVE  Footprint(b, WriteOf(b))
    <2>1. call[b] # NoCall /\ WriteOf(b) \in Writes /\ \A a \in Callers : WriteOf(a)' = WriteOf(a)
      BY <1>2, <1>a DEF Dropped, WriteOf
    <2>2. call[b].state = "ok" => applied[WriteOf(b)] > 0
      BY DEF IInv, AnswersAreTrue
    <2>3. call[b].state = "refused" => call'[b].state = "refusedDropped"
      <3>1. call \in [Callers -> CallType]
        BY <1>a DEF Shapes
      <3> QED  BY <1>2, <3>1 DEF Dropped, CallType
    <2>4. ~Names(b, WriteOf(b))
      BY <1>2 DEF Dropped, Names
    <2>5. WriteOf(b) \in named' => WriteOf(b) \in named
      BY <1>2 DEF Dropped
    <2>6. call[b].state = "ok" \/ Names(b, WriteOf(b))' \/ b \in orphans
      BY <1>2, <2>1, <2>3 DEF Dropped, Names
    <2>7. \A w \in Writes : w # WriteOf(b) => Quiet(w)
      BY <1>2 DEF Dropped, Quiet
    <2>8. \A a \in Callers : a # b => call'[a] = call[a]
      BY <1>2, <1>a DEF Dropped, Shapes
    <2>9. orphans' = orphans
      BY <1>2 DEF Dropped
    <2> QED  BY <2>1, <2>2, <2>4, <2>5, <2>6, <2>7, <2>8, <2>9 DEF Footprint
  <1>3. ASSUME NEW u \in Writes, RunStep(u)  PROVE Footprint(u, u)
    <2>1. /\ UNCHANGED <<applied, todo>>
          /\ Shelved(u) \/ NotShelved(u) \/ Dropped(u) \/ Ended(u)
      BY <1>3, RunMoves
    <2>2. stage[u] = "enqueue" => call[u] = NoCall /\ u \notin named
      BY DEF IInv, CallsHaveAWrite, UnknownBeforeKept, Past
    <2>3. \A a \in Callers : WriteOf(a)' = WriteOf(a)
      BY <2>1 DEF WriteOf
    <2>4. CASE Shelved(u)
      BY <1>a, <1>b, <2>1, <2>2, <2>3, <2>4 DEF Shelved, Footprint, Quiet, Names, Shapes
    <2>5. CASE NotShelved(u)
      BY <1>a, <1>b, <2>1, <2>2, <2>3, <2>5 DEF NotShelved, Footprint, Quiet, Names, Shapes
    <2>6. CASE Ended(u)
      <3>1. \A a \in Callers : a # u => call'[a] = call[a]
        BY <1>a, <2>6 DEF Ended, Shapes
      <3>2. \A w \in Writes : w # u => Quiet(w)
        BY <1>a, <1>b, <2>1, <2>6 DEF Ended, Named, Quiet, Shapes
      <3>3. /\ Names(u, u) => u \in named'
            /\ u \in named' => u \in named \/ Names(u, u)
        BY <1>b, <2>6 DEF Ended, Named, Names
      <3>4. u \notin queued \ queued' /\ orphans' = orphans \ {u}
        BY <2>6 DEF Ended
      <3> QED  BY <1>b, <2>3, <3>1, <3>2, <3>3, <3>4 DEF Footprint
    <2> QED  BY <1>2, <1>b, <2>1, <2>4, <2>5, <2>6
  <1>4. ASSUME NEW u \in Writes, ServeLate(u)  PROVE NoContext(u)
    <2>1. PICK answer : Handle(u, answer)
      BY <1>4 DEF ServeLate
    <2>2. \A v \in Writes : v # u => applied'[v] = applied[v]
      BY <2>1, HandleStep DEF IInv
    <2> QED  BY <1>4, <2>2 DEF ServeLate, NoContext, Quiet, WriteOf
  <1>5. ASSUME NEW f \in Flushes, Flush(f)  PROVE Footprint(f, f)
    <2>1. f \in due /\ UNCHANGED <<call, queued, stage, applied, refused, named>>
      BY <1>5, FlushMoves
    <2>2. call[f] = NoCall /\ f \in Callers
      BY <2>1 DEF IInv, FlushesHaveWork, CallsHaveAWrite, Callers
    <2>3. PICK rest \in PendingFor \cup {<<>>} : Work(f, rest)
      BY <1>5, FlushMoves
    <2>4. todo' = [todo EXCEPT ![f] = rest] /\ orphans' \in {orphans, orphans \ {f}}
      BY <2>3, WorkMoves
    <2>5. \A a \in Callers : a # f => WriteOf(a)' = WriteOf(a)
      BY <1>a, <2>4 DEF WriteOf, Shapes
    <2> QED  BY <1>a, <2>1, <2>2, <2>4, <2>5 DEF Footprint, Quiet, Names
  <1>6. ASSUME NEW f \in Flushes, SendQueued(f)  PROVE Footprint(f, WriteOf(f))
    <2>1. f \in Callers /\ \A a \in Callers : WriteOf(a)' = WriteOf(a)
      BY <1>6 DEF SendQueued, WriteOf, Callers
    <2> QED  BY <1>6, <1>a, <2>1 DEF SendQueued, Footprint, Quiet, Names, Shapes
  <1>7. ASSUME NEW f \in Flushes, FlushAnswered(f)  PROVE Footprint(f, WriteOf(f))
    <2>1. f \in Callers /\ WriteOf(f) \in Writes
      BY <1>7, <1>a DEF FlushAnswered, Callers
    <2>2. todo' = [todo EXCEPT ![f] = Tail(todo[f])] /\ orphans' \in {orphans, orphans \ {f}}
      BY <1>7, WorkMoves DEF FlushAnswered
    <2>3. \A a \in Callers : a # f => WriteOf(a)' = WriteOf(a) /\ call'[a] = call[a]
      BY <1>a, <1>7, <2>2 DEF FlushAnswered, WriteOf, Shapes
    <2>4. /\ Names(f, WriteOf(f)) => WriteOf(f) \in named'
          /\ WriteOf(f) \in named' => WriteOf(f) \in named \/ Names(f, WriteOf(f))
      BY <1>7 DEF FlushAnswered, Named, Names
    <2>5. \A w \in Writes : w # WriteOf(f) => Quiet(w)
      BY <1>7 DEF FlushAnswered, Named, Quiet
    <2>6. call'[f] = NoCall /\ queued' = queued
      BY <1>a, <1>7, <2>1 DEF FlushAnswered, Shapes
    <2> QED  BY <2>1, <2>2, <2>3, <2>4, <2>5, <2>6 DEF Footprint
  <1>8. ASSUME NEW f \in Flushes, MarkAttempt(f)  PROVE Footprint(f, WriteOf(f))
    <2>1. GaveUp(f) /\ f \in Callers /\ WriteOf(f) \in Writes
      BY <1>8, <1>a, FlushGivesUp DEF GaveUp, Callers
    <2>2. todo' = [todo EXCEPT ![f] = <<>>] /\ orphans' \in {orphans, orphans \ {f}}
      BY <2>1, WorkMoves DEF GaveUp
    <2>3. \A a \in Callers : a # f => WriteOf(a)' = WriteOf(a) /\ call'[a] = call[a]
      BY <1>a, <2>1, <2>2 DEF GaveUp, WriteOf, Shapes
    <2>4. ~Names(f, WriteOf(f)) /\ call'[f] = NoCall /\ named' = named
      BY <1>a, <2>1 DEF GaveUp, Names, Shapes
    <2>5. \A w \in Writes : w # WriteOf(f) => Quiet(w)
      BY <2>1 DEF GaveUp, Quiet
    <2>6. WriteOf(f) \notin queued \ queued'
      BY <2>1 DEF GaveUp
    <2> QED  BY <2>1, <2>2, <2>3, <2>4, <2>5, <2>6 DEF Footprint
  <1>9. ASSUME NEW a \in Callers, Serve(a)  PROVE Footprint(a, WriteOf(a))
    <2>1. WriteOf(a) \in Writes /\ \A b \in Callers : WriteOf(b)' = WriteOf(b)
      BY <1>9, <1>a DEF Serve, WriteOf
    <2>2. PICK answer : Handle(WriteOf(a), answer)
      BY <1>9 DEF Serve
    <2>3. \A v \in Writes : v # WriteOf(a) => applied'[v] = applied[v]
      BY <2>1, <2>2, HandleStep DEF IInv
    <2>4. \A b \in Callers : b # a => call'[b] = call[b]
      BY <1>9, <1>a DEF Serve, Shapes
    <2>5. ~Names(a, WriteOf(a))
      BY <1>9, <1>a DEF Serve, Names
    <2> QED  BY <1>9, <2>1, <2>3, <2>4, <2>5 DEF Serve, Footprint, Quiet
  <1>10. ASSUME NEW a \in Callers, Throw(a)  PROVE Footprint(a, WriteOf(a))
    <2>1. WriteOf(a) \in Writes /\ \A b \in Callers : WriteOf(b)' = WriteOf(b)
      BY <1>10, <1>a DEF Throw, WriteOf
    <2>2. ~Names(a, WriteOf(a))
      BY <1>10 DEF Throw, Names
    <2> QED  BY <1>10, <1>a, <2>1, <2>2 DEF Throw, Footprint, Quiet, Shapes
  <1>11. ASSUME NEW c \in Counts, CountStep(c)  PROVE NoContext(c)
    BY <1>11 DEF CountStep, NoContext, Quiet, WriteOf
  <1>12. ASSUME OnBarcode \/ GoOffline  PROVE NoContext(busy)
    BY <1>12 DEF OnBarcode, GoOffline, NoContext, Quiet, WriteOf
  <1>13. ASSUME NEW f \in Flushes, Online(f)  PROVE NoContext(f)
    BY <1>13 DEF Online, NoContext, Quiet, WriteOf
  <1>14. ASSUME NEW f \in Flushes, Dequeue(f)  PROVE Footprint(f, WriteOf(f))
    <2>1. f \in Callers /\ Dropped(f) /\ UNCHANGED <<applied, todo>>
      BY <1>14 DEF Dequeue, Dropped, Callers
    <2> QED  BY <1>2, <2>1
  <1>15. \/ \E f \in Flushes : Leaves(f)
         \/ \E u \in Writes : SubmitEntry(u) \/ RapidScan(u) \/ RunStep(u) \/ ServeLate(u)
         \/ \E f \in Flushes : \/ Flush(f) \/ SendQueued(f) \/ FlushAnswered(f)
                               \/ MarkAttempt(f) \/ Dequeue(f) \/ Online(f)
         \/ \E a \in Callers : Serve(a) \/ Throw(a)
         \/ \E c \in Counts : CountStep(c)
         \/ OnBarcode \/ GoOffline
    BY DEF Next, Counter, Browser, FlushStep, Leaves
  <1> QED  BY <1>1, <1>3, <1>4, <1>5, <1>6, <1>7, <1>8, <1>9, <1>10, <1>11, <1>12, <1>13,
              <1>14, <1>15

(* What is said of a write is what a context was about to say, and one     *)
(* leaves the queue counted, about to be named, or in the hands of a leg   *)
(* that is gone.                                                           *)
Tells(w) ==
  /\ AboutToName(w) => AboutToName(w)' \/ w \in named'
  /\ w \in named' => w \in named \/ AboutToName(w)
  /\ w \in queued \ queued' => applied[w] > 0 \/ AboutToName(w)' \/ w \in Astray

Still(w) == Quiet(w) /\ (AboutToName(w)' <=> AboutToName(w))

LEMMA WhoNames ==
  ASSUME NEW w
  PROVE  /\ AboutToName(w) <=> \E a \in Callers : Names(a, w)
         /\ AboutToName(w)' <=> \E a \in Callers : Names(a, w)'
  BY DEF AboutToName, Names

LEMMA HeldIsInHand ==
  ASSUME IInv, NEW a \in orphans, call[a] # NoCall
  PROVE  WriteOf(a) \in Astray
  <1>1. a \in Callers /\ WriteOf(a) \in Writes
    BY DEF IInv, TypeOK
  <1>2. CASE a \in Writes
    <2>1. a \notin Flushes
      BY <1>2, ClientAssumption
    <2> QED  BY <1>2, <2>1 DEF Astray, InHand, WriteOf
  <1>3. CASE a \notin Writes
    <2>1. a \in Flushes
      BY <1>1, <1>3 DEF Callers
    <2>2. todo[a] # <<>> /\ todo[a] \in Seq(Writes)
      BY <2>1 DEF IInv, TypeOK, CallsHaveAWrite
    <2>3. WriteOf(a) = todo[a][1] /\ 1 \in DOMAIN todo[a]
      BY <2>1, <2>2, TailTyped DEF WriteOf
    <2>4. WriteOf(a) \in Range(todo[a])
      BY <2>3 DEF Range
    <2>5. WriteOf(a) \in InHand(a)
      BY <1>1, <1>3, <2>4 DEF InHand
    <2> QED  BY <2>5 DEF Astray
  <1> QED  BY <1>2, <1>3

LEMMA StepTells ==
  ASSUME IInv, NEW u, NoContext(u) \/ \E b : Footprint(b, u), NEW w \in Writes
  PROVE  Tells(w) /\ (w # u => Still(w))
  <1>a. NoCall.state = "none"
    BY CallTypes
  <1>1. CASE NoContext(u)
    <2>1. \A a \in Callers : Names(a, w)' <=> Names(a, w)
      BY <1>1, <1>a DEF NoContext, Names
    <2>2. AboutToName(w)' <=> AboutToName(w)
      BY <2>1, WhoNames
    <2> QED  BY <1>1, <2>2 DEF NoContext, Tells, Still
  <1>2. ASSUME NEW b, Footprint(b, u)  PROVE Tells(w) /\ (w # u => Still(w))
    <2>1. \A a \in Callers : a # b => (Names(a, w)' <=> Names(a, w))
      BY <1>2 DEF Footprint, Names
    <2>2. CASE w # u
      <3>1. ~Names(b, w) /\ ~Names(b, w)'
        BY <1>2, <1>a, <2>2 DEF Footprint, Names
      <3>2. AboutToName(w)' <=> AboutToName(w)
        BY <2>1, <3>1, WhoNames
      <3> QED  BY <1>2, <2>2, <3>2 DEF Footprint, Quiet, Tells, Still
    <2>3. CASE w = u
      <3>1. b \in Callers
        BY <1>2 DEF Footprint
      <3>2. AboutToName(w) => AboutToName(w)' \/ w \in named'
        BY <1>2, <2>1, <2>3, WhoNames DEF Footprint
      <3>3. w \in named' => w \in named \/ AboutToName(w)
        BY <1>2, <2>3, <3>1, WhoNames DEF Footprint
      <3>4. b \in orphans /\ call[b] # NoCall => w \in Astray
        BY <1>2, <2>3, HeldIsInHand DEF Footprint
      <3>5. w \in queued \ queued' => applied[w] > 0 \/ AboutToName(w)' \/ w \in Astray
        BY <1>2, <2>3, <3>1, <3>4, WhoNames DEF Footprint
      <3> QED  BY <2>3, <3>2, <3>3, <3>5 DEF Tells
    <2> QED  BY <2>2, <2>3
  <1> QED  BY <1>1, <1>2

(* Nothing goes astray unless a leg is left.                               *)
LEMMA AstrayShrinks ==
  ASSUME IInv, Next, NEW u, NoContext(u) \/ \E b : Footprint(b, u)
  PROVE  Astray' \subseteq Astray
  <1>1. orphans' \subseteq orphans /\ orphans \subseteq Callers
    BY DEF NoContext, Footprint, IInv, TypeOK
  <1>2. ASSUME NEW a \in orphans'  PROVE InHand(a)' \subseteq InHand(a)
    <2>1. CASE a \in Writes
      BY <2>1 DEF InHand
    <2>2. CASE a \notin Writes
      <3>1. a \in Flushes
        BY <1>1, <1>2, <2>2 DEF Callers
      <3>2. SnapshotMoves(a) /\ TidyMoves(a)
        BY <3>1, StepSnapshots
      <3>3. todo[a] \in Seq(Writes) /\ queued \subseteq Writes
        BY <3>1 DEF IInv, TypeOK
      <3>4. InHand(a)' = IF a \in due' THEN Writes ELSE Range(todo'[a])
        BY <2>2 DEF InHand
      <3>5. CASE a \in due'
        BY <1>2, <3>2, <3>4, <3>5 DEF TidyMoves, InHand
      <3>6. CASE todo'[a] = <<>> /\ a \notin due'
        BY <3>4, <3>6 DEF Range
      <3>7. CASE todo'[a] = todo[a] /\ a \notin due'
        <4>1. Range(todo[a]) \subseteq Writes
          BY <3>3 DEF Range
        <4> QED  BY <2>2, <3>4, <3>7, <4>1 DEF InHand
      <3>8. CASE a \in due /\ todo'[a] \in PendingFor /\ a \notin due'
        <4>1. Range(todo'[a]) \subseteq Writes
          BY <3>3, <3>8 DEF PendingFor
        <4> QED  BY <2>2, <3>4, <3>8, <4>1 DEF InHand
      <3>9. CASE todo[a] # <<>> /\ todo'[a] = Tail(todo[a]) /\ a \notin due'
        <4>1. a \notin due
          BY <3>1, <3>9 DEF IInv, FlushesHaveWork
        <4>2. Range(Tail(todo[a])) \subseteq Range(todo[a])
          BY <3>3, <3>9, TailTyped DEF Range
        <4> QED  BY <2>2, <3>4, <3>9, <4>1, <4>2 DEF InHand
      <3> QED  BY <3>2, <3>5, <3>6, <3>7, <3>8, <3>9 DEF SnapshotMoves
    <2> QED  BY <2>1, <2>2
  <1> QED  BY <1>1, <1>2 DEF Astray

LEMMA AstrayTyped ==
  ASSUME IInv
  PROVE  Astray \subseteq Writes
  <1>1. ASSUME NEW a \in orphans  PROVE InHand(a) \subseteq Writes
    <2>1. CASE a \in Writes
      BY <2>1 DEF InHand
    <2>2. CASE a \notin Writes
      <3>1. todo[a] \in Seq(Writes)
        BY <2>2 DEF IInv, TypeOK, Callers
      <3>2. Range(todo[a]) \subseteq Writes
        BY <3>1 DEF Range
      <3> QED  BY <2>2, <3>2 DEF InHand
    <2> QED  BY <2>1, <2>2
  <1> QED  BY <1>1 DEF Astray

(* The turns a fate may take while no leg is left.                         *)
Turns(w) ==
  \/ Fate(w)' = Fate(w)
  \/ Fate(w) = "new" /\ Fate(w)' = "made"
  \/ Fate(w) = "made" /\ Fate(w)' \in {"kept", "lost"}
  \/ Fate(w) = "kept" /\ Fate(w)' \in {"dropped", "refused", "counted"}
  \/ Fate(w) = "kept" /\ Fate(w)' = "unheard" /\ w \in Astray
  \/ Fate(w) = "dropped" /\ Fate(w)' \in {"kept", "refused", "counted"}
  \/ Fate(w) = "unheard" /\ Fate(w)' \in {"kept", "dropped", "counted"}
  \/ Fate(w) = "refused" /\ Fate(w)' = "counted"

(* The fate of a write the queue has had.                                  *)
LEMMA PastFate ==
  ASSUME IInv, NEW w \in Writes, Past(w)
  PROVE  /\ applied[w] > 0 => Fate(w) = "counted"
         /\ applied[w] = 0 /\ w \in named => Fate(w) = "refused"
         /\ applied[w] = 0 /\ w \notin named /\ w \in queued => Fate(w) = "kept"
         /\ applied[w] = 0 /\ w \notin named /\ w \notin queued =>
              /\ w \in refused
              /\ Fate(w) = IF AboutToName(w) THEN "dropped" ELSE "unheard"
         /\ applied[w] \in Nat
  <1>1. applied[w] \in Nat /\ (applied[w] = 0 /\ w \notin refused => w \in queued)
    BY DEF IInv, TypeOK, KeptUntilSettled
  <1> QED  BY <1>1 DEF Fate

(* Of one it has not.                                                      *)
LEMMA EarlyFate ==
  ASSUME IInv, NEW w \in Writes, ~Past(w)
  PROVE  /\ stage[w] = "new" => Fate(w) = "new"
         /\ stage[w] = "enqueue" => Fate(w) = "made"
         /\ stage[w] = "lost" => Fate(w) = "lost"
         /\ stage[w] \in {"new", "enqueue", "lost"}
  <1>1. /\ w \notin queued /\ w \notin refused /\ w \notin named /\ applied[w] = 0
        /\ stage[w] \in {"new", "enqueue", "lost"}
    BY DEF IInv, TypeOK, UnknownBeforeKept, Past
  <1> QED  BY <1>1 DEF Fate

LEMMA StepTurns ==
  ASSUME IInv, IInv', NEW w \in Writes, Moves(w), Tells(w)
  PROVE  Turns(w)
  <1>1. CASE Past(w)
    <2>1. Past(w)'
      BY <1>1, SettledStays
    <2>2. /\ applied[w] > 0 => Fate(w) = "counted"
          /\ applied[w] = 0 /\ w \in named => Fate(w) = "refused"
          /\ applied[w] = 0 /\ w \notin named /\ w \in queued => Fate(w) = "kept"
          /\ applied[w] = 0 /\ w \notin named /\ w \notin queued =>
               Fate(w) = IF AboutToName(w) THEN "dropped" ELSE "unheard"
          /\ applied[w] \in Nat
      BY <1>1, PastFate
    <2>3. /\ applied'[w] > 0 => Fate(w)' = "counted"
          /\ applied'[w] = 0 /\ w \in named' => Fate(w)' = "refused"
          /\ applied'[w] = 0 /\ w \notin named' /\ w \in queued' => Fate(w)' = "kept"
          /\ applied'[w] = 0 /\ w \notin named' /\ w \notin queued' =>
               Fate(w)' = IF AboutToName(w)' THEN "dropped" ELSE "unheard"
          /\ applied'[w] \in Nat
      <3>1. applied'[w] \in Nat /\ (applied'[w] = 0 /\ w \notin refused' => w \in queued')
        BY <2>1 DEF IInv, TypeOK, KeptUntilSettled
      <3> QED  BY <3>1 DEF Fate
    <2> QED  BY <2>2, <2>3 DEF Turns, Moves, Tells
  <1>2. CASE ~Past(w)
    <2>1. /\ stage[w] = "new" => Fate(w) = "new"
          /\ stage[w] = "enqueue" => Fate(w) = "made"
          /\ stage[w] = "lost" => Fate(w) = "lost"
          /\ stage[w] \in {"new", "enqueue", "lost"}
      BY <1>2, EarlyFate
    <2>2. w \notin refused' /\ w \notin named' /\ applied'[w] = 0
      BY <1>2 DEF Moves
    <2>3. CASE Past(w)'
      <3>1. w \in queued' /\ stage[w] = "enqueue"
        BY <1>2, <2>1, <2>3 DEF Moves, Past
      <3>2. Fate(w)' = "kept"
        BY <2>2, <3>1 DEF Fate
      <3> QED  BY <2>1, <3>1, <3>2 DEF Turns
    <2>4. CASE ~Past(w)'
      <3>1. w \notin queued' /\ stage'[w] \in {"new", "enqueue", "lost"}
        BY <2>4 DEF IInv, TypeOK, UnknownBeforeKept, Past
      <3>2. Fate(w)' = CASE stage'[w] = "new"     -> "new"
                         [] stage'[w] = "enqueue" -> "made"
                         [] stage'[w] = "lost"    -> "lost"
                         [] OTHER                 -> "vanished"
        BY <2>2, <3>1 DEF Fate
      <3>3. Fate(w)' = IF stage'[w] = "new" THEN "new"
                       ELSE IF stage'[w] = "enqueue" THEN "made" ELSE "lost"
        BY <3>1, <3>2
      <3> QED  BY <2>1, <3>3 DEF Turns, Moves
    <2> QED  BY <2>3, <2>4
  <1> QED  BY <1>1, <1>2

(* Where nothing is done to a write, its fate stays.                       *)
LEMMA StillFate ==
  ASSUME NEW w \in Writes, Still(w)
  PROVE  Fate(w)' = Fate(w)
  BY DEF Still, Quiet, Fate

(* A leg that is left loses what the queue has not got yet, and says no    *)
(* more of what it has dropped.                                            *)
LEMMA LeaveFates ==
  ASSUME IInv, IInv', NEW f \in Flushes, Leaves(f), NEW w \in Writes
  PROVE  \/ Fate(w)' = Fate(w)
         \/ Fate(w) = "made" /\ Fate(w)' = "lost"
         \/ Fate(w) = "dropped" /\ Fate(w)' = "unheard"
  <1> USE DEF server, book, view, runs, flush, news
  <1>1. UNCHANGED <<applied, queued, refused, named>> /\ Mount(f)
    BY DEF Leaves, LeaveAndReturn, Reload, Mount
  <1>2. ~AboutToName(w)'
    <2>1. CASE LeaveAndReturn(f)
      <3>1. ASSUME NEW a \in Callers, call[a].state = "refusedDropped"  PROVE a \in orphans'
        <4>1. call[a] # NoCall
          BY <3>1, CallTypes
        <4>2. Running(a)
          <5>1. CASE a \in Flushes
            BY <4>1, <5>1 DEF IInv, CallsHaveAWrite, Running, Idle
          <5>2. CASE a \notin Flushes
            BY <4>1, <5>2 DEF IInv, CallsHaveAWrite, Running, Callers
          <5> QED  BY <5>1, <5>2
        <4> QED  BY <2>1, <4>2 DEF LeaveAndReturn
      <3>2. call' = call
        BY <2>1 DEF LeaveAndReturn
      <3> QED  BY <3>1, <3>2 DEF AboutToName
    <2>2. CASE Reload(f)
      BY <2>2, CallTypes DEF Reload, AboutToName
    <2> QED  BY <2>1, <2>2 DEF Leaves
  <1>3. CASE Past(w)
    <2>1. /\ applied[w] > 0 => Fate(w) = "counted"
          /\ applied[w] = 0 /\ w \in named => Fate(w) = "refused"
          /\ applied[w] = 0 /\ w \notin named /\ w \in queued => Fate(w) = "kept"
          /\ applied[w] = 0 /\ w \notin named /\ w \notin queued =>
               /\ w \in refused
               /\ Fate(w) = IF AboutToName(w) THEN "dropped" ELSE "unheard"
          /\ applied[w] \in Nat
      BY <1>3, PastFate
    <2>2. /\ applied[w] > 0 => Fate(w)' = "counted"
          /\ applied[w] = 0 /\ w \in named => Fate(w)' = "refused"
          /\ applied[w] = 0 /\ w \notin named /\ w \in queued => Fate(w)' = "kept"
          /\ applied[w] = 0 /\ w \notin named /\ w \notin queued => Fate(w)' = "unheard"
      BY <1>1, <1>2, <2>1 DEF Fate
    <2> QED  BY <2>1, <2>2
  <1>4. CASE ~Past(w)
    <2>1. /\ stage[w] = "new" => Fate(w) = "new"
          /\ stage[w] = "enqueue" => Fate(w) = "made"
          /\ stage[w] = "lost" => Fate(w) = "lost"
          /\ stage[w] \in {"new", "enqueue", "lost"}
      BY <1>4, EarlyFate
    <2>2. /\ stage'[w] = stage[w] \/ (stage[w] = "enqueue" /\ stage'[w] = "lost")
      BY <2>1 DEF Leaves, LeaveAndReturn, Reload, IInv, TypeOK
    <2>3. ~Past(w)'
      BY <2>1, <2>2 DEF Past
    <2>4. /\ w \notin queued' /\ w \notin refused' /\ w \notin named' /\ applied'[w] = 0
      BY <2>3 DEF IInv, UnknownBeforeKept
    <2>5. Fate(w)' = CASE stage'[w] = "new"     -> "new"
                       [] stage'[w] = "enqueue" -> "made"
                       [] stage'[w] = "lost"    -> "lost"
                       [] OTHER                 -> "vanished"
      BY <2>4 DEF Fate
    <2>6. Fate(w)' = IF stage'[w] = "new" THEN "new"
                     ELSE IF stage'[w] = "enqueue" THEN "made" ELSE "lost"
      BY <2>1, <2>2, <2>5
    <2> QED  BY <2>1, <2>2, <2>6
  <1> QED  BY <1>3, <1>4

LEMMA AstrayTypedNext == IInv' => Astray' \subseteq Writes
  <1>1. IInv => (Astray \subseteq Writes)
    BY AstrayTyped
  <1>2. IInv' => (Astray \subseteq Writes)'
    BY <1>1, PTL
  <1> QED  BY <1>2

(* The state of the promise.                                               *)
AllFates == [w \in Writes |-> Fate(w)]

LEMMA PromiseStep ==
  ASSUME IInv, IInv', Next
  PROVE  Promise!Next \/ UNCHANGED <<AllFates, Astray>>
  <1> DEFINE now == [w \in Writes |-> Fate(w)']
  <1>1. AllFates' = now
    BY DEF AllFates
  <1>2. ASSUME NEW f \in Flushes, Leaves(f)  PROVE Promise!Next
    <2> DEFINE gone == {w \in Writes : Fate(w)' # Fate(w)}
    <2>1. \A w \in gone : \/ Fate(w) = "made" /\ Fate(w)' = "lost"
                          \/ Fate(w) = "dropped" /\ Fate(w)' = "unheard"
      BY <1>2, LeaveFates
    <2>2. gone \in SUBSET {w \in Writes : AllFates[w] \in {"made", "dropped"}}
      BY <2>1 DEF AllFates
    <2>3. now = [w \in Writes |->
                   IF w \notin gone THEN AllFates[w]
                   ELSE IF AllFates[w] = "made" THEN "lost" ELSE "unheard"]
      BY <2>1 DEF AllFates
    <2> HIDE DEF gone
    <2>4. Astray' \subseteq Writes
      BY AstrayTypedNext
    <2>5. Promise!GoAway
      BY <1>1, <2>2, <2>3, <2>4 DEF Promise!GoAway, AllFates, Astray
    <2> QED  BY <2>5 DEF Promise!Next
  <1>3. ASSUME NEW u, NoContext(u) \/ \E b : Footprint(b, u)
        PROVE  Promise!Next
    <2>1. Astray' \subseteq Astray
      BY <1>3, AstrayShrinks
    <2>2. \A w \in Writes : Tells(w) /\ (w # u => Fate(w)' = Fate(w))
      BY <1>3, StepTells, StillFate
    <2>3. CASE u \notin Writes \/ Fate(u)' = Fate(u)
      <3>1. AllFates' = AllFates
        BY <2>2, <2>3 DEF AllFates
      <3>2. Promise!Settle
        BY <2>1, <3>1 DEF Promise!Settle, AllFates, Astray
      <3> QED  BY <3>2 DEF Promise!Next
    <2>4. CASE u \in Writes /\ Fate(u)' # Fate(u)
      <3> DEFINE to == Fate(u)'
      <3>1. now = [AllFates EXCEPT ![u] = to]
        BY <2>2, <2>4 DEF AllFates
      <3>2. AllFates[u] = Fate(u) /\ Turns(u)
        BY <2>2, <2>4, StepMoves, StepTurns DEF AllFates
      <3> HIDE DEF to
      <3>3. AllFates' = [AllFates EXCEPT ![u] = to]
        BY <1>1, <3>1
      <3>4. \A from : Fate(u) \in from => Promise!Turn(u, from, to)
        BY <2>1, <3>2, <3>3 DEF Promise!Turn, AllFates, Astray
      <3>5. CASE Fate(u) = "new" /\ to = "made"
        BY <2>4, <3>4, <3>5 DEF Promise!Next, Promise!Make
      <3>6. CASE Fate(u) \in {"made", "dropped", "unheard"} /\ to = "kept"
        BY <2>4, <3>4, <3>6 DEF Promise!Next, Promise!Keep
      <3>7. CASE Fate(u) = "made" /\ to = "lost"
        BY <2>4, <3>4, <3>7 DEF Promise!Next, Promise!Reject
      <3>8. CASE Fate(u) \in {"kept", "unheard"} /\ to = "dropped"
        BY <2>4, <3>4, <3>8 DEF Promise!Next, Promise!Drop
      <3>9. CASE Fate(u) \in {"kept", "dropped"} /\ to = "refused"
        BY <2>4, <3>4, <3>9 DEF Promise!Next, Promise!Name
      <3>10. CASE Fate(u) = "kept" /\ to = "unheard" /\ u \in Astray
        BY <2>4, <3>4, <3>10 DEF Promise!Next, Promise!Unheard, Astray
      <3>11. CASE Fate(u) \in {"kept", "dropped", "unheard", "refused"} /\ to = "counted"
        BY <2>4, <3>4, <3>11 DEF Promise!Next, Promise!Count
      <3> QED  BY <2>4, <3>2, <3>5, <3>6, <3>7, <3>8, <3>9, <3>10, <3>11 DEF Turns, to
    <2> QED  BY <2>3, <2>4
  <1> QED  BY <1>2, <1>3, OneContext

(* Every entry that reached the queue is kept, counted or refused, and a   *)
(* refusal goes unsaid only when the leg that dropped the write was left   *)
(* or closed: whatever calls are dropped, legs left, tabs closed, writes   *)
(* refused, operations of the store rejected and flushes run over each     *)
(* other.                                                                  *)
THEOREM KeepsItsPromise == Spec => ImplementsWriteFate
  <1>1. Init => Promise!Init
    <2> SUFFICES ASSUME Init  PROVE Promise!Init
      OBVIOUS
    <2>1. \A w \in Writes : Fate(w) = "new"
      BY DEF Init, Fate
    <2>2. Astray = {}
      BY DEF Init, Astray
    <2> QED  BY <2>1, <2>2 DEF Promise!Init, Astray
  <1>2. IInv /\ IInv' /\ [Next]_vars
          => [Promise!Next]_<<AllFates, Astray>>
    <2>1. ASSUME UNCHANGED vars  PROVE UNCHANGED <<AllFates, Astray>>
      <3>1. \A w \in Writes : Still(w)
        BY <2>1 DEF vars, server, runs, flush, news, Still, Quiet, AboutToName, WriteOf
      <3>2. AllFates' = AllFates
        BY <3>1, StillFate DEF AllFates
      <3>3. Astray' = Astray
        BY <2>1 DEF vars, flush, Astray, InHand
      <3> QED  BY <3>2, <3>3
    <2> QED  BY <2>1, PromiseStep
  <1> QED  BY <1>1, <1>2, Invariance, PTL
           DEF Spec, ImplementsWriteFate, Promise!Spec, AllFates, Astray

=============================================================================
