------------------------- MODULE CountLedgerProofs -------------------------
(***************************************************************************)
(* Theorems about CountLedger for every set of counts, products,           *)
(* locations, writes and requests and every bound, by an inductive         *)
(* invariant: TypeOK, who holds the row locks (LockDiscipline), and what a *)
(* transaction has prepared but not committed (Prepared).  The second half *)
(* is what it gives a user of the system: closed counts stay as they are   *)
(* and their totals are right, lines change only while a count is being    *)
(* counted, snapshots and ledger rows are kept, an acknowledged write is   *)
(* in the ledger, the ledger of a line adds up to the line, and the        *)
(* handlers implement CountBook.                                           *)
(***************************************************************************)
EXTENDS CountLedger, Sums, SequenceTheorems, TLAPS

-----------------------------------------------------------------------------
(* Lemmas about payloads, rows and ledger entries.                         *)

(* A write's payload is an intent.                                         *)
LEMMA IntentTyped ==
  ASSUME TypeOK, NEW w \in Writes
  PROVE  intent[w] \in IntentType
  BY RowsAssumption DEF TypeOK

(* A first increment makes a row.                                          *)
LEMMA InsertTyped ==
  ASSUME NEW i \in IntentType, NEW p \in Prices
  PROVE  Inserted(i, p) \in RowType
  BY RowsAssumption DEF RowType, IntentType, Inserted

(* An increment keeps it one, and keeps its price snapshot.                *)
LEMMA IncrementTyped ==
  ASSUME NEW i \in IntentType, NEW row \in RowType
  PROVE  Incremented(row, i) \in RowType /\ Incremented(row, i).price = row.price
  <1>1. row.fills \o i.fills \in Seq(Fill)
    BY ConcatProperties DEF RowType, IntentType
  <1>2. row.cases + i.cases \in Nat /\ row.eaches + i.eaches \in Nat
    BY DEF RowType, IntentType
  <1> QED  BY <1>1, <1>2 DEF RowType, Incremented

(* So do both corrections.                                                 *)
LEMMA CorrectionTyped ==
  ASSUME NEW i \in IntentType, NEW row \in RowType
  PROVE  Corrected(row, i) \in RowType /\ Corrected(row, i).price = row.price
  BY DEF RowType, IntentType, Corrected

(* What the ledger keeps of a write has the type of a ledger row; a        *)
(* correction needs the row it corrects.                                   *)
LEMMA EntryTyped ==
  ASSUME NEW i \in IntentType, NEW row, i.op = "increment" \/ row \in RowType
  PROVE  EntryOf(row, i) \in EntryType
  <1>1. CASE i.op = "increment"
    BY <1>1 DEF IntentType, EntryType, EntryOf
  <1>2. CASE i.op = "set" /\ row \in RowType
    <2>1. i.cases - row.cases \in Int /\ i.eaches - row.eaches \in Int
      BY <1>2 DEF IntentType, RowType
    <2>2. <<>> \in Seq(Fill)
      OBVIOUS
    <2> QED  BY <1>2, <2>1, <2>2 DEF IntentType, EntryType, EntryOf
  <1>3. CASE i.op = "fills" /\ row \in RowType
    BY <1>3 DEF IntentType, EntryType, EntryOf
  <1> QED  BY <1>1, <1>2, <1>3 DEF IntentType

(* So does every write, on a line that exists if it is a correction.       *)
LEMMA NewRowTyped ==
  ASSUME NEW i \in IntentType, NEW row \in RowType \cup {NoLine}, NEW p \in Prices,
         i.op # "increment" => row # NoLine
  PROVE  /\ NewRow(row, i, p) \in RowType
         /\ row # NoLine => NewRow(row, i, p).price = row.price
  BY InsertTyped, IncrementTyped, CorrectionTyped DEF NewRow

-----------------------------------------------------------------------------
(* The inductive invariant.                                                *)
IInv == TypeOK /\ LockDiscipline /\ NoLostUpdate

(* What a transaction is about to commit is a row with the price snapshot  *)
(* of the row it replaces.                                                 *)
LEMMA TentativeTyped ==
  ASSUME IInv, NEW r \in Requests, pc[r] = "ledger"
  PROVE  /\ wid[r] \in Writes
         /\ intent[wid[r]] \in IntentType
         /\ LineOf(r) \in RowType \cup {NoLine}
         /\ Op(r) # "increment" => LineOf(r) \in RowType
         /\ tent[r] \in RowType
         /\ LineOf(r) # NoLine => tent[r].price = LineOf(r).price
  <1>1. wid[r] \in Writes
    BY DEF IInv, TypeOK
  <1>2. intent[wid[r]] \in IntentType
    BY <1>1, IntentTyped DEF IInv
  <1>3. LineOf(r) \in RowType \cup {NoLine}
    BY <1>2 DEF IInv, TypeOK, LineOf, CountOf, SlotOf, IntentType
  <1>4. Op(r) # "increment" => LineOf(r) # NoLine
    BY DEF IInv, NoLostUpdate
  <1>5. PICK p \in Prices : tent[r] = NewRow(LineOf(r), intent[wid[r]], p)
    BY DEF IInv, NoLostUpdate
  <1> QED  BY <1>1, <1>2, <1>3, <1>4, <1>5, NewRowTyped DEF Op

(* Type correctness is preserved.                                          *)
LEMMA TypeStep ==
  ASSUME IInv, [Next]_vars
  PROVE  TypeOK'
  <1> USE DEF IInv, Goto, Answer, Release, rows, places, txns, handler, client, bounds
  <1>1. ASSUME NEW r \in Requests, NEW w \in Writes, Send(r, w)  PROVE TypeOK'
    BY <1>1 DEF TypeOK, Send
  <1>2. ASSUME NEW w \in Writes, LoseReply(w)  PROVE TypeOK'
    BY <1>2, ConstantsAssumption DEF TypeOK, LoseReply
  <1>3. ASSUME NEW r \in Requests, Reply(r)  PROVE TypeOK'
    <2>1. result[r] \in {"ok", "refused"} /\ wid[r] \in Writes
      BY <1>3 DEF TypeOK, Reply
    <2>2. serving' \in [Writes -> Requests \cup {Nobody}]
      BY <1>3, <2>1 DEF TypeOK, Reply
    <2>3. outcome' \in [Writes -> {"unsent", "pending", "ok", "refused"}]
      BY <1>3, <2>1 DEF TypeOK, Reply
    <2>4. 1 \in 1..MaxTries
      BY ConstantsAssumption
    <2> QED  BY <1>3, <2>2, <2>3, <2>4 DEF TypeOK, Reply
  <1>4. ASSUME NEW r \in Requests,
               \/ PreCheckHit(r) \/ PreCheckMiss(r) \/ Discover(r)
               \/ AssertCountWritable(r) \/ RefuseUnwritable(r) \/ SnapshotConflict(r)
               \/ RefuseRetiredLocation(r) \/ FindReplayedLine(r)
        PROVE  TypeOK'
    <2>1. CASE PreCheckHit(r) \/ PreCheckMiss(r) \/ Discover(r)
      BY SMTT(30), <2>1 DEF TypeOK, PreCheckHit, PreCheckMiss, TxStart, Discover
    <2>2. CASE AssertCountWritable(r)
      <3>1. CountOf(r) \in Counts
        BY <2>2, IntentTyped DEF TypeOK, AssertCountWritable, CountOf, IntentType
      <3> QED  BY <2>2, <3>1 DEF TypeOK, AssertCountWritable
    <2>3. CASE RefuseUnwritable(r) \/ SnapshotConflict(r)
      BY ZenonT(30), <2>3 DEF TypeOK, RefuseUnwritable, SnapshotConflict
    <2>4. CASE RefuseRetiredLocation(r)
      BY <2>4 DEF TypeOK, RefuseRetiredLocation
    <2>5. CASE FindReplayedLine(r)
      BY <2>5 DEF TypeOK, FindReplayedLine
    <2> QED  BY <1>4, <2>1, <2>2, <2>3, <2>4, <2>5
  <1>5. ASSUME NEW r \in Requests, Upsert(r)  PROVE TypeOK'
    <2>1. wid[r] \in Writes /\ intent[wid[r]] \in IntentType
      BY <1>5, IntentTyped DEF TypeOK, Upsert
    <2>2. LineOf(r) \in RowType \cup {NoLine} /\ (Op(r) # "increment" => LineOf(r) # NoLine)
      BY SMTT(30), <1>5, <2>1 DEF TypeOK, Upsert, LineOf, CountOf, SlotOf, IntentType, NoLostUpdate
    <2>3. price[Product(SlotOf(r))] \in Prices
      BY <2>1 DEF TypeOK, SlotOf, Product, IntentType, Slots
    <2>4. NewRow(LineOf(r), intent[wid[r]], price[Product(SlotOf(r))]) \in RowType
      BY <2>1, <2>2, <2>3, NewRowTyped DEF Op
    <2> QED  BY <1>5, <2>4 DEF TypeOK, Upsert
  <1>6. ASSUME NEW r \in Requests, CommitWrite(r) \/ DbErrorAfterCommit(r)  PROVE TypeOK'
    <2>1. Commit(r) /\ pc[r] = "ledger"
      BY <1>6 DEF CommitWrite, DbErrorAfterCommit, Commit
    <2>2. tent[r] \in RowType /\ wid[r] \in Writes
      BY <2>1, TentativeTyped
    <2>3. CountOf(r) \in Counts /\ SlotOf(r) \in Slots
      BY <2>1, TentativeTyped DEF CountOf, SlotOf, IntentType
    <2>4. EntryOf(LineOf(r), intent[wid[r]]) \in EntryType
      BY <2>1, TentativeTyped, EntryTyped DEF Op
    <2>5. line' \in [Counts -> [Slots -> RowType \cup {NoLine}]]
      <3>1. line \in [Counts -> [Slots -> RowType \cup {NoLine}]]
        BY DEF TypeOK
      <3>2. line' = [line EXCEPT ![CountOf(r)] = [@ EXCEPT ![SlotOf(r)] = tent[r]]]
        BY <2>1 DEF Commit
      <3> QED  BY <2>2, <2>3, <3>1, <3>2
    <2>6. ledger' \in [Writes -> EntryType \cup {NoEntry}]
      BY <2>1, <2>2, <2>4 DEF TypeOK, Commit
    <2>7. stale' \subseteq Requests
      BY <2>1 DEF TypeOK, Commit, Viewers
    <2>8. /\ status' = status /\ total' = total /\ closing' = closing /\ active' = active
          /\ retiring' = retiring /\ price' = price /\ wid' = wid /\ tries' = tries
          /\ intent' = intent /\ serving' = serving /\ outcome' = outcome
      BY <2>1 DEF Commit
    <2>9. tent' \in [Requests -> RowType \cup {NoLine}]
      BY <2>1 DEF TypeOK, Commit
    <2>10. locked' \in [Counts -> Requests \cup {Nobody, Supervisor}]
      BY <2>1 DEF TypeOK, Commit
    <2>11. /\ \/ pc' = [pc EXCEPT ![r] = "promote"] /\ result' = result
              \/ /\ pc' = [pc EXCEPT ![r] = "reply"]
                 /\ \E a \in {"ok", "refused"} : result' = [result EXCEPT ![r] = a]
           /\ faults' = faults
           /\ dbErrors' = dbErrors \/ (dbErrors < MaxDbErrors /\ dbErrors' = dbErrors + 1)
      BY <1>6 DEF TypeOK, CommitWrite, DbErrorAfterCommit
    <2>12. dbErrors' \in 0..MaxDbErrors
      BY <2>11, ConstantsAssumption DEF TypeOK
    <2>13. /\ pc' \in [Requests -> {"idle", "precheck", "discover", "lock", "upsert",
                                   "ledger", "replay", "promote", "reply"}]
           /\ result' \in [Requests -> {"none", "ok", "refused"}]
      BY <2>11 DEF TypeOK
    <2>14. \A q \in Requests : /\ pc'[q] # "idle" => wid'[q] \in Writes
                               /\ pc'[q] = "reply" => result'[q] # "none"
      BY <2>2, <2>8, <2>11 DEF TypeOK
    <2>15. /\ status \in [Counts -> Status] /\ total = [c \in Counts |-> total[c]]
           /\ closing = [c \in Counts |-> closing[c]] /\ active \in [Locations -> BOOLEAN]
           /\ retiring \subseteq Locations /\ price \in [Products -> Prices]
           /\ wid \in [Requests -> Writes \cup {Nobody}] /\ tries \in [Requests -> 1..MaxTries]
           /\ intent \in [Writes -> Intents] /\ serving \in [Writes -> Requests \cup {Nobody}]
           /\ outcome \in [Writes -> {"unsent", "pending", "ok", "refused"}]
           /\ faults \in 0..MaxFaults
      BY DEF TypeOK
    <2> HIDE DEF IInv
    <2> QED
      BY <2>5, <2>6, <2>7, <2>8, <2>9, <2>10, <2>11, <2>12, <2>13, <2>14, <2>15 DEF TypeOK
  <1>7. ASSUME NEW r \in Requests, DuplicateKey(r)  PROVE TypeOK'
    BY <1>7 DEF TypeOK, DuplicateKey
  <1>8. ASSUME NEW r \in Requests, Promote(r) \/ PromoteTimeout(r)  PROVE TypeOK'
    <2>1. CASE Promote(r)
      <3>1. status' \in [Counts -> Status] /\ stale' \subseteq Requests
        BY <2>1 DEF TypeOK, Promote, Viewers, Status
      <3> QED  BY <2>1, <3>1 DEF TypeOK, Promote
    <2>2. CASE PromoteTimeout(r)
      BY <2>2, ConstantsAssumption DEF TypeOK, PromoteTimeout
    <2> QED  BY <1>8, <2>1, <2>2
  <1>9. ASSUME NEW r \in Requests, LockRetry(r) \/ LockGiveUp(r)  PROVE TypeOK'
    <2>1. wid[r] \in Writes
      BY <1>9 DEF TypeOK, LockRetry, LockGiveUp, LockFailed
    <2>2. CASE LockRetry(r)
      <3>1. tries' \in [Requests -> 1..MaxTries]
        BY <2>2, ConstantsAssumption DEF TypeOK, LockRetry
      <3> QED  BY <2>1, <2>2, <3>1 DEF TypeOK, LockRetry, TxStart
    <2>3. CASE LockGiveUp(r)
      BY <2>1, <2>3 DEF TypeOK, LockGiveUp
    <2> QED  BY <1>9, <2>2, <2>3
  <1>10. ASSUME NEW r \in Requests, DbError(r)  PROVE TypeOK'
    BY <1>10, ConstantsAssumption DEF TypeOK, DbError
  <1>11. ASSUME Crash  PROVE TypeOK'
    BY <1>11, ConstantsAssumption DEF TypeOK, Crash
  <1>12. ASSUME NEW c \in Counts, CountStep(c)  PROVE TypeOK'
    <2>1. ASSUME NEW from, NEW to \in Status, TransitionCount(c, from, to)  PROVE TypeOK'
      BY <2>1 DEF TypeOK, TransitionCount, Viewers
    <2>2. CASE OpenCount(c)
      BY <2>2 DEF TypeOK, OpenCount, Status
    <2>3. CASE CloseTotals(c)
      BY <2>3 DEF TypeOK, CloseTotals
    <2>4. CASE CloseCommit(c)
      BY <2>4 DEF TypeOK, CloseCommit, Viewers, Status
    <2> QED
      BY <1>12, <2>1, <2>2, <2>3, <2>4
      DEF CountStep, SubmitCount, ReviewCount, ReopenCount, Status
  <1>13. ASSUME NEW p \in Products, NEW new \in Prices, ChangePrice(p, new)  PROVE TypeOK'
    BY <1>13 DEF TypeOK, ChangePrice
  <1>14. ASSUME NEW l \in Locations, RetireCheck(l) \/ RetireCommit(l)  PROVE TypeOK'
    BY <1>14 DEF TypeOK, RetireCheck, RetireCommit
  <1>15. CASE UNCHANGED vars
    BY <1>15 DEF TypeOK, vars
  <1> QED
    BY <1>1, <1>2, <1>3, <1>4, <1>5, <1>6, <1>7, <1>8, <1>9, <1>10, <1>11, <1>12, <1>13,
       <1>14, <1>15
    DEF Next, RequestStep, RequestFault, Terminating

(* A payload is bound to its write for ever.                               *)
LEMMA IntentKept ==
  ASSUME [Next]_vars
  PROVE  intent' = intent
  BY ZenonT(30) DEF Next, vars, rows, places, txns, handler, client, bounds, RequestStep, RequestFault,
         CountStep, Send, LoseReply, Reply, PreCheckHit, PreCheckMiss, Discover,
         AssertCountWritable, RefuseUnwritable, SnapshotConflict, RefuseRetiredLocation,
         Upsert, CommitWrite, Commit, DuplicateKey, FindReplayedLine, Promote,
         PromoteTimeout, LockRetry, LockGiveUp, DbError, DbErrorAfterCommit, Crash,
         OpenCount, SubmitCount, ReviewCount, ReopenCount, TransitionCount, CloseTotals,
         CloseCommit, ChangePrice, RetireCheck, RetireCommit, Terminating

(* A request that gives up its lock, or never had one, and is then outside *)
(* its transaction leaves the discipline as it was.                        *)
LEMMA ReleaseStep ==
  ASSUME IInv, intent' = intent, NEW r \in Requests, NEW step,
         step \notin {"upsert", "ledger"},
         pc' = [pc EXCEPT ![r] = step],
         wid' = wid, status' = status, closing' = closing,
         locked' = [c \in Counts |-> IF locked[c] = r THEN Nobody ELSE locked[c]],
         \A c \in Counts : locked[c] = Supervisor => line'[c] = line[c]
  PROVE  LockDiscipline'
  <1>1. /\ Nobody \notin Requests /\ Supervisor \notin Requests /\ Supervisor # Nobody
        /\ pc \in [Requests -> {"idle", "precheck", "discover", "lock", "upsert",
                                "ledger", "replay", "promote", "reply"}]
        /\ locked \in [Counts -> Requests \cup {Nobody, Supervisor}]
    BY ConstantsAssumption DEF TypeOK, IInv
  <1>2. \A q \in Requests : CountOf(q)' = CountOf(q)
    BY DEF CountOf
  <1>3. ASSUME NEW q \in Requests, pc'[q] \in {"upsert", "ledger"}
        PROVE  locked'[CountOf(q)] = q /\ IsCountWritable(status'[CountOf(q)])
    <2>1. q # r /\ pc[q] \in {"upsert", "ledger"}
      BY <1>1, <1>3
    <2>2. locked[CountOf(q)] = q /\ IsCountWritable(status[CountOf(q)])
      BY <2>1 DEF IInv, LockDiscipline
    <2>3. CountOf(q) \in Counts
      BY <2>1, IntentTyped DEF IInv, TypeOK, CountOf, IntentType
    <2> QED  BY <2>1, <2>2, <2>3
  <1>4. ASSUME NEW c \in Counts, locked'[c] \in Requests
        PROVE  pc'[locked'[c]] \in {"upsert", "ledger"} /\ CountOf(locked'[c]) = c
    <2>1. locked'[c] = locked[c] /\ locked[c] # r
      BY <1>1, <1>4
    <2> QED  BY <1>1, <1>4, <2>1 DEF IInv, LockDiscipline
  <1>5. ASSUME NEW c \in Counts, locked'[c] = Supervisor
        PROVE  status'[c] = "reviewed" /\ closing'[c] = SummarizeValuation(line'[c]).totalValue
    <2>1. locked[c] = Supervisor
      BY <1>1, <1>5
    <2> QED  BY <2>1 DEF IInv, LockDiscipline
  <1>6. ASSUME NEW c \in Counts, closing'[c] # NULL
        PROVE  locked'[c] = Supervisor
    BY <1>1, <1>6 DEF IInv, LockDiscipline
  <1> QED  BY <1>2, <1>3, <1>4, <1>5, <1>6 DEF LockDiscipline

(* The lock discipline is preserved.                                       *)
LEMMA LockStep ==
  ASSUME IInv, [Next]_vars
  PROVE  LockDiscipline'
  <1> USE IntentKept DEF IInv, Goto, Answer, Release, rows, places, txns, handler, client,
                         bounds, LockDiscipline, CountOf
  <1>0. /\ Nobody \notin Requests /\ Supervisor \notin Requests /\ Supervisor # Nobody
        /\ pc \in [Requests -> {"idle", "precheck", "discover", "lock", "upsert",
                                "ledger", "replay", "promote", "reply"}]
        /\ wid \in [Requests -> Writes \cup {Nobody}]
        /\ locked \in [Counts -> Requests \cup {Nobody, Supervisor}]
        /\ closing = [c \in Counts |-> closing[c]]
        /\ status \in [Counts -> Status]
    BY ConstantsAssumption DEF TypeOK
  <1>1. ASSUME NEW r \in Requests, NEW w \in Writes, Send(r, w)  PROVE LockDiscipline'
    BY <1>0, <1>1 DEF Send
  <1>2. ASSUME NEW w \in Writes, LoseReply(w)  PROVE LockDiscipline'
    BY <1>0, <1>2 DEF LoseReply
  <1>3. ASSUME NEW r \in Requests, Reply(r)  PROVE LockDiscipline'
    BY <1>0, <1>3 DEF Reply
  <1>4. ASSUME NEW r \in Requests,
               PreCheckHit(r) \/ PreCheckMiss(r) \/ Discover(r) \/ FindReplayedLine(r)
        PROVE  LockDiscipline'
    BY <1>0, <1>4 DEF PreCheckHit, PreCheckMiss, TxStart, Discover, FindReplayedLine
  <1>5. ASSUME NEW r \in Requests, AssertCountWritable(r)  PROVE LockDiscipline'
    <2>1. CountOf(r) \in Counts
      BY <1>5, IntentTyped DEF TypeOK, AssertCountWritable, IntentType
    <2> QED  BY <1>0, <1>5, <2>1 DEF AssertCountWritable
  <1>6. ASSUME NEW r \in Requests, RefuseUnwritable(r) \/ SnapshotConflict(r)
        PROVE  LockDiscipline'
    BY <1>0, <1>6 DEF RefuseUnwritable, SnapshotConflict
  <1>7. ASSUME NEW r \in Requests, RefuseRetiredLocation(r) \/ DuplicateKey(r)
        PROVE  LockDiscipline'
    <2>1. pc' = [pc EXCEPT ![r] = "reply"] \/ pc' = [pc EXCEPT ![r] = "replay"]
      BY <1>7 DEF RefuseRetiredLocation, DuplicateKey
    <2>2. /\ wid' = wid /\ status' = status /\ closing' = closing /\ line' = line
          /\ locked' = [c \in Counts |-> IF locked[c] = r THEN Nobody ELSE locked[c]]
      BY <1>7 DEF RefuseRetiredLocation, DuplicateKey
    <2> HIDE DEF IInv, LockDiscipline
    <2> QED  BY <2>1, <2>2, ReleaseStep
  <1>8. ASSUME NEW r \in Requests, Upsert(r)  PROVE LockDiscipline'
    BY <1>0, <1>8 DEF Upsert
  <1>9. ASSUME NEW r \in Requests, CommitWrite(r) \/ DbErrorAfterCommit(r)
        PROVE  LockDiscipline'
    <2>1. Commit(r) /\ pc[r] = "ledger"
      BY <1>9 DEF CommitWrite, DbErrorAfterCommit, Commit
    <2>2. pc' = [pc EXCEPT ![r] = "promote"] \/ pc' = [pc EXCEPT ![r] = "reply"]
      BY <1>9 DEF CommitWrite, DbErrorAfterCommit
    <2>3. /\ wid' = wid /\ status' = status /\ closing' = closing
          /\ locked' = [c \in Counts |-> IF locked[c] = r THEN Nobody ELSE locked[c]]
      BY <2>1 DEF Commit
    <2>4. ASSUME NEW c \in Counts, locked'[c] = Supervisor  PROVE line'[c] = line[c]
      <3>1. locked[c] = Supervisor /\ locked[CountOf(r)] = r
        BY <1>0, <2>1, <2>3, <2>4
      <3>2. c # CountOf(r)
        BY <1>0, <3>1
      <3> QED  BY <2>1, <3>2 DEF Commit, TypeOK
    <2>5. \A c \in Counts : locked[c] = Supervisor => line'[c] = line[c]
      BY <1>0, <2>3, <2>4
    <2> HIDE DEF IInv, LockDiscipline
    <2> QED  BY <2>2, <2>3, <2>5, ReleaseStep
  <1>10. ASSUME NEW r \in Requests, Promote(r) \/ PromoteTimeout(r)  PROVE LockDiscipline'
    <2>1. pc' = [pc EXCEPT ![r] = "reply"] /\ pc[r] = "promote"
      BY <1>10 DEF Promote, PromoteTimeout
    <2>2. locked' = locked /\ wid' = wid /\ closing' = closing /\ line' = line
      BY <1>10 DEF Promote, PromoteTimeout
    <2>3. ASSUME NEW c \in Counts, locked[c] # Nobody  PROVE status'[c] = status[c]
      BY <1>0, <1>10, <2>3 DEF Promote, PromoteTimeout
    <2>4. \A q \in Requests : pc[q] \in {"upsert", "ledger"} => CountOf(q) \in Counts
      BY IntentTyped DEF TypeOK, IntentType
    <2> QED  BY <1>0, <2>1, <2>2, <2>3, <2>4
  <1>11. ASSUME NEW r \in Requests, LockRetry(r) \/ LockGiveUp(r) \/ DbError(r)
         PROVE  LockDiscipline'
    <2>1. \/ pc' = [pc EXCEPT ![r] = "reply"]
          \/ pc' = [pc EXCEPT ![r] = "lock"]
          \/ pc' = [pc EXCEPT ![r] = "discover"]
      BY <1>11 DEF LockRetry, LockGiveUp, TxStart, DbError
    <2>2. /\ wid' = wid /\ status' = status /\ closing' = closing /\ line' = line
          /\ locked' = [c \in Counts |-> IF locked[c] = r THEN Nobody ELSE locked[c]]
      BY <1>11 DEF LockRetry, LockGiveUp, DbError
    <2> HIDE DEF IInv, LockDiscipline
    <2> QED  BY <2>1, <2>2, ReleaseStep
  <1>12. ASSUME Crash  PROVE LockDiscipline'
    BY <1>0, <1>12 DEF Crash
  <1>13. ASSUME NEW c \in Counts, CountStep(c)  PROVE LockDiscipline'
    <2>1. ASSUME NEW from, NEW to, TransitionCount(c, from, to)  PROVE LockDiscipline'
      BY <1>0, <2>1 DEF TransitionCount
    <2>2. CASE OpenCount(c)
      BY <1>0, <2>2 DEF OpenCount, IsCountWritable
    <2>3. CASE CloseTotals(c)
      BY <1>0, <2>3 DEF CloseTotals
    <2>4. CASE CloseCommit(c)
      BY <1>0, <2>4 DEF CloseCommit
    <2> QED
      BY <1>13, <2>1, <2>2, <2>3, <2>4 DEF CountStep, SubmitCount, ReviewCount, ReopenCount
  <1>14. ASSUME NEW p \in Products, NEW new \in Prices, ChangePrice(p, new)
         PROVE  LockDiscipline'
    BY <1>0, <1>14 DEF ChangePrice
  <1>15. ASSUME NEW l \in Locations, RetireCheck(l) \/ RetireCommit(l)
         PROVE  LockDiscipline'
    BY <1>0, <1>15 DEF RetireCheck, RetireCommit
  <1>16. CASE UNCHANGED vars
    BY <1>16 DEF vars
  <1> QED
    BY <1>1, <1>2, <1>3, <1>4, <1>5, <1>6, <1>7, <1>8, <1>9, <1>10, <1>11, <1>12, <1>13,
       <1>14, <1>15, <1>16
    DEF Next, RequestStep, RequestFault, Terminating

(* NoLostUpdate, one request at a time.                                    *)
Prepared(q) ==
  /\ pc[q] \in {"lock", "upsert", "ledger"} /\ Op(q) # "increment" => LineOf(q) # NoLine
  /\ pc[q] = "ledger" =>
       \E p \in Prices : tent[q] = NewRow(LineOf(q), intent[wid[q]], p)

(* A request that does not move, on a line that does not change.           *)
LEMMA PreparedKept ==
  ASSUME NEW q \in Requests, Prepared(q), intent' = intent, line' = line,
         pc'[q] = pc[q], wid'[q] = wid[q], tent'[q] = tent[q]
  PROVE  Prepared(q)'
  BY DEF Prepared, Op, LineOf, CountOf, SlotOf

(* A commit replaces the line no other transaction has prepared, by a row. *)
LEMMA PreparedCommit ==
  ASSUME IInv, intent' = intent, NEW r \in Requests, Commit(r),
         NEW q \in Requests, q # r, pc'[q] = pc[q]
  PROVE  Prepared(q)'
  <1>1. Prepared(q)
    BY DEF IInv, NoLostUpdate, Prepared
  <1>2. /\ wid' = wid /\ tent'[q] = tent[q] /\ pc[r] = "ledger"
        /\ line' = [line EXCEPT ![CountOf(r)] = [@ EXCEPT ![SlotOf(r)] = tent[r]]]
    BY DEF Commit, IInv, TypeOK
  <1>3. /\ tent[r] # NoLine
        /\ CountOf(r) \in Counts /\ SlotOf(r) \in Slots
    BY <1>2, TentativeTyped, RowsAssumption DEF CountOf, SlotOf, IntentType
  <1>4. line \in [Counts -> [Slots -> RowType \cup {NoLine}]]
    BY DEF IInv, TypeOK
  <1>5. CountOf(q)' = CountOf(q) /\ SlotOf(q)' = SlotOf(q) /\ Op(q)' = Op(q)
    BY <1>2 DEF CountOf, SlotOf, Op
  <1>6. CASE pc[q] \notin {"lock", "upsert", "ledger"}
    BY <1>6 DEF Prepared
  <1>7. CASE pc[q] \in {"lock", "upsert", "ledger"}
    <2>1. CountOf(q) \in Counts /\ SlotOf(q) \in Slots
      BY <1>7, IntentTyped DEF IInv, TypeOK, CountOf, SlotOf, IntentType
    <2>2. ASSUME Op(q) # "increment"  PROVE LineOf(q)' # NoLine
      <3>1. line[CountOf(q)][SlotOf(q)] # NoLine
        BY <1>1, <1>7, <2>2 DEF Prepared, LineOf
      <3>2. line'[CountOf(q)][SlotOf(q)] # NoLine
        BY <1>2, <1>3, <1>4, <2>1, <3>1
      <3> QED  BY <1>5, <3>2 DEF LineOf
    <2>3. ASSUME pc[q] = "ledger"  PROVE LineOf(q)' = LineOf(q)
      <3>1. locked[CountOf(q)] = q /\ locked[CountOf(r)] = r
        BY <1>2, <2>3 DEF IInv, LockDiscipline
      <3>2. CountOf(q) # CountOf(r)
        BY <3>1
      <3>3. line'[CountOf(q)] = line[CountOf(q)]
        BY <1>2, <1>4, <2>1, <3>2
      <3> QED  BY <1>5, <3>3 DEF LineOf
    <2> QED  BY <1>1, <1>2, <1>5, <2>2, <2>3 DEF Prepared
  <1> QED  BY <1>6, <1>7

(* No update is lost by a step.                                            *)
LEMMA UpdateStep ==
  ASSUME IInv, [Next]_vars
  PROVE  NoLostUpdate'
  <1> SUFFICES ASSUME NEW q \in Requests  PROVE Prepared(q)'
    BY DEF NoLostUpdate, Prepared
  <1> USE DEF Goto, Answer, rows, places, txns, handler, client, bounds
  <1>0. /\ Prepared(q)
        /\ pc \in [Requests -> {"idle", "precheck", "discover", "lock", "upsert",
                                "ledger", "replay", "promote", "reply"}]
        /\ wid \in [Requests -> Writes \cup {Nobody}]
        /\ tent \in [Requests -> RowType \cup {NoLine}]
    BY DEF IInv, TypeOK, NoLostUpdate, Prepared
  <1>1. intent' = intent
    BY IntentKept
  <1>2. ASSUME line' = line, pc'[q] = pc[q], wid'[q] = wid[q], tent'[q] = tent[q]
        PROVE  Prepared(q)'
    BY <1>0, <1>1, <1>2, PreparedKept
  <1>3. ASSUME pc'[q] \notin {"lock", "upsert", "ledger"}
        PROVE  Prepared(q)'
    BY <1>3 DEF Prepared
  <1>4. ASSUME pc'[q] = "lock", line' = line, wid'[q] = wid[q],
               Op(q) # "increment" => LineOf(q) # NoLine
        PROVE  Prepared(q)'
    BY <1>1, <1>4 DEF Prepared, Op, LineOf, CountOf, SlotOf
  <1>5. ASSUME NEW r \in Requests, NEW w \in Writes, Send(r, w)  PROVE Prepared(q)'
    <2>1. CASE q = r
      BY <1>0, <1>3, <1>5, <2>1 DEF Send
    <2>2. CASE q # r
      BY <1>0, <1>2, <1>5, <2>2 DEF Send
    <2> QED  BY <2>1, <2>2
  <1>6. ASSUME NEW r \in Requests, Reply(r)  PROVE Prepared(q)'
    <2>1. CASE q = r
      BY <1>0, <1>3, <1>6, <2>1 DEF Reply
    <2>2. CASE q # r
      BY <1>0, <1>2, <1>6, <2>2 DEF Reply
    <2> QED  BY <2>1, <2>2
  <1>7. ASSUME NEW r \in Requests,
               \/ PreCheckHit(r) \/ RefuseUnwritable(r) \/ SnapshotConflict(r)
               \/ RefuseRetiredLocation(r) \/ DuplicateKey(r) \/ FindReplayedLine(r)
               \/ Promote(r) \/ PromoteTimeout(r) \/ LockGiveUp(r) \/ DbError(r)
        PROVE  Prepared(q)'
    <2>1. /\ pc' = [pc EXCEPT ![r] = "reply"] \/ pc' = [pc EXCEPT ![r] = "replay"]
          /\ line' = line /\ wid' = wid
          /\ tent' = tent \/ tent' = [tent EXCEPT ![r] = NoLine]
      BY <1>7 DEF PreCheckHit, RefuseUnwritable, SnapshotConflict, RefuseRetiredLocation,
                  DuplicateKey, FindReplayedLine, Promote, PromoteTimeout, LockGiveUp, DbError
    <2>2. CASE q = r
      BY <1>0, <1>3, <2>1, <2>2
    <2>3. CASE q # r
      BY <1>0, <1>2, <2>1, <2>3
    <2> QED  BY <2>2, <2>3
  <1>8. ASSUME NEW r \in Requests, PreCheckMiss(r) \/ Discover(r) \/ LockRetry(r)
        PROVE  Prepared(q)'
    <2>1. /\ \/ pc' = [pc EXCEPT ![r] = "reply"] \/ pc' = [pc EXCEPT ![r] = "discover"]
             \/ /\ pc' = [pc EXCEPT ![r] = "lock"]
                /\ Op(r) # "increment" => LineOf(r) # NoLine
          /\ line' = line /\ wid' = wid /\ tent' = tent
      BY <1>8 DEF PreCheckMiss, Discover, LockRetry, TxStart
    <2>2. CASE q = r
      BY <1>0, <1>3, <1>4, <2>1, <2>2
    <2>3. CASE q # r
      BY <1>0, <1>2, <2>1, <2>3
    <2> QED  BY <2>2, <2>3
  <1>9. ASSUME NEW r \in Requests, AssertCountWritable(r)  PROVE Prepared(q)'
    <2>1. /\ pc[r] = "lock" /\ pc' = [pc EXCEPT ![r] = "upsert"]
          /\ line' = line /\ wid' = wid /\ tent' = tent
      BY <1>9 DEF AssertCountWritable
    <2>2. CASE q = r
      BY <1>0, <1>1, <2>1, <2>2 DEF Prepared, Op, LineOf, CountOf, SlotOf
    <2>3. CASE q # r
      BY <1>0, <1>2, <2>1, <2>3
    <2> QED  BY <2>2, <2>3
  <1>10. ASSUME NEW r \in Requests, Upsert(r)  PROVE Prepared(q)'
    <2>1. /\ pc[r] = "upsert" /\ pc' = [pc EXCEPT ![r] = "ledger"]
          /\ line' = line /\ wid' = wid
          /\ tent' = [tent EXCEPT ![r] =
                        NewRow(LineOf(r), intent[wid[r]], price[Product(SlotOf(r))])]
      BY <1>10 DEF Upsert
    <2>2. CASE q = r
      <3>1. intent[wid[r]] \in IntentType
        BY <2>1, IntentTyped DEF IInv, TypeOK
      <3>2. price[Product(SlotOf(r))] \in Prices
        BY <3>1 DEF IInv, TypeOK, SlotOf, Product, IntentType, Slots
      <3>3. tent'[q] = NewRow(LineOf(q), intent[wid[q]], price[Product(SlotOf(r))])
        BY <1>0, <2>1, <2>2
      <3> QED
        BY <1>0, <1>1, <2>1, <2>2, <3>2, <3>3 DEF Prepared, Op, LineOf, CountOf, SlotOf
    <2>3. CASE q # r
      BY <1>0, <1>2, <2>1, <2>3
    <2> QED  BY <2>2, <2>3
  <1>11. ASSUME NEW r \in Requests, CommitWrite(r) \/ DbErrorAfterCommit(r)
         PROVE  Prepared(q)'
    <2>1. /\ Commit(r)
          /\ pc' = [pc EXCEPT ![r] = "promote"] \/ pc' = [pc EXCEPT ![r] = "reply"]
      BY <1>11 DEF CommitWrite, DbErrorAfterCommit
    <2>2. CASE q = r
      BY <1>0, <1>3, <2>1, <2>2
    <2>3. CASE q # r
      BY <1>0, <1>1, <2>1, <2>3, PreparedCommit
    <2> QED  BY <2>2, <2>3
  <1>12. ASSUME NEW w \in Writes, LoseReply(w)  PROVE Prepared(q)'
    BY <1>2, <1>12 DEF LoseReply
  <1>13. ASSUME Crash  PROVE Prepared(q)'
    BY <1>3, <1>13 DEF Crash
  <1>14. ASSUME NEW c \in Counts, CountStep(c)  PROVE Prepared(q)'
    BY <1>2, <1>14 DEF CountStep, OpenCount, SubmitCount, ReviewCount, ReopenCount,
                       TransitionCount, CloseTotals, CloseCommit
  <1>15. ASSUME NEW p \in Products, NEW new \in Prices, ChangePrice(p, new)
         PROVE  Prepared(q)'
    BY <1>2, <1>15 DEF ChangePrice
  <1>16. ASSUME NEW l \in Locations, RetireCheck(l) \/ RetireCommit(l)
         PROVE  Prepared(q)'
    BY <1>2, <1>16 DEF RetireCheck, RetireCommit
  <1>17. CASE UNCHANGED vars
    BY <1>2, <1>17 DEF vars
  <1> QED
    BY <1>5, <1>6, <1>7, <1>8, <1>9, <1>10, <1>11, <1>12, <1>13, <1>14, <1>15, <1>16, <1>17
    DEF Next, RequestStep, RequestFault, Terminating

-----------------------------------------------------------------------------
(* The inductive invariant holds initially ...                             *)
LEMMA InitIInv == Init => IInv
  <1> SUFFICES ASSUME Init  PROVE IInv
    OBVIOUS
  <1>1. 1 \in 1..MaxTries /\ 0 \in 0..MaxFaults /\ 0 \in 0..MaxDbErrors
    BY ConstantsAssumption
  <1>2. TypeOK
    BY <1>1 DEF Init, TypeOK, Status
  <1>3. LockDiscipline
    BY ConstantsAssumption DEF Init, LockDiscipline
  <1>4. NoLostUpdate
    BY DEF Init, NoLostUpdate
  <1> QED  BY <1>2, <1>3, <1>4 DEF IInv

(* ... and after every step, hence always.                                 *)
THEOREM Invariance == Spec => []IInv
  <1>1. IInv /\ [Next]_vars => IInv'
    BY TypeStep, LockStep, UpdateStep DEF IInv
  <1> QED  BY <1>1, InitIInv, PTL DEF Spec

(* Every variable keeps its type, over every interleaving of requests,     *)
(* failures and count transitions, on any number of them.                  *)
THEOREM TypeCorrect == Spec => []TypeOK
  <1>1. IInv => TypeOK
    BY DEF IInv
  <1> QED  BY <1>1, Invariance, PTL

(* The row lock on a count is held by exactly the request writing to it,   *)
(* on a writable count, or by the close that totals it: the promise of     *)
(* assertCountWritable's FOR UPDATE.                                       *)
THEOREM LockIsRespected == Spec => []LockDiscipline
  <1>1. IInv => LockDiscipline
    BY DEF IInv
  <1> QED  BY <1>1, Invariance, PTL

(* No transaction commits a line computed from a row that has changed      *)
(* since: upsertCountLineRow never overwrites a concurrent write.          *)
THEOREM NoUpdateIsLost == Spec => []NoLostUpdate
  <1>1. IInv => NoLostUpdate
    BY DEF IInv
  <1> QED  BY <1>1, Invariance, PTL

-----------------------------------------------------------------------------
(* Only commits touch lines and ledger.                                    *)
LEMMA RowsChangeByCommit ==
  ASSUME [Next]_vars
  PROVE  \/ line' = line /\ ledger' = ledger
         \/ \E r \in Requests : Commit(r)
  <1> USE DEF rows
  <1>1. ASSUME NEW r \in Requests, RequestStep(r), ~Commit(r)
        PROVE  line' = line /\ ledger' = ledger
    BY <1>1 DEF RequestStep, Reply, PreCheckHit, PreCheckMiss, Discover,
         AssertCountWritable, RefuseUnwritable, SnapshotConflict, RefuseRetiredLocation,
         Upsert, CommitWrite, DuplicateKey, FindReplayedLine, Promote
  <1>2. ASSUME NEW r \in Requests, RequestFault(r), ~Commit(r)
        PROVE  line' = line /\ ledger' = ledger
    BY <1>2 DEF RequestFault, PromoteTimeout, LockRetry, LockGiveUp, DbError,
         DbErrorAfterCommit
  <1>3. ASSUME NEW c \in Counts, CountStep(c)
        PROVE  line' = line /\ ledger' = ledger
    BY <1>3 DEF CountStep, OpenCount, SubmitCount, ReviewCount, ReopenCount,
         TransitionCount, CloseTotals, CloseCommit
  <1>4. ASSUME \/ \E r \in Requests, w \in Writes : Send(r, w)
               \/ \E w \in Writes : LoseReply(w)
               \/ Crash
               \/ \E p \in Products, new \in Prices : ChangePrice(p, new)
               \/ \E l \in Locations : RetireCheck(l) \/ RetireCommit(l)
               \/ Terminating
               \/ UNCHANGED vars
        PROVE  line' = line /\ ledger' = ledger
    BY <1>4 DEF Send, LoseReply, Crash, ChangePrice, RetireCheck, RetireCommit, Terminating, vars
  <1> QED  BY <1>1, <1>2, <1>3, <1>4 DEF Next

(* Only count transitions and the promotion of a draft touch the status    *)
(* and total of a count.                                                   *)
LEMMA StatusChanges ==
  ASSUME [Next]_vars
  PROVE  \/ status' = status /\ total' = total
         \/ \E c \in Counts : CountStep(c)
         \/ \E r \in Requests : Promote(r)
  <1> USE DEF rows
  <1>1. ASSUME NEW r \in Requests, RequestStep(r), ~Promote(r)
        PROVE  status' = status /\ total' = total
    BY <1>1 DEF RequestStep, Reply, PreCheckHit, PreCheckMiss, Discover,
         AssertCountWritable, RefuseUnwritable, SnapshotConflict, RefuseRetiredLocation,
         Upsert, CommitWrite, Commit, DuplicateKey, FindReplayedLine
  <1>2. ASSUME NEW r \in Requests, RequestFault(r)
        PROVE  status' = status /\ total' = total
    BY <1>2 DEF RequestFault, PromoteTimeout, LockRetry, LockGiveUp, DbError,
         DbErrorAfterCommit, Commit
  <1>3. ASSUME \/ \E r \in Requests, w \in Writes : Send(r, w)
               \/ \E w \in Writes : LoseReply(w)
               \/ Crash
               \/ \E p \in Products, new \in Prices : ChangePrice(p, new)
               \/ \E l \in Locations : RetireCheck(l) \/ RetireCommit(l)
               \/ Terminating
               \/ UNCHANGED vars
        PROVE  status' = status /\ total' = total
    BY <1>3 DEF Send, LoseReply, Crash, ChangePrice, RetireCheck, RetireCommit, Terminating, vars
  <1> QED  BY <1>1, <1>2, <1>3 DEF Next

(* A commit writes one line and at most one ledger row, of a count that is *)
(* writable.                                                               *)
LEMMA CommitWrites ==
  ASSUME IInv, NEW r \in Requests, Commit(r)
  PROVE  /\ wid[r] \in Writes /\ intent[wid[r]] \in IntentType
         /\ CountOf(r) \in Counts /\ SlotOf(r) \in Slots
         /\ IsCountWritable(status[CountOf(r)])
         /\ tent[r] \in RowType
         /\ LineOf(r) # NoLine => tent[r].price = LineOf(r).price
         /\ line' = [line EXCEPT ![CountOf(r)] = [@ EXCEPT ![SlotOf(r)] = tent[r]]]
         /\ Op(r) = "fills" => ledger' = ledger
         /\ Op(r) # "fills" =>
              /\ ledger[wid[r]] = NoEntry
              /\ ledger' = [ledger EXCEPT ![wid[r]] = EntryOf(LineOf(r), intent[wid[r]])]
  <1>1. pc[r] = "ledger"
    BY DEF Commit
  <1>2. IsCountWritable(status[CountOf(r)])
    BY <1>1 DEF IInv, LockDiscipline
  <1>3. CountOf(r) \in Counts /\ SlotOf(r) \in Slots
    BY <1>1, TentativeTyped DEF CountOf, SlotOf, IntentType
  <1>4. line' = [line EXCEPT ![CountOf(r)] = [@ EXCEPT ![SlotOf(r)] = tent[r]]]
    BY DEF Commit
  <1>5. /\ Op(r) = "fills" => ledger' = ledger
        /\ Op(r) # "fills" =>
             /\ ledger[wid[r]] = NoEntry
             /\ ledger' = [ledger EXCEPT ![wid[r]] = EntryOf(LineOf(r), intent[wid[r]])]
    BY DEF Commit, LedgerFree
  <1> QED  BY <1>1, <1>2, <1>3, <1>4, <1>5, TentativeTyped

-----------------------------------------------------------------------------
(* Lines and ledger rows of a count change only while it is writable.      *)
LEMMA FrozenStep ==
  ASSUME IInv, [Next]_vars, NEW c \in Counts,
         \/ line'[c] # line[c]
         \/ \E w \in Writes : intent[w].count = c /\ ledger'[w] # ledger[w]
  PROVE  IsCountWritable(status[c])
  <1>1. PICK r \in Requests : Commit(r)
    BY RowsChangeByCommit
  <1>2. /\ line \in [Counts -> [Slots -> RowType \cup {NoLine}]]
        /\ ledger \in [Writes -> EntryType \cup {NoEntry}]
    BY DEF IInv, TypeOK
  <1>3. c = CountOf(r)
    <2>1. CASE line'[c] # line[c]
      BY <1>1, <1>2, <2>1, CommitWrites
    <2>2. ASSUME NEW w \in Writes, intent[w].count = c, ledger'[w] # ledger[w]
          PROVE  c = CountOf(r)
      <3>1. w = wid[r]
        BY <1>1, <1>2, <2>2, CommitWrites
      <3> QED  BY <2>2, <3>1 DEF CountOf
    <2> QED  BY <2>1, <2>2
  <1> QED  BY <1>1, <1>3, CommitWrites

(* Closed counts are left alone.                                           *)
LEMMA ClosedStep ==
  ASSUME IInv, [Next]_vars, NEW c \in Counts, status[c] = "closed"
  PROVE  status'[c] = "closed" /\ total'[c] = total[c] /\ line'[c] = line[c]
  <1>1. line'[c] = line[c]
    BY FrozenStep DEF IsCountWritable
  <1>2. status \in [Counts -> Status] /\ total = [d \in Counts |-> total[d]]
    BY DEF IInv, TypeOK
  <1>3. ASSUME NEW d \in Counts, CountStep(d)
        PROVE  status'[c] = "closed" /\ total'[c] = total[c]
    <2>1. CASE OpenCount(d)
      BY <1>2, <2>1 DEF OpenCount
    <2>2. CASE SubmitCount(d) \/ ReviewCount(d) \/ ReopenCount(d)
      BY <1>2, <2>2 DEF SubmitCount, ReviewCount, ReopenCount, TransitionCount
    <2>3. CASE CloseTotals(d)
      BY <2>3 DEF CloseTotals, rows
    <2>4. CASE CloseCommit(d)
      <3>1. status[d] = "reviewed"
        BY <2>4 DEF CloseCommit, IInv, LockDiscipline
      <3> QED  BY <1>2, <2>4, <3>1 DEF CloseCommit
    <2> QED  BY <1>3, <2>1, <2>2, <2>3, <2>4 DEF CountStep
  <1>4. ASSUME NEW r \in Requests, Promote(r)
        PROVE  status'[c] = "closed" /\ total'[c] = total[c]
    BY <1>2, <1>4 DEF Promote
  <1> QED  BY <1>1, <1>3, <1>4, StatusChanges

(* The first step that closes a count stores the value of its lines.       *)
LEMMA ClosingStep ==
  ASSUME IInv, [Next]_vars, NEW c \in Counts, status[c] # "closed", status'[c] = "closed"
  PROVE  total'[c] = SummarizeValuation(line'[c]).totalValue
  <1>1. status \in [Counts -> Status] /\ total = [d \in Counts |-> total[d]]
    BY DEF IInv, TypeOK
  <1>2. ~ \E r \in Requests : Promote(r)
    BY <1>1 DEF Promote
  <1>3. PICK d \in Counts : CountStep(d)
    BY <1>2, StatusChanges
  <1>4. ~OpenCount(d) /\ ~CloseTotals(d)
    BY <1>1 DEF OpenCount, CloseTotals, rows
  <1>5. ~SubmitCount(d) /\ ~ReviewCount(d) /\ ~ReopenCount(d)
    BY <1>1 DEF SubmitCount, ReviewCount, ReopenCount, TransitionCount
  <1>6. CloseCommit(d)
    BY <1>3, <1>4, <1>5 DEF CountStep
  <1>7. c = d
    BY <1>1, <1>6 DEF CloseCommit
  <1>8. closing[c] = SummarizeValuation(line[c]).totalValue
    BY <1>6, <1>7 DEF CloseCommit, IInv, LockDiscipline
  <1>9. total'[c] = closing[c] /\ line' = line
    BY <1>1, <1>6, <1>7 DEF CloseCommit
  <1> QED  BY <1>8, <1>9

(* Lines and ledger rows of a count change only while it is being counted: *)
(* the promise of assertCountWritable's lock, for any number of requests,  *)
(* retries, failures and races with submit, review and close.              *)
THEOREM LinesAreFrozen == Spec => LinesFrozenUnlessCounting
  <1>1. IInv /\ [Next]_vars =>
          [\A c \in Counts :
             (\/ line'[c] # line[c]
              \/ \E w \in Writes : intent[w].count = c /\ ledger'[w] # ledger[w])
               => IsCountWritable(status[c])]_vars
    BY FrozenStep
  <1> QED  BY <1>1, Invariance, PTL DEF Spec, LinesFrozenUnlessCounting

(* "Closed counts are immutable": no transition, promotion or late write   *)
(* changes the status, total or lines of a closed count.                   *)
THEOREM ClosedStaysClosed == Spec => ClosedIsForever
  <1>1. IInv /\ [Next]_vars =>
          [\A c \in Counts :
             status[c] = "closed" =>
               status'[c] = "closed" /\ total'[c] = total[c] /\ line'[c] = line[c]]_vars
    BY ClosedStep
  <1> QED  BY <1>1, Invariance, PTL DEF Spec, ClosedIsForever

(* closeCount: the total stored on a count is the value of the lines it    *)
(* was closed with, and stays so.                                          *)
THEOREM ClosedTotalIsRight == Spec => []ClosedTotalMatches
  <1>1. Init => ClosedTotalMatches
    BY DEF Init, ClosedTotalMatches
  <1>2. IInv /\ ClosedTotalMatches /\ [Next]_vars => ClosedTotalMatches'
    <2> SUFFICES ASSUME IInv, ClosedTotalMatches, [Next]_vars,
                        NEW c \in Counts, status'[c] = "closed"
                 PROVE  total'[c] = SummarizeValuation(line'[c]).totalValue
      BY DEF ClosedTotalMatches
    <2>1. CASE status[c] = "closed"
      BY <2>1, ClosedStep DEF ClosedTotalMatches
    <2>2. CASE status[c] # "closed"
      BY <2>2, ClosingStep
    <2> QED  BY <2>1, <2>2
  <1> QED  BY <1>1, <1>2, Invariance, PTL DEF Spec

-----------------------------------------------------------------------------
(* Invariant 2 of counts.ts: a line's price snapshot and a recorded write  *)
(* are never changed or removed, whoever commits what in which order.      *)
THEOREM SnapshotsStay == Spec => SnapshotsAndLedgerAreKept
  <1> DEFINE Kept ==
        /\ \A c \in Counts, s \in Slots :
             line[c][s] # NoLine =>
               line'[c][s] # NoLine /\ line'[c][s].price = line[c][s].price
        /\ \A w \in Writes : ledger[w] # NoEntry => ledger'[w] = ledger[w]
  <1>1. IInv /\ [Next]_vars => [Kept]_vars
    <2> SUFFICES ASSUME IInv, [Next]_vars, NEW r \in Requests, Commit(r)  PROVE Kept
      BY RowsChangeByCommit
    <2>1. /\ line \in [Counts -> [Slots -> RowType \cup {NoLine}]]
          /\ ledger \in [Writes -> EntryType \cup {NoEntry}]
      BY DEF IInv, TypeOK
    <2>2. ASSUME NEW c \in Counts, NEW s \in Slots, line[c][s] # NoLine
          PROVE  line'[c][s] # NoLine /\ line'[c][s].price = line[c][s].price
      <3>1. CASE c = CountOf(r) /\ s = SlotOf(r)
        <4>1. line'[c][s] = tent[r] /\ LineOf(r) = line[c][s]
          BY <2>1, <3>1, CommitWrites DEF LineOf
        <4> QED  BY <2>2, <4>1, CommitWrites, RowsAssumption
      <3>2. CASE ~(c = CountOf(r) /\ s = SlotOf(r))
        BY <2>1, <2>2, <3>2, CommitWrites
      <3> QED  BY <3>1, <3>2
    <2>3. ASSUME NEW w \in Writes, ledger[w] # NoEntry  PROVE ledger'[w] = ledger[w]
      BY <2>1, <2>3, CommitWrites
    <2> QED  BY <2>2, <2>3
  <1> QED  BY <1>1, Invariance, PTL DEF Spec, SnapshotsAndLedgerAreKept

(* A promotion that runs late never reopens a count: only reopenCount      *)
(* does.                                                                   *)
THEOREM OnlyReopenDoes == Spec => OnlyReopenReopens
  <1> DEFINE OnlyReopen ==
        \A c \in Counts :
          ~IsCountWritable(status[c]) /\ status[c] # "unopened" /\ IsCountWritable(status'[c])
            => ReopenCount(c)
  <1>1. IInv /\ [Next]_vars => [OnlyReopen]_vars
    <2> SUFFICES ASSUME IInv, [Next]_vars, NEW c \in Counts,
                        ~IsCountWritable(status[c]), status[c] # "unopened",
                        IsCountWritable(status'[c])
                 PROVE  ReopenCount(c)
      OBVIOUS
    <2>1. status \in [Counts -> Status]
      BY DEF IInv, TypeOK
    <2>2. ~ \E r \in Requests : Promote(r)
      BY <2>1 DEF Promote, IsCountWritable
    <2>3. PICK d \in Counts : CountStep(d)
      BY <2>2, StatusChanges
    <2>4. ~OpenCount(d) /\ ~SubmitCount(d) /\ ~ReviewCount(d) /\ ~CloseTotals(d)
           /\ ~CloseCommit(d)
      BY <2>1 DEF OpenCount, SubmitCount, ReviewCount, TransitionCount, CloseTotals,
                  CloseCommit, rows, IsCountWritable
    <2>5. ReopenCount(d)
      BY <2>3, <2>4 DEF CountStep
    <2>6. c = d
      BY <2>1, <2>5 DEF ReopenCount, TransitionCount, IsCountWritable
    <2> QED  BY <2>5, <2>6
  <1> QED  BY <1>1, Invariance, PTL DEF Spec, OnlyReopenReopens

-----------------------------------------------------------------------------
(* Acknowledgements.  A request about to report success has its write in   *)
(* the ledger, and a write in the ledger has its line.                     *)
Acknowledging ==
  /\ \A w \in Writes :
       ledger[w] # NoEntry => line[intent[w].count][intent[w].slot] # NoLine
  /\ \A r \in Requests :
       Op(r) # "fills" /\ (pc[r] = "promote" \/ (pc[r] = "reply" /\ result[r] = "ok"))
         => ledger[wid[r]] # NoEntry
  /\ \A w \in Writes :
       outcome[w] = "ok" /\ intent[w].op # "fills" => ledger[w] # NoEntry

(* Lines and ledger rows stay (SnapshotsStay, for one step).               *)
LEMMA KeptStep ==
  ASSUME IInv, [Next]_vars
  PROVE  /\ \A c \in Counts, s \in Slots : line[c][s] # NoLine => line'[c][s] # NoLine
         /\ \A w \in Writes : ledger[w] # NoEntry => ledger'[w] # NoEntry
  <1> SUFFICES ASSUME NEW r \in Requests, Commit(r)
               PROVE  /\ \A c \in Counts, s \in Slots :
                           line[c][s] # NoLine => line'[c][s] # NoLine
                      /\ \A w \in Writes : ledger[w] # NoEntry => ledger'[w] # NoEntry
    BY RowsChangeByCommit
  <1>1. /\ line \in [Counts -> [Slots -> RowType \cup {NoLine}]]
        /\ ledger \in [Writes -> EntryType \cup {NoEntry}]
    BY DEF IInv, TypeOK
  <1> QED  BY <1>1, CommitWrites, RowsAssumption

(* A new ledger row appears together with its line.                        *)
LEMMA RecordedStep ==
  ASSUME IInv, Acknowledging, [Next]_vars, NEW w \in Writes, ledger'[w] # NoEntry
  PROVE  line'[intent[w].count][intent[w].slot] # NoLine
  <1>1. intent[w].count \in Counts /\ intent[w].slot \in Slots
    BY IntentTyped DEF IInv, IntentType
  <1>2. CASE ledger[w] # NoEntry
    BY <1>1, <1>2, KeptStep DEF Acknowledging
  <1>3. CASE ledger[w] = NoEntry
    <2>1. PICK r \in Requests : Commit(r)
      BY <1>3, RowsChangeByCommit
    <2>2. /\ line \in [Counts -> [Slots -> RowType \cup {NoLine}]]
          /\ ledger \in [Writes -> EntryType \cup {NoEntry}]
      BY DEF IInv, TypeOK
    <2>3. w = wid[r]
      BY <1>3, <2>1, <2>2, CommitWrites
    <2>4. line'[CountOf(r)][SlotOf(r)] = tent[r] /\ tent[r] # NoLine
      BY <2>1, <2>2, CommitWrites, RowsAssumption
    <2> QED  BY <2>3, <2>4 DEF CountOf, SlotOf
  <1> QED  BY <1>2, <1>3

(* A request comes to report success only when its write is recorded.      *)
LEMMA SuccessStep ==
  ASSUME IInv, Acknowledging, [Next]_vars, NEW q \in Requests,
         pc'[q] = "promote" \/ (pc'[q] = "reply" /\ result'[q] = "ok"),
         Op(q)' # "fills"
  PROVE  ledger'[wid'[q]] # NoEntry
  <1> USE DEF Goto, Answer, rows, places, txns, handler, client, bounds
  <1>0. /\ pc \in [Requests -> {"idle", "precheck", "discover", "lock", "upsert",
                                "ledger", "replay", "promote", "reply"}]
        /\ wid \in [Requests -> Writes \cup {Nobody}]
        /\ result \in [Requests -> {"none", "ok", "refused"}]
        /\ ledger \in [Writes -> EntryType \cup {NoEntry}]
        /\ intent' = intent
        /\ \A r \in Requests : pc[r] # "idle" => wid[r] \in Writes
    BY IntentKept DEF IInv, TypeOK
  <1>1. ASSUME pc'[q] = pc[q], result'[q] = result[q], wid'[q] = wid[q]
        PROVE  ledger'[wid'[q]] # NoEntry
    <2>1. ledger[wid[q]] # NoEntry /\ wid[q] \in Writes
      BY <1>0, <1>1 DEF Acknowledging, Op
    <2> QED  BY <1>1, <2>1, KeptStep
  <1>2. ASSUME NEW r \in Requests, NEW w \in Writes, Send(r, w)
        PROVE  ledger'[wid'[q]] # NoEntry
    BY <1>0, <1>1, <1>2 DEF Send
  <1>3. ASSUME NEW r \in Requests, Reply(r)  PROVE ledger'[wid'[q]] # NoEntry
    BY <1>0, <1>1, <1>3 DEF Reply
  <1>4. ASSUME NEW r \in Requests,
               \/ RefuseUnwritable(r) \/ SnapshotConflict(r) \/ RefuseRetiredLocation(r)
               \/ PromoteTimeout(r) \/ LockGiveUp(r) \/ DbError(r) \/ DbErrorAfterCommit(r)
        PROVE  ledger'[wid'[q]] # NoEntry
    <2>1. /\ pc' = [pc EXCEPT ![r] = "reply"] /\ result' = [result EXCEPT ![r] = "refused"]
          /\ wid' = wid
      BY <1>4 DEF RefuseUnwritable, SnapshotConflict, RefuseRetiredLocation, PromoteTimeout,
                  LockGiveUp, DbError, DbErrorAfterCommit, Commit
    <2> QED  BY <1>0, <1>1, <2>1
  <1>5. ASSUME NEW r \in Requests,
               \/ PreCheckMiss(r) \/ Discover(r) \/ AssertCountWritable(r) \/ Upsert(r)
               \/ DuplicateKey(r) \/ LockRetry(r)
        PROVE  ledger'[wid'[q]] # NoEntry
    <2>1. /\ \/ \E step \in {"discover", "lock", "upsert", "ledger", "replay"} :
                 pc' = [pc EXCEPT ![r] = step] /\ result' = result
             \/ pc' = [pc EXCEPT ![r] = "reply"] /\ result' = [result EXCEPT ![r] = "refused"]
          /\ wid' = wid
      BY <1>5 DEF PreCheckMiss, Discover, AssertCountWritable, Upsert, DuplicateKey, LockRetry,
                  TxStart
    <2> QED  BY <1>0, <1>1, <2>1
  <1>6. ASSUME NEW r \in Requests, PreCheckHit(r) \/ FindReplayedLine(r)
        PROVE  ledger'[wid'[q]] # NoEntry
    <2>1. CASE q = r
      <3>1. ledger[wid[q]] # NoEntry /\ ledger' = ledger /\ wid' = wid
        BY <1>0, <1>6, <2>1 DEF PreCheckHit, FindReplayedLine
      <3> QED  BY <3>1
    <2>2. CASE q # r
      BY <1>0, <1>1, <1>6, <2>2 DEF PreCheckHit, FindReplayedLine
    <2> QED  BY <2>1, <2>2
  <1>7. ASSUME NEW r \in Requests, CommitWrite(r)  PROVE ledger'[wid'[q]] # NoEntry
    <2>1. Commit(r) /\ wid' = wid
      BY <1>7 DEF CommitWrite, Commit
    <2>2. CASE q = r
      <3>1. wid[r] \in Writes /\ Op(r) # "fills"
        BY <1>0, <2>1, <2>2, CommitWrites DEF Op
      <3>2. ledger'[wid[r]] = EntryOf(LineOf(r), intent[wid[r]])
        BY <1>0, <2>1, <3>1, CommitWrites
      <3>3. EntryOf(LineOf(r), intent[wid[r]]) \in EntryType
        BY <2>1, TentativeTyped, EntryTyped DEF Op, Commit
      <3> QED  BY <2>1, <2>2, <3>2, <3>3, ConstantsAssumption
    <2>3. CASE q # r
      BY <1>0, <1>1, <1>7, <2>1, <2>3 DEF CommitWrite
    <2> QED  BY <2>2, <2>3
  <1>8. ASSUME NEW r \in Requests, Promote(r)  PROVE ledger'[wid'[q]] # NoEntry
    <2>1. CASE q = r
      <3>1. ledger[wid[q]] # NoEntry /\ ledger' = ledger /\ wid' = wid
        BY <1>0, <1>8, <2>1 DEF Promote, Acknowledging, Op
      <3> QED  BY <3>1
    <2>2. CASE q # r
      BY <1>0, <1>1, <1>8, <2>2 DEF Promote
    <2> QED  BY <2>1, <2>2
  <1>9. ASSUME Crash  PROVE ledger'[wid'[q]] # NoEntry
    BY <1>9 DEF Crash
  <1>10. ASSUME \/ \E w \in Writes : LoseReply(w)
                \/ \E c \in Counts : CountStep(c)
                \/ \E p \in Products, new \in Prices : ChangePrice(p, new)
                \/ \E l \in Locations : RetireCheck(l) \/ RetireCommit(l)
                \/ UNCHANGED vars
         PROVE  ledger'[wid'[q]] # NoEntry
    BY <1>1, <1>10
    DEF LoseReply, CountStep, OpenCount, SubmitCount, ReviewCount, ReopenCount,
        TransitionCount, CloseTotals, CloseCommit, ChangePrice, RetireCheck, RetireCommit, vars
  <1> QED
    BY <1>2, <1>3, <1>4, <1>5, <1>6, <1>7, <1>8, <1>9, <1>10
    DEF Next, RequestStep, RequestFault, Terminating

(* Outcomes change by replies, and by sends that leave them open.          *)
LEMMA OutcomeStep ==
  ASSUME IInv, Acknowledging, [Next]_vars, NEW w \in Writes,
         outcome'[w] = "ok", intent[w].op # "fills"
  PROVE  ledger'[w] # NoEntry
  <1>1. \/ outcome' = outcome
        \/ \E r \in Requests, v \in Writes : Send(r, v)
        \/ \E r \in Requests : Reply(r)
    BY ZenonT(30) DEF Next, vars, rows, places, txns, handler, client, bounds, RequestStep, RequestFault,
           CountStep, LoseReply, PreCheckHit, PreCheckMiss, Discover,
           AssertCountWritable, RefuseUnwritable, SnapshotConflict, RefuseRetiredLocation,
           Upsert, CommitWrite, Commit, DuplicateKey, FindReplayedLine, Promote,
           PromoteTimeout, LockRetry, LockGiveUp, DbError, DbErrorAfterCommit, Crash,
           OpenCount, SubmitCount, ReviewCount, ReopenCount, TransitionCount, CloseTotals,
           CloseCommit, ChangePrice, RetireCheck, RetireCommit, Terminating
  <1>2. outcome \in [Writes -> {"unsent", "pending", "ok", "refused"}]
    BY DEF IInv, TypeOK
  <1>3. CASE outcome[w] = "ok"
    BY <1>3, KeptStep DEF Acknowledging
  <1>4. CASE outcome[w] # "ok"
    <2>1. ~ \E r \in Requests, v \in Writes : Send(r, v)
      BY <1>2, <1>4 DEF Send
    <2>2. PICK r \in Requests : Reply(r)
      BY <1>1, <1>4, <2>1
    <2>3. w = wid[r] /\ result[r] = "ok" /\ pc[r] = "reply"
      BY <1>2, <1>4, <2>2 DEF Reply
    <2>4. ledger[w] # NoEntry
      BY <2>3 DEF Acknowledging, Op
    <2> QED  BY <2>4, KeptStep
  <1> QED  BY <1>3, <1>4

(* A caller told that its write succeeded finds it in the ledger and on a  *)
(* line, also when the success was reported by a replay.                   *)
THEOREM AcknowledgedWritesStay == Spec => []AcknowledgedIsRecorded
  <1>1. Init => Acknowledging
    BY DEF Init, Acknowledging
  <1>2. IInv /\ Acknowledging /\ [Next]_vars => Acknowledging'
    <2> SUFFICES ASSUME IInv, Acknowledging, [Next]_vars  PROVE Acknowledging'
      OBVIOUS
    <2>1. intent' = intent
      BY IntentKept
    <2> QED  BY <2>1, RecordedStep, SuccessStep, OutcomeStep DEF Acknowledging
  <1>3. Acknowledging => AcknowledgedIsRecorded
    BY DEF Acknowledging, AcknowledgedIsRecorded
  <1> QED  BY <1>1, <1>2, <1>3, Invariance, PTL DEF Spec

-----------------------------------------------------------------------------
(* Refinement.                                                             *)

(* The book computes rows, ledger entries and values as the ledger does.   *)
LEMMA BookComputesTheSame ==
  /\ Book!Slots = Slots
  /\ \A row, i, p : Book!NewRow(row, i, p) = NewRow(row, i, p)
  /\ \A row, i : Book!EntryOf(row, i) = EntryOf(row, i)
  /\ \A sheet : Book!SummarizeValuation(sheet) = SummarizeValuation(sheet)
  <1>1. Book!Slots = Slots
    BY DEF Book!Slots, Slots
  <1>2. \A row, i, p : Book!NewRow(row, i, p) = NewRow(row, i, p)
    BY DEF Book!NewRow, NewRow, Book!Corrected, Corrected, Book!Inserted, Inserted,
           Book!Incremented, Incremented
  <1>3. \A row, i : Book!EntryOf(row, i) = EntryOf(row, i)
    BY DEF Book!EntryOf, EntryOf
  <1>4. \A f : Book!SumFunction(f) = SumFunction(f)
    BY DEF Book!SumFunction, SumFunction, Book!SumFunctionOnSet, SumFunctionOnSet,
           Book!FoldFunctionOnSet, FoldFunctionOnSet, Book!MapThenFoldSet, MapThenFoldSet
  <1>5. \A S : Book!Cardinality(S) = Cardinality(S)
    BY DEF Book!Cardinality, Cardinality
  <1>6. \A sheet : Book!SummarizeValuation(sheet) = SummarizeValuation(sheet)
    BY SMTT(30), <1>4, <1>5 DEF Book!SummarizeValuation, SummarizeValuation, Book!Valued, Valued,
           Book!UnitsKnown, UnitsKnown, Book!ExtendedCents, ExtendedCents,
           Book!UnitTenths, UnitTenths, Book!CaseSizeOrZero, CaseSizeOrZero
  <1> QED  BY <1>1, <1>2, <1>3, <1>6

(* A commit is the write it commits taking effect in the book.             *)
LEMMA CommitApplies ==
  ASSUME IInv, intent' = intent, NEW r \in Requests, Commit(r)
  PROVE  \E w \in Writes, p \in Prices : Book!Apply(w, p)
  <1>1. pc[r] = "ledger" /\ status' = status /\ total' = total
    BY DEF Commit
  <1>2. PICK p \in Prices : tent[r] = NewRow(LineOf(r), intent[wid[r]], p)
    BY <1>1 DEF IInv, NoLostUpdate
  <1>3. wid[r] \in Writes /\ Book!Counting(CountOf(r))
    BY CommitWrites DEF Book!Counting, IsCountWritable
  <1>4. Op(r) # "increment" => LineOf(r) # NoLine
    BY <1>1 DEF IInv, NoLostUpdate
  <1>5. line' = [line EXCEPT ![CountOf(r)][SlotOf(r)] = tent[r]]
    BY DEF Commit
  <1>6. IF Op(r) = "fills"
        THEN UNCHANGED ledger
        ELSE /\ ledger[wid[r]] = NoEntry
             /\ ledger' = [ledger EXCEPT ![wid[r]] = EntryOf(LineOf(r), intent[wid[r]])]
    BY CommitWrites
  <1>7. Book!Apply(wid[r], p)
    BY <1>1, <1>2, <1>3, <1>4, <1>5, <1>6, BookComputesTheSame
    DEF Book!Apply, Op, LineOf, CountOf, SlotOf
  <1> QED  BY <1>3, <1>7

(* Every step of a count's life is the same step of the book.              *)
LEMMA CountStepMaps ==
  ASSUME IInv, intent' = intent, NEW c \in Counts, CountStep(c)
  PROVE  Book!Next \/ UNCHANGED Book!bookVars
  <1> USE DEF Book!Next, Book!Move
  <1>1. CASE OpenCount(c)
    <2>1. Book!Open(c)
      BY <1>1 DEF OpenCount, Book!Open
    <2> QED  BY <2>1
  <1>2. CASE SubmitCount(c)
    <2>1. Book!Submit(c)
      BY <1>2 DEF SubmitCount, TransitionCount, Book!Submit
    <2> QED  BY <2>1
  <1>3. CASE ReviewCount(c)
    <2>1. Book!Review(c)
      BY <1>3 DEF ReviewCount, TransitionCount, Book!Review
    <2> QED  BY <2>1
  <1>4. CASE ReopenCount(c)
    <2>1. Book!Reopen(c)
      BY <1>4 DEF ReopenCount, TransitionCount, Book!Reopen
    <2> QED  BY <2>1
  <1>5. CASE CloseTotals(c)
    BY <1>5 DEF CloseTotals, rows, Book!bookVars, Book!rows
  <1>6. CASE CloseCommit(c)
    <2>1. status[c] = "reviewed" /\ closing[c] = SummarizeValuation(line[c]).totalValue
      BY <1>6 DEF CloseCommit, IInv, LockDiscipline
    <2>2. /\ status' = [status EXCEPT ![c] = "closed"]
          /\ total' = [total EXCEPT ![c] = SummarizeValuation(line[c]).totalValue]
          /\ line' = line /\ ledger' = ledger
      BY <1>6, <2>1 DEF CloseCommit
    <2>3. Book!Close(c)
      BY <2>1, <2>2, BookComputesTheSame DEF Book!Close
    <2> QED  BY <2>3
  <1> QED  BY <1>1, <1>2, <1>3, <1>4, <1>5, <1>6 DEF CountStep

(* A promotion starts a draft, or nothing.                                 *)
LEMMA PromoteMaps ==
  ASSUME IInv, intent' = intent, NEW r \in Requests, Promote(r)
  PROVE  Book!Next \/ UNCHANGED Book!bookVars
  <1>1. CASE status[CountOf(r)] = "draft"
    <2>1. CountOf(r) \in Counts
      BY IntentTyped DEF Promote, IInv, TypeOK, CountOf, IntentType
    <2>2. Book!Begin(CountOf(r))
      BY <1>1 DEF Promote, Book!Begin, Book!Move
    <2> QED  BY <2>1, <2>2 DEF Book!Next
  <1>2. CASE status[CountOf(r)] # "draft"
    BY <1>2 DEF Promote, Book!bookVars, Book!rows
  <1> QED  BY <1>1, <1>2

(* CountLedger implements the book of counts: whatever requests, retries,  *)
(* crashes and transitions interleave, the committed rows change as if     *)
(* each write took effect in one step, at most once, on a writable count,  *)
(* and each close stored the value of its lines.                           *)
THEOREM LedgerImplementsBook == Spec => ImplementsCountBook
  <1>1. Init => Book!Init
    BY BookComputesTheSame DEF Init, Book!Init
  <1>2. IInv /\ [Next]_vars => [Book!Next]_(Book!bookVars)
    <2> SUFFICES ASSUME IInv, [Next]_vars
                 PROVE  Book!Next \/ UNCHANGED Book!bookVars
      OBVIOUS
    <2>1. intent' = intent
      BY IntentKept
    <2>2. CASE \E r \in Requests : Commit(r)
      BY <2>1, <2>2, CommitApplies DEF Book!Next
    <2>3. CASE \E c \in Counts : CountStep(c)
      BY <2>1, <2>3, CountStepMaps
    <2>4. CASE \E r \in Requests : Promote(r)
      BY <2>1, <2>4, PromoteMaps
    <2>5. CASE line' = line /\ ledger' = ledger /\ status' = status /\ total' = total
      BY <2>1, <2>5 DEF Book!bookVars, Book!rows
    <2> QED  BY <2>2, <2>3, <2>4, <2>5, RowsChangeByCommit, StatusChanges
  <1> QED  BY <1>1, <1>2, Invariance, PTL DEF Spec, ImplementsCountBook, Book!Spec

-----------------------------------------------------------------------------
(* The ledger against the lines.                                           *)
(* The two halves of LedgerReconstructsLines for one line: a row against   *)
(* the ledger rows of the writes ws.                                       *)
QuantitiesAddUp(row, ws, entry) ==
  IF row = NoLine THEN ws = {}
  ELSE /\ row.cases = SumFunction([w \in ws |-> entry[w].cases])
       /\ row.eaches = SumFunction([w \in ws |-> entry[w].eaches])

BottlesAddUp(row, ws, entry) ==
  IF row = NoLine THEN ws = {}
  ELSE SumFunction(row.fills) = SumFunction([w \in ws |-> SumFunction(entry[w].fills)])

(* Open bottles are numbers, so they have a sum.                           *)
LEMMA FillsSum ==
  ASSUME NEW s \in Seq(Fill)
  PROVE  s \in Seq(Int) /\ SumFunction(s) \in Int
  <1>1. s \in Seq(Int)
    BY DEF Fill
  <1>2. s \in [1..Len(s) -> Int] /\ IsFiniteSet(1..Len(s))
    BY <1>1, FS_Interval
  <1> QED  BY <1>1, <1>2, SumTyped

(* A row whose quantities (bottles) stay adds up with ledger rows that     *)
(* stay.                                                                   *)
LEMMA SumsKept ==
  ASSUME NEW ws, NEW before, NEW after, \A x \in ws : after[x] = before[x],
         NEW row, NEW new, new # NoLine, row # NoLine
  PROVE  /\ QuantitiesAddUp(row, ws, before) /\ new.cases = row.cases /\ new.eaches = row.eaches
              => QuantitiesAddUp(new, ws, after)
         /\ BottlesAddUp(row, ws, before) /\ new.fills = row.fills
              => BottlesAddUp(new, ws, after)
  <1>1. /\ [w \in ws |-> after[w].cases] = [w \in ws |-> before[w].cases]
        /\ [w \in ws |-> after[w].eaches] = [w \in ws |-> before[w].eaches]
        /\ [w \in ws |-> SumFunction(after[w].fills)] = [w \in ws |-> SumFunction(before[w].fills)]
    OBVIOUS
  <1> QED  BY <1>1 DEF QuantitiesAddUp, BottlesAddUp

(* A recorded write moves the quantities of its line by its delta: an      *)
(* increment by what it carries, a correction by target - current.         *)
LEMMA QuantitiesAfterWrite ==
  ASSUME NEW ws, IsFiniteSet(ws), NEW v, v \notin ws, NEW before, NEW after,
         \A x \in ws : before[x] \in EntryType /\ after[x] = before[x],
         NEW row \in RowType \cup {NoLine}, NEW i \in IntentType, NEW p \in Prices,
         i.op # "fills", i.op # "increment" => row # NoLine,
         after[v] = EntryOf(row, i), QuantitiesAddUp(row, ws, before)
  PROVE  QuantitiesAddUp(NewRow(row, i, p), ws \cup {v}, after)
  <1> DEFINE more == ws \cup {v}
             cases == [w \in ws |-> before[w].cases]
             eaches == [w \in ws |-> before[w].eaches]
             moreCases == [w \in more |-> after[w].cases]
             moreEaches == [w \in more |-> after[w].eaches]
             entry == EntryOf(row, i)
             new == NewRow(row, i, p)
  <1>1. entry.cases \in Int /\ entry.eaches \in Int
    <2>1. entry \in EntryType
      BY EntryTyped
    <2> QED  BY <2>1 DEF EntryType
  <1>2. /\ cases \in [ws -> Int] /\ eaches \in [ws -> Int]
        /\ moreCases \in [more -> Int] /\ moreEaches \in [more -> Int]
    <2> HIDE DEF entry
    <2> QED  BY <1>1 DEF EntryType, entry
  <1>3. /\ SumFunction(moreCases) = entry.cases + SumFunction(cases)
        /\ SumFunction(moreEaches) = entry.eaches + SumFunction(eaches)
    <2>1. moreCases[v] = entry.cases /\ moreEaches[v] = entry.eaches
      OBVIOUS
    <2>2. OneMore(moreCases, v, cases, ws) /\ OneMore(moreEaches, v, eaches, ws)
      BY <1>2 DEF OneMore
    <2> HIDE DEF cases, eaches, moreCases, moreEaches, entry
    <2> QED  BY <2>1, <2>2, SumAfterInsert
  <1>4. new # NoLine /\ new.cases = SumFunction(moreCases)
                     /\ new.eaches = SumFunction(moreEaches)
    <2>0. new # NoLine
      BY RowsAssumption, NewRowTyped
    <2>1. CASE row = NoLine
      <3>1. ws = {} /\ i.op = "increment"
        BY <2>1 DEF QuantitiesAddUp, IntentType
      <3>2. SumFunction(cases) = 0 /\ SumFunction(eaches) = 0
        <4> HIDE DEF cases, eaches
        <4> QED  BY <1>2, <3>1, SumOfNothing
      <3>3. new.cases = entry.cases /\ new.eaches = entry.eaches
        BY <2>1, <3>1 DEF NewRow, Inserted, EntryOf
      <3> HIDE DEF cases, eaches, moreCases, moreEaches, entry, new
      <3> QED  BY <1>1, <1>3, <2>0, <3>2, <3>3
    <2>2. CASE row # NoLine
      <3>1. /\ row.cases = SumFunction(cases) /\ row.cases \in Int
            /\ row.eaches = SumFunction(eaches) /\ row.eaches \in Int
        BY <2>2 DEF QuantitiesAddUp, RowType
      <3>2. new.cases = entry.cases + row.cases /\ new.eaches = entry.eaches + row.eaches
        <4>1. CASE i.op = "increment"
          BY <2>2, <3>1, <4>1 DEF NewRow, Incremented, EntryOf, IntentType
        <4>2. CASE i.op = "set"
          BY <2>2, <3>1, <4>2 DEF NewRow, Corrected, EntryOf, IntentType
        <4> QED  BY <4>1, <4>2 DEF IntentType
      <3> HIDE DEF cases, eaches, moreCases, moreEaches, entry, new
      <3> QED  BY <1>1, <1>3, <2>0, <3>1, <3>2
    <2> QED  BY <2>1, <2>2
  <1> QED  BY <1>4 DEF QuantitiesAddUp

(* A recorded increment appends the bottles it carries; a correction of    *)
(* quantities records none and leaves them.                                *)
LEMMA BottlesAfterWrite ==
  ASSUME NEW ws, IsFiniteSet(ws), NEW v, v \notin ws, NEW before, NEW after,
         \A x \in ws : before[x] \in EntryType /\ after[x] = before[x],
         NEW row \in RowType \cup {NoLine}, NEW i \in IntentType, NEW p \in Prices,
         i.op # "fills", i.op # "increment" => row # NoLine,
         after[v] = EntryOf(row, i), BottlesAddUp(row, ws, before)
  PROVE  BottlesAddUp(NewRow(row, i, p), ws \cup {v}, after)
  <1> DEFINE more == ws \cup {v}
             bottles == [w \in ws |-> SumFunction(before[w].fills)]
             moreBottles == [w \in more |-> SumFunction(after[w].fills)]
             entry == EntryOf(row, i)
             new == NewRow(row, i, p)
  <1>1. entry.fills \in Seq(Fill) /\ SumFunction(entry.fills) \in Int
    <2>1. entry.fills \in Seq(Fill)
      BY DEF EntryOf, IntentType
    <2> HIDE DEF entry
    <2> QED  BY <2>1, FillsSum
  <1>2. bottles \in [ws -> Int] /\ moreBottles \in [more -> Int]
    <2>1. \A x \in ws : SumFunction(before[x].fills) \in Int
      BY FillsSum DEF EntryType
    <2>2. \A x \in more : SumFunction(after[x].fills) \in Int
      BY <1>1, <2>1
    <2> QED  BY <2>1, <2>2
  <1>3. SumFunction(moreBottles) = SumFunction(entry.fills) + SumFunction(bottles)
    <2>1. moreBottles[v] = SumFunction(entry.fills)
      OBVIOUS
    <2>2. OneMore(moreBottles, v, bottles, ws)
      BY <1>2 DEF OneMore
    <2> HIDE DEF bottles, moreBottles, entry
    <2> QED  BY <2>1, <2>2, SumAfterInsert
  <1>4. new # NoLine /\ SumFunction(new.fills) = SumFunction(moreBottles)
    <2>0. new # NoLine
      BY RowsAssumption, NewRowTyped
    <2>1. CASE row = NoLine
      <3>1. ws = {} /\ i.op = "increment"
        BY <2>1 DEF BottlesAddUp, IntentType
      <3>2. SumFunction(bottles) = 0
        <4> HIDE DEF bottles
        <4> QED  BY <1>2, <3>1, SumOfNothing
      <3>3. new.fills = entry.fills
        BY <2>1, <3>1 DEF NewRow, Inserted, EntryOf
      <3> HIDE DEF bottles, moreBottles, entry, new
      <3> QED  BY <1>1, <1>3, <2>0, <3>2, <3>3
    <2>2. CASE row # NoLine
      <3>1. /\ SumFunction(row.fills) = SumFunction(bottles)
            /\ row.fills \in Seq(Fill)
        BY <2>2 DEF BottlesAddUp, RowType
      <3>2. SumFunction(row.fills) \in Int /\ row.fills \in Seq(Int) /\ entry.fills \in Seq(Int)
        BY <1>1, <3>1, FillsSum
      <3>3. CASE i.op = "increment"
        <4>1. new.fills = row.fills \o entry.fills
          BY <2>2, <3>3 DEF NewRow, Incremented, EntryOf
        <4>2. SumFunction(row.fills \o entry.fills)
                = SumFunction(row.fills) + SumFunction(entry.fills)
          <5> HIDE DEF entry
          <5> QED  BY <3>2, SumOfConcat
        <4> HIDE DEF bottles, moreBottles, entry, new
        <4> QED  BY <1>1, <1>3, <2>0, <3>1, <3>2, <4>1, <4>2
      <3>4. CASE i.op = "set"
        <4>1. new.fills = row.fills /\ entry.fills = <<>>
          BY <2>2, <3>4 DEF NewRow, Corrected, EntryOf
        <4>2. SumFunction(<<>>) = 0
          <5>1. <<>> \in [{} -> Int]
            OBVIOUS
          <5> QED  BY <5>1, SumOfNothing
        <4> HIDE DEF bottles, moreBottles, entry, new
        <4> QED  BY <1>1, <1>3, <2>0, <3>1, <3>2, <4>1, <4>2
      <3> QED  BY <3>3, <3>4 DEF IntentType
    <2> QED  BY <2>1, <2>2
  <1> QED  BY <1>4 DEF BottlesAddUp

(* At any time finitely many writes are recorded for a line, however many  *)
(* clients may still send: a sum needs that.                               *)
FinitelyMany == \A c \in Counts, s \in Slots : IsFiniteSet(Recorded(c, s))

(* No replace of open bottles, which the ledger does not record.           *)
NoReplaces == \A w \in Writes : intent[w].op # "fills"

(* The invariant in its two halves.                                        *)
LEMMA LedgerByParts ==
  LedgerReconstructsLines <=>
    \A c \in Counts, s \in Slots :
      /\ QuantitiesAddUp(line[c][s], Recorded(c, s), ledger)
      /\ NoReplaces => BottlesAddUp(line[c][s], Recorded(c, s), ledger)
  BY DEF LedgerReconstructsLines, QuantitiesAddUp, BottlesAddUp, NoReplaces

(* A commit moves a line and its ledger by the same amount (NoLostUpdate:  *)
(* the row it computed from is the row it replaces), and nothing else      *)
(* moves either.                                                           *)
LEMMA ReconstructsStep ==
  ASSUME IInv, FinitelyMany, LedgerReconstructsLines, [Next]_vars
  PROVE  FinitelyMany' /\ LedgerReconstructsLines'
  <1>0. /\ line \in [Counts -> [Slots -> RowType \cup {NoLine}]]
        /\ ledger \in [Writes -> EntryType \cup {NoEntry}]
        /\ intent' = intent
    BY IntentKept DEF IInv, TypeOK
  <1>1. CASE line' = line /\ ledger' = ledger
    BY <1>0, <1>1 DEF FinitelyMany, LedgerReconstructsLines, Recorded
  <1>2. ASSUME NEW r \in Requests, Commit(r)
        PROVE  FinitelyMany' /\ LedgerReconstructsLines'
    <2>1. PICK w \in Writes, i \in IntentType, C \in Counts, S \in Slots :
            w = wid[r] /\ i = intent[wid[r]] /\ C = CountOf(r) /\ S = SlotOf(r)
      BY <1>2, CommitWrites
    <2>2. PICK old \in RowType \cup {NoLine}, p \in Prices :
            /\ old = line[C][S] /\ (i.op # "increment" => old # NoLine)
            /\ tent[r] = NewRow(old, i, p)
      <3>1. pc[r] = "ledger"
        BY <1>2 DEF Commit
      <3>2. PICK p \in Prices : tent[r] = NewRow(LineOf(r), intent[wid[r]], p)
        BY <3>1 DEF IInv, NoLostUpdate
      <3> QED  BY <1>0, <2>1, <3>1, <3>2 DEF IInv, NoLostUpdate, LineOf, Op
    <2> DEFINE new == NewRow(old, i, p)
    <2>3. new \in RowType /\ new # NoLine
      BY <2>2, NewRowTyped, RowsAssumption
    <2>4. /\ line' = [line EXCEPT ![C] = [@ EXCEPT ![S] = new]]
          /\ i.op = "fills" => ledger' = ledger
          /\ i.op # "fills" => ledger[w] = NoEntry
                               /\ ledger' = [ledger EXCEPT ![w] = EntryOf(old, i)]
          /\ i.count = C /\ i.slot = S
      BY <1>2, <2>1, <2>2, CommitWrites DEF LineOf, Op, CountOf, SlotOf
    <2> HIDE DEF new
    <2>5. line'[C][S] = new
      BY <1>0, <2>4
    <2>6. i.op # "fills" => EntryOf(old, i) \in EntryType /\ EntryOf(old, i) # NoEntry
                            /\ EntryOf(old, i).count = C /\ EntryOf(old, i).slot = S
      BY SMTT(30), <2>2, <2>4, EntryTyped, ConstantsAssumption DEF EntryOf, IntentType
    <2>7. \A c \in Counts, s \in Slots :
            /\ \A x \in Recorded(c, s) : ledger'[x] = ledger[x] /\ ledger[x] \in EntryType
            /\ IF i.op # "fills" /\ c = C /\ s = S
               THEN Recorded(c, s)' = Recorded(c, s) \cup {w} /\ w \notin Recorded(c, s)
               ELSE Recorded(c, s)' = Recorded(c, s)
      BY <1>0, <2>4, <2>6 DEF Recorded
    <2>8. FinitelyMany'
      BY <2>7, FS_AddElement DEF FinitelyMany
    <2>9. ASSUME NEW c \in Counts, NEW s \in Slots
          PROVE  /\ QuantitiesAddUp(line'[c][s], Recorded(c, s)', ledger')
                 /\ NoReplaces => BottlesAddUp(line'[c][s], Recorded(c, s)', ledger')
      <3>1. /\ QuantitiesAddUp(line[c][s], Recorded(c, s), ledger)
            /\ NoReplaces => BottlesAddUp(line[c][s], Recorded(c, s), ledger)
        BY LedgerByParts
      <3>2. CASE ~(c = C /\ s = S)
        <4>1. line'[c][s] = line[c][s] /\ Recorded(c, s)' = Recorded(c, s)
          BY <1>0, <2>4, <2>7, <3>2
        <4>2. CASE line[c][s] = NoLine
          BY <3>1, <4>1, <4>2 DEF QuantitiesAddUp, BottlesAddUp
        <4>3. CASE line[c][s] # NoLine
          BY <2>7, <3>1, <4>1, <4>3, SumsKept
        <4> QED  BY <4>2, <4>3
      <3>3. CASE c = C /\ s = S /\ i.op = "fills"
        <4>1. Recorded(c, s)' = Recorded(c, s) /\ ~NoReplaces
          BY <2>1, <2>7, <3>3 DEF NoReplaces
        <4>2. old # NoLine /\ new.cases = old.cases /\ new.eaches = old.eaches
          BY <2>2, <3>3 DEF new, NewRow, Corrected
        <4>3. QuantitiesAddUp(new, Recorded(c, s), ledger')
          BY <2>2, <2>3, <2>7, <3>1, <3>3, <4>2, SumsKept
        <4> QED  BY <2>5, <3>3, <4>1, <4>3
      <3>4. CASE c = C /\ s = S /\ i.op # "fills"
        <4>1. Recorded(c, s)' = Recorded(c, s) \cup {w} /\ w \notin Recorded(c, s)
          BY <2>7, <3>4
        <4>2. ledger'[w] = EntryOf(old, i) /\ IsFiniteSet(Recorded(c, s))
          BY <1>0, <2>4, <3>4 DEF FinitelyMany
        <4>3. QuantitiesAddUp(new, Recorded(c, s) \cup {w}, ledger')
          BY <2>2, <2>7, <3>1, <3>4, <4>1, <4>2, QuantitiesAfterWrite DEF new
        <4>4. NoReplaces => BottlesAddUp(new, Recorded(c, s) \cup {w}, ledger')
          BY <2>2, <2>7, <3>1, <3>4, <4>1, <4>2, BottlesAfterWrite DEF new
        <4> QED  BY <2>5, <3>4, <4>1, <4>3, <4>4
      <3> QED  BY <3>2, <3>3, <3>4
    <2>10. LedgerReconstructsLines'
      <3>1. NoReplaces' <=> NoReplaces
        BY <1>0 DEF NoReplaces
      <3> QED  BY <2>9, <3>1 DEF LedgerReconstructsLines, QuantitiesAddUp, BottlesAddUp, NoReplaces
    <2> QED  BY <2>8, <2>10
  <1> QED  BY <1>1, <1>2, RowsChangeByCommit

(* "Summing every write's delta for a count_line reconstructs its current  *)
(* state from scratch": of a line's quantities at any time, and of its     *)
(* open bottles while no replace of them is among the writes, for any      *)
(* number of counts, writes, requests, retries, corrections, rollbacks and *)
(* crashes.                                                                *)
THEOREM LedgerAddsUp == Spec => []LedgerReconstructsLines
  <1>1. Init => FinitelyMany /\ LedgerReconstructsLines
    <2> SUFFICES ASSUME Init PROVE FinitelyMany /\ LedgerReconstructsLines
      OBVIOUS
    <2>1. \A c \in Counts, s \in Slots : line[c][s] = NoLine /\ Recorded(c, s) = {}
      BY DEF Init, Recorded
    <2> QED  BY <2>1, FS_EmptySet DEF FinitelyMany, LedgerReconstructsLines
  <1>2. IInv /\ FinitelyMany /\ LedgerReconstructsLines /\ [Next]_vars
          => FinitelyMany' /\ LedgerReconstructsLines'
    BY ReconstructsStep
  <1> QED  BY <1>1, <1>2, Invariance, PTL DEF Spec

=============================================================================
