---------------------------- MODULE CountLedger ----------------------------
(***************************************************************************)
(* The server side of a count: lib/domain/counts.ts over MariaDB.          *)
(*                                                                         *)
(* Each call of a write handler (applyIncrement, setCountLineQuantities,   *)
(* editCountLineFills) is a request that runs step by step: the pool reads *)
(* of the pre-check, the statements of one transaction, the status         *)
(* promotion after the commit, the reply.  Requests of several devices,    *)
(* retries of one write among them, interleave at statement granularity;   *)
(* the row lock on the parent count serialises the transactions on it.     *)
(*                                                                         *)
(* What the database contributes is modelled from how the code relies on   *)
(* it: a transaction is atomic, a locking read sees the latest committed   *)
(* row, a plain read keeps the transaction's read view, client_line_id is  *)
(* unique over the whole ledger.  SnapshotIsolation is the server's        *)
(* innodb_snapshot_isolation: a locking read of a row changed since the    *)
(* transaction's read view fails, with an error withLockRetry does not     *)
(* retry.                                                                  *)
(***************************************************************************)
EXTENDS CountLine

CONSTANTS
  Writes,             \* client_line_id values: one per write a client minted
  Requests,           \* concurrent handler invocations
  MaxTries,           \* attempts of withLockRetry
  MaxFaults,          \* bound: crashes of the server, lost replies
  MaxDbErrors,        \* bound: database errors no retry handles
  SnapshotIsolation,  \* innodb_snapshot_isolation
  Nobody,             \* no owner of a lock, no request awaited
  Supervisor,         \* the closeCount transaction as owner of a count's lock
  NoEntry             \* the ledger has no row for that client_line_id

Status == {"unopened", "draft", "in_progress", "submitted", "reviewed", "closed"}

IsCountWritable(s) == s \in {"draft", "in_progress"}

ASSUME ConstantsAssumption ==
  /\ MaxTries \in Nat \ {0}
  /\ MaxFaults \in Nat
  /\ MaxDbErrors \in Nat
  /\ SnapshotIsolation \in BOOLEAN
  /\ Nobody \notin Requests
  /\ Supervisor \notin Requests \cup {Nobody}
  /\ NoEntry \notin EntryType

VARIABLES
  \* committed rows
  status,      \* count.status
  total,       \* count.total_value
  line,        \* count_line, by count and (product, location)
  ledger,      \* count_line_write, by client_line_id
  active,      \* location.active
  price,       \* product.current_unit_cost, product.case_size
  \* transactions in progress
  locked,      \* owner of the row lock on each count
  stale,       \* requests whose read view is older than a row they will lock
  tent,        \* the uncommitted line of each request's transaction
  closing,     \* the total computed by the closeCount transaction
  retiring,    \* locations whose retirement has passed its checks
  \* handlers
  pc, wid, tries, result,
  \* clients
  intent,      \* the payload bound to each write
  serving,     \* the request whose reply the client of a write awaits
  outcome,     \* what the client was told
  \* bounded counters
  faults, dbErrors

rows    == <<status, total, line, ledger>>
places  == <<active, retiring>>
txns    == <<locked, stale, tent, closing>>
handler == <<pc, wid, tries, result>>
client  == <<intent, serving, outcome>>
bounds  == <<faults, dbErrors>>
vars == <<rows, places, price, txns, handler, client, bounds>>

-----------------------------------------------------------------------------
(* Abbreviations for the write a request is serving.                       *)
Op(r)      == intent[wid[r]].op
CountOf(r) == intent[wid[r]].count
SlotOf(r)  == intent[wid[r]].slot
LineOf(r)  == line[CountOf(r)][SlotOf(r)]

(* First statement of the transaction: applyIncrement locks the count at   *)
(* once; the two corrections first look up which count owns the line.      *)
TxStart(r) == IF Op(r) = "increment" THEN "lock" ELSE "discover"

Release(r) == locked' = [c \in Counts |-> IF locked[c] = r THEN Nobody ELSE locked[c]]

(* Corrections waiting for the lock on count c opened their read view with *)
(* the unlocked lookup; a commit to a row they will lock outdates it.      *)
Viewers(c, slots) ==
  IF SnapshotIsolation
  THEN {q \in Requests : /\ pc[q] = "lock"
                         /\ Op(q) # "increment"
                         /\ CountOf(q) = c
                         /\ SlotOf(q) \in slots}
  ELSE {}

Goto(r, step) == pc' = [pc EXCEPT ![r] = step]

Answer(r, a) == Goto(r, "reply") /\ result' = [result EXCEPT ![r] = a]

Init ==
  /\ status = [c \in Counts |-> "unopened"]
  /\ total = [c \in Counts |-> NULL]
  /\ line = [c \in Counts |-> [s \in Slots |-> NoLine]]
  /\ ledger = [w \in Writes |-> NoEntry]
  /\ active = [l \in Locations |-> TRUE]
  /\ price \in [Products -> Prices]
  /\ locked = [c \in Counts |-> Nobody]
  /\ stale = {}
  /\ tent = [r \in Requests |-> NoLine]
  /\ closing = [c \in Counts |-> NULL]
  /\ retiring = {}
  /\ pc = [r \in Requests |-> "idle"]
  /\ wid = [r \in Requests |-> Nobody]
  /\ tries = [r \in Requests |-> 1]
  /\ result = [r \in Requests |-> "none"]
  /\ intent \in [Writes -> Intents]
  /\ serving = [w \in Writes |-> Nobody]
  /\ outcome = [w \in Writes |-> "unsent"]
  /\ faults = 0
  /\ dbErrors = 0

-----------------------------------------------------------------------------
(* Clients.  A write keeps its id and payload over every resend, and is    *)
(* resent only after the previous call threw: a delivered answer, success  *)
(* or refusal, ends it.  Ids of counts and lines come from the server.     *)
Addressable(i) ==
  /\ status[i.count] # "unopened"
  /\ i.op # "increment" => line[i.count][i.slot] # NoLine

Send(r, w) ==
  /\ pc[r] = "idle"
  /\ Addressable(intent[w])
  /\ outcome[w] \in {"unsent", "pending"}
  /\ serving[w] = Nobody
  /\ Goto(r, IF intent[w].op = "fills" THEN "discover" ELSE "precheck")
  /\ wid' = [wid EXCEPT ![r] = w]
  /\ serving' = [serving EXCEPT ![w] = r]
  /\ outcome' = [outcome EXCEPT ![w] = "pending"]
  /\ UNCHANGED <<rows, places, price, txns, tries, result, intent, bounds>>

(* The connection breaks under a call: the client sees it throw, while the *)
(* handler keeps running on the server.                                    *)
LoseReply(w) ==
  /\ serving[w] # Nobody
  /\ faults < MaxFaults
  /\ serving' = [serving EXCEPT ![w] = Nobody]
  /\ faults' = faults + 1
  /\ UNCHANGED <<rows, places, price, txns, handler, intent, outcome, dbErrors>>

(* runAction hands the answer back, if the caller is still there.          *)
Reply(r) ==
  /\ pc[r] = "reply"
  /\ LET w == wid[r]
     IN  IF serving[w] = r
         THEN /\ serving' = [serving EXCEPT ![w] = Nobody]
              /\ outcome' = [outcome EXCEPT ![w] = result[r]]
         ELSE UNCHANGED <<serving, outcome>>
  /\ Goto(r, "idle")
  /\ wid' = [wid EXCEPT ![r] = Nobody]
  /\ tries' = [tries EXCEPT ![r] = 1]
  /\ result' = [result EXCEPT ![r] = "none"]
  /\ UNCHANGED <<rows, places, price, txns, intent, bounds>>

-----------------------------------------------------------------------------
(* The write handlers.                                                     *)

(* findReplayedLine before the transaction.                                *)
PreCheckHit(r) ==
  /\ pc[r] = "precheck"
  /\ ledger[wid[r]] # NoEntry
  /\ Answer(r, "ok")
  /\ UNCHANGED <<rows, places, price, txns, wid, tries, client, bounds>>

PreCheckMiss(r) ==
  /\ pc[r] = "precheck"
  /\ ledger[wid[r]] = NoEntry
  /\ Goto(r, TxStart(r))
  /\ UNCHANGED <<rows, places, price, txns, wid, tries, result, client, bounds>>

(* The unlocked lookup of a correction; it opens the read view.            *)
Discover(r) ==
  /\ pc[r] = "discover"
  /\ IF LineOf(r) = NoLine
     THEN Answer(r, "refused")
     ELSE Goto(r, "lock") /\ UNCHANGED result
  /\ UNCHANGED <<rows, places, price, txns, wid, tries, client, bounds>>

(* Mistake: the gate refuses only closed counts.                           *)
AssertCountNotClosed(r) ==
  /\ pc[r] = "lock"
  /\ locked[CountOf(r)] = Nobody
  /\ r \notin stale
  /\ status[CountOf(r)] # "closed"
  /\ locked' = [locked EXCEPT ![CountOf(r)] = r]
  /\ Goto(r, "upsert")
  /\ UNCHANGED <<rows, places, price, stale, tent, closing, wid, tries,
                 result, client, bounds>>

(* Mistake: the gate reads the count without FOR UPDATE.                   *)
AssertCountWritableUnlocked(r) ==
  /\ pc[r] = "lock"
  /\ IsCountWritable(status[CountOf(r)])
  /\ Goto(r, "upsert")
  /\ UNCHANGED <<rows, places, price, txns, wid, tries, result, client, bounds>>

(* assertCountWritable: lock the count row, then look at its status.       *)
AssertCountWritable(r) ==
  /\ pc[r] = "lock"
  /\ locked[CountOf(r)] = Nobody
  /\ r \notin stale
  /\ IsCountWritable(status[CountOf(r)])
  /\ locked' = [locked EXCEPT ![CountOf(r)] = r]
  /\ Goto(r, "upsert")
  /\ UNCHANGED <<rows, places, price, stale, tent, closing, wid, tries,
                 result, client, bounds>>

RefuseUnwritable(r) ==
  /\ pc[r] = "lock"
  /\ locked[CountOf(r)] = Nobody
  /\ r \notin stale
  /\ ~IsCountWritable(status[CountOf(r)])
  /\ Answer(r, "refused")
  /\ UNCHANGED <<rows, places, price, txns, wid, tries, client, bounds>>

(* ER_CHECKREAD: the row changed since the read view.  Not a lock error,   *)
(* so withLockRetry rethrows it.                                           *)
SnapshotConflict(r) ==
  /\ pc[r] = "lock"
  /\ locked[CountOf(r)] = Nobody
  /\ r \in stale
  /\ stale' = stale \ {r}
  /\ Answer(r, "refused")
  /\ UNCHANGED <<rows, places, price, locked, tent, closing, wid, tries,
                 client, bounds>>

(* upsertCountLineRow: the retired-location refusal comes before anything  *)
(* else, on the existing-line path too.                                    *)
RefuseRetiredLocation(r) ==
  /\ pc[r] = "upsert"
  /\ Op(r) = "increment"
  /\ ~active[Location(SlotOf(r))]
  /\ Release(r)
  /\ Answer(r, "refused")
  /\ UNCHANGED <<rows, places, price, stale, tent, closing, wid, tries,
                 client, bounds>>

(* Mistake: an increment re-reads the product's price.                     *)
UpsertRepricing(r) ==
  /\ pc[r] = "upsert"
  /\ Op(r) # "increment" \/ active[Location(SlotOf(r))]
  /\ LET now == price[Product(SlotOf(r))]
     IN  tent' = [tent EXCEPT ![r] =
                    [NewRow(LineOf(r), intent[wid[r]], now) EXCEPT !.price = now]]
  /\ Goto(r, "ledger")
  /\ UNCHANGED <<rows, places, price, locked, stale, closing, wid, tries,
                 result, client, bounds>>

(* upsertCountLineRow, or the absolute SET of a correction, on the line    *)
(* locked after its count; a new line takes the product's price as of now. *)
Upsert(r) ==
  /\ pc[r] = "upsert"
  /\ Op(r) # "increment" \/ active[Location(SlotOf(r))]
  /\ tent' = [tent EXCEPT ![r] =
                NewRow(LineOf(r), intent[wid[r]], price[Product(SlotOf(r))])]
  /\ Goto(r, "ledger")
  /\ UNCHANGED <<rows, places, price, locked, stale, closing, wid, tries,
                 result, client, bounds>>

(* Mistake: client_line_id is not unique in the ledger.                    *)
LedgerAlwaysFree(r) == r \in Requests

(* The ledger row, second, in the same transaction; a replace of fills     *)
(* writes none.  Then the commit: line and ledger row appear together.     *)
LedgerFree(r) == Op(r) = "fills" \/ ledger[wid[r]] = NoEntry

Commit(r) ==
  /\ pc[r] = "ledger"
  /\ LedgerFree(r)
  /\ line' = [line EXCEPT ![CountOf(r)][SlotOf(r)] = tent[r]]
  /\ ledger' = IF Op(r) = "fills" THEN ledger
               ELSE [ledger EXCEPT ![wid[r]] = EntryOf(LineOf(r), intent[wid[r]])]
  /\ tent' = [tent EXCEPT ![r] = NoLine]
  /\ Release(r)
  /\ stale' = stale \cup Viewers(CountOf(r), {SlotOf(r)})
  /\ UNCHANGED <<status, total, closing, places, price, wid, tries, client>>

CommitWrite(r) ==
  /\ Commit(r)
  /\ IF Op(r) = "increment"
     THEN Goto(r, "promote") /\ UNCHANGED result
     ELSE Answer(r, "ok")
  /\ UNCHANGED bounds

(* Mistake: the duplicate key is caught inside the transaction, which then *)
(* stays open with its lock.                                               *)
DuplicateKeyCaughtInside(r) ==
  /\ pc[r] = "ledger"
  /\ ~LedgerFree(r)
  /\ tent' = [tent EXCEPT ![r] = NoLine]
  /\ Goto(r, "replay")
  /\ UNCHANGED <<rows, places, price, locked, stale, closing, wid, tries, result,
                 client, bounds>>

(* ER_DUP_ENTRY on client_line_id: everything rolls back, and the handler  *)
(* re-reads what the earlier write left.                                   *)
DuplicateKey(r) ==
  /\ pc[r] = "ledger"
  /\ ~LedgerFree(r)
  /\ tent' = [tent EXCEPT ![r] = NoLine]
  /\ Release(r)
  /\ Goto(r, "replay")
  /\ UNCHANGED <<rows, places, price, stale, closing, wid, tries, result,
                 client, bounds>>

FindReplayedLine(r) ==
  /\ pc[r] = "replay"
  /\ Answer(r, IF ledger[wid[r]] # NoEntry THEN "ok" ELSE "refused")
  /\ UNCHANGED <<rows, places, price, txns, wid, tries, client, bounds>>

(* draft -> in_progress, outside the transaction, guarded by the status.   *)
Promote(r) ==
  /\ pc[r] = "promote"
  /\ locked[CountOf(r)] = Nobody
  /\ IF status[CountOf(r)] = "draft"
     THEN /\ status' = [status EXCEPT ![CountOf(r)] = "in_progress"]
          /\ stale' = stale \cup Viewers(CountOf(r), Slots)
     ELSE UNCHANGED <<status, stale>>
  /\ Answer(r, "ok")
  /\ UNCHANGED <<total, line, ledger, places, price, locked, tent, closing,
                 wid, tries, client, bounds>>

(* The promotion waits for the row lock too, and is not inside             *)
(* withLockRetry: a lock wait timeout there fails the whole call.          *)
PromoteTimeout(r) ==
  /\ pc[r] = "promote"
  /\ locked[CountOf(r)] # Nobody
  /\ dbErrors < MaxDbErrors
  /\ dbErrors' = dbErrors + 1
  /\ Answer(r, "refused")
  /\ UNCHANGED <<rows, places, price, txns, wid, tries, client, faults>>

(* ER_LOCK_WAIT_TIMEOUT on the count row, or the victim of a gap-lock      *)
(* deadlock with a first insert into another count.                        *)
LockFailed(r) ==
  \/ pc[r] = "lock" /\ locked[CountOf(r)] # Nobody
  \/ /\ pc[r] = "upsert" /\ Op(r) = "increment" /\ LineOf(r) = NoLine
     /\ \E d \in Counts \ {CountOf(r)} : locked[d] \in Requests

(* Mistake: one attempt too many.                                          *)
LockRetryOnceMore(r) ==
  /\ LockFailed(r)
  /\ tries[r] <= MaxTries
  /\ tries' = [tries EXCEPT ![r] = @ + 1]
  /\ Release(r)
  /\ stale' = stale \ {r}
  /\ Goto(r, TxStart(r))
  /\ UNCHANGED <<rows, places, price, tent, closing, wid, result, client, bounds>>

(* withLockRetry: the whole transaction again, a bounded number of times.  *)
LockRetry(r) ==
  /\ LockFailed(r)
  /\ tries[r] < MaxTries
  /\ tries' = [tries EXCEPT ![r] = @ + 1]
  /\ Release(r)
  /\ stale' = stale \ {r}
  /\ Goto(r, TxStart(r))
  /\ UNCHANGED <<rows, places, price, tent, closing, wid, result, client, bounds>>

(* Mistake: the last lock error is swallowed.                              *)
LockGiveUpSilently(r) ==
  /\ LockFailed(r)
  /\ tries[r] = MaxTries
  /\ Release(r)
  /\ stale' = stale \ {r}
  /\ Answer(r, "ok")
  /\ UNCHANGED <<rows, places, price, tent, closing, wid, tries, client, bounds>>

LockGiveUp(r) ==
  /\ LockFailed(r)
  /\ tries[r] = MaxTries
  /\ Release(r)
  /\ stale' = stale \ {r}
  /\ Answer(r, "refused")
  /\ UNCHANGED <<rows, places, price, tent, closing, wid, tries, client, bounds>>

-----------------------------------------------------------------------------
(* Faults, bounded by MaxFaults and MaxDbErrors.                           *)

(* The database connection fails a statement: the transaction is rolled    *)
(* back and runAction turns the unknown error into a refusal.              *)
DbError(r) ==
  /\ pc[r] \notin {"idle", "reply"}
  /\ dbErrors < MaxDbErrors
  /\ dbErrors' = dbErrors + 1
  /\ Release(r)
  /\ tent' = [tent EXCEPT ![r] = NoLine]
  /\ stale' = stale \ {r}
  /\ Answer(r, "refused")
  /\ UNCHANGED <<rows, places, price, closing, wid, tries, client, faults>>

(* The connection fails after COMMIT took effect, before its answer.       *)
DbErrorAfterCommit(r) ==
  /\ Commit(r)
  /\ dbErrors < MaxDbErrors
  /\ dbErrors' = dbErrors + 1
  /\ Answer(r, "refused")
  /\ UNCHANGED faults

(* The server process dies: open transactions roll back, calls throw.      *)
Crash ==
  /\ \E r \in Requests : pc[r] # "idle"
  /\ faults < MaxFaults
  /\ faults' = faults + 1
  /\ locked' = [c \in Counts |-> Nobody]
  /\ stale' = {}
  /\ tent' = [r \in Requests |-> NoLine]
  /\ closing' = [c \in Counts |-> NULL]
  /\ retiring' = {}
  /\ pc' = [r \in Requests |-> "idle"]
  /\ wid' = [r \in Requests |-> Nobody]
  /\ tries' = [r \in Requests |-> 1]
  /\ result' = [r \in Requests |-> "none"]
  /\ serving' = [w \in Writes |-> Nobody]
  /\ UNCHANGED <<rows, active, price, intent, outcome, dbErrors>>

-----------------------------------------------------------------------------
(* The life of a count.                                                    *)
OpenCount(c) ==
  /\ status[c] = "unopened"
  /\ status' = [status EXCEPT ![c] = "draft"]
  /\ UNCHANGED <<total, line, ledger, places, price, txns, handler, client, bounds>>

(* transitionCount: lock, check, update and commit.  Only the count row is *)
(* touched, so the transaction is one step.                                *)
TransitionCount(c, from, to) ==
  /\ locked[c] = Nobody
  /\ status[c] \in from
  /\ status' = [status EXCEPT ![c] = to]
  /\ stale' = stale \cup Viewers(c, Slots)
  /\ UNCHANGED <<total, line, ledger, places, price, locked, tent, closing,
                 handler, client, bounds>>

SubmitCount(c) == TransitionCount(c, {"draft", "in_progress"}, "submitted")
ReviewCount(c) == TransitionCount(c, {"submitted"}, "reviewed")
(* Mistake: a closed count can be reopened.                                *)
ReopenAnyFinished(c) ==
  TransitionCount(c, {"submitted", "reviewed", "closed"}, "in_progress")

ReopenCount(c) == TransitionCount(c, {"submitted", "reviewed"}, "in_progress")

(* Mistake: the totals are read before the count row is locked.            *)
CloseTotalsUnlocked(c) ==
  /\ locked[c] = Nobody
  /\ status[c] = "reviewed"
  /\ closing' = [closing EXCEPT ![c] = SummarizeValuation(line[c]).totalValue]
  /\ UNCHANGED <<rows, places, price, locked, stale, tent, handler, client, bounds>>

(* closeCount: the totals are read while the count row is locked ...       *)
CloseTotals(c) ==
  /\ locked[c] = Nobody
  /\ status[c] = "reviewed"
  /\ locked' = [locked EXCEPT ![c] = Supervisor]
  /\ closing' = [closing EXCEPT ![c] = SummarizeValuation(line[c]).totalValue]
  /\ UNCHANGED <<rows, places, price, stale, tent, handler, client, bounds>>

(* ... and stored with the status by the same transaction.                 *)
CloseCommit(c) ==
  /\ closing[c] # NULL
  /\ status' = [status EXCEPT ![c] = "closed"]
  /\ total' = [total EXCEPT ![c] = closing[c]]
  /\ closing' = [closing EXCEPT ![c] = NULL]
  /\ locked' = [locked EXCEPT ![c] = Nobody]
  /\ stale' = stale \cup Viewers(c, Slots)
  /\ UNCHANGED <<line, ledger, places, price, tent, handler, client, bounds>>

(* updateProduct, as far as a count can see it: cost and case size change  *)
(* at any time.                                                            *)
ChangePrice(p, new) ==
  /\ price[p] # new
  /\ price' = [price EXCEPT ![p] = new]
  /\ UNCHANGED <<rows, places, txns, handler, client, bounds>>

(* deactivateLocation: both refusals are decided on the transaction's read *)
(* view, without a lock ...                                                *)
HasOpenCountLines(l) ==
  \E c \in Counts, s \in Slots :
    Location(s) = l /\ status[c] # "closed" /\ line[c][s] # NoLine

RetireCheck(l) ==
  /\ l \notin retiring
  /\ \E m \in Locations \ {l} : active[m]
  /\ ~HasOpenCountLines(l)
  /\ retiring' = retiring \cup {l}
  /\ UNCHANGED <<rows, active, price, txns, handler, client, bounds>>

(* ... and the update waits only for first inserts into the location, whose *)
(* foreign key holds the location row until they commit.                   *)
RetireCommit(l) ==
  /\ l \in retiring
  /\ ~ \E r \in Requests : /\ pc[r] = "ledger"
                           /\ LineOf(r) = NoLine
                           /\ Location(SlotOf(r)) = l
  /\ active' = [active EXCEPT ![l] = FALSE]
  /\ retiring' = retiring \ {l}
  /\ UNCHANGED <<rows, price, txns, handler, client, bounds>>

-----------------------------------------------------------------------------
(* Everything is counted and closed: the only place the system may rest.   *)
Terminating ==
  /\ \A c \in Counts : status[c] = "closed"
  /\ \A w \in Writes :
       outcome[w] \in {"ok", "refused"} \/ (outcome[w] = "unsent" /\ ~Addressable(intent[w]))
  /\ UNCHANGED vars

RequestStep(r) ==
  \/ PreCheckHit(r)
  \/ PreCheckMiss(r)
  \/ Discover(r)
  \/ AssertCountWritable(r)
  \/ RefuseUnwritable(r)
  \/ SnapshotConflict(r)
  \/ RefuseRetiredLocation(r)
  \/ Upsert(r)
  \/ CommitWrite(r)
  \/ DuplicateKey(r)
  \/ FindReplayedLine(r)
  \/ Promote(r)
  \/ Reply(r)

RequestFault(r) ==
  \/ PromoteTimeout(r)
  \/ LockRetry(r)
  \/ LockGiveUp(r)
  \/ DbError(r)
  \/ DbErrorAfterCommit(r)

CountStep(c) ==
  \/ OpenCount(c)
  \/ SubmitCount(c)
  \/ ReviewCount(c)
  \/ ReopenCount(c)
  \/ CloseTotals(c)
  \/ CloseCommit(c)

Next ==
  \/ \E r \in Requests, w \in Writes : Send(r, w)
  \/ \E w \in Writes : LoseReply(w)
  \/ \E r \in Requests : RequestStep(r) \/ RequestFault(r)
  \/ Crash
  \/ \E c \in Counts : CountStep(c)
  \/ \E p \in Products, new \in Prices : ChangePrice(p, new)
  \/ \E l \in Locations : RetireCheck(l) \/ RetireCommit(l)
  \/ Terminating

Spec == Init /\ [][Next]_vars

(* Fairness.  A handler that runs keeps running, and InnoDB grants a row   *)
(* lock in arrival order, so a request is not passed over for ever; a      *)
(* closeCount that holds its lock commits; a queued write is resent (the   *)
(* count screen flushes on mount and on every online event).               *)
Resend(w) == outcome[w] = "pending" /\ \E r \in Requests : Send(r, w)

Fairness ==
  /\ \A r \in Requests : SF_vars(RequestStep(r))
  /\ \A c \in Counts : WF_vars(CloseCommit(c))
  /\ \A w \in Writes : SF_vars(Resend(w))

FairSpec == Spec /\ Fairness

-----------------------------------------------------------------------------
(* What the component promises.                                            *)

(* Types of every variable (a stored total is the value of a sheet, which  *)
(* ClosedTotalMatches states).                                             *)
TypeOK ==
  /\ status \in [Counts -> Status]
  /\ total = [c \in Counts |-> total[c]]
  /\ line \in [Counts -> [Slots -> RowType \cup {NoLine}]]
  /\ ledger \in [Writes -> EntryType \cup {NoEntry}]
  /\ active \in [Locations -> BOOLEAN]
  /\ price \in [Products -> Prices]
  /\ locked \in [Counts -> Requests \cup {Nobody, Supervisor}]
  /\ stale \subseteq Requests
  /\ tent \in [Requests -> RowType \cup {NoLine}]
  /\ closing = [c \in Counts |-> closing[c]]
  /\ retiring \subseteq Locations
  /\ pc \in [Requests -> {"idle", "precheck", "discover", "lock", "upsert",
                          "ledger", "replay", "promote", "reply"}]
  /\ wid \in [Requests -> Writes \cup {Nobody}]
  /\ \A r \in Requests : pc[r] # "idle" => wid[r] \in Writes
  /\ tries \in [Requests -> 1..MaxTries]
  /\ result \in [Requests -> {"none", "ok", "refused"}]
  /\ \A r \in Requests : pc[r] = "reply" => result[r] # "none"
  /\ intent \in [Writes -> Intents]
  /\ serving \in [Writes -> Requests \cup {Nobody}]
  /\ outcome \in [Writes -> {"unsent", "pending", "ok", "refused"}]
  /\ faults \in 0..MaxFaults
  /\ dbErrors \in 0..MaxDbErrors

(* Who holds the row lock on a count: a request between its status check   *)
(* and its commit or rollback, and then the count is writable; or the      *)
(* closing transaction, and then the total it is about to store is the     *)
(* value of the lines as they are.                                         *)
LockDiscipline ==
  /\ \A r \in Requests :
       pc[r] \in {"upsert", "ledger"} =>
         locked[CountOf(r)] = r /\ IsCountWritable(status[CountOf(r)])
  /\ \A c \in Counts :
       locked[c] \in Requests =>
         /\ pc[locked[c]] \in {"upsert", "ledger"}
         /\ CountOf(locked[c]) = c
  /\ \A c \in Counts :
       locked[c] = Supervisor =>
         /\ status[c] = "reviewed"
         /\ closing[c] = SummarizeValuation(line[c]).totalValue
  /\ \A c \in Counts : closing[c] # NULL => locked[c] = Supervisor

(* No lost update: what a transaction is about to commit was computed from *)
(* the row it replaces, so neither a scan nor a correction overwrites one  *)
(* that committed in between; and a correction still has its line.         *)
NoLostUpdate ==
  \A r \in Requests :
    /\ pc[r] \in {"lock", "upsert", "ledger"} /\ Op(r) # "increment" => LineOf(r) # NoLine
    /\ pc[r] = "ledger" =>
         \E p \in Prices : tent[r] = NewRow(LineOf(r), intent[wid[r]], p)

(* A closed count's stored total is the value of its lines, whatever       *)
(* writes and closes raced and whatever happened to prices since.          *)
(* closeCount totals "on the same FOR UPDATE-locked snapshot it is about   *)
(* to write from".                                                         *)
ClosedTotalMatches ==
  \A c \in Counts :
    status[c] = "closed" => total[c] = SummarizeValuation(line[c]).totalValue

(* Writes recorded for a line.                                             *)
Recorded(c, s) ==
  {w \in Writes : ledger[w] # NoEntry /\ ledger[w].count = c /\ ledger[w].slot = s}

(* "Summing every write's delta for a count_line reconstructs its current  *)
(* state from scratch", for the sealed quantities: no write is applied     *)
(* twice, lost, or recorded without its effect, over every interleaving of *)
(* retries, corrections, rollbacks and crashes.  While no fill correction  *)
(* is among the writes, the open bottles are reconstructed too.            *)
LedgerReconstructsLines ==
  \A c \in Counts, s \in Slots :
    LET ws  == Recorded(c, s)
        row == line[c][s]
    IN  IF row = NoLine
        THEN ws = {}
        ELSE /\ row.cases = SumFunction([w \in ws |-> ledger[w].cases])
             /\ row.eaches = SumFunction([w \in ws |-> ledger[w].eaches])
             /\ (\A w \in Writes : intent[w].op # "fills") =>
                  SumFunction(row.fills) =
                    SumFunction([w \in ws |-> SumFunction(ledger[w].fills)])

(* A write the client was told succeeded is in the ledger, and on a line:  *)
(* the success of a replay is never reported on behalf of nothing.         *)
AcknowledgedIsRecorded ==
  \A w \in Writes :
    outcome[w] = "ok" /\ intent[w].op # "fills" =>
      /\ ledger[w] # NoEntry
      /\ line[intent[w].count][intent[w].slot] # NoLine

(* "A caller retrying a write must get the same successful result ... it   *)
(* must never see this as an error": a write told as refused did not take  *)
(* effect.                                                                 *)
RefusedIsNotApplied ==
  \A w \in Writes : outcome[w] = "refused" => ledger[w] = NoEntry

(* Lines and ledger rows of a count change only while it is being counted: *)
(* no write lands in a submitted, reviewed or closed count, however late   *)
(* its transaction runs.                                                   *)
LinesFrozenUnlessCounting ==
  [][\A c \in Counts :
       (\/ line'[c] # line[c]
        \/ \E w \in Writes : intent[w].count = c /\ ledger'[w] # ledger[w])
         => IsCountWritable(status[c])]_vars

(* Closed counts are immutable: status, total and lines (invariant 1).     *)
ClosedIsForever ==
  [][\A c \in Counts :
       status[c] = "closed" =>
         status'[c] = "closed" /\ total'[c] = total[c] /\ line'[c] = line[c]]_vars

(* Only reopenCount brings a submitted or reviewed count back to counting: *)
(* a promotion that runs late, after the count was submitted, does not.    *)
OnlyReopenReopens ==
  [][\A c \in Counts :
       ~IsCountWritable(status[c]) /\ status[c] # "unopened" /\ IsCountWritable(status'[c])
         => ReopenCount(c)]_vars

(* Invariant 2: the price a line was first counted at is never re-read,    *)
(* and a recorded write is never changed or removed.                       *)
SnapshotsAndLedgerAreKept ==
  [][/\ \A c \in Counts, s \in Slots :
          line[c][s] # NoLine =>
            line'[c][s] # NoLine /\ line'[c][s].price = line[c][s].price
     /\ \A w \in Writes : ledger[w] # NoEntry => ledger'[w] = ledger[w]]_vars

(* The book of counts CountLedger keeps: every step of requests, locks,    *)
(* retries and failures is a step of the book on the committed rows, or    *)
(* none.                                                                   *)
Book == INSTANCE CountBook

ImplementsCountBook == Book!Spec

(* Every write sent is eventually answered: no handler waits for ever on a *)
(* row lock, and a lost reply is followed by a resend.                     *)
EveryWriteAnswered ==
  \A w \in Writes : outcome[w] = "pending" ~> outcome[w] \in {"ok", "refused"}

=============================================================================
