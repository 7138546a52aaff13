---------------------------- MODULE CountClient ----------------------------
(***************************************************************************)
(* The counting screen of one device: components/count/count-leg.tsx and   *)
(* its durable queue, lib/count-queue.ts, against a server that keeps a    *)
(* book of counts (CountBook, which CountLedger implements).               *)
(*                                                                         *)
(* Every call of the async runWrite, and every run of flush, is a context  *)
(* that advances from await to await; contexts, the server, the counter's  *)
(* taps and the supervisor interleave at every await.  A call may throw at *)
(* the client while its request is still on its way, and the browser's     *)
(* store may reject an operation.  A leg that is left for another screen   *)
(* is gone, but what it started runs on, with nobody to tell; closing or   *)
(* reloading the tab loses everything but the queue.                       *)
(***************************************************************************)
EXTENDS CountScreen

CONSTANTS
  MaxWrites,    \* bound: the writes the counter makes
  Flushes,      \* bound: runs of flush that may overlap
  NoEntry,      \* the ledger has no row for that client_line_id
  NoWrite,      \* no rapid scan under way
  MaxFaults     \* bound: calls that throw, rejections of the store, legs
                \* left, reloads, and refusals the server would not repeat

(* The ids newWriteId mints, numbered in the order the counter makes the    *)
(* writes (createdAt); also names the runWrite of each.                    *)
Writes == 1..MaxWrites

Callers == Writes \cup Flushes

ASSUME ClientAssumption ==
  /\ MaxWrites \in Nat /\ MaxFaults \in Nat
  /\ Writes \cap Flushes = {} /\ IsFiniteSet(Flushes)
  /\ NoWrite \notin Writes

VARIABLES
  \* the server: CountBook
  status, total, line, ledger, intent,
  applied,     \* how often each write took effect
  late,        \* requests under way whose caller is gone, by write
  \* the browser's IndexedDB
  queued,
  \* the browser
  offline,     \* it has noticed that the network is gone
  orphans,     \* the contexts whose leg is gone from the screen
  \* the tab
  made,        \* how many writes the counter made
  stage,       \* where the runWrite of each write is
  before,      \* the local line runWrite captured for its undo
  lines,       \* the lines on screen
  busy,        \* disables the submit buttons of entry screens
  rapid,       \* rapidInFlight: the rapid scan being written
  due,         \* the flushes started that have not read the queue yet
  todo,        \* the rest of each flush's snapshot of the queue
  call,        \* the outstanding server call of each context
  refused,     \* the writes dropped because the server refused them
  named,       \* those of them the counter was told of
  faults

book   == <<status, total, line, ledger, intent>>
server == <<book, applied, late>>
view   == <<lines, busy, rapid>>
runs   == <<made, stage, before>>
flush  == <<due, todo>>
news   == <<refused, named>>
vars   == <<server, queued, offline, orphans, runs, view, flush, call, news, faults>>

Book == INSTANCE CountBook

NoCall == [state |-> "none", row |-> NoLine]
Sent   == [state |-> "sent", row |-> NoLine]

(* The write a context is calling the server for.                          *)
WriteOf(a) == IF a \in Flushes THEN Head(todo[a]) ELSE a

Row(w) == line[intent[w].count][intent[w].slot]

(* A flush to start.                                                       *)
Idle(f) == f \notin due /\ todo[f] = <<>>

Running(a) == IF a \in Flushes THEN ~Idle(a) ELSE stage[a] \in {"enqueue", "await"}

(* An operation of the store is rejected.                                  *)
StoreRejects == faults < MaxFaults /\ faults' = faults + 1

(* pendingFor: the queue oldest first, which one sequence is.              *)
PendingFor ==
  {p \in [1..Cardinality(queued) -> queued] :
     /\ Range(p) = queued
     /\ \A i, j \in DOMAIN p : i < j => p[i] < p[j]}

-----------------------------------------------------------------------------
(* Mistake: the screen keeps the server's row as it is, its cost included. *)
WholeRow(row) == row

(* What the screen adopts of the server's row.                             *)
Adopted(row) == Local(row)

(* What the page load gives the leg: the lines the server has.             *)
InitialLines == [s \in Slots |-> Shown(line[CHOOSE c \in Counts : TRUE][s])]

Init ==
  /\ Book!Init
  /\ applied = [w \in Writes |-> 0]
  /\ late = [w \in Writes |-> 0]
  /\ queued = {}
  /\ made = 0
  /\ stage = [w \in Writes |-> "new"]
  /\ before = [w \in Writes |-> NoLine]
  /\ lines = [s \in Slots |-> NoLine]
  /\ busy = FALSE
  /\ rapid = NoWrite
  /\ offline = FALSE /\ orphans = {}
  /\ due = {} /\ todo = [f \in Flushes |-> <<>>]
  /\ call = [a \in Callers |-> NoCall]
  /\ refused = {} /\ named = {}
  /\ faults = 0

-----------------------------------------------------------------------------
(* The counter.                                                            *)

(* Which entry screen is open is not kept: a search result, a stray bottle, *)
(* a scan or a fresh enrolment opens any product's, and Back leaves it at  *)
(* any time, also while its write is being sent.  What matters of a scan   *)
(* that opens one is the finally block of onBarcode: it clears busy,       *)
(* whoever set it.                                                         *)
OnBarcode ==
  /\ busy
  /\ busy' = FALSE
  /\ UNCHANGED <<server, queued, offline, orphans, runs, lines, rapid, flush, call, news, faults>>

(* runWrite up to its first await: capture the line, show the write.       *)
RunWrite(w) ==
  LET s == intent[w].slot
  IN  /\ w = made + 1
      /\ status[intent[w].count] # "unopened"
      /\ made' = w
      /\ stage' = [stage EXCEPT ![w] = "enqueue"]
      /\ before' = [before EXCEPT ![w] = lines[s]]
      /\ \E p \in Prices :
           lines' = [lines EXCEPT ![s] = Optimistic(lines[s], intent[w], p.caseSize)]
      /\ busy' = TRUE
      /\ UNCHANGED <<server, queued, offline, orphans, flush, call, news, faults>>

(* The entry screen's submit.                                              *)
SubmitEntry(w) ==
  /\ ~busy
  /\ Offered(lines[intent[w].slot], intent[w])
  /\ RunWrite(w)
  /\ UNCHANGED rapid

(* A rapid scan, where only quantities are counted: one sealed unit, and   *)
(* one rapid write at a time.  Its lookup precedes the write and changes   *)
(* no line.                                                                *)
RapidScan(w) ==
  /\ rapid = NoWrite
  /\ Location(intent[w].slot) \in Sealed
  /\ intent[w].op = "increment" /\ intent[w].fills = <<>>
  /\ intent[w].cases + intent[w].eaches = 1
  /\ RunWrite(w)
  /\ rapid' = w

-----------------------------------------------------------------------------
(* runWrite, between awaits.                                               *)

(* The end of runWrite; a rapid scan's finally block lets the next one in. *)
EndRun(w) ==
  /\ stage' = [stage EXCEPT ![w] = "done"]
  /\ before' = [before EXCEPT ![w] = NoLine]
  /\ rapid' = IF rapid = w THEN NoWrite ELSE rapid
  /\ orphans' = orphans \ {w}

(* It ends with setBusy(false), if there still is a leg to hear it; or the *)
(* store rejects what it awaits, nothing catches that, and busy stays.     *)
Finish(w)  == EndRun(w) /\ busy' = (busy /\ w \in orphans) /\ UNCHANGED faults
Abandon(w) == EndRun(w) /\ StoreRejects /\ UNCHANGED busy

(* enqueue, then the call at once, unless refreshPending fails in between. *)
(* Puts reach the store in the order they were issued.                     *)
Enqueue(w) ==
  /\ stage[w] = "enqueue"
  /\ \A v \in 1..(w - 1) : stage[v] # "enqueue"
  /\ queued' = queued \cup {w}
  /\ \/ /\ stage' = [stage EXCEPT ![w] = "await"]
        /\ call' = [call EXCEPT ![w] = Sent]
        /\ UNCHANGED <<before, busy, rapid, orphans, faults>>
     \/ Abandon(w) /\ UNCHANGED call
  /\ UNCHANGED <<server, offline, made, lines, flush, news>>

(* enqueue is rejected: the line is shown, and nobody has the write.       *)
EnqueueRejected(w) ==
  /\ stage[w] = "enqueue"
  /\ stage' = [stage EXCEPT ![w] = "lost"]
  /\ before' = [before EXCEPT ![w] = NoLine]
  /\ rapid' = IF rapid = w THEN NoWrite ELSE rapid
  /\ orphans' = orphans \ {w}
  /\ StoreRejects
  /\ UNCHANGED <<server, queued, offline, made, lines, busy, flush, call, news>>

(* A refusal undoes the line of this write, if its leg is still there.     *)
Undone(a) ==
  IF a \in Writes \ orphans /\ call[a].state = "refused"
  THEN [lines EXCEPT ![intent[a].slot] = before[a]] ELSE lines

(* Any answer drops the write, before anything is made of it.              *)
Dequeue(a) ==
  /\ call[a].state \in {"ok", "refused"}
  /\ queued' = queued \ {WriteOf(a)}
  /\ refused' = IF call[a].state = "ok" THEN refused ELSE refused \cup {WriteOf(a)}
  /\ lines' = Undone(a)
  /\ call' = [call EXCEPT ![a].state = IF @ = "ok" THEN "okDropped" ELSE "refusedDropped"]
  /\ UNCHANGED <<server, offline, orphans, runs, busy, rapid, flush, named, faults>>

(* runWrite's dequeue is rejected, and nothing is made of the answer.      *)
DequeueRejected(w) ==
  /\ call[w].state \in {"ok", "refused"}
  /\ lines' = Undone(w)
  /\ call' = [call EXCEPT ![w] = NoCall]
  /\ Abandon(w)
  /\ UNCHANGED <<server, queued, offline, made, flush, news>>

(* runWrite adopts the server's row and id, if the line is still shown.    *)
RunAccepted(w) ==
  LET s == intent[w].slot
  IN  /\ call[w].state = "okDropped"
      /\ lines' = IF lines[s] = NoLine \/ w \in orphans THEN lines
                  ELSE [lines EXCEPT ![s] = Adopted(call[w].row)]
      /\ call' = [call EXCEPT ![w] = NoCall]
      /\ Finish(w) \/ Abandon(w)
      /\ UNCHANGED <<server, queued, offline, made, flush, news>>

(* The message reaches nobody when the leg of the call is gone.            *)
Named(a) == IF a \in orphans THEN named ELSE named \cup {WriteOf(a)}

RunRefused(w) ==
  /\ call[w].state = "refusedDropped"
  /\ named' = Named(w)
  /\ call' = [call EXCEPT ![w] = NoCall]
  /\ Finish(w) \/ Abandon(w)
  /\ UNCHANGED <<server, queued, offline, made, lines, flush, refused>>

-----------------------------------------------------------------------------
(* flush.                                                                  *)

(* Nothing of a flush is left to run once its snapshot is worked off.      *)
Work(f, rest) ==
  /\ todo' = [todo EXCEPT ![f] = rest]
  /\ orphans' = IF rest = <<>> THEN orphans \ {f} ELSE orphans

GoOffline ==
  /\ ~offline
  /\ offline' = TRUE
  /\ UNCHANGED <<server, queued, orphans, runs, view, flush, call, news, faults>>

(* The browser's online event starts a flush.                              *)
Online(f) ==
  /\ offline /\ Idle(f)
  /\ offline' = FALSE
  /\ due' = due \cup {f}
  /\ UNCHANGED <<server, queued, orphans, runs, view, todo, call, news, faults>>

(* Mistake: flush replays the newest write first.                          *)
FlushNewestFirst(f) ==
  /\ f \in due
  /\ due' = due \ {f}
  /\ \E p \in PendingFor : Work(f, [i \in DOMAIN p |-> p[Len(p) + 1 - i]])
  /\ UNCHANGED <<server, queued, offline, runs, view, call, news, faults>>

(* It takes a snapshot of the queue, unless pendingFor is rejected.        *)
Flush(f) ==
  /\ f \in due
  /\ due' = due \ {f}
  /\ \/ \E p \in PendingFor : Work(f, p) /\ UNCHANGED faults
     \/ Work(f, <<>>) /\ StoreRejects
  /\ UNCHANGED <<server, queued, offline, runs, view, call, news>>

(* sendQueued for the next write of the snapshot, whatever happened to it  *)
(* since the snapshot was taken.                                           *)
SendQueued(f) ==
  /\ todo[f] # <<>>
  /\ call[f] = NoCall
  /\ call' = [call EXCEPT ![f] = Sent]
  /\ UNCHANGED <<server, queued, offline, orphans, runs, view, flush, news, faults>>

(* sendQueued names a write that was refused; the screen keeps what it     *)
(* shows.                                                                  *)
FlushAnswered(f) ==
  /\ call[f].state \in {"okDropped", "refusedDropped"}
  /\ named' = IF call[f].state = "okDropped" THEN named ELSE Named(f)
  /\ Work(f, Tail(todo[f]))
  /\ call' = [call EXCEPT ![f] = NoCall]
  /\ UNCHANGED <<server, queued, offline, runs, view, due, refused, faults>>

-----------------------------------------------------------------------------
(* Calls that throw, legs left, tabs closed.                               *)

(* The call throws, its request possibly still under way, or the dequeue   *)
(* in the try block of sendQueued is rejected; markAttempt has read the    *)
(* record ("marking") or found none.                                       *)
Throw(a) ==
  /\ call[a].state \in {"sent", "ok", "refused"}
  /\ faults < MaxFaults
  /\ faults' = faults + 1
  /\ late' = IF call[a].state = "sent" THEN [late EXCEPT ![WriteOf(a)] = @ + 1] ELSE late
  /\ call' = [call EXCEPT ![a] =
                [state |-> IF WriteOf(a) \in queued THEN "marking" ELSE "unmarked",
                 row |-> NoLine]]
  /\ UNCHANGED <<book, applied, queued, offline, orphans, runs, view, flush, news>>

(* Mistake: a write whose call threw leaves the queue.                     *)
MarkAttemptDropping(a) ==
  /\ call[a].state \in {"marking", "unmarked"}
  /\ queued' = queued \ {WriteOf(a)}
  /\ call' = [call EXCEPT ![a] = NoCall]
  /\ IF a \in Flushes
     THEN Work(a, <<>>) /\ UNCHANGED <<stage, before, busy, rapid, faults>>
     ELSE Finish(a) /\ UNCHANGED todo
  /\ UNCHANGED <<server, offline, made, lines, due, news>>

(* markAttempt's put writes back the record it read, also when the write   *)
(* was dequeued in between, or is rejected.  Then runWrite goes on as if   *)
(* it had succeeded, and flush gives up until the next one.                *)
MarkAttempt(a) ==
  /\ call[a].state \in {"marking", "unmarked"}
  /\ call' = [call EXCEPT ![a] = NoCall]
  /\ \E put \in BOOLEAN :
       /\ queued' = IF put /\ call[a].state = "marking" THEN queued \cup {WriteOf(a)} ELSE queued
       /\ IF a \in Flushes
          THEN /\ Work(a, <<>>)
               /\ IF put THEN UNCHANGED faults ELSE StoreRejects
               /\ UNCHANGED <<stage, before, busy, rapid>>
          ELSE /\ (put /\ Finish(a)) \/ Abandon(a)
               /\ UNCHANGED todo
  /\ UNCHANGED <<server, offline, made, lines, due, news>>

(* A leg shows the server's lines, and drains the queue.                   *)
Mount(f) ==
  /\ made > 0
  /\ faults < MaxFaults
  /\ faults' = faults + 1
  /\ before' = [w \in Writes |-> NoLine]
  /\ lines' = InitialLines
  /\ busy' = FALSE
  /\ rapid' = NoWrite

(* The counter leaves the leg for another screen, and opens it again.      *)
LeaveAndReturn(f) ==
  /\ Idle(f)
  /\ Mount(f)
  /\ due' = due \cup {f}
  /\ orphans' = {a \in Callers : Running(a)}
  /\ UNCHANGED <<server, queued, offline, made, stage, todo, call, news>>

(* The tab is closed or reloaded, and the leg opened again.                *)
Reload(f) ==
  /\ Mount(f)
  /\ due' = {f}
  /\ late' = [w \in Writes |->
                late[w] + Cardinality({a \in Callers : call[a] = Sent /\ WriteOf(a) = w})]
  /\ stage' = [w \in Writes |->
                 CASE stage[w] = "enqueue" -> "lost"
                   [] stage[w] = "await" -> "done"
                   [] OTHER -> stage[w]]
  /\ call' = [a \in Callers |-> NoCall]
  /\ todo' = [g \in Flushes |-> <<>>]
  /\ orphans' = {} /\ offline' = FALSE
  /\ UNCHANGED <<book, applied, queued, made, news>>

-----------------------------------------------------------------------------
(* The server.  What CountLedger does with a request of write w, as seen   *)
(* from outside: a replay is answered with success, a write is applied to  *)
(* the book, or it is refused - for good, because the count is not being   *)
(* counted, or because of a lock timeout or a database error, before or    *)
(* after the write took effect.                                            *)
Accept(w) ==
  /\ \E p \in Prices : Book!Apply(w, p)
  /\ applied' = [applied EXCEPT ![w] = @ + 1]

Handle(w, answer) ==
  \/ /\ ledger[w] # NoEntry
     /\ answer = "ok"
     /\ UNCHANGED <<book, applied, faults>>
  \/ /\ Accept(w)
     /\ answer = "ok"
     /\ UNCHANGED faults
  \/ /\ ~Book!Counting(intent[w].count)
     /\ ledger[w] = NoEntry
     /\ answer = "refused"
     /\ UNCHANGED <<book, applied, faults>>
  \/ /\ faults < MaxFaults
     /\ faults' = faults + 1
     /\ answer = "refused"
     /\ Accept(w) \/ UNCHANGED <<book, applied>>

Serve(a) ==
  /\ call[a] = Sent
  /\ \E answer \in {"ok", "refused"} :
       /\ Handle(WriteOf(a), answer)
       /\ call' = [call EXCEPT ![a] =
                     [state |-> answer,
                      row |-> IF answer = "ok"
                              THEN line'[intent[WriteOf(a)].count][intent[WriteOf(a)].slot]
                              ELSE NoLine]]
  /\ UNCHANGED <<late, queued, offline, orphans, runs, view, flush, news>>

(* A request whose caller is gone.                                         *)
ServeLate(w) ==
  /\ late[w] > 0
  /\ late' = [late EXCEPT ![w] = @ - 1]
  /\ \E answer \in {"ok", "refused"} : Handle(w, answer)
  /\ UNCHANGED <<queued, offline, orphans, runs, view, flush, call, news>>

(* Everybody else: the count is opened, submitted, brought back.  What     *)
(* else CountBook lets happen to it (Begin, Review, Close) a write cannot  *)
(* tell from these.                                                        *)
CountStep(c) ==
  /\ Book!Open(c) \/ Book!Submit(c) \/ Book!Reopen(c)
  /\ UNCHANGED <<applied, late, queued, offline, orphans, runs, view, flush, call, news, faults>>

-----------------------------------------------------------------------------
RunStep(w) ==
  \/ Enqueue(w) \/ EnqueueRejected(w)
  \/ Dequeue(w) \/ DequeueRejected(w)
  \/ RunAccepted(w) \/ RunRefused(w)
  \/ MarkAttempt(w)

FlushStep(f) == Flush(f) \/ SendQueued(f) \/ Dequeue(f) \/ FlushAnswered(f) \/ MarkAttempt(f)

Counter ==
  \/ OnBarcode
  \/ \E w \in Writes : SubmitEntry(w) \/ RapidScan(w)

Browser == GoOffline \/ \E f \in Flushes : Online(f)

Next ==
  \/ Counter
  \/ \E w \in Writes : RunStep(w) \/ ServeLate(w)
  \/ \E f \in Flushes : FlushStep(f) \/ LeaveAndReturn(f) \/ Reload(f)
  \/ \E a \in Callers : Serve(a) \/ Throw(a)
  \/ \E c \in Counts : CountStep(c)
  \/ Browser

Spec == Init /\ [][Next]_vars

-----------------------------------------------------------------------------
CallType ==
  [state : {"none", "sent", "ok", "okDropped", "refused", "refusedDropped",
            "marking", "unmarked"},
   row : RowType \cup {NoLine}]

TypeOK ==
  /\ intent \in [Writes -> Intents]
  /\ line \in [Counts -> [Slots -> RowType \cup {NoLine}]]
  /\ ledger \in [Writes -> EntryType \cup {NoEntry}]
  /\ applied \in [Writes -> Nat] /\ late \in [Writes -> Nat]
  /\ queued \subseteq Writes
  /\ offline \in BOOLEAN /\ orphans \subseteq Callers
  /\ made \in 0..MaxWrites
  /\ stage \in [Writes -> {"new", "enqueue", "await", "done", "lost"}]
  /\ before \in [Writes -> LocalType \cup {NoLine}]
  /\ lines \in [Slots -> LocalType \cup {NoLine}]
  /\ busy \in BOOLEAN
  /\ rapid \in Writes \cup {NoWrite}
  /\ due \subseteq Flushes /\ todo \in [Flushes -> Seq(Writes)]
  /\ call \in [Callers -> CallType]
  /\ \A a \in Callers : call[a] # NoCall => WriteOf(a) \in Writes
  /\ refused \subseteq Writes /\ named \subseteq Writes
  /\ faults \in 0..MaxFaults

(* A context of this leg has dropped the write and is about to name it.    *)
AboutToName(w) ==
  \E a \in Callers \ orphans : call[a].state = "refusedDropped" /\ WriteOf(a) = w

(* The fate of a write: one that is in no queue, was not counted and was   *)
(* not refused either would be "vanished", which WriteFate does not know.  *)
Fate(w) ==
  IF applied[w] > 0 THEN "counted"
  ELSE IF w \in named THEN "refused"
  ELSE IF w \in queued THEN "kept"
  ELSE IF w \in refused THEN IF AboutToName(w) THEN "dropped" ELSE "unheard"
  ELSE CASE stage[w] = "new"     -> "new"
         [] stage[w] = "enqueue" -> "made"
         [] stage[w] = "lost"    -> "lost"
         [] OTHER                -> "vanished"

(* The writes a context still has to deal with.                            *)
InHand(a) ==
  IF a \in Writes THEN {a} ELSE IF a \in due THEN Writes ELSE Range(todo[a])

Promise == INSTANCE WriteFate WITH
  fate   <- [w \in Writes |-> Fate(w)],
  astray <- UNION {InHand(a) : a \in orphans}

(* Every entry that reached the queue is kept, counted or refused, and a   *)
(* refusal goes unsaid only when the leg that dropped the write was left   *)
(* or closed; none vanishes on any path of thrown calls, reloads, legs     *)
(* left, overlapping flushes, refusals and rejections of the store.        *)
ImplementsWriteFate == Promise!Spec

SameLine(v, w) == intent[v].count = intent[w].count /\ intent[v].slot = intent[w].slot

(* The server has decided on write v, or nobody will ever ask it.          *)
Settled(v) == applied[v] > 0 \/ v \in refused \/ stage[v] = "lost"

(* Flushing replays a line's writes as they were made: when a flush gets a *)
(* write to the server, every earlier write to that line is settled.       *)
FlushReplaysInOrder ==
  [][\A f \in Flushes :
       call[f] = Sent /\ call'[f].state \in {"ok", "refused"} =>
         \A v \in Writes :
           SameLine(v, WriteOf(f)) /\ v < WriteOf(f) => Settled(v)]_vars

(* "Writes to the same line must replay as they were made, or a SET        *)
(* followed by an ADD replays as an ADD followed by a SET and lands on a   *)
(* different number": no write takes effect while an earlier one to its    *)
(* line waits in the queue.                                                *)
LineOrderKept ==
  [][\A v, w \in Writes :
       /\ applied'[w] > applied[w] /\ SameLine(v, w) /\ v < w
       /\ {intent[v].op, intent[w].op} # {"increment"}
       => ~(v \in queued /\ stage[v] = "done" /\ ~Settled(v))]_vars

=============================================================================
