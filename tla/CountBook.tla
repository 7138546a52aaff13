----------------------------- MODULE CountBook -----------------------------
(***************************************************************************)
(* What the count component promises, without requests, locks, retries or  *)
(* failures: a book of counts.  A write takes effect in one step, at most  *)
(* once, on the line as it is then, and only while its count is being      *)
(* counted; a count moves through its life; closing it stores the value of *)
(* its lines, and nothing happens to it afterwards.                        *)
(*                                                                         *)
(* Translated from the contract in the header of lib/domain/counts.ts and  *)
(* the transitions its exported functions allow; CountLedger implements it *)
(* (ImplementsCountBook there).                                            *)
(***************************************************************************)
EXTENDS CountLine

CONSTANTS Writes, NoEntry

VARIABLES status, total, line, ledger, intent

rows == <<status, total, line, ledger>>
bookVars == <<rows, intent>>

Counting(c) == status[c] \in {"draft", "in_progress"}

Init ==
  /\ status = [c \in Counts |-> "unopened"]
  /\ total = [c \in Counts |-> NULL]
  /\ line = [c \in Counts |-> [s \in Slots |-> NoLine]]
  /\ ledger = [w \in Writes |-> NoEntry]
  /\ intent \in [Writes -> Intents]

(* A write takes effect on the line as it is: an increment adds to it, or  *)
(* creates it at some price of the product; a correction sets what it      *)
(* corrects.  Its id is used up, a replacement of fills excepted.          *)
Apply(w, price) ==
  LET i == intent[w]
      row == line[i.count][i.slot]
  IN  /\ Counting(i.count)
      /\ i.op # "increment" => row # NoLine
      /\ line' = [line EXCEPT ![i.count][i.slot] = NewRow(row, i, price)]
      /\ IF i.op = "fills"
         THEN UNCHANGED ledger
         ELSE /\ ledger[w] = NoEntry
              /\ ledger' = [ledger EXCEPT ![w] = EntryOf(row, i)]
      /\ UNCHANGED <<status, total, intent>>

Move(c, from, to) ==
  /\ status[c] \in from
  /\ status' = [status EXCEPT ![c] = to]
  /\ UNCHANGED <<total, line, ledger, intent>>

Open(c)   == Move(c, {"unopened"}, "draft")
Begin(c)  == Move(c, {"draft"}, "in_progress")
Submit(c) == Move(c, {"draft", "in_progress"}, "submitted")
Review(c) == Move(c, {"submitted"}, "reviewed")
Reopen(c) == Move(c, {"submitted", "reviewed"}, "in_progress")

Close(c) ==
  /\ status[c] = "reviewed"
  /\ status' = [status EXCEPT ![c] = "closed"]
  /\ total' = [total EXCEPT ![c] = SummarizeValuation(line[c]).totalValue]
  /\ UNCHANGED <<line, ledger, intent>>

Next ==
  \/ \E w \in Writes, price \in Prices : Apply(w, price)
  \/ \E c \in Counts : \/ Open(c) \/ Begin(c) \/ Submit(c)
                       \/ Review(c) \/ Reopen(c) \/ Close(c)

Spec == Init /\ [][Next]_bookVars

=============================================================================
