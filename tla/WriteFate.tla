----------------------------- MODULE WriteFate -----------------------------
(***************************************************************************)
(* What the counting screen promises about each thing the counter enters.  *)
(*                                                                         *)
(* An entry is shown at once ("made"), is soon kept in the browser's       *)
(* durable queue ("kept"), and leaves it in one of two ways: the server    *)
(* counts it, or the server refuses it.  A refused entry is dropped first  *)
(* ("dropped") and then named to the counter ("refused"); it goes unsaid   *)
(* ("unheard") only if the leg that drops it was left or closed.  An entry *)
(* is lost only if the tab goes away before the queue has it, or the       *)
(* browser's store refuses it.  A refusal is not quite final: a copy of    *)
(* the request may still be under way and be counted, and a flush that     *)
(* read the entry earlier may put it back.  What is counted stays counted. *)
(*                                                                         *)
(* The promise of lib/count-queue.ts and components/count/count-leg.tsx;   *)
(* CountClient implements it (ImplementsWriteFate there).                  *)
(***************************************************************************)
CONSTANT Writes

VARIABLES
  fate,     \* of each entry
  astray    \* the entries a leg that was left may still be sending

Init == fate = [w \in Writes |-> "new"] /\ astray = {}

(* One entry's fate turns.  Nothing goes astray unless a leg is left.      *)
Turn(w, from, to) ==
  /\ fate[w] \in from
  /\ fate' = [fate EXCEPT ![w] = to]
  /\ astray' \subseteq astray

Make(w)    == Turn(w, {"new"}, "made")
Reject(w)  == Turn(w, {"made"}, "lost")
Keep(w)    == Turn(w, {"made", "dropped", "unheard"}, "kept")
Count(w)   == Turn(w, {"kept", "dropped", "unheard", "refused"}, "counted")
Drop(w)    == Turn(w, {"kept", "unheard"}, "dropped")
Name(w)    == Turn(w, {"dropped", "kept"}, "refused")
Unheard(w) == w \in astray /\ Turn(w, {"kept"}, "unheard")

(* A leg is left or the tab goes away: entries still on their way into the *)
(* queue may be lost, and entries just dropped are never named.            *)
GoAway ==
  /\ \E gone \in SUBSET {w \in Writes : fate[w] \in {"made", "dropped"}} :
       fate' = [w \in Writes |->
                  IF w \notin gone THEN fate[w]
                  ELSE IF fate[w] = "made" THEN "lost" ELSE "unheard"]
  /\ astray' \subseteq Writes

(* What a leg that was left had started is done.                           *)
Settle == astray' \subseteq astray /\ UNCHANGED fate

Next ==
  \/ \E w \in Writes :
       Make(w) \/ Reject(w) \/ Keep(w) \/ Count(w) \/ Drop(w) \/ Name(w) \/ Unheard(w)
  \/ GoAway
  \/ Settle

Spec == Init /\ [][Next]_<<fate, astray>>

=============================================================================
