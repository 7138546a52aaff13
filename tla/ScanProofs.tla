----------------------------- MODULE ScanProofs -----------------------------
(***************************************************************************)
(* What Scan keeps, for any number of sections, barcodes, products and     *)
(* calls under way at once, and any cooldown.  The inductive invariant     *)
(* adds to what the runs check what a call of each kind carries, which     *)
(* screens can be shown, when the guard is disarmed, that at most one      *)
(* rapid scan is under way, and whose busy flag is up.                     *)
(***************************************************************************)
EXTENDS Scan, TLAPS

(* What a call of each kind carries.                                       *)
Sensible(c) ==
  /\ c.kind \in {"lookup", "lookupRapid", "link", "create", "owner"} => c.code \in Codes
  /\ c.kind \in {"rapid", "entry", "link", "create"} => c.product \in AnyProduct
  /\ c.kind = "create" => c.product = New(c.code)
  /\ c.kind \in {"link", "create"} /\ c.state = "ok" => c.answer \in AnyProduct
  /\ c.state = "alone" => c.kind \in {"link", "create"}
  /\ c.kind \in {"lookup", "lookupRapid"} => c.leg = c.meant

CallsMakeSense == \A k \in Calls : call[k] # NoCall => Sensible(call[k])

(* Nothing is under way before a section is picked, a size is confirmed    *)
(* only of a match, and rapid mode is on only where it was asked for.      *)
ScreensMakeSense ==
  /\ leg = NoLeg => phase = Picking /\ \A k \in Calls : call[k] = NoCall
  /\ phase.kind = "enroll" /\ phase.mode = "confirm" => phase.product # Nobody
  /\ phase.kind = "entry" => phase.leg = phase.meant \/ phase.enrolled
  /\ rapid => asked = leg

(* A bottle that has counted and was seen ever since has disarmed the      *)
(* guard.                                                                  *)
DisarmedWhileSeen ==
  /\ view = Nothing => hits = 0
  /\ hits > 0 /\ blink = "none" => ~armed

(* Rapid scans do not overlap.                                             *)
OneRapid ==
  \A j, k \in Calls :
    Under(j, {"lookupRapid", "rapid"}) /\ Under(k, {"lookupRapid", "rapid"}) => j = k

(* A write under way keeps busy up until somebody else clears it.          *)
BusyUnlessCleared == \A k \in Calls : Writing(k) /\ ~call[k].cleared => busy

IInv ==
  /\ TypeOK /\ CallsMakeSense /\ ScreensMakeSense
  /\ DisarmedWhileSeen /\ CountedTwiceOnlyAfterBlink
  /\ OneRapid /\ BusyUnlessCleared /\ BusyIsSomebodys
  /\ EnrolledOnce

-----------------------------------------------------------------------------
(* Calls.                                                                  *)

Kinds == {"lookup", "lookupRapid", "rapid", "entry", "link", "create", "owner"}

(* The call an action starts.                                              *)
LEMMA NewCall ==
  ASSUME NEW kind \in Kinds, NEW code \in Codes \cup {Nothing},
         NEW p \in AnyProduct \cup {Nobody}, NEW l \in Legs, NEW m \in Legs,
         NEW c, c = Call(kind, code, p, l, m)
  PROVE  /\ c \in CallType /\ c # NoCall
         /\ c.kind = kind /\ c.code = code /\ c.product = p
         /\ c.leg = l /\ c.meant = m /\ c.state = "sent"
  <1>1. c.kind = kind /\ c.code = code /\ c.product = p
         /\ c.leg = l /\ c.meant = m /\ c.state = "sent"
    BY DEF Call
  <1>2. c \in CallType
    BY DEF Call, CallType, Kinds
  <1> QED  BY <1>1, <1>2, ScanAssumption

(* One whose caller is gone, or went on after a throw.                     *)
LEMMA MovedCall ==
  ASSUME NEW c \in CallType, NEW st \in {"thrown", "alone"}, NEW d, d = [c EXCEPT !.state = st]
  PROVE  /\ d \in CallType /\ d # NoCall
         /\ d.kind = c.kind /\ d.code = c.code /\ d.product = c.product
         /\ d.leg = c.leg /\ d.meant = c.meant /\ d.cleared = c.cleared
         /\ d.state = st /\ d.answer = c.answer
  BY ScanAssumption DEF CallType

(* Somebody else's busy = FALSE.                                           *)
LEMMA ClearedCall ==
  ASSUME NEW c \in CallType, NEW d, d = [c EXCEPT !.cleared = TRUE]
  PROVE  /\ d \in CallType /\ d # NoCall
         /\ d.kind = c.kind /\ d.code = c.code /\ d.product = c.product
         /\ d.leg = c.leg /\ d.meant = c.meant /\ d.cleared = TRUE
         /\ d.state = c.state /\ d.answer = c.answer
  BY ZenonT(30), ScanAssumption DEF CallType

(* What happens to one call leaves the others alone.                       *)
LEMMA OneCallChanges ==
  ASSUME TypeOK, CallsMakeSense, NEW k \in Calls, NEW c,
         c = NoCall \/ (c \in CallType /\ Sensible(c)),
         call' = [call EXCEPT ![k] = c]
  PROVE  /\ call' \in [Calls -> CallType \cup {NoCall}]
         /\ CallsMakeSense'
         /\ call'[k] = c
         /\ \A j \in Calls : j # k => call'[j] = call[j]
  BY DEF TypeOK, CallsMakeSense, Sensible

(* The end of a call that clears busy marks the writes, and no more.       *)
LEMMA EndAndClearStep ==
  ASSUME TypeOK, CallsMakeSense, NEW k \in Calls, EndAndClear(k)
  PROVE  /\ busy' = FALSE /\ stranded' = FALSE
         /\ call' \in [Calls -> CallType \cup {NoCall}]
         /\ CallsMakeSense'
         /\ call'[k] = NoCall
         /\ \A j \in Calls : call[j] = NoCall => call'[j] = NoCall
         /\ \A j \in Calls : j # k /\ call[j] # NoCall =>
              /\ call'[j] # NoCall
              /\ call'[j].kind = call[j].kind /\ call'[j].state = call[j].state
              /\ Writing(j) => call'[j].cleared
  <1>1. ASSUME NEW j \in Calls, j # k, call[j] # NoCall
        PROVE  /\ call'[j] \in CallType /\ call'[j] # NoCall /\ Sensible(call'[j])
               /\ call'[j].kind = call[j].kind /\ call'[j].state = call[j].state
               /\ Writing(j) => call'[j].cleared
    <2>1. call[j] \in CallType /\ Sensible(call[j])
      BY <1>1 DEF TypeOK, CallsMakeSense
    <2>2. CASE Writing(j)
      <3>1. call'[j] = [call[j] EXCEPT !.cleared = TRUE]
        BY <1>1, <2>2 DEF EndAndClear
      <3>2. /\ call'[j] \in CallType /\ call'[j] # NoCall
            /\ call'[j].kind = call[j].kind /\ call'[j].code = call[j].code
            /\ call'[j].product = call[j].product
            /\ call'[j].leg = call[j].leg /\ call'[j].meant = call[j].meant
            /\ call'[j].cleared = TRUE
            /\ call'[j].state = call[j].state /\ call'[j].answer = call[j].answer
        BY ZenonT(30), <2>1, <3>1, ClearedCall
      <3> QED  BY <2>1, <3>2 DEF Sensible
    <2>3. CASE ~Writing(j)
      <3>1. call'[j] = call[j]
        BY <1>1, <2>3 DEF EndAndClear
      <3> QED  BY <1>1, <2>1, <2>3, <3>1 DEF Sensible
    <2> QED  BY <2>2, <2>3
  <1>2. /\ busy' = FALSE /\ stranded' = FALSE /\ call'[k] = NoCall
        /\ \A j \in Calls : call[j] = NoCall => call'[j] = NoCall
    BY DEF EndAndClear, Writing, Under
  <1>3. /\ call' = [j \in Calls |-> call'[j]]
        /\ \A j \in Calls : call'[j] \in CallType \cup {NoCall}
    BY <1>1, <1>2 DEF EndAndClear
  <1>4. call' \in [Calls -> CallType \cup {NoCall}]
    BY <1>3
  <1>5. CallsMakeSense'
    BY <1>1, <1>2 DEF CallsMakeSense, Sensible
  <1> QED  BY <1>1, <1>2, <1>4, <1>5

-----------------------------------------------------------------------------
(* What one step does to the calls, to busy and to inFlight.               *)

OthersSame(k) == \A j \in Calls : j # k => call'[j] = call[j]

Starts(k, kinds) ==
  /\ call[k] = NoCall /\ leg # NoLeg /\ OthersSame(k)
  /\ call'[k] # NoCall /\ call'[k].kind \in kinds /\ call'[k].state = "sent"

Continues(k) ==
  /\ call[k] # NoCall /\ OthersSame(k)
  /\ call'[k] # NoCall /\ call'[k].kind = call[k].kind /\ call'[k].cleared = call[k].cleared
  /\ call[k].state = "alone" => call'[k].state = "alone"

GoesOnToWrite(k) ==
  /\ Under(k, {"lookupRapid"}) /\ OthersSame(k)
  /\ call'[k] # NoCall /\ call'[k].kind = "rapid"

(* A refused link or create goes on to ask for the owner.                  *)
GoesOnToAsk(k) ==
  /\ Under(k, {"link", "create"}) /\ OthersSame(k)
  /\ call'[k] # NoCall /\ call'[k].kind = "owner"

Ends(k, kinds) == Under(k, kinds) /\ call'[k] = NoCall /\ OthersSame(k)

Typed == call' \in [Calls -> CallType \cup {NoCall}] /\ CallsMakeSense'

CallStep ==
  /\ Typed
  /\ \/ UNCHANGED <<call, gates>>
     \/ \E k \in Calls :
          \/ Starts(k, {"lookup"}) /\ busy' = TRUE /\ UNCHANGED <<stranded, inFlight>>
          \/ /\ Starts(k, {"lookupRapid"}) /\ ~inFlight
             /\ inFlight' = TRUE /\ busy' = TRUE /\ UNCHANGED stranded
          \/ Starts(k, {"entry"}) /\ ~busy /\ busy' = TRUE /\ UNCHANGED <<stranded, inFlight>>
          \/ Starts(k, {"link", "create"}) /\ UNCHANGED gates
          \/ Continues(k) /\ UNCHANGED gates
          \/ GoesOnToWrite(k) /\ busy' = TRUE /\ UNCHANGED <<stranded, inFlight>>
          \/ GoesOnToAsk(k) /\ UNCHANGED gates
          \/ Ends(k, {"link", "create", "owner"}) /\ UNCHANGED gates
          \/ /\ Ends(k, {"entry", "rapid"}) /\ UNCHANGED busy /\ stranded' = busy
             /\ inFlight' = IF Under(k, {"rapid"}) THEN FALSE ELSE inFlight
          \/ /\ EndAndClear(k) /\ Under(k, {"lookup", "lookupRapid", "rapid", "entry"})
             /\ inFlight' = IF Under(k, {"lookupRapid", "rapid"}) THEN FALSE ELSE inFlight

(* Where the counting screen or a later one is shown, a section is picked, *)
(* and so where a call is under way.                                       *)
LEMMA SectionPicked ==
  ASSUME TypeOK, ScreensMakeSense
  PROVE  /\ phase.kind # "pick" => leg \in Legs
         /\ \A k \in Calls : call[k] # NoCall => leg \in Legs
  BY DEF TypeOK, ScreensMakeSense, Picking

(* An ordinary scan starts a lookup.                                       *)
LEMMA OnBarcodeStep ==
  ASSUME TypeOK, CallsMakeSense, ScreensMakeSense, OnBarcode
  PROVE  CallStep
  <1>1. PICK c : c = Call("lookup", view, Nobody, leg, leg)
    OBVIOUS
  <1>2. PICK k \in Calls : call[k] = NoCall /\ call' = [call EXCEPT ![k] = c]
    BY <1>1 DEF OnBarcode
  <1>3. leg \in Legs /\ leg # NoLeg
    BY SectionPicked, ScanAssumption DEF OnBarcode, Mounted, Counting
  <1>4. view \in Codes
    BY DEF OnBarcode, TypeOK
  <1>5. /\ c \in CallType /\ c # NoCall /\ c.kind = "lookup" /\ c.code = view
        /\ c.leg = c.meant /\ c.state = "sent"
    <2>1. /\ "lookup" \in Kinds /\ view \in Codes \cup {Nothing}
          /\ Nobody \in AnyProduct \cup {Nobody}
      BY <1>4 DEF Kinds
    <2> QED  BY <1>1, <1>3, <2>1, NewCall
  <1>6. Sensible(c)
    BY <1>4, <1>5 DEF Sensible
  <1>7. Typed /\ call'[k] = c /\ OthersSame(k)
    BY <1>2, <1>5, <1>6, OneCallChanges DEF Typed, OthersSame
  <1>8. Starts(k, {"lookup"}) /\ busy' = TRUE /\ UNCHANGED <<stranded, inFlight>>
    BY <1>2, <1>3, <1>5, <1>7 DEF Starts, OnBarcode
  <1> QED  BY <1>7, <1>8 DEF CallStep

(* A rapid scan starts its lookup, if the last one is over.                *)
LEMMA RapidScanStep ==
  ASSUME TypeOK, CallsMakeSense, ScreensMakeSense, Frame
  PROVE  CallStep
  <1>1. CASE UNCHANGED <<gates, call>>
    BY <1>1 DEF CallStep, Typed, TypeOK, CallsMakeSense
  <1>2. ASSUME view # Nothing, RapidScan(view), ~inFlight
        PROVE  CallStep
    <2>1. PICK c : c = Call("lookupRapid", view, Nobody, leg, leg)
      OBVIOUS
    <2>2. PICK k \in Calls : call[k] = NoCall /\ call' = [call EXCEPT ![k] = c]
      BY <1>2, <2>1 DEF RapidScan
    <2>3. leg \in Legs /\ leg # NoLeg
      BY SectionPicked, ScanAssumption DEF Frame, Mounted, Counting
    <2>4. view \in Codes
      BY <1>2 DEF TypeOK
    <2>5. /\ c \in CallType /\ c # NoCall /\ c.kind = "lookupRapid" /\ c.code = view
          /\ c.leg = c.meant /\ c.state = "sent"
      <3>1. /\ "lookupRapid" \in Kinds /\ view \in Codes \cup {Nothing}
            /\ Nobody \in AnyProduct \cup {Nobody}
        BY <2>4 DEF Kinds
      <3> QED  BY <2>1, <2>3, <3>1, NewCall
    <2>6. Sensible(c)
      BY <2>4, <2>5 DEF Sensible
    <2>7. Typed /\ call'[k] = c /\ OthersSame(k)
      BY <2>2, <2>5, <2>6, OneCallChanges DEF Typed, OthersSame
    <2>8. /\ Starts(k, {"lookupRapid"}) /\ ~inFlight
          /\ inFlight' = TRUE /\ busy' = TRUE /\ UNCHANGED stranded
      BY <1>2, <2>2, <2>3, <2>5, <2>7 DEF Starts, RapidScan
    <2> QED  BY <2>7, <2>8 DEF CallStep
  <1>3. UNCHANGED <<gates, call>> \/ (view # Nothing /\ RapidScan(view))
    <2>1. PICK seen : /\ seen \in {view, Nothing}
                      /\ IF Accepts(seen) THEN RapidScan(seen)
                         ELSE UNCHANGED <<gates, call>>
      BY DEF Frame
    <2>2. CASE Accepts(seen)
      <3>1. seen = view /\ view # Nothing
        BY <2>1, <2>2 DEF Accepts
      <3> QED  BY <2>1, <2>2, <3>1, Zenon
    <2> QED  BY <2>1, <2>2
  <1> QED  BY <1>1, <1>2, <1>3 DEF RapidScan

(* A submit of an entry screen starts its write.                           *)
LEMMA SubmitStep ==
  ASSUME TypeOK, CallsMakeSense, ScreensMakeSense, NEW k \in Calls, Submit(k)
  PROVE  CallStep
  <1>1. PICK c : c = Call("entry", Nothing, phase.product, phase.leg, phase.leg)
    OBVIOUS
  <1>2. call[k] = NoCall /\ call' = [call EXCEPT ![k] = c] /\ phase.kind = "entry"
    BY <1>1 DEF Submit, SubmitAnytime
  <1>3. phase.product \in AnyProduct /\ phase.leg \in Legs /\ leg # NoLeg
    BY <1>2, SectionPicked, ScanAssumption DEF TypeOK, PhaseType, Picking, Counting
  <1>4. /\ c \in CallType /\ c # NoCall /\ c.kind = "entry" /\ c.product = phase.product
        /\ c.state = "sent"
    <2>1. /\ "entry" \in Kinds /\ Nothing \in Codes \cup {Nothing}
          /\ phase.product \in AnyProduct \cup {Nobody}
      BY <1>3 DEF Kinds
    <2> QED  BY <1>1, <1>3, <2>1, NewCall
  <1>5. Sensible(c)
    BY <1>3, <1>4 DEF Sensible
  <1>6. Typed /\ call'[k] = c /\ OthersSame(k)
    BY <1>2, <1>4, <1>5, OneCallChanges DEF Typed, OthersSame
  <1>7. Starts(k, {"entry"}) /\ ~busy /\ busy' = TRUE /\ UNCHANGED <<stranded, inFlight>>
    BY <1>2, <1>3, <1>4, <1>6 DEF Starts, Submit, SubmitAnytime
  <1> QED  BY <1>6, <1>7 DEF CallStep

(* The enrol form starts a link of the match, or a create.                 *)
LEMMA SubmitFormStep ==
  ASSUME TypeOK, CallsMakeSense, ScreensMakeSense, NEW k \in Calls, SubmitForm(k)
  PROVE  CallStep
  <1>1. PICK kind : kind = IF phase.mode = "confirm" THEN "link" ELSE "create"
    OBVIOUS
  <1>2. PICK p : p = IF phase.mode = "confirm" THEN phase.product ELSE New(phase.code)
    OBVIOUS
  <1>3. PICK c : c = Call(kind, phase.code, p, leg, phase.meant)
    OBVIOUS
  <1>4. call[k] = NoCall /\ call' = [call EXCEPT ![k] = c] /\ phase.kind = "enroll"
    BY <1>1, <1>2, <1>3 DEF SubmitForm
  <1>5. leg \in Legs /\ leg # NoLeg
    BY <1>4, SectionPicked, ScanAssumption
  <1>6. /\ phase.code \in Codes /\ phase.product \in Products \cup {Nobody}
        /\ phase.meant \in Legs
    BY <1>4 DEF TypeOK, PhaseType, Picking, Counting
  <1>7. /\ kind \in {"link", "create"} /\ p \in AnyProduct
        /\ kind = "create" => p = New(phase.code)
    BY <1>1, <1>2, <1>4, <1>6 DEF ScreensMakeSense, AnyProduct
  <1>8. /\ c \in CallType /\ c # NoCall /\ c.kind = kind /\ c.code = phase.code
        /\ c.product = p /\ c.state = "sent"
    <2>1. /\ kind \in Kinds /\ phase.code \in Codes \cup {Nothing}
          /\ p \in AnyProduct \cup {Nobody}
      BY <1>6, <1>7 DEF Kinds
    <2> QED  BY <1>3, <1>5, <1>6, <2>1, NewCall
  <1>9. Sensible(c)
    BY <1>6, <1>7, <1>8 DEF Sensible
  <1>10. Typed /\ call'[k] = c /\ OthersSame(k)
    BY <1>4, <1>8, <1>9, OneCallChanges DEF Typed, OthersSame
  <1>11. Starts(k, {"link", "create"}) /\ UNCHANGED gates
    BY <1>4, <1>5, <1>7, <1>8, <1>10 DEF Starts, SubmitForm
  <1> QED  BY <1>10, <1>11 DEF CallStep

(* A call that goes on keeps its kind; a request nobody waits for ends.    *)
LEMMA AnsweredStep ==
  ASSUME TypeOK, CallsMakeSense, NEW k \in Calls, NEW p \in AnyProduct \cup {Nobody},
         NEW s \in {"ok", "refused"}, call[k] # NoCall, Answered(k, s, p),
         Under(k, {"link", "create"}) /\ s = "ok" => p \in AnyProduct,
         UNCHANGED gates
  PROVE  CallStep
  <1>1. call[k] \in CallType /\ Sensible(call[k])
    BY DEF TypeOK, CallsMakeSense
  <1>2. CASE call[k].state = "alone"
    <2>1. call' = [call EXCEPT ![k] = NoCall] /\ Under(k, {"link", "create"})
      BY <1>1, <1>2 DEF Answered, Sensible, Under
    <2>2. Typed /\ Ends(k, {"link", "create", "owner"})
      BY <2>1, OneCallChanges DEF Typed, Ends, OthersSame, Under
    <2> QED  BY <2>2 DEF CallStep
  <1>3. CASE call[k].state # "alone"
    <2>1. PICK c : c = call[k]
      OBVIOUS
    <2>2. PICK d : d = [c EXCEPT !.state = s, !.answer = p]
      OBVIOUS
    <2>3. call' = [call EXCEPT ![k] = d]
      BY <1>3, <2>1, <2>2 DEF Answered
    <2>4. c \in CallType /\ Sensible(c) /\ s \in {"sent", "ok", "refused", "thrown", "alone"}
          /\ p \in AnyProduct \cup {Nobody}
      BY <1>1, <2>1
    <2>5. /\ d \in CallType /\ d # NoCall
          /\ d.kind = c.kind /\ d.code = c.code /\ d.product = c.product
          /\ d.leg = c.leg /\ d.meant = c.meant /\ d.cleared = c.cleared
          /\ d.state = s /\ d.answer = p
      <3>1. d \in CallType
        BY <2>2, <2>4 DEF CallType
      <3> QED  BY <2>2, <2>4, <3>1, ScanAssumption DEF CallType
    <2>6. Sensible(d)
      BY <2>1, <2>4, <2>5 DEF Sensible, Under
    <2>7. Typed /\ call'[k] = d /\ OthersSame(k)
      BY <2>3, <2>5, <2>6, OneCallChanges DEF Typed, OthersSame
    <2>8. Continues(k)
      BY <1>3, <2>1, <2>5, <2>7 DEF Continues
    <2> QED  BY <2>7, <2>8 DEF CallStep
  <1> QED  BY <1>2, <1>3

(* The server answers with what it found, or refuses.                      *)
LEMMA ServeStep ==
  ASSUME TypeOK, CallsMakeSense, NEW k \in Calls, Serve(k)
  PROVE  CallStep
  <1>1. call[k] \in CallType /\ Sensible(call[k]) /\ call[k] # NoCall
         /\ UNCHANGED gates
    BY DEF Serve, TypeOK, CallsMakeSense
  <1>2. CASE Under(k, {"lookup", "lookupRapid", "owner"}) /\ Answered(k, "ok", holder[call[k].code])
    <2>1. holder[call[k].code] \in AnyProduct \cup {Nobody} /\ ~Under(k, {"link", "create"})
      BY <1>1, <1>2 DEF TypeOK, Sensible, Under
    <2> QED  BY <1>1, <1>2, <2>1, AnsweredStep
  <1>3. CASE Under(k, {"link", "create"}) /\ Answered(k, "ok", call[k].product)
    <2>1. call[k].product \in AnyProduct
      BY <1>1, <1>3 DEF Sensible, Under
    <2> QED  BY <1>1, <1>3, <2>1, AnsweredStep
  <1>4. CASE Under(k, {"entry", "rapid"}) /\ Answered(k, "ok", call[k].product)
    <2>1. call[k].product \in AnyProduct
      BY <1>1, <1>4 DEF Sensible, Under
    <2> QED  BY <1>1, <1>4, <2>1, AnsweredStep
  <1>5. CASE Answered(k, "refused", Nobody)
    BY <1>1, <1>5, AnsweredStep
  <1> QED  BY <1>2, <1>3, <1>4, <1>5 DEF Serve

(* A rapid scan that found its product writes.                             *)
LEMMA RapidFoundStep ==
  ASSUME TypeOK, CallsMakeSense, NEW k \in Calls, RapidFound(k)
  PROVE  CallStep
  <1>1. PICK c : c = call[k]
    OBVIOUS
  <1>2. PICK d : d = [c EXCEPT !.kind = "rapid", !.state = "sent", !.product = c.answer]
    OBVIOUS
  <1>3. call' = [call EXCEPT ![k] = d] /\ Under(k, {"lookupRapid"}) /\ c.answer # Nobody
    BY <1>1, <1>2 DEF RapidFound
  <1>4. c \in CallType /\ Sensible(c)
    BY <1>1, <1>3 DEF TypeOK, CallsMakeSense, Under
  <1>5. c.answer \in AnyProduct
    BY <1>3, <1>4 DEF CallType
  <1>6. /\ d \in CallType /\ d # NoCall /\ d.kind = "rapid" /\ d.product = c.answer
        /\ d.leg = c.leg /\ d.meant = c.meant /\ d.state = "sent"
    <2>1. d \in CallType
      BY <1>2, <1>4, <1>5 DEF CallType
    <2> QED  BY <1>2, <1>4, <2>1, ScanAssumption DEF CallType
  <1>7. Sensible(d)
    BY <1>4, <1>5, <1>6 DEF Sensible
  <1>8. Typed /\ call'[k] = d /\ OthersSame(k)
    BY <1>3, <1>6, <1>7, OneCallChanges DEF Typed, OthersSame
  <1>9. GoesOnToWrite(k) /\ busy' = TRUE /\ UNCHANGED <<stranded, inFlight>>
    BY <1>3, <1>6, <1>8 DEF GoesOnToWrite, RapidFound
  <1> QED  BY <1>8, <1>9 DEF CallStep

(* An await that ends and clears busy.                                     *)
LEMMA ClearingStep ==
  ASSUME TypeOK, CallsMakeSense, NEW k \in Calls, EndAndClear(k),
         Under(k, {"lookup", "lookupRapid", "rapid", "entry"}),
         inFlight' = IF Under(k, {"lookupRapid", "rapid"}) THEN FALSE ELSE inFlight
  PROVE  CallStep
  <1>1. Typed
    BY EndAndClearStep DEF Typed
  <1> QED  BY <1>1 DEF CallStep

(* One that ends without: a call of the enrol form.                        *)
LEMMA EndingStep ==
  ASSUME TypeOK, CallsMakeSense, NEW k \in Calls, Under(k, {"link", "create", "owner"}),
         call' = [call EXCEPT ![k] = NoCall], UNCHANGED gates
  PROVE  CallStep
  <1>1. Typed /\ Ends(k, {"link", "create", "owner"})
    BY OneCallChanges DEF Typed, Ends, OthersSame
  <1> QED  BY <1>1 DEF CallStep

(* A write that is given up.                                               *)
LEMMA AbandonStep ==
  ASSUME TypeOK, CallsMakeSense, NEW k \in Calls, Abandon(k)
  PROVE  CallStep
  <1>1. Typed /\ Ends(k, {"entry", "rapid"})
    BY OneCallChanges DEF Abandon, Writing, Typed, Ends, OthersSame
  <1> QED  BY <1>1 DEF CallStep, Abandon

(* A call that throws, its request perhaps still on its way.               *)
LEMMA MovingStep ==
  ASSUME TypeOK, CallsMakeSense, NEW k \in Calls, NEW st \in {"thrown", "alone"},
         call[k] # NoCall, call[k].state # "alone",
         st = "alone" => Under(k, {"link", "create"}),
         call' = [call EXCEPT ![k].state = st], UNCHANGED gates
  PROVE  CallStep
  <1>1. PICK c : c = call[k]
    OBVIOUS
  <1>2. PICK d : d = [c EXCEPT !.state = st]
    OBVIOUS
  <1>3. c \in CallType /\ Sensible(c) /\ call' = [call EXCEPT ![k] = d]
    BY <1>1, <1>2 DEF TypeOK, CallsMakeSense
  <1>4. /\ d \in CallType /\ d # NoCall
        /\ d.kind = c.kind /\ d.code = c.code /\ d.product = c.product
        /\ d.leg = c.leg /\ d.meant = c.meant /\ d.cleared = c.cleared
        /\ d.state = st /\ d.answer = c.answer
    BY <1>2, <1>3, MovedCall
  <1>5. Sensible(d)
    BY <1>1, <1>3, <1>4 DEF Sensible, Under
  <1>6. Typed /\ call'[k] = d /\ OthersSame(k)
    BY <1>3, <1>4, <1>5, OneCallChanges DEF Typed, OthersSame
  <1>7. Continues(k)
    BY <1>1, <1>4, <1>6 DEF Continues
  <1> QED  BY <1>6, <1>7 DEF CallStep

(* A refused link or create asks for the owner of its barcode, or ends.    *)
LEMMA RefusedStep ==
  ASSUME TypeOK, CallsMakeSense, ScreensMakeSense, NEW k \in Calls, EnrollRefused(k)
  PROVE  CallStep
  <1>1. Under(k, {"link", "create"}) /\ call[k] # NoCall /\ UNCHANGED gates
    BY DEF EnrollRefused, Under
  <1>2. CASE call' = [call EXCEPT ![k] = NoCall]
    <2>1. Under(k, {"link", "create", "owner"})
      BY <1>1 DEF Under
    <2> QED  BY <1>1, <1>2, <2>1, EndingStep
  <1>3. CASE call' = [call EXCEPT ![k] = Call("owner", call[k].code, Nobody, leg, leg)]
    <2>1. PICK kind, p, code, c :
            kind = "owner" /\ p = Nobody /\ code = call[k].code /\ c = Call(kind, code, p, leg, leg)
      OBVIOUS
    <2>2. leg \in Legs /\ call[k].code \in Codes
      BY <1>1, SectionPicked DEF CallsMakeSense, Sensible, Under
    <2>3. /\ c \in CallType /\ c # NoCall /\ c.kind = "owner" /\ c.code = call[k].code
          /\ c.state = "sent"
      <3>1. kind \in Kinds /\ code \in Codes \cup {Nothing} /\ p \in AnyProduct \cup {Nobody}
        BY <2>1, <2>2 DEF Kinds
      <3> QED  BY <2>1, <2>2, <3>1, NewCall
    <2>4. Sensible(c)
      BY <2>2, <2>3 DEF Sensible
    <2>5. Typed /\ call'[k] = c /\ OthersSame(k)
      BY <1>3, <2>1, <2>3, <2>4, OneCallChanges DEF Typed, OthersSame
    <2>6. GoesOnToAsk(k)
      BY <1>1, <2>3, <2>5 DEF GoesOnToAsk
    <2> QED  BY <1>1, <2>5, <2>6 DEF CallStep
  <1> QED  BY <1>2, <1>3 DEF EnrollRefused

(* Every step is one of those.                                             *)
LEMMA NextCallStep ==
  ASSUME TypeOK, CallsMakeSense, ScreensMakeSense, [Next]_vars
  PROVE  CallStep
  <1>1. CASE UNCHANGED <<call, gates>>
    BY <1>1 DEF CallStep, Typed, TypeOK, CallsMakeSense
  <1>2. ASSUME Camera PROVE CallStep
    BY <1>1, <1>2, RapidScanStep, OnBarcodeStep DEF Camera, FailedFrame, Present
  <1>3. ASSUME Counter PROVE CallStep
    BY <1>1, <1>3, SubmitStep, SubmitFormStep
    DEF Counter, PickLeg, PickProduct, FinishSection, ToggleScanner, ToggleRapid, Leave,
        NewProduct, BackToSearch, CountOwner, PickMatch, Tap
  <1>4. ASSUME NEW k \in Calls, Reply(k) PROVE CallStep
    <2>1. CASE LookupAnswered(k)
      BY <2>1, ClearingStep DEF LookupAnswered, Under
    <2>2. CASE RapidFound(k)
      BY <2>2, RapidFoundStep
    <2>3. CASE RapidUnknown(k)
      BY <2>3, ClearingStep DEF RapidUnknown, Under
    <2>4. CASE RapidEnd(k)
      BY <2>4, ClearingStep DEF RapidEnd, Under
    <2>5. CASE Saved(k)
      BY <2>5, ClearingStep DEF Saved, Under
    <2>6. CASE Enrolled(k)
      BY <2>6, EndingStep DEF Enrolled, Under
    <2>7. CASE EnrollRefused(k)
      BY <2>7, RefusedStep
    <2>8. CASE OwnerFound(k)
      BY <2>8, EndingStep DEF OwnerFound, Under
    <2>9. CASE Abandon(k)
      BY <2>9, AbandonStep
    <2>10. CASE LookupThrew(k)
      BY <2>10, ClearingStep DEF LookupThrew, Under
    <2>11. CASE WriteThrew(k)
      BY <2>11, MovingStep DEF WriteThrew, Writing, Under, Outcome
    <2>12. CASE FormThrew(k)
      <3>1. CASE call' = [call EXCEPT ![k] = NoCall]
        BY <2>12, <3>1, EndingStep DEF FormThrew, Under
      <3>2. CASE call[k].state = "sent" /\ call' = [call EXCEPT ![k].state = "alone"]
        BY <2>12, <3>2, MovingStep DEF FormThrew, Under
      <3> QED  BY <2>12, <3>1, <3>2 DEF FormThrew
    <2> QED
      BY <1>4, <2>1, <2>2, <2>3, <2>4, <2>5, <2>6, <2>7, <2>8, <2>9, <2>10, <2>11, <2>12
      DEF Reply
  <1>5. ASSUME NEW code \in Codes, NEW p \in Products, OtherPhone(code, p) PROVE CallStep
    BY <1>1, <1>5 DEF OtherPhone
  <1> QED  BY <1>1, <1>2, <1>3, <1>4, <1>5, ServeStep DEF Next, vars

-----------------------------------------------------------------------------
(* Busy, inFlight, and the calls behind them.                              *)

(* What holds the buttons back is a call that will let them go, rapid      *)
(* scans do not overlap, and who clears busy marks whom it overtakes.      *)
LEMMA BusyStep ==
  ASSUME TypeOK, CallsMakeSense, OneRapid, BusyUnlessCleared, BusyIsSomebodys, CallStep
  PROVE  OneRapid' /\ BusyUnlessCleared' /\ BusyIsSomebodys'
  <1> USE DEF OneRapid, BusyUnlessCleared, BusyIsSomebodys, Under, Writing
  <1>1. CASE UNCHANGED <<call, gates>>
    BY <1>1 DEF gates
  <1>2. ASSUME NEW k \in Calls, Starts(k, {"lookup"}), busy' = TRUE, UNCHANGED <<stranded, inFlight>>
        PROVE  OneRapid' /\ BusyUnlessCleared' /\ BusyIsSomebodys'
    BY <1>2 DEF Starts, OthersSame
  <1>3. ASSUME NEW k \in Calls, Starts(k, {"lookupRapid"}), ~inFlight, inFlight' = TRUE, busy' = TRUE
        PROVE  OneRapid' /\ BusyUnlessCleared' /\ BusyIsSomebodys'
    BY <1>3 DEF Starts, OthersSame
  <1>4. ASSUME NEW k \in Calls, Starts(k, {"entry"}), busy' = TRUE, UNCHANGED <<stranded, inFlight>>
        PROVE  OneRapid' /\ BusyUnlessCleared' /\ BusyIsSomebodys'
    BY <1>4 DEF Starts, OthersSame
  <1>5. ASSUME NEW k \in Calls, Starts(k, {"link", "create"}), UNCHANGED gates
        PROVE  OneRapid' /\ BusyUnlessCleared' /\ BusyIsSomebodys'
    BY <1>5 DEF Starts, OthersSame, gates
  <1>6. ASSUME NEW k \in Calls, Continues(k), UNCHANGED gates
        PROVE  OneRapid' /\ BusyUnlessCleared' /\ BusyIsSomebodys'
    BY <1>6 DEF Continues, OthersSame, gates
  <1>7. ASSUME NEW k \in Calls, GoesOnToWrite(k), busy' = TRUE, UNCHANGED <<stranded, inFlight>>
        PROVE  OneRapid' /\ BusyUnlessCleared' /\ BusyIsSomebodys'
    BY <1>7 DEF GoesOnToWrite, OthersSame
  <1>8. ASSUME NEW k \in Calls, GoesOnToAsk(k), UNCHANGED gates
        PROVE  OneRapid' /\ BusyUnlessCleared' /\ BusyIsSomebodys'
    BY <1>8 DEF GoesOnToAsk, OthersSame, gates
  <1>9. ASSUME NEW k \in Calls, Ends(k, {"link", "create", "owner"}), UNCHANGED gates
        PROVE  OneRapid' /\ BusyUnlessCleared' /\ BusyIsSomebodys'
    BY <1>9 DEF Ends, OthersSame, gates
  <1>10. ASSUME NEW k \in Calls, Ends(k, {"entry", "rapid"}), UNCHANGED busy, stranded' = busy,
               inFlight' = IF Under(k, {"rapid"}) THEN FALSE ELSE inFlight
        PROVE  OneRapid' /\ BusyUnlessCleared' /\ BusyIsSomebodys'
    BY ZenonT(30), <1>10 DEF Ends, OthersSame
  <1>11. ASSUME NEW k \in Calls, EndAndClear(k),
               Under(k, {"lookup", "lookupRapid", "rapid", "entry"}),
               inFlight' = IF Under(k, {"lookupRapid", "rapid"}) THEN FALSE ELSE inFlight
        PROVE  OneRapid' /\ BusyUnlessCleared' /\ BusyIsSomebodys'
    BY ZenonT(30), <1>11, EndAndClearStep
  <1> QED
    BY <1>1, <1>2, <1>3, <1>4, <1>5, <1>6, <1>7, <1>8, <1>9, <1>10, <1>11 DEF CallStep

(* A write begins as a submit, while busy is down, or as what the one      *)
(* rapid scan goes on to.                                                  *)
LEMMA OverlapStep ==
  ASSUME TypeOK, CallsMakeSense, OneRapid, BusyUnlessCleared, CallStep,
         NEW j \in Calls, NEW k \in Calls, Writing(j), ~Writing(k), Writing(k)'
  PROVE  IF call'[k].kind = "entry" THEN call[j].cleared ELSE call[j].kind # "rapid"
  <1> USE DEF Under, Writing
  <1>1. PICK i \in Calls :
          \/ Starts(i, {"lookup"}) \/ Starts(i, {"lookupRapid"}) \/ Starts(i, {"link", "create"})
          \/ Starts(i, {"entry"}) /\ ~busy
          \/ Continues(i) \/ GoesOnToWrite(i) \/ GoesOnToAsk(i) \/ EndAndClear(i)
          \/ Ends(i, {"link", "create", "owner"}) \/ Ends(i, {"entry", "rapid"})
    BY DEF CallStep
  <1>2. CASE Starts(i, {"entry"}) /\ ~busy
    BY <1>2 DEF Starts, OthersSame, BusyUnlessCleared
  <1>3. CASE GoesOnToWrite(i)
    BY <1>3 DEF GoesOnToWrite, OthersSame, OneRapid
  <1>4. CASE EndAndClear(i)
    BY <1>4, EndAndClearStep
  <1>5. CASE Continues(i)
    BY <1>5 DEF Continues, OthersSame
  <1>6. CASE \/ Starts(i, {"lookup"}) \/ Starts(i, {"lookupRapid"})
             \/ Starts(i, {"link", "create"}) \/ GoesOnToAsk(i)
             \/ Ends(i, {"link", "create", "owner"}) \/ Ends(i, {"entry", "rapid"})
    BY <1>6 DEF Starts, GoesOnToAsk, Ends, OthersSame
  <1> QED  BY <1>1, <1>2, <1>3, <1>4, <1>5, <1>6

-----------------------------------------------------------------------------
(* The camera.                                                             *)

LEMMA CameraStep ==
  ASSUME TypeOK, DisarmedWhileSeen, CountedTwiceOnlyAfterBlink, [Next]_vars
  PROVE  /\ DisarmedWhileSeen' /\ CountedTwiceOnlyAfterBlink'
         /\ view' \in Codes \cup {Nothing} /\ hits' \in 0 .. 2
         /\ blink' \in {"none", "short", "long"}
         /\ armed' \in BOOLEAN /\ since' \in 0 .. Never
  <1> DEFINE Kept == /\ DisarmedWhileSeen' /\ CountedTwiceOnlyAfterBlink'
                     /\ view' \in Codes \cup {Nothing} /\ hits' \in 0 .. 2
                     /\ blink' \in {"none", "short", "long"}
                     /\ armed' \in BOOLEAN /\ since' \in 0 .. Never
  <1>1. CASE UNCHANGED camera
    BY <1>1 DEF camera, TypeOK, DisarmedWhileSeen, CountedTwiceOnlyAfterBlink
  <1>2. CASE CameraFollows
    <2>1. CASE /\ view' = Nothing /\ hits' = 0 /\ blink' = "none"
               /\ armed' = TRUE /\ since' = Never
      BY <2>1, ScanAssumption DEF DisarmedWhileSeen, CountedTwiceOnlyAfterBlink, Never
    <2> QED  BY <1>1, <1>2, <2>1 DEF CameraFollows
  <1>3. Later \in 0 .. Never
    BY ScanAssumption DEF Later, Never, TypeOK
  <1>4. ASSUME NEW v \in Codes \cup {Nothing}, Present(v) PROVE Kept
    BY <1>4 DEF Present, TypeOK, DisarmedWhileSeen, CountedTwiceOnlyAfterBlink
  <1>5. ASSUME NEW seen, seen \in {view, Nothing}, Offer(seen), UNCHANGED view PROVE Kept
    <2>1. since' \in 0 .. Never /\ armed' \in BOOLEAN
      BY <1>3, <1>5, ScanAssumption DEF Offer, Accepts, TypeOK, Never
    <2>2. CASE Accepts(seen)
      <3>1. seen = view /\ seen # Nothing /\ armed
        BY <1>5, <2>2 DEF Accepts
      <3>2. blink' = blink /\ hits' = IF hits < 2 THEN hits + 1 ELSE hits
        BY <1>5, <2>2, <3>1 DEF Offer, Blinked
      <3>3. armed' = FALSE
        BY <1>5, <2>2, <3>1 DEF Offer
      <3> QED
        BY <1>5, <2>1, <3>1, <3>2, <3>3
        DEF TypeOK, DisarmedWhileSeen, CountedTwiceOnlyAfterBlink
    <2>3. CASE ~Accepts(seen)
      BY <1>5, <2>1, <2>3
      DEF Offer, Blinked, TypeOK, DisarmedWhileSeen, CountedTwiceOnlyAfterBlink
    <2> QED  BY <2>2, <2>3
  <1>6. CASE FailedFrame
    BY <1>3, <1>6 DEF FailedFrame, TypeOK, DisarmedWhileSeen, CountedTwiceOnlyAfterBlink
  <1>7. CASE Camera
    BY <1>2, <1>4, <1>5, <1>6, <1>7 DEF Camera, Frame, OnBarcode
  <1>8. CASE Counter
    BY <1>1, <1>2, <1>8
    DEF Counter, PickLeg, PickProduct, FinishSection, ToggleScanner, ToggleRapid, Leave,
        NewProduct, BackToSearch, CountOwner, PickMatch, Tap, Submit, SubmitAnytime, SubmitForm
  <1>9. ASSUME NEW k \in Calls, Serve(k) \/ Reply(k) PROVE Kept
    BY <1>1, <1>2, <1>9
    DEF Serve, Reply, LookupAnswered, RapidFound, RapidUnknown, RapidEnd, Saved, Abandon,
        Enrolled, EnrollRefused, OwnerFound, LookupThrew, WriteThrew, FormThrew
  <1>10. ASSUME NEW code \in Codes, NEW p \in Products, OtherPhone(code, p) PROVE Kept
    BY <1>1, <1>10 DEF OtherPhone
  <1> QED  BY <1>1, <1>7, <1>8, <1>9, <1>10 DEF Next, vars

-----------------------------------------------------------------------------
(* The catalog.                                                            *)

LEMMA CatalogStep ==
  ASSUME TypeOK, CallsMakeSense, EnrolledOnce, [Next]_vars
  PROVE  /\ EnrolledOnce'
         /\ holder' \in [Codes -> AnyProduct \cup {Nobody}] /\ made' \in [Codes -> Nat]
  <1> DEFINE Kept == /\ EnrolledOnce'
                     /\ holder' \in [Codes -> AnyProduct \cup {Nobody}]
                     /\ made' \in [Codes -> Nat]
  <1>1. CASE UNCHANGED <<holder, made>>
    BY <1>1 DEF EnrolledOnce, TypeOK
  <1>2. ASSUME NEW code \in Codes, holder[code] = Nobody PROVE made[code] = 0
    <2>1. New(code) # Nobody
      BY ScanAssumption DEF AnyProduct
    <2> QED  BY <1>2, <2>1 DEF EnrolledOnce, TypeOK
  <1>3. ASSUME NEW k \in Calls, Attach(k), Under(k, {"link", "create"}) PROVE Kept
    <2>1. PICK c : c = call[k]
      OBVIOUS
    <2>2. /\ c.code \in Codes /\ c.product \in AnyProduct
          /\ c.kind = "create" => c.product = New(c.code)
      BY <1>3, <2>1 DEF CallsMakeSense, Sensible, Under
    <2>3. made[c.code] = 0
      BY <1>2, <1>3, <2>1, <2>2 DEF Attach
    <2>4. /\ holder' = [holder EXCEPT ![c.code] = c.product]
          /\ made' = IF c.kind = "create" THEN [made EXCEPT ![c.code] = @ + 1] ELSE made
      BY <1>3, <2>1 DEF Attach
    <2> QED  BY <2>2, <2>3, <2>4 DEF EnrolledOnce, TypeOK
  <1>4. ASSUME NEW code \in Codes, NEW p \in Products, OtherPhone(code, p) PROVE Kept
    <2>1. p \in AnyProduct /\ made[code] = 0
      BY <1>2, <1>4 DEF OtherPhone, AnyProduct
    <2> QED  BY <1>4, <2>1 DEF OtherPhone, EnrolledOnce, TypeOK
  <1>5. CASE Camera
    BY <1>1, <1>5 DEF Camera, Frame, FailedFrame, OnBarcode, Present
  <1>6. CASE Counter
    BY <1>1, <1>6
    DEF Counter, PickLeg, PickProduct, FinishSection, ToggleScanner, ToggleRapid, Leave,
        NewProduct, BackToSearch, CountOwner, PickMatch, Tap, Submit, SubmitAnytime, SubmitForm
  <1>7. ASSUME NEW k \in Calls, Reply(k) PROVE Kept
    BY <1>1, <1>7
    DEF Reply, LookupAnswered, RapidFound, RapidUnknown, RapidEnd, Saved, Abandon,
        Enrolled, EnrollRefused, OwnerFound, LookupThrew, WriteThrew, FormThrew
  <1>8. ASSUME NEW k \in Calls, Serve(k) PROVE Kept
    BY <1>1, <1>3, <1>8 DEF Serve
  <1> QED  BY <1>1, <1>4, <1>5, <1>6, <1>7, <1>8 DEF Next, vars

-----------------------------------------------------------------------------
(* The screens.                                                            *)

(* What the enrol form shows.                                              *)
EnrollType ==
  [kind : {"enroll"}, code : Codes, meant : Legs, mode : {"search", "confirm", "create"},
   product : Products \cup {Nobody}, pending : Calls \cup {NoCall},
   asking : SUBSET Calls, owner : AnyProduct \cup {Nobody}]

(* What a section's screens may turn into, and what they keep.             *)
PhaseOK(ph) ==
  /\ ph \in PhaseType
  /\ ph.kind = "enroll" /\ ph.mode = "confirm" => ph.product # Nobody
  /\ ph.kind = "entry" => ph.leg = ph.meant \/ ph.enrolled

LEMMA PlainPhases == PhaseOK(Picking) /\ PhaseOK(Counting)
  BY DEF PhaseOK, PhaseType, Picking, Counting

LEMMA EntryPhase ==
  ASSUME NEW p \in AnyProduct, NEW l \in Legs, NEW m \in Legs, NEW e \in BOOLEAN,
         l = m \/ e
  PROVE  PhaseOK(Entry(p, l, m, e))
  <1>1. /\ Entry(p, l, m, e) \in [kind : {"entry"}, product : AnyProduct, leg : Legs,
                                  meant : Legs, enrolled : BOOLEAN]
        /\ Entry(p, l, m, e).leg = l /\ Entry(p, l, m, e).meant = m
        /\ Entry(p, l, m, e).enrolled = e /\ Entry(p, l, m, e).kind = "entry"
    BY DEF Entry
  <1> QED  BY <1>1 DEF PhaseOK, PhaseType

LEMMA EnrollPhase ==
  ASSUME NEW code \in Codes, NEW m \in Legs
  PROVE  PhaseOK(Enroll(code, m))
  <1>1. Enroll(code, m) \in EnrollType
    BY DEF Enroll, EnrollType
  <1> QED  BY <1>1 DEF PhaseOK, PhaseType, EnrollType, Enroll

LEMMA EnrollFields ==
  ASSUME PhaseOK(phase), phase.kind = "enroll"
  PROVE  phase \in EnrollType
  BY DEF PhaseOK, PhaseType, EnrollType, Picking, Counting

(* What changes of a form that stays where it is.                          *)
LEMMA FormStays ==
  ASSUME PhaseOK(phase), phase.kind = "enroll", NEW ph \in EnrollType,
         ph.mode = phase.mode, ph.product = phase.product
  PROVE  PhaseOK(ph)
  BY EnrollFields DEF PhaseOK, PhaseType, EnrollType

(* A form that has just been opened.                                       *)
LEMMA FreshForm ==
  ASSUME phase \in EnrollType, NEW mode \in {"create", "confirm"},
         mode = "confirm" => phase.product # Nobody,
         NEW ph, ph = [Fresh(phase) EXCEPT !.mode = mode]
  PROVE  PhaseOK(ph)
  <1>1. /\ ph \in EnrollType /\ ph.mode = mode /\ ph.product = phase.product
    BY DEF Fresh, EnrollType
  <1> QED  BY <1>1 DEF PhaseOK, PhaseType, EnrollType

(* Found, with an answer, is an entry screen of the call's own section.    *)
LEMMA FoundPhase ==
  ASSUME TypeOK, CallsMakeSense, NEW k \in Calls, call[k].answer \in AnyProduct,
         Under(k, {"lookup", "link", "create"})
  PROVE  PhaseOK(Found(k))
  <1>1. /\ call[k].leg \in Legs /\ call[k].meant \in Legs
        /\ call[k].leg = call[k].meant \/ Under(k, {"link", "create"})
    BY DEF TypeOK, CallsMakeSense, Sensible, CallType, Under
  <1>2. Under(k, {"link", "create"}) \in BOOLEAN
    BY DEF Under
  <1> QED  BY <1>1, <1>2, EntryPhase DEF Found

PhaseKept == TypeOK /\ CallsMakeSense /\ ScreensMakeSense

LEMMA PhaseNow ==
  ASSUME PhaseKept
  PROVE  PhaseOK(phase)
  BY DEF PhaseKept, PhaseOK, TypeOK, ScreensMakeSense

(* The counter's taps.                                                     *)
LEMMA TapPhases ==
  ASSUME PhaseKept, Counter
  PROVE  PhaseOK(phase')
  <1>1. PhaseOK(phase)
    BY PhaseNow
  <1>2. CASE UNCHANGED phase
    BY <1>1, <1>2
  <1>3. CASE phase' = Picking \/ phase' = Counting
    BY <1>3, PlainPhases
  <1>4. ASSUME NEW l \in Legs, NEW p \in Products, PickProduct(p, l) PROVE PhaseOK(phase')
    <2>1. p \in AnyProduct /\ FALSE \in BOOLEAN
      BY DEF AnyProduct
    <2> QED  BY <1>4, <2>1, EntryPhase DEF PickProduct
  <1>5. ASSUME NEW p \in Products, PickMatch(p) PROVE PhaseOK(phase')
    <2>1. phase' = [phase EXCEPT !.mode = "confirm", !.product = p] /\ phase \in EnrollType
      BY <1>1, <1>5, EnrollFields DEF PickMatch
    <2>2. phase' \in EnrollType /\ phase'.product = p
      BY <2>1 DEF EnrollType
    <2>3. p # Nobody
      BY ScanAssumption DEF AnyProduct
    <2> QED  BY <2>2, <2>3 DEF PhaseOK, PhaseType, EnrollType
  <1>6. CASE NewProduct
    BY <1>1, <1>6, EnrollFields, FreshForm DEF NewProduct
  <1>7. CASE BackToSearch
    <2>1. phase \in EnrollType
      BY <1>1, <1>7, EnrollFields DEF BackToSearch
    <2>2. CASE phase' = Enroll(phase.code, phase.meant)
      BY <2>1, <2>2, EnrollPhase DEF EnrollType
    <2>3. CASE phase.product # Nobody /\ phase' = [Fresh(phase) EXCEPT !.mode = "confirm"]
      BY <2>1, <2>3, FreshForm
    <2> QED  BY <1>7, <2>2, <2>3 DEF BackToSearch
  <1>8. CASE CountOwner
    <2>1. phase \in EnrollType /\ leg \in Legs
      BY <1>1, <1>8, EnrollFields, SectionPicked DEF CountOwner, PhaseKept
    <2>2. phase.owner \in AnyProduct /\ phase.meant \in Legs /\ TRUE \in BOOLEAN
      BY <1>8, <2>1 DEF CountOwner, EnrollType
    <2> QED  BY <1>8, <2>1, <2>2, EntryPhase DEF CountOwner
  <1>9. ASSUME NEW k \in Calls, SubmitForm(k) PROVE PhaseOK(phase')
    <2>1. phase' = [phase EXCEPT !.pending = k, !.owner = Nobody] /\ phase \in EnrollType
      BY <1>1, <1>9, EnrollFields DEF SubmitForm
    <2>2. phase' \in EnrollType /\ phase'.mode = phase.mode /\ phase'.product = phase.product
      BY <2>1 DEF EnrollType
    <2> QED  BY <1>1, <1>9, <2>2, FormStays DEF SubmitForm
  <1>10. ASSUME NEW k \in Calls, Submit(k) PROVE PhaseOK(phase')
    BY <1>2, <1>10 DEF Submit, SubmitAnytime, screen
  <1> QED
    BY <1>2, <1>3, <1>4, <1>5, <1>6, <1>7, <1>8, <1>9, <1>10
    DEF Counter, PickLeg, FinishSection, ToggleScanner, ToggleRapid, Leave

(* Answers, and their absence.                                             *)
LEMMA ReplyPhases ==
  ASSUME PhaseKept, NEW k \in Calls, Reply(k)
  PROVE  PhaseOK(phase')
  <1>1. PhaseOK(phase)
    BY PhaseNow
  <1>2. CASE UNCHANGED phase
    BY <1>1, <1>2
  <1>3. CASE phase' = Counting
    BY <1>3, PlainPhases
  <1>4. call[k] \in CallType /\ Sensible(call[k]) /\ call[k] # NoCall
    BY DEF PhaseKept, TypeOK, CallsMakeSense, Reply, LookupAnswered, RapidFound, RapidUnknown,
           RapidEnd, Saved, Abandon, Writing, Under, Enrolled, EnrollRefused, OwnerFound,
           LookupThrew, WriteThrew, FormThrew, Outcome
  <1>5. call[k].answer \in AnyProduct \cup {Nobody}
    BY <1>4 DEF CallType
  <1>6. CASE Under(k, {"lookup", "lookupRapid"}) /\ phase' = Unknown(k)
    <2>1. call[k].code \in Codes /\ call[k].meant \in Legs
      BY <1>4, <1>6 DEF Sensible, Under, CallType
    <2>2. CASE phase.kind = "enroll"
      <3>1. phase' = [phase EXCEPT !.code = call[k].code, !.meant = call[k].meant]
        BY <1>6, <2>2 DEF Unknown
      <3>2. phase \in EnrollType
        BY <1>1, <2>2, EnrollFields
      <3>3. phase' \in EnrollType /\ phase'.mode = phase.mode /\ phase'.product = phase.product
        BY <2>1, <3>1, <3>2 DEF EnrollType
      <3> QED  BY <1>1, <2>2, <3>3, FormStays
    <2>3. CASE phase.kind # "enroll"
      BY <1>6, <2>1, <2>3, EnrollPhase DEF Unknown
    <2> QED  BY <2>2, <2>3
  <1>7. CASE /\ call[k].answer \in AnyProduct /\ phase' = Found(k)
             /\ Under(k, {"lookup", "link", "create"})
    BY <1>4, <1>7, FoundPhase DEF PhaseKept
  <1>8. CASE LookupAnswered(k)
    BY <1>2, <1>5, <1>6, <1>7, <1>8 DEF LookupAnswered, Under
  <1>9. CASE RapidUnknown(k)
    BY <1>6, <1>9 DEF RapidUnknown, Under
  <1>10. CASE Enrolled(k)
    <2>1. call[k].answer \in AnyProduct /\ Under(k, {"lookup", "link", "create"})
      BY <1>4, <1>10 DEF Enrolled, Under, Outcome, Sensible
    <2> QED  BY <1>7, <1>10, <2>1 DEF Enrolled
  <1>11. CASE EnrollRefused(k)
    <2>1. CASE Form(k)
      <3>1. phase' = [phase EXCEPT !.pending = NoCall, !.asking = @ \cup {k}]
        BY <1>11, <2>1 DEF EnrollRefused
      <3>2. phase \in EnrollType
        BY <1>1, <2>1, EnrollFields DEF Form
      <3>3. phase' \in EnrollType /\ phase'.mode = phase.mode /\ phase'.product = phase.product
        BY <3>1, <3>2 DEF EnrollType
      <3> QED  BY <1>1, <2>1, <3>3, FormStays DEF Form
    <2> QED  BY <1>2, <1>11, <2>1 DEF EnrollRefused
  <1>12. CASE OwnerFound(k)
    <2>1. CASE phase.kind = "enroll" /\ k \in phase.asking
      <3>1. phase' = [phase EXCEPT !.asking = @ \ {k}, !.owner = call[k].answer]
        BY <1>12, <2>1 DEF OwnerFound
      <3>2. phase \in EnrollType
        BY <1>1, <2>1, EnrollFields
      <3>3. phase' \in EnrollType /\ phase'.mode = phase.mode /\ phase'.product = phase.product
        BY <1>5, <3>1, <3>2 DEF EnrollType
      <3> QED  BY <1>1, <2>1, <3>3, FormStays
    <2> QED  BY <1>2, <1>12, <2>1 DEF OwnerFound
  <1>13. CASE FormThrew(k)
    <2>1. CASE Form(k)
      <3>1. phase' = [phase EXCEPT !.pending = NoCall]
        BY <1>13, <2>1 DEF FormThrew
      <3>2. phase \in EnrollType
        BY <1>1, <2>1, EnrollFields DEF Form
      <3>3. phase' \in EnrollType /\ phase'.mode = phase.mode /\ phase'.product = phase.product
        BY <3>1, <3>2 DEF EnrollType
      <3> QED  BY <1>1, <2>1, <3>3, FormStays DEF Form
    <2> QED  BY <1>2, <1>13, <2>1 DEF FormThrew
  <1> QED
    BY <1>2, <1>3, <1>8, <1>9, <1>10, <1>11, <1>12, <1>13
    DEF Reply, RapidFound, RapidEnd, Saved, Abandon, LookupThrew, WriteThrew, screen

(* What the screens keep, and the modes.                                   *)
LEMMA ScreenStep ==
  ASSUME TypeOK, CallsMakeSense, ScreensMakeSense, CallStep, [Next]_vars
  PROVE  /\ ScreensMakeSense' /\ phase' \in PhaseType
         /\ leg' \in Legs \cup {NoLeg} /\ asked' \in Sealed \cup {NoLeg}
         /\ open' \in BOOLEAN /\ rapid' \in BOOLEAN
         /\ busy' \in BOOLEAN /\ stranded' \in BOOLEAN /\ inFlight' \in BOOLEAN
  <1>1. PhaseOK(phase)
    BY PhaseNow DEF PhaseKept
  <1>2. PhaseOK(phase')
    <2>1. CASE UNCHANGED phase
      BY <1>1, <2>1
    <2> QED
      BY <2>1, TapPhases, ReplyPhases
      DEF PhaseKept, Next, vars, screen, Camera, Frame, FailedFrame, OnBarcode, Present,
          Serve, OtherPhone
  <1>3. /\ \/ UNCHANGED <<leg, rapid, asked>>
           \/ leg' \in Legs /\ rapid' = FALSE /\ asked' = NoLeg
           \/ /\ leg \in Sealed /\ UNCHANGED leg /\ rapid' = ~rapid
              /\ asked' = IF rapid THEN NoLeg ELSE leg
        /\ open' \in {open, FALSE, ~open}
    <2>1. CASE UNCHANGED <<leg, rapid, asked>> /\ open' \in {open, FALSE, ~open}
      BY <2>1
    <2>2. CASE Camera
      BY <2>1, <2>2 DEF Camera, Frame, FailedFrame, OnBarcode, Present, screen
    <2>3. CASE Counter
      BY <2>1, <2>3
      DEF Counter, PickLeg, PickProduct, FinishSection, ToggleScanner, ToggleRapid, Leave,
          NewProduct, BackToSearch, CountOwner, PickMatch, Submit, SubmitAnytime, SubmitForm,
          screen
    <2>4. ASSUME NEW k \in Calls, Serve(k) \/ Reply(k)
          PROVE  UNCHANGED <<leg, rapid, asked>> /\ open' \in {open, FALSE, ~open}
      BY <2>4
      DEF Serve, Reply, LookupAnswered, RapidFound, RapidUnknown, RapidEnd, Saved, Abandon,
          Enrolled, EnrollRefused, OwnerFound, LookupThrew, WriteThrew, FormThrew, screen
    <2> QED  BY <2>1, <2>2, <2>3, <2>4 DEF Next, vars, screen, OtherPhone
  <1>4. /\ leg' \in Legs \cup {NoLeg} /\ asked' \in Sealed \cup {NoLeg}
        /\ open' \in BOOLEAN /\ rapid' \in BOOLEAN /\ (rapid' => asked' = leg')
    <2>1. /\ leg \in Legs \cup {NoLeg} /\ asked \in Sealed \cup {NoLeg}
          /\ open \in BOOLEAN /\ rapid \in BOOLEAN /\ (rapid => asked = leg)
      BY DEF TypeOK, ScreensMakeSense
    <2>2. open' \in BOOLEAN
      BY <1>3, <2>1
    <2>3. CASE UNCHANGED <<leg, rapid, asked>>
      BY <2>1, <2>2, <2>3
    <2>4. CASE leg' \in Legs /\ rapid' = FALSE /\ asked' = NoLeg
      BY <2>2, <2>4
    <2>5. CASE /\ leg \in Sealed /\ UNCHANGED leg /\ rapid' = ~rapid
               /\ asked' = IF rapid THEN NoLeg ELSE leg
      BY <2>1, <2>2, <2>5
    <2> QED  BY <1>3, <2>3, <2>4, <2>5
  <1>5. busy' \in BOOLEAN /\ stranded' \in BOOLEAN /\ inFlight' \in BOOLEAN
    BY DEF CallStep, TypeOK, EndAndClear, gates
  <1>6. ASSUME leg' = NoLeg PROVE phase' = Picking /\ \A k \in Calls : call'[k] = NoCall
    <2>1. leg = NoLeg /\ phase = Picking /\ \A k \in Calls : call[k] = NoCall
      BY <1>3, <1>6, ScanAssumption DEF ScreensMakeSense
    <2>2. \A k \in Calls : call'[k] = NoCall
      BY <2>1 DEF CallStep, Starts, Continues, GoesOnToWrite, GoesOnToAsk, Ends, Under
    <2>3. phase' = Picking
      <3>1. phase.kind = "pick" /\ phase # Counting
        BY <2>1 DEF Picking, Counting
      <3>2. CASE UNCHANGED phase
        BY <2>1, <3>2
      <3>3. CASE Camera
        BY <3>1, <3>2, <3>3 DEF Camera, Frame, FailedFrame, OnBarcode, Present, Mounted
      <3>4. CASE Counter
        BY <1>6, <3>1, <3>2, <3>4, ScanAssumption
        DEF Counter, PickLeg, PickProduct, FinishSection, ToggleScanner, ToggleRapid, Leave,
            NewProduct, BackToSearch, CountOwner, PickMatch, Submit, SubmitAnytime, SubmitForm,
            Mounted
      <3>5. ASSUME NEW k \in Calls, Serve(k) \/ Reply(k) PROVE FALSE
        BY <2>1, <3>5
        DEF Serve, Reply, LookupAnswered, RapidFound, RapidUnknown, RapidEnd, Saved, Abandon,
            Enrolled, EnrollRefused, OwnerFound, LookupThrew, WriteThrew, FormThrew, Outcome,
            Under, Writing
      <3> QED  BY <3>2, <3>3, <3>4, <3>5 DEF Next, vars, screen, OtherPhone
    <2> QED  BY <2>2, <2>3
  <1>7. ScreensMakeSense' /\ phase' \in PhaseType
    BY <1>2, <1>4, <1>6 DEF ScreensMakeSense, PhaseOK
  <1> QED  BY <1>4, <1>5, <1>7

-----------------------------------------------------------------------------
(* The invariant is inductive.                                             *)

LEMMA InitInvariant == Init => IInv
  <1> SUFFICES ASSUME Init PROVE IInv
    OBVIOUS
  <1>1. \A k \in Calls : call[k] = NoCall
    BY DEF Init
  <1>2. PhaseOK(phase) /\ phase.kind = "pick"
    BY PlainPhases DEF Init, Picking
  <1>3. holder \in [Codes -> AnyProduct \cup {Nobody}] /\ Never \in 0 .. Never
    BY ScanAssumption DEF Init, AnyProduct, Never
  <1>4. TypeOK
    <2>1. {open, rapid, busy, stranded, inFlight} \subseteq BOOLEAN
      BY DEF Init
    <2>2. phase \in PhaseType /\ call \in [Calls -> CallType \cup {NoCall}]
      BY <1>2 DEF Init, PhaseOK
    <2>3. /\ view \in Codes \cup {Nothing} /\ hits \in 0 .. 2 /\ made \in [Codes -> Nat]
          /\ blink \in {"none", "short", "long"} /\ armed \in BOOLEAN
      BY DEF Init
    <2> QED  BY <1>3, <2>1, <2>2, <2>3 DEF Init, TypeOK
  <1>5. CallsMakeSense /\ ScreensMakeSense
    BY <1>1, <1>2 DEF Init, CallsMakeSense, ScreensMakeSense
  <1>6. DisarmedWhileSeen /\ CountedTwiceOnlyAfterBlink /\ EnrolledOnce
    BY DEF Init, DisarmedWhileSeen, CountedTwiceOnlyAfterBlink, EnrolledOnce
  <1>7. OneRapid /\ BusyUnlessCleared /\ BusyIsSomebodys
    BY <1>1 DEF Init, OneRapid, BusyUnlessCleared, BusyIsSomebodys, Under, Writing
  <1> QED  BY <1>4, <1>5, <1>6, <1>7 DEF IInv

LEMMA NextInvariant == IInv /\ [Next]_vars => IInv'
  <1> SUFFICES ASSUME IInv, [Next]_vars PROVE IInv'
    OBVIOUS
  <1>1. CallStep
    BY NextCallStep DEF IInv
  <1>2. OneRapid' /\ BusyUnlessCleared' /\ BusyIsSomebodys'
    BY <1>1, BusyStep DEF IInv
  <1>3. /\ ScreensMakeSense' /\ phase' \in PhaseType
        /\ leg' \in Legs \cup {NoLeg} /\ asked' \in Sealed \cup {NoLeg}
        /\ open' \in BOOLEAN /\ rapid' \in BOOLEAN
        /\ busy' \in BOOLEAN /\ stranded' \in BOOLEAN /\ inFlight' \in BOOLEAN
    BY <1>1, ScreenStep DEF IInv
  <1>4. /\ DisarmedWhileSeen' /\ CountedTwiceOnlyAfterBlink'
        /\ view' \in Codes \cup {Nothing} /\ hits' \in 0 .. 2
        /\ blink' \in {"none", "short", "long"}
        /\ armed' \in BOOLEAN /\ since' \in 0 .. Never
    BY CameraStep DEF IInv
  <1>5. /\ EnrolledOnce'
        /\ holder' \in [Codes -> AnyProduct \cup {Nobody}] /\ made' \in [Codes -> Nat]
    BY CatalogStep DEF IInv
  <1>6. CallsMakeSense' /\ call' \in [Calls -> CallType \cup {NoCall}]
    BY <1>1 DEF CallStep, Typed
  <1>7. TypeOK'
    BY <1>3, <1>4, <1>5, <1>6 DEF TypeOK
  <1> QED  BY <1>2, <1>3, <1>4, <1>5, <1>6, <1>7 DEF IInv

LEMMA Invariant == Spec => []IInv
  BY InitInvariant, NextInvariant, PTL DEF Spec

-----------------------------------------------------------------------------
(* Every state of the scanner, the screens, the calls and the catalog is   *)
(* of its type: no answer finds a screen it cannot be shown on.            *)
THEOREM ScanTypes == Spec => []TypeOK
  <1>1. IInv => TypeOK
    BY DEF IInv
  <1> QED  BY <1>1, Invariant, PTL

(* A bottle that stays in view counts a second time only if a frame missed *)
(* it, whatever the cooldown.                                              *)
THEOREM NoPhantomScan == Spec => []CountedTwiceOnlyAfterBlink
  <1>1. IInv => CountedTwiceOnlyAfterBlink
    BY DEF IInv
  <1> QED  BY <1>1, Invariant, PTL

(* However late an answer comes, a bottle the catalog knows is counted in  *)
(* the section it was scanned or chosen in, and a mere scan counts only    *)
(* where that was asked for.                                               *)
THEOREM KnownScansStay == Spec => []CountedWhereMeant
  <1>1. IInv => CountedWhereMeant
    BY DEF IInv, ScreensMakeSense, CountedWhereMeant, RapidOn
  <1> QED  BY <1>1, Invariant, PTL

(* However often enrolling a bottle is tried again after an answer was     *)
(* lost, it makes one product, and the barcode finds it.                   *)
THEOREM OneBottleOneProduct == Spec => []EnrolledOnce
  <1>1. IInv => EnrolledOnce
    BY DEF IInv
  <1> QED  BY <1>1, Invariant, PTL

(* What is busy is a call under way that will clear it, or a write the     *)
(* browser's store made give up; a rapid scan is only ever held back by a  *)
(* call under way.                                                         *)
THEOREM BusyHasAReason == Spec => []BusyIsSomebodys
  <1>1. IInv => BusyIsSomebodys
    BY DEF IInv
  <1> QED  BY <1>1, Invariant, PTL

(* During a write an entry screen's submit starts another only if somebody *)
(* else cleared its busy flag, and during a rapid scan's write no rapid    *)
(* scan starts one.                                                        *)
THEOREM GatesHold == Spec => EachGateHolds
  <1> DEFINE Orderly ==
        \A j, k \in Calls :
          Writing(j) /\ ~Writing(k) /\ Writing(k)' =>
            IF call'[k].kind = "entry" THEN call[j].cleared ELSE call[j].kind # "rapid"
  <1>1. IInv /\ [Next]_vars => [Orderly]_vars
    BY NextCallStep, OverlapStep DEF IInv
  <1> QED  BY <1>1, Invariant, PTL DEF Spec, EachGateHolds

=============================================================================
