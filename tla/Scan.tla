-------------------------------- MODULE Scan --------------------------------
(***************************************************************************)
(* Scanning and enrolling on one phone: the camera loop of                 *)
(* components/count/barcode-scanner.tsx with lib/rescan-guard.ts, the      *)
(* screens of components/count/count-leg.tsx, and the enrol form           *)
(* (components/count/enroll-form.tsx).                                     *)
(*                                                                         *)
(* Every server call is a context of its own: sent, served, then answered  *)
(* to the code after its await, or thrown, its request perhaps still on    *)
(* its way.  Nothing holds the counter back meanwhile, so an answer may    *)
(* find another screen, another section, or another call under way.  What  *)
(* a write does to its line, and what leaving or reloading the leg does,   *)
(* are CountClient's subject; here a write is only under way.              *)
(***************************************************************************)
EXTENDS Integers, FiniteSets

CONSTANTS
  Legs,        \* the sections of the bar (locations)
  Sealed,      \* those counted by quantities only
  Codes,       \* the barcodes on bottles
  Products,    \* the products the catalog has at first
  FirstHolder, \* what each barcode is attached to at first
  Calls,       \* bound: server calls under way at once
  Cooldown,    \* RESCAN_COOLDOWN_MS, in frames
  Nobody, NoLeg, NoCall, Nothing

New(code) == <<code>>          \* the product made for a barcode
AnyProduct == Products \cup {New(code) : code \in Codes}

(* A call under way: what it asks, for which section and from which the    *)
(* bottle is, whether it is answered to a caller that still waits, and     *)
(* whether somebody else has cleared its busy flag.                        *)
CallType ==
  [kind : {"lookup", "lookupRapid", "rapid", "entry", "link", "create", "owner"},
   code : Codes \cup {Nothing}, product : AnyProduct \cup {Nobody},
   leg : Legs, meant : Legs, state : {"sent", "ok", "refused", "thrown", "alone"},
   answer : AnyProduct \cup {Nobody}, cleared : BOOLEAN]

ASSUME ScanAssumption ==
  /\ Cooldown \in Nat /\ Sealed \subseteq Legs
  /\ FirstHolder \in [Codes -> Products \cup {Nobody}]
  /\ Nobody \notin AnyProduct /\ NoLeg \notin Legs
  /\ NoCall \notin Calls \cup CallType /\ Nothing \notin Codes

VARIABLES
  \* the bottle
  view,     \* the barcode before the camera
  hits,     \* how often the guard let it count since it was put there
  blink,    \* frames without it since then: "none", "short", "long"
  \* the scanner
  armed, since,     \* the guard; frames since its last hit
  \* the leg
  phase, leg, open, rapid, busy,
  stranded, \* a write was given up that busy was up for
  inFlight, \* rapidInFlight
  asked,    \* the section the counter turned rapid mode on in
  \* calls, and the catalog
  call, holder, made

camera == <<view, hits, blink, armed, since>>
screen == <<phase, leg, open, rapid, asked>>
gates  == <<busy, stranded, inFlight>>
vars == <<camera, screen, gates, call, holder, made>>

Picking  == [kind |-> "pick"]
Counting == [kind |-> "counting"]

(* A bottle of the section meant, about to be counted in l; enrolled, if   *)
(* it came through the enrol form.                                         *)
Entry(p, l, meant, enrolled) ==
  [kind |-> "entry", product |-> p, leg |-> l, meant |-> meant, enrolled |-> enrolled]

(* The form knows the barcode, not its section.  Its state: a call pending,*)
(* findBarcodeOwner asked, and what that said.                             *)
Enroll(code, meant) ==
  [kind |-> "enroll", code |-> code, meant |-> meant, mode |-> "search",
   product |-> Nobody, pending |-> NoCall, asking |-> {}, owner |-> Nobody]

Fresh(ph) == [ph EXCEPT !.pending = NoCall, !.asking = {}, !.owner = Nobody]

Never == Cooldown + 1         \* lastHitAt is null, or long ago

Init ==
  /\ view = Nothing /\ hits = 0 /\ blink = "none"
  /\ armed = TRUE /\ since = Never
  /\ phase = Picking /\ leg = NoLeg /\ open = FALSE /\ rapid = FALSE /\ asked = NoLeg
  /\ busy = FALSE /\ stranded = FALSE /\ inFlight = FALSE
  /\ call = [k \in Calls |-> NoCall]
  /\ holder = FirstHolder
  /\ made = [code \in Codes |-> 0]

(* The scanner is on the counting screen only, and every mount has a new   *)
(* guard.                                                                  *)
Mounted == phase = Counting /\ open

CameraFollows ==
  IF Mounted' THEN UNCHANGED camera
  ELSE /\ view' = Nothing /\ hits' = 0 /\ blink' = "none"
       /\ armed' = TRUE /\ since' = Never

-----------------------------------------------------------------------------
(* Calls.                                                                  *)

Call(kind, code, product, l, meant) ==
  [kind |-> kind, code |-> code, product |-> product, leg |-> l, meant |-> meant,
   state |-> "sent", answer |-> Nobody, cleared |-> FALSE]

Under(k, kinds) == call[k] # NoCall /\ call[k].kind \in kinds
Writing(k) == Under(k, {"entry", "rapid"})

(* Mistake: busy is cleared on the line after the await, so not by a throw.*)
EndOnly(k) == call' = [call EXCEPT ![k] = NoCall] /\ UNCHANGED <<busy, stranded>>

(* The call k, if any, is over, and whoever it was clears busy: for every  *)
(* other write still under way, too.                                       *)
EndAndClear(k) ==
  /\ busy' = FALSE /\ stranded' = FALSE
  /\ call' = [j \in Calls |->
                IF j = k THEN NoCall
                ELSE IF Writing(j) THEN [call[j] EXCEPT !.cleared = TRUE] ELSE call[j]]

-----------------------------------------------------------------------------
(* The scanner.                                                            *)

(* A bottle is brought before the camera, or taken away.                   *)
Present(v) ==
  /\ Mounted /\ (v # view \/ hits > 0)
  /\ view' = v /\ hits' = 0 /\ blink' = "none"
  /\ UNCHANGED <<armed, since, screen, gates, call, holder, made>>

Later == IF since = Never THEN Never ELSE since + 1

(* A frame without its barcode, while a bottle that has counted is there.  *)
Blinked(seen) ==
  IF seen # Nothing \/ view = Nothing \/ hits = 0 \/ blink = "long" THEN blink
  ELSE IF Later <= Cooldown THEN "short" ELSE "long"

(* Mistake: a hit does not wait for the label to leave the view.           *)
AcceptsStill(seen) == seen # Nothing /\ Later > Cooldown

(* offerFrame: does the frame count?                                       *)
Accepts(seen) == seen # Nothing /\ armed /\ Later > Cooldown

(* A hit leaves the guard disarmed; a clear frame arms it again, and a     *)
(* refusal by the cooldown leaves it armed.                                *)
Offer(seen) ==
  /\ armed' = (seen = Nothing \/ (armed /\ ~Accepts(seen)))
  /\ since' = IF Accepts(seen) THEN 0 ELSE Later
  /\ hits' = IF Accepts(seen) /\ hits < 2 THEN hits + 1 ELSE hits
  /\ blink' = Blinked(seen)

(* rapidScan: a hit while the last scan is under way is dropped, silently. *)
RapidScan(code) ==
  IF inFlight THEN UNCHANGED <<gates, call>>
  ELSE \E k \in Calls :
         /\ call[k] = NoCall
         /\ call' = [call EXCEPT ![k] = Call("lookupRapid", code, Nobody, leg, leg)]
         /\ inFlight' = TRUE /\ busy' = TRUE
         /\ UNCHANGED stranded

RapidOn == rapid /\ leg \in Sealed

(* The camera's loop; what is there is seen, or missed.  The guard is      *)
(* offered the empty frames also outside rapid mode, where a barcode goes  *)
(* to onBarcode instead.                                                   *)
Frame ==
  /\ Mounted
  /\ \E seen \in {view, Nothing} :
       /\ seen = Nothing \/ RapidOn
       /\ Offer(seen)
       /\ IF Accepts(seen) THEN RapidScan(seen) ELSE UNCHANGED <<gates, call>>
  /\ UNCHANGED <<view, screen, holder, made>>

(* The detector throws on a frame, which is then offered to nobody.        *)
FailedFrame ==
  /\ Mounted /\ since' = Later
  /\ UNCHANGED <<view, hits, blink, armed, screen, gates, call, holder, made>>

(* onBarcode of an ordinary scan: the camera closes, the lookup begins.    *)
OnBarcode ==
  /\ Mounted /\ ~RapidOn /\ view # Nothing
  /\ \E k \in Calls :
       /\ call[k] = NoCall
       /\ call' = [call EXCEPT ![k] = Call("lookup", view, Nobody, leg, leg)]
  /\ open' = FALSE /\ busy' = TRUE
  /\ UNCHANGED <<phase, leg, rapid, asked, stranded, inFlight, holder, made>>
  /\ CameraFollows

-----------------------------------------------------------------------------
(* The counter, between scans.                                             *)

Tap == CameraFollows /\ UNCHANGED <<gates, call, holder, made>>

PickLeg(l) ==
  /\ phase = Picking
  /\ leg' = l /\ phase' = Counting /\ rapid' = FALSE /\ asked' = NoLeg
  /\ UNCHANGED open
  /\ Tap

FinishSection ==
  /\ phase = Counting /\ ~open
  /\ phase' = Picking
  /\ UNCHANGED <<leg, open, rapid, asked>>
  /\ Tap

ToggleScanner ==
  /\ phase = Counting
  /\ open' = ~open
  /\ UNCHANGED <<phase, leg, rapid, asked>>
  /\ Tap

ToggleRapid ==
  /\ Mounted /\ leg \in Sealed
  /\ rapid' = ~rapid
  /\ asked' = IF rapid THEN NoLeg ELSE leg
  /\ UNCHANGED <<phase, leg, open>>
  /\ Tap

(* A search result is counted here, a stray bottle in another section.     *)
PickProduct(p, l) ==
  /\ phase = Counting /\ ~open
  /\ phase' = Entry(p, l, l, FALSE)
  /\ UNCHANGED <<leg, open, rapid, asked>>
  /\ Tap

(* Back to the counting screen works at any time, but not from behind the  *)
(* screen that confirms a size.                                            *)
Leave ==
  /\ \/ phase.kind = "entry"
     \/ phase.kind = "enroll" /\ phase.mode # "confirm" /\ phase.product = Nobody
  /\ phase' = Counting
  /\ UNCHANGED <<leg, open, rapid, asked>>
  /\ Tap

(* What submit does; alone, the mistake of buttons enabled during a write. *)
SubmitAnytime(k) ==
  /\ phase.kind = "entry" /\ call[k] = NoCall
  /\ call' = [call EXCEPT ![k] =
                Call("entry", Nothing, phase.product, phase.leg, phase.leg)]
  /\ busy' = TRUE
  /\ UNCHANGED <<camera, screen, stranded, inFlight, holder, made>>

(* Submit of the entry screen.                                             *)
Submit(k) == ~busy /\ SubmitAnytime(k)

(* The enrol form: search, confirm the size of what was found, or create,  *)
(* from the search or because the size differs; back leads where one was.  *)
PickMatch(p) ==
  /\ phase.kind = "enroll" /\ phase.mode = "search"
  /\ phase' = [phase EXCEPT !.mode = "confirm", !.product = p]
  /\ UNCHANGED <<leg, open, rapid, asked>>
  /\ Tap

NewProduct ==
  /\ phase.kind = "enroll" /\ phase.mode \in {"search", "confirm"}
  /\ phase' = [Fresh(phase) EXCEPT !.mode = "create"]
  /\ UNCHANGED <<leg, open, rapid, asked>>
  /\ Tap

BackToSearch ==
  /\ phase.kind = "enroll" /\ phase.mode # "search"
  /\ phase' = IF phase.mode = "create" /\ phase.product # Nobody
              THEN [Fresh(phase) EXCEPT !.mode = "confirm"]
              ELSE Enroll(phase.code, phase.meant)
  /\ UNCHANGED <<leg, open, rapid, asked>>
  /\ Tap

(* link, submit: a button is disabled while its own form's call is pending.*)
(* The bottle will be counted in the section that is current now.          *)
SubmitForm(k) ==
  /\ phase.kind = "enroll" /\ phase.mode # "search" /\ phase.pending = NoCall
  /\ call[k] = NoCall
  /\ call' = [call EXCEPT ![k] =
       Call(IF phase.mode = "confirm" THEN "link" ELSE "create", phase.code,
            IF phase.mode = "confirm" THEN phase.product ELSE New(phase.code),
            leg, phase.meant)]
  /\ phase' = [phase EXCEPT !.pending = k, !.owner = Nobody]
  /\ UNCHANGED <<camera, leg, open, rapid, asked, gates, holder, made>>

(* "Count Tito's": what was refused is counted as whoever has the barcode. *)
(* The new-product form shows the button with its error, the confirm       *)
(* screen always.                                                          *)
CountOwner ==
  /\ phase.kind = "enroll" /\ phase.owner # Nobody
  /\ phase.mode = "confirm" \/ phase.pending = NoCall
  /\ phase' = Entry(phase.owner, leg, phase.meant, TRUE)
  /\ UNCHANGED <<leg, open, rapid, asked>>
  /\ Tap

-----------------------------------------------------------------------------
(* The server.                                                             *)

(* Mistake: a product is inserted although its barcode is taken.           *)
AttachOrphan(k) ==
  LET c == call[k]
  IN  /\ holder' = IF holder[c.code] = Nobody THEN [holder EXCEPT ![c.code] = c.product]
                   ELSE holder
      /\ made' = IF c.kind = "create" THEN [made EXCEPT ![c.code] = @ + 1] ELSE made

(* linkBarcodeToProduct and createProduct, all or nothing.                 *)
Attach(k) ==
  LET c == call[k]
  IN  /\ holder[c.code] = Nobody
      /\ holder' = [holder EXCEPT ![c.code] = c.product]
      /\ made' = IF c.kind = "create" THEN [made EXCEPT ![c.code] = @ + 1] ELSE made

Answered(k, state, p) ==
  call' = [call EXCEPT ![k] =
             IF call[k].state = "alone" THEN NoCall
             ELSE [call[k] EXCEPT !.state = state, !.answer = p]]

(* A request is done, or refused, whether its caller still waits or not.   *)
Serve(k) ==
  /\ call[k] # NoCall /\ call[k].state \in {"sent", "alone"}
  /\ \/ /\ Under(k, {"lookup", "lookupRapid", "owner"})
        /\ Answered(k, "ok", holder[call[k].code])
        /\ UNCHANGED <<holder, made>>
     \/ /\ Under(k, {"link", "create"})
        /\ Attach(k)
        /\ Answered(k, "ok", call[k].product)
     \/ /\ Under(k, {"entry", "rapid"})
        /\ Answered(k, "ok", call[k].product)
        /\ UNCHANGED <<holder, made>>
     \/ /\ Answered(k, "refused", Nobody)
        /\ UNCHANGED <<holder, made>>
  /\ UNCHANGED <<camera, screen, gates>>

(* Another phone enrols the bottle.                                        *)
OtherPhone(code, p) ==
  /\ holder[code] = Nobody
  /\ holder' = [holder EXCEPT ![code] = p]
  /\ UNCHANGED <<camera, screen, gates, call, made>>

-----------------------------------------------------------------------------
(* After the awaits.                                                       *)

Outcome(k, states) == call[k] # NoCall /\ call[k].state \in states

(* Mistake: a late answer counts in the section that is current by then.   *)
FoundHere(k) == Entry(call[k].answer, leg, call[k].meant, Under(k, {"link", "create"}))

Found(k) == Entry(call[k].answer, call[k].leg, call[k].meant, Under(k, {"link", "create"}))

(* The enrol form for an unknown barcode.  One that is open already only   *)
(* gets the other barcode.                                                 *)
Unknown(k) ==
  IF phase.kind = "enroll"
  THEN [phase EXCEPT !.code = call[k].code, !.meant = call[k].meant]
  ELSE Enroll(call[k].code, call[k].meant)

(* Mistake: null, for an unknown barcode, is taken for a product.          *)
LookupUnchecked(k) ==
  /\ Under(k, {"lookup"}) /\ Outcome(k, {"ok", "refused"})
  /\ phase' = IF call[k].state = "refused" THEN phase ELSE Found(k)
  /\ EndAndClear(k)
  /\ UNCHANGED <<leg, open, rapid, asked, inFlight, holder, made>>
  /\ CameraFollows

(* onBarcode.                                                              *)
LookupAnswered(k) ==
  /\ Under(k, {"lookup"}) /\ Outcome(k, {"ok", "refused"})
  /\ phase' = IF call[k].state = "refused" THEN phase
              ELSE IF call[k].answer = Nobody THEN Unknown(k)
              ELSE Found(k)
  /\ EndAndClear(k)
  /\ UNCHANGED <<leg, open, rapid, asked, inFlight, holder, made>>
  /\ CameraFollows

(* rapidScanInner: what is known is written at once, what is not closes    *)
(* the camera.                                                             *)
RapidFound(k) ==
  /\ Under(k, {"lookupRapid"}) /\ Outcome(k, {"ok"}) /\ call[k].answer # Nobody
  /\ call' = [call EXCEPT ![k] =
       [@ EXCEPT !.kind = "rapid", !.state = "sent", !.product = call[k].answer]]
  /\ busy' = TRUE
  /\ UNCHANGED <<camera, screen, stranded, inFlight, holder, made>>

RapidUnknown(k) ==
  /\ Under(k, {"lookupRapid"}) /\ Outcome(k, {"ok"}) /\ call[k].answer = Nobody
  /\ open' = FALSE /\ phase' = Unknown(k)
  /\ EndAndClear(k) /\ inFlight' = FALSE
  /\ UNCHANGED <<leg, rapid, asked, holder, made>>
  /\ CameraFollows

RapidEnd(k) ==
  /\ \/ Under(k, {"rapid"}) /\ Outcome(k, {"ok", "refused", "thrown"})
     \/ Under(k, {"lookupRapid"}) /\ Outcome(k, {"refused"})
  /\ EndAndClear(k) /\ inFlight' = FALSE
  /\ UNCHANGED <<camera, screen, holder, made>>

(* An entry screen's write: saved, or queued after a throw, the counting   *)
(* screen is shown.                                                        *)
Saved(k) ==
  /\ Under(k, {"entry"}) /\ Outcome(k, {"ok", "refused", "thrown"})
  /\ phase' = IF call[k].state = "refused" THEN phase ELSE Counting
  /\ EndAndClear(k)
  /\ UNCHANGED <<leg, open, rapid, asked, inFlight, holder, made>>
  /\ CameraFollows

(* The browser's store rejects what runWrite awaits of it, before its call *)
(* or after: nothing catches that, and busy stays up.                      *)
Abandon(k) ==
  /\ Writing(k)
  /\ call' = [call EXCEPT ![k] = NoCall]
  /\ stranded' = busy
  /\ inFlight' = IF Under(k, {"rapid"}) THEN FALSE ELSE inFlight
  /\ UNCHANGED <<camera, screen, busy, holder, made>>

Form(k) == phase.kind = "enroll" /\ phase.pending = k

(* onResolved: counted next, also if the form was left meanwhile.          *)
Enrolled(k) ==
  /\ Under(k, {"link", "create"}) /\ Outcome(k, {"ok"})
  /\ phase' = Found(k)
  /\ call' = [call EXCEPT ![k] = NoCall]
  /\ UNCHANGED <<leg, open, rapid, asked, gates, holder, made>>
  /\ CameraFollows

(* Refused: the button is back, and findBarcodeOwner asks who has the      *)
(* barcode; of a form that is gone nobody would hear the answer.           *)
EnrollRefused(k) ==
  /\ Under(k, {"link", "create"}) /\ Outcome(k, {"refused"})
  /\ IF Form(k)
     THEN /\ phase' = [phase EXCEPT !.pending = NoCall, !.asking = @ \cup {k}]
          /\ call' = [call EXCEPT ![k] = Call("owner", call[k].code, Nobody, leg, leg)]
     ELSE /\ call' = [call EXCEPT ![k] = NoCall]
          /\ UNCHANGED phase
  /\ UNCHANGED <<camera, leg, open, rapid, asked, gates, holder, made>>

(* Whoever has the barcode, and nobody if that call fails.                 *)
OwnerFound(k) ==
  /\ Under(k, {"owner"}) /\ Outcome(k, {"ok", "refused"})
  /\ phase' = IF phase.kind = "enroll" /\ k \in phase.asking
              THEN [phase EXCEPT !.asking = @ \ {k}, !.owner = call[k].answer]
              ELSE phase
  /\ call' = [call EXCEPT ![k] = NoCall]
  /\ UNCHANGED <<camera, leg, open, rapid, asked, gates, holder, made>>

(* A call throws.  A lookup says it is offline.  Whether it or a write was *)
(* served makes no difference here.                                        *)
LookupThrew(k) ==
  /\ Under(k, {"lookup", "lookupRapid"}) /\ Outcome(k, {"sent"})
  /\ EndAndClear(k)
  /\ inFlight' = IF Under(k, {"lookupRapid"}) THEN FALSE ELSE inFlight
  /\ UNCHANGED <<camera, screen, holder, made>>

(* runWrite has the store mark the attempt, then goes on as though it had  *)
(* succeeded, for the write is queued.                                     *)
WriteThrew(k) ==
  /\ Writing(k) /\ Outcome(k, {"sent"})
  /\ call' = [call EXCEPT ![k].state = "thrown"]
  /\ UNCHANGED <<camera, screen, gates, holder, made>>

(* A link or create may have been done, or be done yet.                    *)
FormThrew(k) ==
  /\ Under(k, {"link", "create"}) /\ Outcome(k, {"sent", "ok", "refused"})
  /\ phase' = IF Form(k) THEN [phase EXCEPT !.pending = NoCall] ELSE phase
  /\ \/ call' = [call EXCEPT ![k] = NoCall]
     \/ call[k].state = "sent" /\ call' = [call EXCEPT ![k].state = "alone"]
  /\ UNCHANGED <<camera, leg, open, rapid, asked, gates, holder, made>>

-----------------------------------------------------------------------------
Camera ==
  \/ Frame \/ FailedFrame \/ OnBarcode
  \/ \E v \in Codes \cup {Nothing} : Present(v)

Counter ==
  \/ \E l \in Legs : PickLeg(l) \/ \E p \in Products : PickProduct(p, l)
  \/ FinishSection \/ ToggleScanner \/ ToggleRapid \/ Leave
  \/ NewProduct \/ BackToSearch \/ CountOwner
  \/ \E p \in Products : PickMatch(p)
  \/ \E k \in Calls : Submit(k) \/ SubmitForm(k)

Reply(k) ==
  \/ LookupAnswered(k) \/ RapidFound(k) \/ RapidUnknown(k) \/ RapidEnd(k)
  \/ Saved(k) \/ Abandon(k)
  \/ Enrolled(k) \/ EnrollRefused(k) \/ OwnerFound(k)
  \/ LookupThrew(k) \/ WriteThrew(k) \/ FormThrew(k)

Next ==
  \/ Camera \/ Counter
  \/ \E k \in Calls : Serve(k) \/ Reply(k)
  \/ \E code \in Codes, p \in Products : OtherPhone(code, p)

Spec == Init /\ [][Next]_vars

-----------------------------------------------------------------------------
PhaseType ==
  {Picking, Counting}
  \cup [kind : {"entry"}, product : AnyProduct, leg : Legs, meant : Legs, enrolled : BOOLEAN]
  \cup [kind : {"enroll"}, code : Codes, meant : Legs, mode : {"search", "confirm", "create"},
        product : Products \cup {Nobody}, pending : Calls \cup {NoCall},
        asking : SUBSET Calls, owner : AnyProduct \cup {Nobody}]

TypeOK ==
  /\ view \in Codes \cup {Nothing} /\ hits \in 0 .. 2
  /\ blink \in {"none", "short", "long"}
  /\ armed \in BOOLEAN /\ since \in 0 .. Never
  /\ phase \in PhaseType
  /\ leg \in Legs \cup {NoLeg} /\ asked \in Sealed \cup {NoLeg}
  /\ {open, rapid, busy, stranded, inFlight} \subseteq BOOLEAN
  /\ call \in [Calls -> CallType \cup {NoCall}]
  /\ holder \in [Codes -> AnyProduct \cup {Nobody}]
  /\ made \in [Codes -> Nat]

(* A phantom scan is silent: a bottle that stays in view counts a second   *)
(* time only if a frame missed it.                                         *)
CountedTwiceOnlyAfterBlink == hits > 1 => blink # "none"

(* "The bottle has not moved, so this must not count twice - this is       *)
(* exactly what the cooldown is for": a bottle whose every missed frame    *)
(* lies within the cooldown of its hit counts once.                        *)
FlickerCountsOnce == hits > 1 => blink = "long"

(* A wrong section fails silently: however late an answer comes, a bottle  *)
(* the catalog knows is counted in the section it was scanned or chosen    *)
(* in, and a mere scan counts only where the counter asked for that.  One  *)
(* that is enrolled first is excepted: see ScanStaysInItsSection.          *)
CountedWhereMeant ==
  /\ phase.kind = "entry" => phase.leg = phase.meant \/ phase.enrolled
  /\ Mounted /\ RapidOn => asked = leg

(* "A wrong active location fails silently": no bottle is counted in       *)
(* another section than it was scanned in, one that is enrolled first      *)
(* neither.                                                                *)
ScanStaysInItsSection == phase.kind = "entry" => phase.leg = phase.meant

(* What the two gates are worth: during a write an entry screen's submit   *)
(* starts another only after somebody else cleared its busy flag, and      *)
(* during a rapid scan's write no rapid scan starts one.  They do not keep *)
(* writes serialized, as a comment in runWrite has it: during an entry     *)
(* screen's write, left by Back, a rapid scan starts one.                  *)
EachGateHolds ==
  [][\A j, k \in Calls :
       Writing(j) /\ ~Writing(k) /\ Writing(k)' =>
         IF call'[k].kind = "entry" THEN call[j].cleared ELSE call[j].kind # "rapid"]_vars

(* Enrolling is not idempotent and is not queued, but however often it is  *)
(* tried again after an answer was lost, one bottle makes one product, and *)
(* a product made for it is the one its barcode finds.                     *)
EnrolledOnce == \A code \in Codes : made[code] > 0 => made[code] = 1 /\ holder[code] = New(code)

(* What disables the buttons of an entry screen is a call that is under    *)
(* way and will clear it, however it ends, unless the browser's store made *)
(* a write give up; what drops the hits of a rapid scan is always a call   *)
(* under way.                                                              *)
BusyIsSomebodys ==
  /\ busy => stranded \/ \E k \in Calls : Under(k, {"lookup", "lookupRapid", "rapid", "entry"})
  /\ inFlight <=> \E k \in Calls : Under(k, {"lookupRapid", "rapid"})

=============================================================================
