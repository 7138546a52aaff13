---------------------------- MODULE CatalogProofs ----------------------------
(***************************************************************************)
(* What Catalog keeps, for any number of organizations, rows, readings and *)
(* requests under way at once.  The inductive invariant adds to what the   *)
(* run checks what a request has found out once it is past its reads, and  *)
(* that no row a request is to insert is there before.  Of what normalize- *)
(* Barcode computes nothing is used but that it is a function, until the   *)
(* last theorems, which take from BarcodeProofs what it makes of readings. *)
(***************************************************************************)
EXTENDS Catalog, BarcodeProofs

-----------------------------------------------------------------------------
(* The inductive invariant.                                                *)

(* The tables: references stay within the organization, and a product with *)
(* barcodes has a primary one.                                             *)
BarcodesOwn ==
  \A o \in Orgs, c \in Codes :
    barcode[o][c] # NoRow => OwnProduct(o, barcode[o][c].product)

(* A barcode is of an article that reads so.                               *)
LinkedAsRead ==
  \A o \in Orgs, c \in Codes :
    barcode[o][c] # NoRow =>
      \E x \in Readings : CodeOf(x) = c /\ x.article = barcode[o][c].article

VendorsOwn ==
  \A p \in Ids :
    product[p] # NoRow /\ product[p].vendor # None => OwnVendor(product[p].org, product[p].vendor)

HavePrimary ==
  \A o \in Orgs, c \in Codes :
    barcode[o][c] # NoRow =>
      \E d \in Codes : /\ barcode[o][d] # NoRow /\ barcode[o][d].primary
                       /\ barcode[o][d].product = barcode[o][c].product

(* Everything an input names is the organization's own.                    *)
NamesOwn(in) ==
  /\ in.op \in {"link", "edit", "deactivate"} => OwnProduct(in.org, in.product)
  /\ in.op = "assign" => \A p \in in.products : OwnProduct(in.org, p)
  /\ in.op \in {"create", "edit", "assign", "editVendor"} => AssertVendorOwned(in.org, in.vendor)
  /\ in.op \in {"editPlace", "retire"} => OwnPlace(in.org, in.place)

(* Which operations come to a statement.                                   *)
OnItsPath(x) ==
  /\ x.step = "row" => x.in.op \notin {"resolve", "link", "newVendor", "editVendor"}
  /\ x.step = "code" => BringsCode(x.in)
  /\ x.step = "par" => x.in.op = "edit" /\ x.in.par # Keep
  /\ x.step = "commit" => x.in.op # "resolve"

(* Past the checks that what it names is its own; deactivateProduct checks *)
(* when it writes.                                                         *)
Checked(x) ==
  \/ x.step \in {"code", "par", "commit"}
  \/ x.step = "row" /\ x.in.op # "deactivate"
  \/ x.step = "answered" /\ x.outcome \notin {"notFound", "failed"}

(* What a request's snapshot has told it about barcodes is so, unless it   *)
(* is late.                                                                *)
KnowsCodes(r, x) ==
  LET o == x.in.org IN
  /\ x.holder # None => OwnProduct(o, x.holder)
  /\ Reading(r) /\ BringsCode(x.in) /\ r \notin late => x.holder = Resolve(o, x.in.reading)
  /\ x.step = "answered" /\ x.outcome = "taken" =>
       /\ BringsCode(x.in)
       /\ r \in late \/ (x.holder # None /\ x.holder = Resolve(o, x.in.reading))
  /\ Reading(r) /\ x.in.op = "create" => x.primary
  /\ Reading(r) /\ x.in.op = "link" /\ ~x.primary => HasCode(o, x.in.product)
  /\ Reading(r) /\ x.in.op = "link" /\ x.primary /\ r \notin late => ~HasCode(o, x.in.product)
  /\ x.step = "commit" /\ BringsCode(x.in) =>
       /\ <<"code", o, CodeOf(x.in.reading)>> \in x.locks
       /\ barcode[o][CodeOf(x.in.reading)] = NoRow

(* The same of locations.                                                  *)
KnowsPlaces(r, x) ==
  Reading(r) /\ r \notin late =>
    /\ x.in.op = "editPlace" /\ x.in.mode \notin {Keep, place[x.in.place].mode} =>
         lines[x.in.place] = "none"
    /\ x.in.op = "retire" =>
         /\ lines[x.in.place] = "none"
         /\ \E l \in ActivePlaces(x.in.org) : l # x.in.place

Unborn(r) == vendor[NewId[r]] = NoRow /\ product[NewId[r]] = NoRow /\ place[NewId[r]] = NoRow

Honest(r) ==
  LET x == req[r] IN
  /\ x = NoRequest => Unborn(r)
  /\ x # NoRequest =>
       /\ OnItsPath(x)
       /\ Checked(x) => NamesOwn(x.in)
       /\ KnowsCodes(r, x)
       /\ KnowsPlaces(r, x)
       /\ x.step # "answered" => Unborn(r)

TablesInv == BarcodesOwn /\ LinkedAsRead /\ VendorsOwn /\ HavePrimary /\ CreatedWithItsBarcode

IInv == TypeOK /\ TablesInv /\ \A r \in Requests : Honest(r)

-----------------------------------------------------------------------------
(* The fields of what is asked.                                            *)
LEMMA AskedFields ==
  ASSUME NEW in, in \in Asked
  PROVE  /\ in.org \in Orgs
         /\ in.op \in {"resolve", "link", "create", "edit", "deactivate", "assign",
                       "newVendor", "editVendor", "newPlace", "editPlace", "retire"}
         /\ in.op = "resolve" => in.reading \in Readings
         /\ in.op = "link" => in.product \in Ids /\ in.reading \in Readings
         /\ in.op = "create" => /\ in.name \in Names /\ in.vendor \in Ids \cup {None}
                                /\ in.reading \in Readings \cup {None}
         /\ in.op = "edit" => /\ in.product \in Ids /\ in.name \in Names \cup {Keep}
                              /\ in.vendor \in Ids \cup {None, Keep}
                              /\ in.par \in Nat \cup {None, Keep}
         /\ in.op = "deactivate" => in.product \in Ids
         /\ in.op = "assign" => in.products \subseteq Ids /\ in.vendor \in Ids \cup {None}
         /\ in.op = "editVendor" => in.vendor \in Ids
         /\ in.op = "newPlace" => in.name \in Names
         /\ in.op = "editPlace" => /\ in.place \in Ids /\ in.name \in Names \cup {Keep}
                                   /\ in.mode \in {"tenths", "sealed", Keep}
         /\ in.op = "retire" => in.place \in Ids
  <1>1. in \in CodeInputs \cup ProductInputs \cup VendorInputs \cup PlaceInputs
    BY CatalogAssumption DEF CatalogAssumption, Inputs
  <1>2. CASE in \in CodeInputs
    BY <1>2 DEF CodeInputs
  <1>3. CASE in \in ProductInputs
    BY <1>3 DEF ProductInputs
  <1>4. CASE in \in VendorInputs
    BY <1>4 DEF VendorInputs
  <1>5. CASE in \in PlaceInputs
    BY <1>5 DEF PlaceInputs
  <1> QED BY <1>1, <1>2, <1>3, <1>4, <1>5

(* A request that brings a barcode brings a reading of one.                *)
LEMMA BringsReading ==
  ASSUME NEW in, in \in Asked, BringsCode(in)
  PROVE  in.reading \in Readings /\ CodeOf(in.reading) \in Codes /\ in.op \in {"link", "create"}
  BY AskedFields DEF BringsCode, CodeOf, Codes

LEMMA CodesOf == ASSUME NEW x \in Readings PROVE CodeOf(x) \in Codes
  BY DEF CodeOf, Codes

(* One request as it is typed.                                             *)
LEMMA RequestTyped ==
  ASSUME TypeOK, NEW r \in Requests, req[r] # NoRequest
  PROVE  /\ req[r] \in RequestType /\ req[r].in \in Asked
         /\ req[r].locks \subseteq LockKeys
         /\ req[r].primary \in BOOLEAN
         /\ req[r].holder \in Ids \cup {None}
         /\ req[r].step \in {"read", "row", "code", "par", "commit", "answered"}
  BY DEF TypeOK, RequestType

-----------------------------------------------------------------------------
(* At first.                                                               *)
LEMMA InitIInv == Init => IInv
  <1> SUFFICES ASSUME Init PROVE IInv
    OBVIOUS
  <1>1. PICK rows \in InitialRows :
          vendor = rows.vendor /\ product = rows.product /\ barcode = rows.barcode
          /\ place = rows.place
    BY DEF Init
  <1>2. /\ Lawful(rows)
        /\ \A r \in Requests : /\ rows.vendor[NewId[r]] = NoRow
                               /\ rows.product[NewId[r]] = NoRow
                               /\ rows.place[NewId[r]] = NoRow
    BY FirstTables DEF FirstTables
  <1>3. TypeOK
    BY <1>1, <1>2 DEF Init, TypeOK, Lawful
  <1>4. BarcodesOwn
    BY <1>1, <1>2 DEF BarcodesOwn, Lawful, OwnProduct
  <1>5. VendorsOwn
    BY <1>1, <1>2 DEF VendorsOwn, Lawful, OwnVendor, None
  <1>6. HavePrimary
    BY <1>1, <1>2 DEF HavePrimary, Lawful
  <1>7. CreatedWithItsBarcode
    BY <1>1, <1>2 DEF CreatedWithItsBarcode, Lawful, OwnProduct
  <1>8. \A r \in Requests : Honest(r)
    BY <1>1, <1>2 DEF Init, Honest, Unborn
  <1>9. LinkedAsRead
    BY <1>1, <1>2 DEF LinkedAsRead, Lawful
  <1> QED BY <1>3, <1>4, <1>5, <1>6, <1>7, <1>8, <1>9 DEF IInv, TablesInv

-----------------------------------------------------------------------------
(* Steps of a request before its commit: they leave the tables alone, and  *)
(* change no other request.                                                *)
LEMMA NamesStay ==
  ASSUME NEW in, UNCHANGED <<vendor, product, place>>
  PROVE  NamesOwn(in)' = NamesOwn(in)
  BY DEF NamesOwn, OwnProduct, OwnVendor, OwnPlace, AssertVendorOwned

LEMMA OthersStay ==
  ASSUME NEW q \in Requests, Honest(q), req'[q] = req[q], UNCHANGED <<tables, late>>
  PROVE  Honest(q)'
  <1>1. Unborn(q)' = Unborn(q)
    BY DEF Unborn, tables
  <1>2. ASSUME NEW in PROVE NamesOwn(in)' = NamesOwn(in)
    BY NamesStay DEF tables
  <1>3. ASSUME NEW x PROVE KnowsCodes(q, x)' = KnowsCodes(q, x)
    BY DEF KnowsCodes, Reading, Step, OwnProduct, Resolve, HasCode, tables
  <1>4. ASSUME NEW x PROVE KnowsPlaces(q, x)' = KnowsPlaces(q, x)
    BY DEF KnowsPlaces, Reading, Step, ActivePlaces, OwnPlace, tables
  <1> QED BY <1>1, <1>2, <1>3, <1>4 DEF Honest, OnItsPath, Checked

LEMMA TablesStay ==
  ASSUME TablesInv, UNCHANGED tables
  PROVE  TablesInv'
  BY DEF TablesInv, BarcodesOwn, LinkedAsRead, VendorsOwn, HavePrimary, CreatedWithItsBarcode,
         OwnProduct, OwnVendor, Resolve, tables

LEMMA OneRequest ==
  ASSUME IInv, NEW r \in Requests, NEW x \in RequestType, req' = [req EXCEPT ![r] = x],
         UNCHANGED <<tables, late>>, Free(r, x.locks), Honest(r)'
  PROVE  IInv'
  <1>1. /\ req' \in [Requests -> RequestType \cup {NoRequest}] /\ req'[r] = x
        /\ \A q \in Requests \ {r} : req'[q] = req[q]
    BY DEF IInv, TypeOK
  <1>2. \A q \in Requests : req'[q] # NoRequest => Free(q, req[q].locks)'
    BY <1>1 DEF IInv, TypeOK, Free
  <1>3. TypeOK'
    BY <1>1, <1>2 DEF IInv, TypeOK, tables
  <1>4. TablesInv'
    BY TablesStay DEF IInv
  <1>5. ASSUME NEW q \in Requests PROVE Honest(q)'
    <2>1. CASE q = r
      BY <2>1
    <2>2. CASE q # r
      BY <2>2, <1>1, OthersStay DEF IInv
    <2> QED BY <2>1, <2>2
  <1> QED BY <1>3, <1>4, <1>5 DEF IInv

(* An answer other than that the code is taken.                            *)
LEMMA AnswerKeeps ==
  ASSUME IInv, NEW r \in Requests, req[r] # NoRequest, UNCHANGED <<tables, late>>,
         NEW outcome, outcome \in {"ok", "notFound", "inUse", "last", "conflict", "error",
                                   "duplicate", "failed"},
         Answer(r, outcome),
         outcome \notin {"notFound", "failed"} => NamesOwn(req[r].in)
  PROVE  IInv'
  <1>0. req[r] \in RequestType
    BY RequestTyped DEF IInv
  <1>1. PICK x \in RequestType :
          x = [req[r] EXCEPT !.step = "answered", !.outcome = outcome, !.locks = {}]
    BY <1>0 DEF RequestType
  <1>2. req' = [req EXCEPT ![r] = x] /\ req'[r] = x
    BY <1>1 DEF IInv, TypeOK, Answer
  <1>3. /\ x # NoRequest
        /\ x.step = "answered" /\ x.outcome = outcome /\ x.locks = {}
        /\ x.in = req[r].in /\ x.holder = req[r].holder
    <2>1. x # NoRequest
      BY CatalogAssumption DEF CatalogAssumption
    <2>2. x.step = "answered" /\ x.outcome = outcome /\ x.locks = {}
      BY <1>0, <1>1 DEF RequestType
    <2>3. x.in = req[r].in /\ x.holder = req[r].holder
      BY <1>0, <1>1 DEF RequestType
    <2> QED BY <2>1, <2>2, <2>3
  <1>4. NamesOwn(req[r].in) => NamesOwn(x.in)'
    BY <1>3, NamesStay DEF tables
  <1>5. x.holder # None => OwnProduct(x.in.org, x.holder)'
    BY <1>3 DEF IInv, Honest, KnowsCodes, OwnProduct, tables
  <1>6. ~Reading(r)'
    BY <1>2, <1>3 DEF Reading, Step
  <1>7. KnowsCodes(r, x)' /\ KnowsPlaces(r, x)' /\ OnItsPath(x)'
    BY <1>3, <1>5, <1>6 DEF KnowsCodes, KnowsPlaces, OnItsPath
  <1>8. Honest(r)'
    BY <1>2, <1>3, <1>4, <1>7 DEF Honest, Checked
  <1>9. Free(r, x.locks)
    BY <1>3 DEF Free
  <1> QED BY <1>1, <1>2, <1>8, <1>9, OneRequest

(* From one write to the next.                                             *)
LEMMA GoKeeps ==
  ASSUME IInv, NEW r \in Requests, req[r] # NoRequest, UNCHANGED <<tables, late>>,
         Step(r) \in {"row", "code", "par"},
         NEW keys \in SUBSET LockKeys, NEW next, next \in {"code", "par", "commit"},
         Go(r, keys, next), NamesOwn(req[r].in),
         next = "code" => BringsCode(req[r].in),
         next = "par" => req[r].in.op = "edit" /\ req[r].in.par # Keep,
         next = "commit" /\ BringsCode(req[r].in) =>
           LET in == req[r].in IN
           /\ <<"code", in.org, CodeOf(in.reading)>> \in keys
           /\ barcode[in.org][CodeOf(in.reading)] = NoRow
  PROVE  IInv'
  <1>0. req[r] \in RequestType
    BY RequestTyped DEF IInv
  <1>1. PICK x \in RequestType : x = [req[r] EXCEPT !.step = next, !.locks = @ \cup keys]
    BY <1>0 DEF RequestType
  <1>2. req' = [req EXCEPT ![r] = x] /\ req'[r] = x
    BY <1>1 DEF IInv, TypeOK, Go
  <1>3. /\ x # NoRequest
        /\ x.step = next /\ x.locks = req[r].locks \cup keys
        /\ x.in = req[r].in /\ x.holder = req[r].holder /\ x.primary = req[r].primary
    <2>1. x # NoRequest
      BY CatalogAssumption DEF CatalogAssumption
    <2>2. x.step = next /\ x.locks = req[r].locks \cup keys
      BY <1>0, <1>1 DEF RequestType
    <2>3. x.in = req[r].in /\ x.holder = req[r].holder /\ x.primary = req[r].primary
      BY <1>0, <1>1 DEF RequestType
    <2> QED BY <2>1, <2>2, <2>3
  <1>a. Free(r, x.locks)
    BY <1>3 DEF IInv, TypeOK, Free, Go
  <1>4. NamesOwn(x.in)'
    BY <1>3, NamesStay DEF tables
  <1>5. req[r].in.op # "resolve"
    BY AskedFields, RequestTyped DEF IInv, Honest, OnItsPath, Step, BringsCode
  <1>6. Reading(r) /\ Reading(r)'
    BY <1>2, <1>3 DEF Reading, Step
  <1>7. KnowsCodes(r, req[r]) /\ KnowsPlaces(r, req[r]) /\ Unborn(r)
    <2>1. Honest(r) /\ req[r].step # "answered"
      BY DEF IInv, Step
    <2> QED BY <2>1 DEF Honest
  <1>8. KnowsCodes(r, x)'
    BY <1>3, <1>6, <1>7 DEF KnowsCodes, OwnProduct, Resolve, HasCode, tables
  <1>9. KnowsPlaces(r, x)'
    BY <1>3, <1>6, <1>7 DEF KnowsPlaces, ActivePlaces, OwnPlace, tables
  <1>10. OnItsPath(x)'
    BY <1>3, <1>5 DEF OnItsPath, BringsCode
  <1>11. Honest(r)'
    BY <1>2, <1>3, <1>4, <1>7, <1>8, <1>9, <1>10 DEF Honest, Unborn, tables
  <1> QED BY <1>1, <1>2, <1>11, <1>a, OneRequest

-----------------------------------------------------------------------------
(* The steps of a request before its commit, one by one.                   *)
LEMMA AskKeeps ==
  ASSUME IInv, NEW r \in Requests, NEW in \in Asked, Ask(r, in)
  PROVE  IInv'
  <1>1. PICK x : x = [in |-> in, step |-> "read", locks |-> {}, primary |-> TRUE,
                      holder |-> None, outcome |-> "none"]
    OBVIOUS
  <1>2. x \in RequestType
    BY <1>1 DEF RequestType
  <1>3. req' = [req EXCEPT ![r] = x] /\ req'[r] = x
    BY <1>1 DEF Ask, IInv, TypeOK
  <1>4. x # NoRequest
    BY <1>2, CatalogAssumption DEF CatalogAssumption
  <1>5. UNCHANGED <<tables, late>> /\ Unborn(r)
    BY DEF Ask, IInv, Honest
  <1>6. ~Reading(r)'
    BY <1>1, <1>3, <1>4 DEF Reading, Step
  <1>7. Unborn(r)'
    BY <1>5 DEF Unborn, tables
  <1>8. OnItsPath(x) /\ ~Checked(x) /\ KnowsCodes(r, x)' /\ KnowsPlaces(r, x)'
    BY <1>1, <1>6 DEF OnItsPath, Checked, KnowsCodes, KnowsPlaces
  <1>9. Honest(r)'
    BY <1>3, <1>7, <1>8 DEF Honest
  <1>10. Free(r, x.locks)
    BY <1>1 DEF Free
  <1> QED BY <1>2, <1>3, <1>5, <1>9, <1>10, OneRequest

(* A barcode's holder is of the organization that asks.                    *)
LEMMA ResolvesToOwn ==
  ASSUME IInv, NEW o \in Orgs, NEW x \in Readings, Resolve(o, x) # None
  PROVE  Resolve(o, x) \in Ids /\ OwnProduct(o, Resolve(o, x))
  <1>1. CodeOf(x) \in Codes /\ barcode[o][CodeOf(x)] # NoRow
    BY CodesOf DEF Resolve
  <1>2. barcode[o][CodeOf(x)] \in CodeType
    BY <1>1 DEF IInv, TypeOK
  <1> QED BY <1>1, <1>2 DEF IInv, TablesInv, BarcodesOwn, Resolve, CodeType

LEMMA ResolveKeeps ==
  ASSUME IInv, NEW r \in Requests, ResolveBarcode(r)
  PROVE  IInv'
  <1>1. req[r] # NoRequest /\ req[r].in.op = "resolve"
    BY DEF ResolveBarcode, Step
  <1>2. req[r] \in RequestType /\ req[r].in \in Asked /\ req[r].locks \subseteq LockKeys
    BY <1>1, RequestTyped DEF IInv
  <1>3. req[r].in.org \in Orgs /\ req[r].in.reading \in Readings
    BY <1>1, <1>2, AskedFields
  <1>4. PICK h : h = Resolve(req[r].in.org, req[r].in.reading)
    OBVIOUS
  <1>5. h # None => h \in Ids /\ OwnProduct(req[r].in.org, h)
    BY <1>3, <1>4, ResolvesToOwn
  <1>6. PICK x \in RequestType :
          x = [req[r] EXCEPT !.step = "answered", !.holder = h, !.outcome = "ok"]
    BY <1>2, <1>5 DEF RequestType
  <1>7. req' = [req EXCEPT ![r] = x] /\ req'[r] = x /\ UNCHANGED <<tables, late>>
    BY <1>4, <1>6 DEF ResolveBarcode, IInv, TypeOK
  <1>8. x # NoRequest
    BY CatalogAssumption DEF CatalogAssumption
  <1>9. x.step = "answered" /\ x.holder = h /\ x.outcome = "ok"
    BY <1>2, <1>6 DEF RequestType
  <1>10. x.in = req[r].in /\ x.locks = req[r].locks
    BY <1>2, <1>6 DEF RequestType
  <1>11. ~Reading(r)'
    BY <1>7, <1>9 DEF Reading, Step
  <1>12. OwnProduct(x.in.org, x.holder)' = OwnProduct(x.in.org, x.holder)
    BY <1>7 DEF OwnProduct, tables
  <1>13. KnowsCodes(r, x)' /\ KnowsPlaces(r, x)' /\ OnItsPath(x)
    BY <1>5, <1>9, <1>10, <1>11, <1>12 DEF KnowsCodes, KnowsPlaces, OnItsPath
  <1>14. NamesOwn(x.in)'
    BY <1>1, <1>10 DEF NamesOwn
  <1>15. Honest(r)'
    BY <1>7, <1>8, <1>9, <1>13, <1>14 DEF Honest
  <1>16. Free(r, x.locks)
    BY <1>1, <1>10 DEF IInv, TypeOK
  <1> QED BY <1>6, <1>7, <1>15, <1>16, OneRequest

(* What the checks of an operation that goes on have found.                *)
LEMMA CheckFinds ==
  ASSUME IInv, NEW in \in Asked, Check(in) = "go"
  PROVE  /\ in.op # "deactivate" => NamesOwn(in)
         /\ in.op = "editPlace" /\ in.mode \notin {Keep, place[in.place].mode} =>
              lines[in.place] = "none"
         /\ in.op = "retire" => /\ lines[in.place] = "none"
                                /\ \E l \in ActivePlaces(in.org) : l # in.place
  <1>1. in.op # "deactivate" => NamesOwn(in)
    BY AskedFields DEF Check, NamesOwn, AssertVendorOwned
  <1>2. in.op = "editPlace" /\ in.mode \notin {Keep, place[in.place].mode} =>
          lines[in.place] = "none"
    BY DEF Check, HasOpenCountLines
  <1>3. in.op = "retire" => /\ lines[in.place] = "none"
                            /\ \E l \in ActivePlaces(in.org) : l # in.place
    BY DEF Check, HasOpenCountLines
  <1> QED BY <1>1, <1>2, <1>3

(* A refusal by the checks is not that the code is taken, and only one of  *)
(* something that is the organization's own says more than not found.      *)
LEMMA CheckRefuses ==
  ASSUME IInv, NEW in \in Asked, Check(in) # "go"
  PROVE  /\ Check(in) \in {"notFound", "inUse", "last"}
         /\ Check(in) # "notFound" => NamesOwn(in)
  BY AskedFields DEF Check, NamesOwn

LEMMA ReadKeeps ==
  ASSUME IInv, NEW r \in Requests, Read(r)
  PROVE  IInv'
  <1>1. req[r] # NoRequest /\ req[r].in.op # "resolve" /\ req[r].step = "read"
        /\ UNCHANGED <<tables, late>>
    BY DEF Read, Step
  <1>2. req[r] \in RequestType /\ req[r].in \in Asked /\ req[r].locks \subseteq LockKeys
    BY <1>1, RequestTyped DEF IInv
  <1>3. PICK in \in Asked : in = req[r].in
    BY <1>2
  <1>4. CASE Check(in) # "go"
    <2>1. Answer(r, Check(in))
      BY <1>3, <1>4 DEF Read
    <2>2. PICK outcome : outcome = Check(in)
      OBVIOUS
    <2>3. /\ outcome \in {"ok", "notFound", "inUse", "last", "conflict", "error",
                          "duplicate", "failed"}
          /\ outcome \notin {"notFound", "failed"} => NamesOwn(in)
      BY <1>4, <2>2, CheckRefuses
    <2> QED BY <1>1, <1>3, <2>1, <2>2, <2>3, AnswerKeeps
  <1>5. CASE Check(in) = "go"
    <2>1. PICK h, first, next :
            /\ h = Held(in) /\ first = (in.op = "link" => FirstCode(in.org, in.product))
            /\ next = CASE in.op = "link" -> "code"
                        [] in.op \in {"newVendor", "editVendor"} -> "commit"
                        [] OTHER -> "row"
      OBVIOUS
    <2>2. next \in {"row", "code", "commit"} /\ first \in BOOLEAN
      BY <2>1
    <2>3. h # None => h \in Ids /\ OwnProduct(in.org, h)
      BY <2>1, AskedFields, BringsReading, ResolvesToOwn DEF Held
    <2>4. PICK x \in RequestType :
            x = [req[r] EXCEPT !.step = next, !.primary = first, !.holder = h]
      BY <1>2, <2>2, <2>3 DEF RequestType
    <2>5. req' = [req EXCEPT ![r] = x] /\ req'[r] = x
      BY <1>3, <1>5, <2>1, <2>4 DEF Read, IInv, TypeOK
    <2>6. x # NoRequest
      BY CatalogAssumption DEF CatalogAssumption
    <2>7. x.step = next /\ x.primary = first /\ x.holder = h
      BY <1>2, <2>4 DEF RequestType
    <2>8. x.in = in /\ x.locks = req[r].locks
      BY <1>2, <1>3, <2>4 DEF RequestType
    <2>9. Reading(r)'
      BY <2>2, <2>5, <2>6, <2>7 DEF Reading, Step
    <2>10. OnItsPath(x)
      <3>1. in.op \in {"newVendor", "editVendor"} => next = "commit"
        BY <2>1
      <3>2. in.op = "link" => next = "code"
        BY <2>1
      <3>3. in.op \notin {"link", "newVendor", "editVendor"} => next = "row"
        BY <2>1
      <3> QED BY <1>1, <1>3, <2>7, <2>8, <3>1, <3>2, <3>3 DEF OnItsPath, BringsCode
    <2>11. Checked(x) => NamesOwn(x.in)
      <3>1. in.op = "deactivate" => next = "row"
        BY <2>1
      <3> QED BY <1>5, <2>7, <2>8, <3>1, CheckFinds DEF Checked
    <2>12. NamesOwn(x.in)' = NamesOwn(x.in)
      BY <1>1, NamesStay DEF tables
    <2>13. KnowsCodes(r, x)'
      BY <1>1, <2>1, <2>2, <2>3, <2>7, <2>8
      DEF KnowsCodes, Held, FirstCode, Resolve, OwnProduct, HasCode, BringsCode, tables
    <2>14. KnowsPlaces(r, x)'
      BY <1>1, <1>5, <2>8, CheckFinds DEF KnowsPlaces, ActivePlaces, OwnPlace, tables
    <2>15. Unborn(r)'
      BY <1>1 DEF IInv, Honest, Unborn, tables
    <2>16. Honest(r)'
      BY <2>5, <2>6, <2>10, <2>11, <2>12, <2>13, <2>14, <2>15 DEF Honest
    <2>17. Free(r, x.locks)
      BY <1>1, <2>8 DEF IInv, TypeOK
    <2> QED BY <1>1, <2>4, <2>5, <2>16, <2>17, OneRequest
  <1> QED BY <1>4, <1>5

LEMMA WriteProductKeeps ==
  ASSUME IInv, NEW r \in Requests, WriteProduct(r)
  PROVE  IInv'
  <1>1. /\ req[r] # NoRequest /\ req[r].step = "row" /\ req[r].in.op \in {"create", "edit"}
        /\ UNCHANGED <<tables, late>>
    BY DEF WriteProduct, Step
  <1>2. PICK in \in Asked : in = req[r].in
    BY <1>1, RequestTyped DEF IInv
  <1>3. NamesOwn(in)
    BY <1>1, <1>2 DEF IInv, Honest, Checked
  <1>4. PICK keys :
          keys = NameKeys(in) \cup IF in.op = "edit" THEN {<<"product", in.product>>} ELSE {}
    OBVIOUS
  <1>5. PICK next :
          next = CASE in.op = "create" /\ in.reading # None -> "code"
                   [] in.op = "edit" /\ in.par # Keep -> "par"
                   [] OTHER -> "commit"
    OBVIOUS
  <1>6. next \in {"code", "par", "commit"}
    BY <1>5
  <1>7. in.op = "edit" => product[in.product].name \in Names
    BY <1>2, <1>3, AskedFields DEF NamesOwn, OwnProduct, IInv, TypeOK, ProductType
  <1>8. keys \in SUBSET LockKeys
    <2>1. in.name = Keep \/ in.name \in Names
      BY <1>1, <1>2, AskedFields
    <2>2. NameKeys(in) \subseteq {"product"} \X Orgs \X Names
      BY <1>1, <1>2, <1>7, <2>1, AskedFields DEF NameKeys
    <2>3. in.op = "edit" => <<"product", in.product>> \in {"product", "place", "par"} \X Ids
      BY <1>2, AskedFields
    <2> QED BY <1>4, <2>2, <2>3 DEF LockKeys
  <1>9. \/ Go(r, {}, next)
        \/ Answer(r, "conflict")
        \/ Answer(r, "error")
        \/ Go(r, keys, next)
    BY <1>2, <1>4, <1>5 DEF WriteProduct
  <1>10. /\ next = "code" => BringsCode(in)
         /\ next = "par" => in.op = "edit" /\ in.par # Keep
         /\ next = "commit" => ~BringsCode(in)
    BY <1>1, <1>2, <1>5 DEF BringsCode
  <1>11. CASE Answer(r, "conflict")
    BY <1>1, <1>2, <1>3, <1>11, AnswerKeeps
  <1>12. CASE Answer(r, "error")
    BY <1>1, <1>2, <1>3, <1>12, AnswerKeeps
  <1>13. CASE Go(r, keys, next)
    BY <1>1, <1>2, <1>3, <1>6, <1>8, <1>10, <1>13, GoKeeps DEF Step
  <1>14. CASE Go(r, {}, next)
    BY <1>1, <1>2, <1>3, <1>6, <1>10, <1>14, GoKeeps DEF Step
  <1> QED BY <1>9, <1>11, <1>12, <1>13, <1>14

LEMMA WritePlaceKeeps ==
  ASSUME IInv, NEW r \in Requests, WritePlace(r)
  PROVE  IInv'
  <1>1. /\ req[r] # NoRequest /\ req[r].step = "row"
        /\ req[r].in.op \in {"newPlace", "editPlace", "retire"}
        /\ UNCHANGED <<tables, late>>
    BY DEF WritePlace, Step
  <1>2. PICK in \in Asked : in = req[r].in
    BY <1>1, RequestTyped DEF IInv
  <1>3. NamesOwn(in)
    BY <1>1, <1>2 DEF IInv, Honest, Checked
  <1>4. PICK keys :
          keys = (IF in.op = "retire" THEN {} ELSE NameKeys(in))
                 \cup IF in.op = "newPlace" THEN {} ELSE {<<"place", in.place>>}
    OBVIOUS
  <1>5. in.op = "editPlace" => place[in.place].name \in Names
    BY <1>2, <1>3, AskedFields DEF NamesOwn, OwnPlace, IInv, TypeOK, PlaceType
  <1>6. keys \in SUBSET LockKeys
    <2>1. in.op # "retire" => in.name = Keep \/ in.name \in Names
      BY <1>1, <1>2, AskedFields
    <2>2. in.op # "retire" => NameKeys(in) \subseteq {"place"} \X Orgs \X Names
      BY <1>1, <1>2, <1>5, <2>1, AskedFields DEF NameKeys
    <2>3. in.op # "newPlace" => <<"place", in.place>> \in {"product", "place", "par"} \X Ids
      BY <1>1, <1>2, AskedFields
    <2> QED BY <1>4, <2>2, <2>3 DEF LockKeys
  <1>7. Answer(r, "conflict") \/ Go(r, keys, "commit")
    BY <1>2, <1>4 DEF WritePlace
  <1>8. CASE Answer(r, "conflict")
    BY <1>1, <1>2, <1>3, <1>8, AnswerKeeps
  <1>9. CASE Go(r, keys, "commit")
    BY <1>1, <1>2, <1>3, <1>6, <1>9, GoKeeps DEF Step, BringsCode
  <1> QED BY <1>7, <1>8, <1>9

LEMMA WriteProductsKeeps ==
  ASSUME IInv, NEW r \in Requests, WriteProducts(r)
  PROVE  IInv'
  <1>1. /\ req[r] # NoRequest /\ req[r].step = "row"
        /\ req[r].in.op \in {"deactivate", "assign"}
        /\ UNCHANGED <<tables, late>>
    BY DEF WriteProducts, Step
  <1>2. PICK in \in Asked : in = req[r].in
    BY <1>1, RequestTyped DEF IInv
  <1>3. in.op = "assign" => NamesOwn(in)
    BY <1>1, <1>2 DEF IInv, Honest, Checked
  <1>4. PICK rows : rows = IF in.op = "assign" THEN in.products ELSE {in.product}
    OBVIOUS
  <1>5. {<<"product", p>> : p \in rows} \in SUBSET LockKeys
    <2>1. rows \subseteq Ids
      BY <1>1, <1>2, <1>4, AskedFields
    <2>2. \A p \in Ids : <<"product", p>> \in {"product", "place", "par"} \X Ids
      OBVIOUS
    <2> QED BY <2>1, <2>2 DEF LockKeys
  <1>6. \/ Answer(r, "notFound")
        \/ /\ \A p \in rows : OwnProduct(in.org, p)
           /\ Go(r, {<<"product", p>> : p \in rows}, "commit")
    BY <1>2, <1>4 DEF WriteProducts
  <1>7. CASE Answer(r, "notFound")
    BY <1>1, <1>7, AnswerKeeps
  <1>8. CASE /\ \A p \in rows : OwnProduct(in.org, p)
             /\ Go(r, {<<"product", p>> : p \in rows}, "commit")
    <2>1. NamesOwn(in)
      BY <1>1, <1>2, <1>3, <1>4, <1>8 DEF NamesOwn
    <2> QED BY <1>1, <1>2, <1>5, <1>8, <2>1, GoKeeps DEF Step, BringsCode
  <1> QED BY <1>6, <1>7, <1>8

LEMMA WriteParKeeps ==
  ASSUME IInv, NEW r \in Requests, WritePar(r)
  PROVE  IInv'
  <1>1. /\ req[r] # NoRequest /\ req[r].step = "par" /\ req[r].in.op = "edit"
        /\ UNCHANGED <<tables, late>> /\ NamesOwn(req[r].in)
    BY DEF WritePar, Step, IInv, Honest, OnItsPath, Checked
  <1>2. {<<"par", req[r].in.product>>} \in SUBSET LockKeys
    <2>1. req[r].in.product \in Ids
      BY <1>1, RequestTyped, AskedFields DEF IInv
    <2> QED BY <2>1 DEF LockKeys
  <1>3. CASE Go(r, {<<"par", req[r].in.product>>}, "commit")
    BY <1>1, <1>2, <1>3, GoKeeps DEF Step, BringsCode
  <1>4. CASE Answer(r, "duplicate")
    BY <1>1, <1>4, AnswerKeeps
  <1> QED BY <1>3, <1>4 DEF WritePar

LEMMA FailKeeps ==
  ASSUME IInv, NEW r \in Requests, Fail(r)
  PROVE  IInv'
  BY AnswerKeeps DEF Fail, Step

LEMMA WriteCodeKeeps ==
  ASSUME IInv, NEW r \in Requests, WriteCode(r)
  PROVE  IInv'
  <1>1. /\ req[r] # NoRequest /\ req[r].step = "code" /\ BringsCode(req[r].in)
        /\ UNCHANGED <<tables, late>> /\ NamesOwn(req[r].in) /\ KnowsCodes(r, req[r])
    BY DEF WriteCode, Step, IInv, Honest, OnItsPath, Checked
  <1>2. req[r] \in RequestType /\ req[r].holder \in Ids \cup {None}
    BY <1>1, RequestTyped DEF IInv
  <1>3. PICK in \in Asked : in = req[r].in
    BY <1>1, RequestTyped DEF IInv
  <1>4. in.org \in Orgs /\ in.reading \in Readings /\ CodeOf(in.reading) \in Codes
    BY <1>1, <1>3, BringsReading, AskedFields
  <1>5. {<<"code", in.org, CodeOf(in.reading)>>} \in SUBSET LockKeys
    BY <1>4 DEF LockKeys
  <1>6. CASE barcode[in.org][CodeOf(in.reading)] = NoRow
    <2>1. Go(r, {<<"code", in.org, CodeOf(in.reading)>>}, "commit")
      BY <1>3, <1>6 DEF WriteCode
    <2> QED BY <1>1, <1>3, <1>5, <1>6, <2>1, GoKeeps DEF Step
  <1>7. CASE barcode[in.org][CodeOf(in.reading)] # NoRow
    <2>1. PICK h : h = IF in.op = "create" /\ in.vendor = None THEN Held(in) ELSE req[r].holder
      OBVIOUS
    <2>2. Resolve(in.org, in.reading) # None /\ Held(in) = Resolve(in.org, in.reading)
      <3>1. barcode[in.org][CodeOf(in.reading)] \in CodeType
        BY <1>4, <1>7 DEF IInv, TypeOK
      <3> QED BY <1>1, <1>3, <1>7, <3>1, CatalogAssumption
              DEF CatalogAssumption, CodeType, Resolve, Held, None
    <2>3. h # None => h \in Ids /\ OwnProduct(in.org, h)
      BY <1>1, <1>2, <1>3, <1>4, <2>1, <2>2, ResolvesToOwn DEF KnowsCodes
    <2>4. PICK x \in RequestType :
            x = [req[r] EXCEPT !.step = "answered", !.outcome = "taken", !.locks = {},
                               !.holder = h]
      BY <1>2, <2>3 DEF RequestType
    <2>5. req' = [req EXCEPT ![r] = x] /\ req'[r] = x
      <3>1. req' = [req EXCEPT ![r].step = "answered", ![r].outcome = "taken", ![r].locks = {},
                               ![r].holder = h]
        BY <1>3, <1>7, <2>1 DEF WriteCode
      <3> QED BY <2>4, <3>1 DEF IInv, TypeOK
    <2>6. x # NoRequest
      BY CatalogAssumption DEF CatalogAssumption
    <2>7. x.step = "answered" /\ x.outcome = "taken" /\ x.locks = {} /\ x.holder = h
      BY <1>2, <2>4 DEF RequestType
    <2>8. x.in = in
      BY <1>2, <1>3, <2>4 DEF RequestType
    <2>9. ~Reading(r)' /\ Reading(r)
      BY <1>1, <2>5, <2>6, <2>7 DEF Reading, Step
    <2>10. r \in late \/ h = Resolve(in.org, in.reading)
      BY <1>1, <1>3, <2>1, <2>2, <2>9 DEF KnowsCodes
    <2>11. KnowsCodes(r, x)'
      BY <1>1, <1>3, <2>2, <2>3, <2>7, <2>8, <2>9, <2>10
      DEF KnowsCodes, Resolve, OwnProduct, tables
    <2>12. NamesOwn(x.in)' /\ OnItsPath(x) /\ KnowsPlaces(r, x)'
      <3>1. NamesOwn(x.in)'
        BY <1>1, <1>3, <2>8, NamesStay DEF tables
      <3> QED BY <2>7, <2>9, <3>1 DEF OnItsPath, KnowsPlaces
    <2>13. Honest(r)'
      BY <2>5, <2>6, <2>7, <2>11, <2>12 DEF Honest
    <2>14. Free(r, x.locks)
      BY <2>7 DEF Free
    <2> QED BY <1>1, <2>4, <2>5, <2>13, <2>14, OneRequest
  <1> QED BY <1>6, <1>7

-----------------------------------------------------------------------------
(* Counting: lines appear only with everybody marked late who read that    *)
(* there were none.                                                        *)
LEMMA CountsKeep ==
  ASSUME IInv, NEW l \in Counted, CountInto(l) \/ SubmitCount(l) \/ CloseCount(l)
  PROVE  IInv'
  <1>1. l \in Ids
    BY CatalogAssumption DEF CatalogAssumption
  <1>2. UNCHANGED <<vendor, product, barcode, par, place, req>>
    BY DEF CountInto, SubmitCount, CloseCount
  <1>3. late \subseteq late' /\ late' \subseteq Requests
    BY DEF CountInto, SubmitCount, CloseCount, IInv, TypeOK
  <1>4. lines' \in [Ids -> {"none", "in_progress", "submitted"}]
    BY <1>1 DEF CountInto, SubmitCount, CloseCount, IInv, TypeOK
  <1>5. ASSUME NEW k \in Ids, lines[k] = "none", lines'[k] # "none",
               NEW r \in Requests, Reading(r), req[r].in.op \in {"editPlace", "retire"},
               req[r].in.place = k
        PROVE  r \in late'
    BY <1>1, <1>5 DEF CountInto, SubmitCount, CloseCount, IInv, TypeOK
  <1>6. TypeOK'
    BY <1>2, <1>3, <1>4 DEF IInv, TypeOK, Free
  <1>7. TablesInv'
    BY <1>2 DEF IInv, TablesInv, BarcodesOwn, LinkedAsRead, VendorsOwn, HavePrimary,
         CreatedWithItsBarcode, OwnProduct, OwnVendor, Resolve
  <1>8. ASSUME NEW r \in Requests PROVE Honest(r)'
    <2>1. ASSUME NEW in PROVE NamesOwn(in)' = NamesOwn(in)
      BY <1>2, NamesStay
    <2>2. ASSUME NEW x PROVE KnowsCodes(r, x) => KnowsCodes(r, x)'
      BY <1>2, <1>3 DEF KnowsCodes, Reading, Step, OwnProduct, Resolve, HasCode
    <2>3. ASSUME req[r] # NoRequest, KnowsPlaces(r, req[r])
          PROVE  KnowsPlaces(r, req[r])'
      <3>1. req[r].in.op \in {"editPlace", "retire"} => req[r].in.place \in Ids
        BY <2>3, RequestTyped, AskedFields DEF IInv
      <3>2. Reading(r)' = Reading(r)
        BY <1>2 DEF Reading, Step
      <3> QED BY <1>2, <1>3, <1>5, <2>3, <3>1, <3>2 DEF KnowsPlaces, ActivePlaces, OwnPlace
    <2>4. Unborn(r)' = Unborn(r)
      BY <1>2 DEF Unborn
    <2> QED BY <1>2, <2>1, <2>2, <2>3, <2>4 DEF IInv, Honest, OnItsPath, Checked
  <1> QED BY <1>6, <1>7, <1>8 DEF IInv

-----------------------------------------------------------------------------
(* What a commit does to each table.                                       *)
Committing(r, in) ==
  /\ req[r] # NoRequest /\ req[r].step = "commit" /\ req[r].in = in
  /\ NamesOwn(in) /\ KnowsCodes(r, req[r]) /\ KnowsPlaces(r, req[r]) /\ Unborn(r)
  /\ in.op # "resolve" /\ Reading(r) /\ NewId[r] \in Ids

LEMMA CommitIs ==
  ASSUME IInv, NEW r \in Requests, Commit(r)
  PROVE  \E in \in Asked : Committing(r, in)
  <1>1. req[r] # NoRequest /\ req[r].step = "commit" /\ Reading(r)
    BY DEF Commit, Step, Reading
  <1>2. req[r].in \in Asked
    BY <1>1, RequestTyped DEF IInv
  <1>3. Honest(r)
    BY DEF IInv
  <1> QED BY <1>1, <1>2, <1>3, FirstTables DEF Committing, Honest, OnItsPath, Checked, FirstTables

LEMMA CommitVendors ==
  ASSUME IInv, NEW r \in Requests, NEW in \in Asked, Commit(r), Committing(r, in)
  PROVE  /\ vendor' \in [Ids -> Orgs \cup {NoRow}]
         /\ \A v \in Ids : vendor'[v] # vendor[v] => v = NewId[r] /\ vendor[v] = NoRow
  <1>1. vendor' = IF in.op = "newVendor" THEN [vendor EXCEPT ![NewId[r]] = in.org] ELSE vendor
    BY DEF Commit, Committing
  <1> QED BY <1>1, AskedFields DEF Committing, Unborn, IInv, TypeOK

(* A product stays its organization's and the one that was made, and gets  *)
(* no vendor but one of its organization.                                  *)
SameProduct(old, new) == new \in ProductType /\ new.org = old.org /\ new.made = old.made

LEMMA CommitProducts ==
  ASSUME IInv, NEW r \in Requests, NEW in \in Asked, Commit(r), Committing(r, in)
  PROVE  /\ product' \in [Ids -> ProductType \cup {NoRow}]
         /\ \A p \in Ids : product[p] = NoRow /\ product'[p] # NoRow =>
              /\ p = NewId[r] /\ in.op = "create"
              /\ product'[p].org = in.org /\ product'[p].made = in.reading
              /\ product'[p].vendor = in.vendor
         /\ \A p \in Ids : product[p] # NoRow =>
              /\ SameProduct(product[p], product'[p])
              /\ \/ product'[p].vendor = product[p].vendor
                 \/ /\ in.op \in {"edit", "assign"} /\ product'[p].vendor = in.vendor
                    /\ product[p].org = in.org
  <1> USE DEF IInv, TypeOK
  <1>1. product' = ProductsAfter(r, in)
    BY DEF Commit, Committing
  <1>2. CASE in.op = "create"
    <2>1. PICK row : row = [org |-> in.org, name |-> in.name, vendor |-> in.vendor,
                            active |-> TRUE, made |-> in.reading]
      OBVIOUS
    <2>2. row \in ProductType
      BY <1>2, <2>1, AskedFields DEF ProductType
    <2>3. product' = [product EXCEPT ![NewId[r]] = row]
      BY <1>1, <1>2, <2>1 DEF ProductsAfter
    <2>4. product[NewId[r]] = NoRow /\ NewId[r] \in Ids
      BY DEF Committing, Unborn
    <2>5. row.org = in.org /\ row.made = in.reading /\ row.vendor = in.vendor
      BY <2>1
    <2> QED BY <1>2, <2>2, <2>3, <2>4, <2>5 DEF SameProduct
  <1>3. CASE in.op = "edit"
    <2>1. in.product \in Ids /\ product[in.product] \in ProductType
          /\ product[in.product].org = in.org
      BY <1>3, AskedFields DEF Committing, NamesOwn, OwnProduct
    <2>2. PICK row : row = Patch(Patch(product[in.product], "name", in.name), "vendor", in.vendor)
      OBVIOUS
    <2>3. product' = [product EXCEPT ![in.product] = row]
      BY <1>1, <1>3, <2>1, <2>2 DEF ProductsAfter
    <2>4. PICK named : named = Patch(product[in.product], "name", in.name)
      OBVIOUS
    <2>5. SameProduct(product[in.product], named) /\ named.vendor = product[in.product].vendor
      BY <1>3, <2>1, <2>4, AskedFields DEF Patch, ProductType, SameProduct
    <2>6. /\ SameProduct(product[in.product], row)
          /\ row.vendor = product[in.product].vendor \/ row.vendor = in.vendor
      BY <1>3, <2>2, <2>4, <2>5, AskedFields DEF Patch, ProductType, SameProduct
    <2> QED BY <1>3, <2>1, <2>3, <2>6, CatalogAssumption DEF CatalogAssumption, SameProduct
  <1>4. CASE in.op = "assign"
    <2>1. in.products \subseteq Ids /\ \A p \in in.products : OwnProduct(in.org, p)
      BY <1>4, AskedFields DEF Committing, NamesOwn
    <2>2. ASSUME NEW p \in in.products
          PROVE  /\ SameProduct(product[p], [product[p] EXCEPT !.vendor = in.vendor])
                 /\ [product[p] EXCEPT !.vendor = in.vendor].vendor = in.vendor
      BY <1>4, <2>1, <2>2, AskedFields DEF OwnProduct, ProductType, SameProduct
    <2>3. product' = [p \in Ids |-> IF p \in in.products
                                    THEN [product[p] EXCEPT !.vendor = in.vendor]
                                    ELSE product[p]]
      BY <1>1, <1>4 DEF ProductsAfter
    <2>4. ASSUME NEW p \in Ids, p \in in.products
          PROVE  /\ product[p] # NoRow /\ product[p].org = in.org
                 /\ SameProduct(product[p], product'[p]) /\ product'[p].vendor = in.vendor
      BY <2>1, <2>2, <2>3, <2>4 DEF OwnProduct
    <2>5. ASSUME NEW p \in Ids, p \notin in.products PROVE product'[p] = product[p]
      BY <2>3, <2>5
    <2>6. \A p \in Ids : product'[p] \in ProductType \cup {NoRow}
      BY <2>4, <2>5 DEF SameProduct
    <2>7. product' \in [Ids -> ProductType \cup {NoRow}]
      BY <2>3, <2>6
    <2> QED BY <1>4, <2>4, <2>5, <2>7 DEF SameProduct
  <1>5. CASE in.op = "deactivate"
    <2>1. in.product \in Ids /\ product[in.product] \in ProductType
      BY <1>5, AskedFields DEF Committing, NamesOwn, OwnProduct
    <2>2. PICK row : row = [product[in.product] EXCEPT !.active = FALSE]
      OBVIOUS
    <2>3. SameProduct(product[in.product], row) /\ row.vendor = product[in.product].vendor
      BY <2>1, <2>2 DEF ProductType, SameProduct
    <2>4. product' = [product EXCEPT ![in.product] = row]
      BY <1>1, <1>5, <2>1, <2>2 DEF ProductsAfter
    <2> QED BY <1>5, <2>1, <2>3, <2>4, CatalogAssumption DEF CatalogAssumption, SameProduct
  <1>6. CASE in.op \notin {"create", "edit", "assign", "deactivate"}
    BY <1>1, <1>6 DEF ProductsAfter, SameProduct
  <1> QED BY <1>2, <1>3, <1>4, <1>5, <1>6

LEMMA CommitCodes ==
  ASSUME IInv, NEW r \in Requests, NEW in \in Asked, Commit(r), Committing(r, in)
  PROVE  /\ barcode' \in [Orgs -> [Codes -> CodeType \cup {NoRow}]]
         /\ \A o \in Orgs, c \in Codes : barcode'[o][c] # barcode[o][c] =>
              /\ BringsCode(in) /\ o = in.org /\ c = CodeOf(in.reading)
              /\ barcode[o][c] = NoRow
         /\ BringsCode(in) =>
              LET row == barcode'[in.org][CodeOf(in.reading)] IN
              /\ row # NoRow /\ row.primary = req[r].primary
              /\ row.product = (IF in.op = "link" THEN in.product ELSE NewId[r])
              /\ row.article = in.reading.article
  <1> USE DEF IInv, TypeOK
  <1>1. barcode' = CodesAfter(r, in)
    BY DEF Commit, Committing
  <1>2. CASE ~BringsCode(in)
    BY <1>1, <1>2 DEF CodesAfter
  <1>3. CASE BringsCode(in)
    <2>1. /\ in.org \in Orgs /\ in.reading \in Readings /\ CodeOf(in.reading) \in Codes
          /\ in.op = "link" => in.product \in Ids
      BY <1>3, BringsReading, AskedFields
    <2>2. PICK row : row = [product |-> IF in.op = "link" THEN in.product ELSE NewId[r],
                            primary |-> req[r].primary, article |-> in.reading.article]
      OBVIOUS
    <2>3. req[r].primary \in BOOLEAN /\ NewId[r] \in Ids
      BY RequestTyped DEF Committing
    <2>4. row \in CodeType
      BY <2>1, <2>2, <2>3 DEF CodeType
    <2>5. barcode' = [barcode EXCEPT ![in.org][CodeOf(in.reading)] = row]
      BY <1>1, <1>3, <2>2 DEF CodesAfter
    <2>6. barcode[in.org][CodeOf(in.reading)] = NoRow
      BY <1>3 DEF Committing, KnowsCodes
    <2>7. /\ row # NoRow /\ row.primary = req[r].primary
          /\ row.product = (IF in.op = "link" THEN in.product ELSE NewId[r])
          /\ row.article = in.reading.article
      BY <2>2, <2>4, CatalogAssumption DEF CatalogAssumption
    <2>8. barcode' \in [Orgs -> [Codes -> CodeType \cup {NoRow}]]
      BY <2>1, <2>4, <2>5
    <2>9. barcode'[in.org][CodeOf(in.reading)] = row
      BY <2>1, <2>5
    <2>10. ASSUME NEW o \in Orgs, NEW c \in Codes, barcode'[o][c] # barcode[o][c]
           PROVE  o = in.org /\ c = CodeOf(in.reading)
      BY <2>1, <2>5, <2>10
    <2> QED BY <1>3, <2>6, <2>7, <2>8, <2>9, <2>10
  <1> QED BY <1>2, <1>3

(* A location stays its organization's; only an edit changes the mode, and *)
(* only a retirement makes it inactive.                                    *)
LEMMA CommitPlaces ==
  ASSUME IInv, NEW r \in Requests, NEW in \in Asked, Commit(r), Committing(r, in)
  PROVE  /\ place' \in [Ids -> PlaceType \cup {NoRow}]
         /\ \A l \in Ids : place[l] = NoRow /\ place'[l] # NoRow =>
              l = NewId[r] /\ in.op = "newPlace"
         /\ \A l \in Ids : place[l] # NoRow =>
              /\ place'[l] # NoRow /\ place'[l].org = place[l].org
              /\ place'[l].active = place[l].active \/ (in.op = "retire" /\ in.place = l)
              /\ \/ place'[l].mode = place[l].mode
                 \/ /\ in.op = "editPlace" /\ in.place = l /\ place'[l].mode = in.mode
                    /\ in.mode # Keep
         /\ in.op = "retire" => OwnPlace(in.org, in.place)
         /\ in.op = "editPlace" => OwnPlace(in.org, in.place)
  <1> USE DEF IInv, TypeOK
  <1>1. place' = PlacesAfter(r, in)
    BY DEF Commit, Committing
  <1>0. in.op \in {"editPlace", "retire"} =>
          /\ OwnPlace(in.org, in.place) /\ in.place \in Ids /\ place[in.place] \in PlaceType
    BY AskedFields DEF Committing, NamesOwn, OwnPlace
  <1>2. CASE in.op = "newPlace"
    <2>1. PICK row : row = [org |-> in.org, name |-> in.name, mode |-> "tenths", active |-> TRUE]
      OBVIOUS
    <2>2. row \in PlaceType
      BY <1>2, <2>1, AskedFields DEF PlaceType
    <2>3. place' = [place EXCEPT ![NewId[r]] = row]
      BY <1>1, <1>2, <2>1 DEF PlacesAfter
    <2>4. place[NewId[r]] = NoRow /\ NewId[r] \in Ids
      BY DEF Committing, Unborn
    <2> QED BY <1>2, <2>2, <2>3, <2>4
  <1>3. CASE in.op = "editPlace"
    <2>1. PICK named : named = Patch(place[in.place], "name", in.name)
      OBVIOUS
    <2>2. PICK row : row = Patch(named, "mode", in.mode)
      OBVIOUS
    <2>3. place' = [place EXCEPT ![in.place] = row]
      BY <1>0, <1>1, <1>3, <2>1, <2>2 DEF PlacesAfter
    <2>4. /\ named \in PlaceType /\ named.org = place[in.place].org
          /\ named.mode = place[in.place].mode /\ named.active = place[in.place].active
      BY <1>0, <1>3, <2>1, AskedFields DEF Patch, PlaceType
    <2>5. /\ row \in PlaceType /\ row.org = named.org /\ row.active = named.active
          /\ row.mode = named.mode \/ (row.mode = in.mode /\ in.mode # Keep)
      BY <1>3, <2>2, <2>4, AskedFields DEF Patch, PlaceType
    <2> QED BY <1>0, <1>3, <2>3, <2>4, <2>5, CatalogAssumption DEF CatalogAssumption
  <1>4. CASE in.op = "retire"
    <2>1. PICK row : row = [place[in.place] EXCEPT !.active = FALSE]
      OBVIOUS
    <2>2. row \in PlaceType /\ row.org = place[in.place].org /\ row.mode = place[in.place].mode
      BY <1>0, <1>4, <2>1 DEF PlaceType
    <2>3. place' = [place EXCEPT ![in.place] = row]
      BY <1>0, <1>1, <1>4, <2>1 DEF PlacesAfter
    <2> QED BY <1>0, <1>4, <2>2, <2>3, CatalogAssumption DEF CatalogAssumption
  <1>5. CASE in.op \notin {"newPlace", "editPlace", "retire"}
    BY <1>1, <1>5 DEF PlacesAfter
  <1> QED BY <1>2, <1>3, <1>4, <1>5

LEMMA CommitRest ==
  ASSUME IInv, NEW r \in Requests, NEW in \in Asked, Commit(r), Committing(r, in)
  PROVE  /\ par' \in [Ids -> Nat \cup {NoRow}]
         /\ \A p \in Ids : par'[p] # par[p] => product[p] # NoRow
         /\ late' = late \cup (Overtaken(in) \ {r}) /\ late' \subseteq Requests
         /\ lines' = lines
         /\ req' \in [Requests -> RequestType \cup {NoRequest}]
         /\ \A q \in Requests \ {r} : req'[q] = req[q]
         /\ req'[r] # NoRequest /\ req'[r].in = in /\ req'[r].step = "answered"
         /\ req'[r].outcome = "ok" /\ req'[r].locks = {} /\ req'[r].holder = req[r].holder
  <1>1. /\ par' = IF in.op = "edit" /\ in.par # Keep THEN [par EXCEPT ![in.product] = in.par]
                  ELSE par
        /\ late' = late \cup (Overtaken(in) \ {r}) /\ lines' = lines
        /\ Answer(r, "ok")
    BY DEF Commit, Committing
  <1>2. in.op = "edit" => in.product \in Ids /\ product[in.product] # NoRow
                          /\ in.par \in Nat \cup {NoRow, Keep}
    BY AskedFields DEF Committing, NamesOwn, OwnProduct, None
  <1>3. late' \subseteq Requests
    BY <1>1 DEF IInv, TypeOK, Overtaken
  <1>4. /\ par' \in [Ids -> Nat \cup {NoRow}]
        /\ \A p \in Ids : par'[p] # par[p] => product[p] # NoRow
    BY <1>1, <1>2 DEF IInv, TypeOK
  <1>5. req[r] \in RequestType
    BY RequestTyped DEF IInv, Committing
  <1>6. PICK x \in RequestType :
          x = [req[r] EXCEPT !.step = "answered", !.outcome = "ok", !.locks = {}]
    BY <1>5 DEF RequestType
  <1>7. req' = [req EXCEPT ![r] = x]
    BY <1>1, <1>6 DEF IInv, TypeOK, Answer
  <1>8. x # NoRequest
    BY CatalogAssumption DEF CatalogAssumption
  <1>9. x.step = "answered" /\ x.outcome = "ok" /\ x.locks = {}
    BY <1>5, <1>6 DEF RequestType
  <1>10. x.in = in /\ x.holder = req[r].holder
    BY <1>5, <1>6 DEF RequestType, Committing
  <1>11. /\ req' \in [Requests -> RequestType \cup {NoRequest}]
         /\ req'[r] = x /\ \A q \in Requests \ {r} : req'[q] = req[q]
    BY <1>7 DEF IInv, TypeOK
  <1> QED BY <1>1, <1>3, <1>4, <1>8, <1>9, <1>10, <1>11

LEMMA CommitTypes ==
  ASSUME IInv, NEW r \in Requests, NEW in \in Asked, Commit(r), Committing(r, in)
  PROVE  TypeOK'
  <1>1. \A p \in Ids : par'[p] # NoRow => product'[p] # NoRow
    BY CommitRest, CommitProducts, CatalogAssumption
    DEF IInv, TypeOK, SameProduct, CatalogAssumption
  <1>2. ASSUME NEW q \in Requests, req'[q] # NoRequest PROVE Free(q, req[q].locks)'
    BY <1>2, CommitRest DEF IInv, TypeOK, Free
  <1>3. lines' \in [Ids -> {"none", "in_progress", "submitted"}]
    BY CommitRest DEF IInv, TypeOK
  <1> QED BY <1>1, <1>2, <1>3, CommitRest, CommitVendors, CommitProducts, CommitCodes, CommitPlaces
          DEF TypeOK

(* What is the organization's own stays its own.                           *)
LEMMA OwnStays ==
  ASSUME IInv, NEW r \in Requests, NEW in \in Asked, Commit(r), Committing(r, in)
  PROVE  /\ \A o \in Orgs, v \in Ids : OwnVendor(o, v) => OwnVendor(o, v)'
         /\ \A o \in Orgs, p \in Ids : OwnProduct(o, p) => OwnProduct(o, p)'
         /\ \A o \in Orgs, l \in Ids : OwnPlace(o, l) => OwnPlace(o, l)'
  <1>1. NoRow \notin Orgs /\ NoRow \notin ProductType
    BY CatalogAssumption DEF CatalogAssumption
  <1>2. \A o \in Orgs, v \in Ids : OwnVendor(o, v) => OwnVendor(o, v)'
    BY <1>1, CommitVendors DEF OwnVendor
  <1>3. \A o \in Orgs, p \in Ids : OwnProduct(o, p) => OwnProduct(o, p)'
    BY <1>1, CommitProducts DEF OwnProduct, SameProduct
  <1>4. \A o \in Orgs, l \in Ids : OwnPlace(o, l) => OwnPlace(o, l)'
    BY CommitPlaces DEF OwnPlace
  <1> QED BY <1>2, <1>3, <1>4

LEMMA NamesStayOwn ==
  ASSUME IInv, NEW r \in Requests, NEW in \in Asked, Commit(r), Committing(r, in),
         NEW other \in Asked, NamesOwn(other)
  PROVE  NamesOwn(other)'
  <1>1. other.org \in Orgs
    BY AskedFields
  <1>2. other.op \in {"link", "edit", "deactivate"} => other.product \in Ids
    BY AskedFields
  <1>3. other.op = "assign" => other.products \subseteq Ids
    BY AskedFields
  <1>4. other.op \in {"create", "edit", "assign", "editVendor"} =>
          other.vendor \in Ids \cup {None, Keep}
    BY AskedFields
  <1>5. other.op \in {"editPlace", "retire"} => other.place \in Ids
    BY AskedFields
  <1> QED BY <1>1, <1>2, <1>3, <1>4, <1>5, OwnStays DEF NamesOwn, AssertVendorOwned

LEMMA CommitTables ==
  ASSUME IInv, NEW r \in Requests, NEW in \in Asked, Commit(r), Committing(r, in)
  PROVE  TablesInv'
  <1>1. /\ NoRow \notin CodeType /\ NoRow \notin Orgs /\ NoRow \notin ProductType
        /\ Keep \notin Ids /\ Keep # None /\ None \notin Ids /\ None = NoRow
    BY CatalogAssumption DEF CatalogAssumption, None
  <1>2. in.org \in Orgs /\ NewId[r] \in Ids
    BY AskedFields DEF Committing
  <1>3. \A o \in Orgs, c \in Codes : barcode[o][c] # NoRow =>
          /\ barcode'[o][c] = barcode[o][c]
          /\ barcode[o][c].product \in Ids /\ OwnProduct(o, barcode[o][c].product)
    BY CommitCodes DEF IInv, TypeOK, CodeType, TablesInv, BarcodesOwn
  <1>4. BarcodesOwn'
    <2> SUFFICES ASSUME NEW o \in Orgs, NEW c \in Codes, barcode'[o][c] # NoRow
                 PROVE  OwnProduct(o, barcode[o][c].product)'
      BY DEF BarcodesOwn
    <2>1. CASE barcode[o][c] # NoRow
      BY <1>3, <2>1, OwnStays
    <2>2. CASE barcode[o][c] = NoRow
      <3>1. BringsCode(in) /\ o = in.org /\ c = CodeOf(in.reading)
            /\ barcode'[o][c].product = (IF in.op = "link" THEN in.product ELSE NewId[r])
        BY <2>2, CommitCodes
      <3>2. CASE in.op = "link"
        <4>1. in.product \in Ids /\ OwnProduct(in.org, in.product)
          BY <3>2, AskedFields DEF Committing, NamesOwn
        <4> QED BY <1>2, <3>1, <3>2, <4>1, OwnStays
      <3>3. CASE in.op = "create"
        <4>1. product'[NewId[r]] # NoRow /\ product[NewId[r]] = NoRow
          <5>1. product' = ProductsAfter(r, in)
            BY DEF Commit, Committing
          <5>2. product'[NewId[r]] = [org |-> in.org, name |-> in.name, vendor |-> in.vendor,
                                      active |-> TRUE, made |-> in.reading]
            BY <1>2, <3>3, <5>1 DEF ProductsAfter, IInv, TypeOK
          <5>3. product'[NewId[r]] \in ProductType
            BY <3>3, <5>2, AskedFields DEF ProductType
          <5> QED BY <1>1, <5>3 DEF Committing, Unborn
        <4>2. product'[NewId[r]].org = in.org
          BY <1>2, <4>1, CommitProducts
        <4> QED BY <3>1, <3>3, <4>1, <4>2 DEF OwnProduct
      <3> QED BY <3>1, <3>2, <3>3 DEF BringsCode
    <2> QED BY <2>1, <2>2
  <1>5. VendorsOwn'
    <2> SUFFICES ASSUME NEW p \in Ids, product'[p] # NoRow, product'[p].vendor # None
                 PROVE  vendor'[product'[p].vendor] = product'[p].org
      BY DEF VendorsOwn, OwnVendor
    <2>1. product'[p] \in ProductType
      BY CommitProducts
    <2>2. product'[p].org \in Orgs /\ product'[p].vendor \in Ids
      BY <2>1 DEF ProductType
    <2>3. CASE product[p] # NoRow /\ product'[p].vendor = product[p].vendor
      <3>1. product'[p].org = product[p].org
        BY <2>3, CommitProducts DEF SameProduct
      <3>2. OwnVendor(product'[p].org, product'[p].vendor)
        BY <2>3, <3>1 DEF IInv, TablesInv, VendorsOwn
      <3> QED BY <2>2, <3>2, OwnStays DEF OwnVendor
    <2>4. CASE /\ in.op \in {"create", "edit", "assign"}
               /\ product'[p].vendor = in.vendor /\ product'[p].org = in.org
      <3>1. OwnVendor(in.org, in.vendor)
        BY <1>1, <2>2, <2>4 DEF Committing, NamesOwn, AssertVendorOwned
      <3> QED BY <2>2, <2>4, <3>1, OwnStays DEF OwnVendor
    <2> QED BY <2>3, <2>4, CommitProducts DEF SameProduct
  <1>6. HavePrimary'
    <2> SUFFICES ASSUME NEW o \in Orgs, NEW c \in Codes, barcode'[o][c] # NoRow
                 PROVE  \E d \in Codes : /\ barcode'[o][d] # NoRow /\ barcode'[o][d].primary
                                         /\ barcode'[o][d].product = barcode'[o][c].product
      BY DEF HavePrimary
    <2>1. CASE barcode[o][c] # NoRow
      <3>1. PICK d \in Codes : /\ barcode[o][d] # NoRow /\ barcode[o][d].primary
                               /\ barcode[o][d].product = barcode[o][c].product
        BY <2>1 DEF IInv, TablesInv, HavePrimary
      <3> QED BY <1>3, <2>1, <3>1
    <2>2. CASE barcode[o][c] = NoRow
      <3>1. /\ BringsCode(in) /\ o = in.org /\ c = CodeOf(in.reading)
            /\ barcode'[o][c].primary = req[r].primary
            /\ barcode'[o][c].product = (IF in.op = "link" THEN in.product ELSE NewId[r])
        BY <2>2, CommitCodes
      <3>2. CASE req[r].primary
        BY <3>1, <3>2
      <3>3. CASE ~req[r].primary
        <4>1. in.op = "link" /\ HasCode(o, in.product)
          BY <3>1, <3>3 DEF Committing, KnowsCodes, BringsCode
        <4>2. PICK e \in Codes : barcode[o][e] # NoRow /\ barcode[o][e].product = in.product
          BY <4>1 DEF HasCode
        <4>3. PICK d \in Codes : /\ barcode[o][d] # NoRow /\ barcode[o][d].primary
                                 /\ barcode[o][d].product = barcode[o][e].product
          BY <4>2 DEF IInv, TablesInv, HavePrimary
        <4> QED BY <1>3, <3>1, <4>1, <4>2, <4>3
      <3> QED BY <3>2, <3>3
    <2> QED BY <2>1, <2>2
  <1>7. CreatedWithItsBarcode'
    <2> SUFFICES ASSUME NEW o \in Orgs, NEW p \in Ids,
                        OwnProduct(o, p)', product'[p].made # None
                 PROVE  Resolve(o, product[p].made)' = p
      BY DEF CreatedWithItsBarcode
    <2>0. product'[p].made \in Readings
      BY CommitProducts DEF OwnProduct, ProductType
    <2>1. CASE product[p] # NoRow
      <3>1. OwnProduct(o, p) /\ product'[p].made = product[p].made
        BY <2>1, CommitProducts DEF OwnProduct, SameProduct
      <3>2. Resolve(o, product[p].made) = p
        BY <3>1 DEF IInv, TablesInv, CreatedWithItsBarcode
      <3>3. CodeOf(product[p].made) \in Codes
        BY <2>0, <3>1, CodesOf
      <3> QED BY <1>1, <1>3, <3>1, <3>2, <3>3 DEF Resolve
    <2>2. CASE product[p] = NoRow
      <3>1. p = NewId[r] /\ in.op = "create" /\ o = in.org /\ product'[p].made = in.reading
        BY <2>2, CommitProducts DEF OwnProduct
      <3>2. BringsCode(in)
        BY <3>1 DEF BringsCode
      <3>3. barcode'[in.org][CodeOf(in.reading)] # NoRow
            /\ barcode'[in.org][CodeOf(in.reading)].product = NewId[r]
        BY <3>1, <3>2, CommitCodes
      <3> QED BY <3>1, <3>3 DEF Resolve
    <2> QED BY <2>1, <2>2
  <1>8. LinkedAsRead'
    <2> SUFFICES ASSUME NEW o \in Orgs, NEW c \in Codes, barcode'[o][c] # NoRow
                 PROVE  \E x \in Readings : CodeOf(x) = c /\ x.article = barcode'[o][c].article
      BY DEF LinkedAsRead
    <2>1. CASE barcode[o][c] # NoRow
      BY <1>3, <2>1 DEF IInv, TablesInv, LinkedAsRead
    <2>2. CASE barcode[o][c] = NoRow
      BY <2>2, CommitCodes, BringsReading
    <2> QED BY <2>1, <2>2
  <1> QED BY <1>4, <1>5, <1>6, <1>7, <1>8 DEF TablesInv

-----------------------------------------------------------------------------
(* What the other requests know after a commit: those it has made a fool   *)
(* of are late.                                                            *)

(* They are past their reads when they were.                               *)
LEMMA SamePlaceOnPath ==
  ASSUME IInv, NEW r \in Requests, NEW in \in Asked, Commit(r), Committing(r, in),
         NEW q \in Requests, q # r
  PROVE  /\ req'[q] = req[q] /\ Reading(q)' = Reading(q)
         /\ q \in late => q \in late'
         /\ q \notin late' /\ Reading(q) /\ req[q].in.org = in.org =>
              /\ ~(in.op = "link" /\ req[q].in.op = "link" /\ in.product = req[q].in.product)
              /\ ~(/\ BringsCode(in) /\ BringsCode(req[q].in)
                   /\ CodeOf(in.reading) = CodeOf(req[q].in.reading))
              /\ ~(in.op = "retire" /\ req[q].in.op = "retire")
              /\ ~(/\ in.op = "editPlace" /\ req[q].in.op = "editPlace"
                   /\ in.mode # Keep /\ in.place = req[q].in.place)
  BY CommitRest DEF Reading, Step, Overtaken

LEMMA OthersUnborn ==
  ASSUME IInv, NEW r \in Requests, NEW in \in Asked, Commit(r), Committing(r, in),
         NEW q \in Requests, q # r, Unborn(q)
  PROVE  Unborn(q)'
  <1>1. NewId[q] \in Ids /\ NewId[q] # NewId[r]
    BY FirstTables DEF FirstTables
  <1> QED BY <1>1, CommitVendors, CommitProducts, CommitPlaces DEF Unborn

LEMMA OthersKnowCodes ==
  ASSUME IInv, NEW r \in Requests, NEW in \in Asked, Commit(r), Committing(r, in),
         NEW q \in Requests, q # r, req[q] # NoRequest,
         NEW x, x = req[q], KnowsCodes(q, x), Checked(x) => NamesOwn(x.in)
  PROVE  KnowsCodes(q, x)'
  <1>1. /\ x.in \in Asked /\ x.in.org \in Orgs /\ x.holder \in Ids \cup {None}
        /\ x.step \in {"read", "row", "code", "par", "commit", "answered"}
    BY RequestTyped, AskedFields DEF IInv
  <1>2. BringsCode(x.in) => x.in.reading \in Readings /\ CodeOf(x.in.reading) \in Codes
    BY <1>1, BringsReading
  <1>3. \A o \in Orgs, c \in Codes : barcode[o][c] # NoRow => barcode'[o][c] = barcode[o][c]
    BY CommitCodes
  <1>4. x.holder # None => OwnProduct(x.in.org, x.holder)'
    BY <1>1, OwnStays DEF KnowsCodes
  <1>5. ASSUME Reading(q)', BringsCode(x.in), q \notin late'
        PROVE  x.holder = Resolve(x.in.org, x.in.reading)'
    <2>1. x.holder = Resolve(x.in.org, x.in.reading)
      BY <1>5, SamePlaceOnPath DEF KnowsCodes
    <2>2. barcode'[x.in.org][CodeOf(x.in.reading)] = barcode[x.in.org][CodeOf(x.in.reading)]
      BY <1>1, <1>2, <1>5, SamePlaceOnPath, CommitCodes
    <2> QED BY <2>1, <2>2 DEF Resolve
  <1>6. ASSUME x.step = "answered", x.outcome = "taken"
        PROVE  /\ BringsCode(x.in)
               /\ \/ q \in late'
                  \/ x.holder # None /\ x.holder = Resolve(x.in.org, x.in.reading)'
    <2>1. BringsCode(x.in) /\ (q \in late => q \in late')
      BY <1>6, SamePlaceOnPath DEF KnowsCodes
    <2>2. CASE x.holder # None /\ x.holder = Resolve(x.in.org, x.in.reading)
      <3>1. barcode'[x.in.org][CodeOf(x.in.reading)] = barcode[x.in.org][CodeOf(x.in.reading)]
        BY <1>1, <1>2, <1>3, <2>1, <2>2 DEF Resolve
      <3> QED BY <2>1, <2>2, <3>1 DEF Resolve
    <2> QED BY <1>6, <2>1, <2>2 DEF KnowsCodes
  <1>7. Reading(q)' /\ x.in.op = "create" => x.primary
    BY SamePlaceOnPath DEF KnowsCodes
  <1>8. Reading(q)' /\ x.in.op = "link" /\ ~x.primary => HasCode(x.in.org, x.in.product)'
    BY <1>1, <1>3, SamePlaceOnPath DEF KnowsCodes, HasCode
  <1>9. ASSUME Reading(q)', x.in.op = "link", x.primary, q \notin late'
        PROVE  ~HasCode(x.in.org, x.in.product)'
    <2>1. ~HasCode(x.in.org, x.in.product) /\ Reading(q)
      BY <1>9, SamePlaceOnPath DEF KnowsCodes
    <2>2. x.step \in {"code", "commit"}
      BY <1>9, <2>1 DEF Reading, Step, IInv, Honest, OnItsPath
    <2>3. OwnProduct(x.in.org, x.in.product)
      BY <1>9, <2>2 DEF Checked, NamesOwn
    <2> SUFFICES ASSUME NEW c \in Codes, barcode'[x.in.org][c] # NoRow,
                        barcode'[x.in.org][c].product = x.in.product
                 PROVE  FALSE
      BY DEF HasCode
    <2>4. barcode'[x.in.org][c] # barcode[x.in.org][c]
      BY <1>1, <2>1 DEF HasCode
    <2>5. /\ BringsCode(in) /\ x.in.org = in.org /\ c = CodeOf(in.reading)
          /\ barcode'[x.in.org][c].product = (IF in.op = "link" THEN in.product ELSE NewId[r])
      BY SMTT(30), <1>1, <2>4, CommitCodes
    <2>6. CASE in.op = "link"
      BY <1>9, <2>1, <2>5, <2>6, SamePlaceOnPath
    <2>7. CASE in.op # "link"
      BY <2>3, <2>5, <2>7 DEF Committing, Unborn, OwnProduct
    <2> QED BY <2>6, <2>7
  <1>10. ASSUME x.step = "commit", BringsCode(x.in)
         PROVE  /\ <<"code", x.in.org, CodeOf(x.in.reading)>> \in x.locks
                /\ barcode'[x.in.org][CodeOf(x.in.reading)] = NoRow
    <2>1. /\ <<"code", x.in.org, CodeOf(x.in.reading)>> \in req[q].locks
          /\ barcode[x.in.org][CodeOf(x.in.reading)] = NoRow
      BY <1>10 DEF KnowsCodes
    <2>2. req[r].locks \cap req[q].locks = {}
      BY DEF IInv, TypeOK, Free, Committing
    <2>3. BringsCode(in) => <<"code", in.org, CodeOf(in.reading)>> \in req[r].locks
      BY DEF Committing, KnowsCodes
    <2>4. ~(BringsCode(in) /\ in.org = x.in.org /\ CodeOf(in.reading) = CodeOf(x.in.reading))
      BY <2>1, <2>2, <2>3
    <2> QED BY <1>1, <1>2, <1>10, <2>1, <2>4, CommitCodes
  <1> QED BY <1>4, <1>5, <1>6, <1>7, <1>8, <1>9, <1>10 DEF KnowsCodes

LEMMA OthersKnowPlaces ==
  ASSUME IInv, NEW r \in Requests, NEW in \in Asked, Commit(r), Committing(r, in),
         NEW q \in Requests, q # r, req[q] # NoRequest,
         NEW x, x = req[q], KnowsPlaces(q, x), Checked(x) => NamesOwn(x.in)
  PROVE  KnowsPlaces(q, x)'
  <1>1. x.in \in Asked /\ x.in.org \in Orgs
    BY RequestTyped, AskedFields DEF IInv
  <1>2. lines' = lines
    BY CommitRest
  <1> SUFFICES ASSUME Reading(q)', q \notin late'
               PROVE  /\ x.in.op = "editPlace"
                           /\ x.in.mode \notin {Keep, place'[x.in.place].mode} =>
                             lines[x.in.place] = "none"
                      /\ x.in.op = "retire" =>
                           /\ lines[x.in.place] = "none"
                           /\ \E l \in ActivePlaces(x.in.org)' : l # x.in.place
    BY <1>2 DEF KnowsPlaces
  <1>3. Reading(q) /\ q \notin late
    BY SamePlaceOnPath
  <1>4. x.in.op \in {"editPlace", "retire"} =>
          x.in.place \in Ids /\ OwnPlace(x.in.org, x.in.place)
    BY <1>1, <1>3, AskedFields DEF Reading, Step, Checked, NamesOwn
  <1>5. ASSUME x.in.op = "editPlace", x.in.mode \notin {Keep, place'[x.in.place].mode}
        PROVE  lines[x.in.place] = "none"
    <2>1. place'[x.in.place].mode = place[x.in.place].mode
      <3>1. SUFFICES ASSUME place'[x.in.place].mode # place[x.in.place].mode PROVE FALSE
        OBVIOUS
      <3>2. in.op = "editPlace" /\ in.place = x.in.place /\ in.mode # Keep
        BY <1>4, <1>5, <3>1, CommitPlaces DEF OwnPlace
      <3>3. in.org = x.in.org
        BY <1>4, <1>5, <3>2, CommitPlaces DEF OwnPlace
      <3> QED BY <1>3, <1>5, <3>2, <3>3, SamePlaceOnPath
    <2> QED BY <1>3, <1>5, <2>1 DEF KnowsPlaces
  <1>6. ASSUME x.in.op = "retire"
        PROVE  /\ lines[x.in.place] = "none"
               /\ \E l \in ActivePlaces(x.in.org)' : l # x.in.place
    <2>1. lines[x.in.place] = "none"
      BY <1>3, <1>6 DEF KnowsPlaces
    <2>2. PICK l \in ActivePlaces(x.in.org) : l # x.in.place
      BY <1>3, <1>6 DEF KnowsPlaces
    <2>3. l \in Ids /\ OwnPlace(x.in.org, l) /\ place[l].active
      BY <2>2 DEF ActivePlaces
    <2>4. ~(in.op = "retire" /\ in.place = l)
      <3>1. in.op = "retire" /\ in.place = l => in.org = x.in.org
        BY <2>3, CommitPlaces DEF OwnPlace
      <3> QED BY <1>3, <1>6, <3>1, SamePlaceOnPath
    <2>5. OwnPlace(x.in.org, l)' /\ place'[l].active
      BY <1>1, <2>3, <2>4, CommitPlaces, OwnStays DEF OwnPlace
    <2>6. l \in ActivePlaces(x.in.org)'
      BY <2>3, <2>5 DEF ActivePlaces
    <2> QED BY <2>1, <2>2, <2>6
  <1> QED BY <1>5, <1>6

LEMMA CommitKeeps ==
  ASSUME IInv, NEW r \in Requests, Commit(r)
  PROVE  IInv'
  <1>1. PICK in \in Asked : Committing(r, in)
    BY CommitIs
  <1>2. TypeOK' /\ TablesInv'
    BY <1>1, CommitTypes, CommitTables
  <1>3. ASSUME NEW q \in Requests, q # r PROVE Honest(q)'
    <2>1. req'[q] = req[q] /\ Honest(q)
      BY <1>1, <1>3, SamePlaceOnPath DEF IInv
    <2>2. CASE req[q] = NoRequest
      BY <1>1, <1>3, <2>1, <2>2, OthersUnborn DEF Honest
    <2>3. CASE req[q] # NoRequest
      <3>1. PICK x : x = req[q]
        OBVIOUS
      <3>2. OnItsPath(x) /\ (Checked(x) => NamesOwn(x.in)) /\ KnowsCodes(q, x)
            /\ KnowsPlaces(q, x) /\ (x.step # "answered" => Unborn(q))
        BY <2>1, <2>3, <3>1 DEF Honest
      <3>3. x.in \in Asked
        BY <2>3, <3>1, RequestTyped DEF IInv
      <3>4. KnowsCodes(q, x)' /\ KnowsPlaces(q, x)'
        BY <1>1, <1>3, <2>3, <3>1, <3>2, OthersKnowCodes, OthersKnowPlaces
      <3>5. Checked(x) => NamesOwn(x.in)'
        BY <1>1, <3>2, <3>3, NamesStayOwn
      <3>6. x.step # "answered" => Unborn(q)'
        BY <1>1, <1>3, <3>2, OthersUnborn
      <3> QED BY <2>1, <2>3, <3>1, <3>2, <3>4, <3>5, <3>6 DEF Honest
    <2> QED BY <2>2, <2>3
  <1>4. Honest(r)'
    <2>1. /\ req'[r] # NoRequest /\ req'[r].in = in /\ req'[r].step = "answered"
          /\ req'[r].outcome = "ok" /\ req'[r].holder = req[r].holder
      BY <1>1, CommitRest
    <2>2. PICK x : x = req'[r]
      OBVIOUS
    <2>3. ~Reading(r)'
      BY <2>1 DEF Reading, Step
    <2>4. NamesOwn(in)'
      BY <1>1, NamesStayOwn DEF Committing
    <2>5. x.holder # None => OwnProduct(in.org, x.holder)'
      <3>1. req[r].holder \in Ids \cup {None} /\ in.org \in Orgs /\ req[r].in = in
        BY <1>1, RequestTyped, AskedFields DEF IInv, Committing
      <3> QED BY <1>1, <2>1, <2>2, <3>1, OwnStays DEF Committing, KnowsCodes
    <2>6. KnowsCodes(r, x)' /\ KnowsPlaces(r, x)' /\ OnItsPath(x)
      BY <2>1, <2>2, <2>3, <2>5 DEF KnowsCodes, KnowsPlaces, OnItsPath
    <2> QED BY <2>1, <2>2, <2>4, <2>6 DEF Honest
  <1> QED BY <1>2, <1>3, <1>4 DEF IInv

-----------------------------------------------------------------------------
(* The invariant is kept.                                                  *)
LEMMA NextKeepsIInv == IInv /\ [Next]_vars => IInv'
  <1> SUFFICES ASSUME IInv, [Next]_vars PROVE IInv'
    OBVIOUS
  <1>1. ASSUME NEW r \in Requests, NEW in \in Asked, Ask(r, in) PROVE IInv'
    BY <1>1, AskKeeps
  <1>2. ASSUME NEW r \in Requests, Handler(r) PROVE IInv'
    BY <1>2, ResolveKeeps, ReadKeeps, WriteProductKeeps, WriteProductsKeeps, WriteCodeKeeps,
       WriteParKeeps, WritePlaceKeeps, CommitKeeps DEF Handler
  <1>3. ASSUME NEW r \in Requests, Fail(r) PROVE IInv'
    BY <1>3, FailKeeps
  <1>4. ASSUME NEW l \in Counted, CountInto(l) \/ SubmitCount(l) \/ CloseCount(l) PROVE IInv'
    BY <1>4, CountsKeep
  <1>5. CASE UNCHANGED vars
    <2>1. UNCHANGED tables /\ UNCHANGED <<tables, late>> /\ req' = req /\ late' = late
      BY <1>5 DEF vars
    <2>2. TypeOK'
      BY <2>1 DEF IInv, TypeOK, Free, tables
    <2>3. ASSUME NEW q \in Requests PROVE Honest(q)'
      BY <2>1, OthersStay DEF IInv
    <2> QED BY <2>1, <2>2, <2>3, TablesStay DEF IInv
  <1> QED BY <1>1, <1>2, <1>3, <1>4, <1>5 DEF Next

(* The invariant holds in every reachable state.                           *)
THEOREM Inductive == Spec => []IInv
  BY InitIInv, NextKeepsIInv, PTL DEF Spec

(* Every variable keeps its type, what one request has locked no other     *)
(* has, for any number of requests under way at once.                      *)
THEOREM CatalogTypes == Spec => []TypeOK
  <1>1. IInv => TypeOK
    BY DEF IInv
  <1> QED BY <1>1, Inductive, PTL

(* createProduct with a scanned code leaves never the product without its  *)
(* barcode, whichever of its statements fails.                             *)
THEOREM NeverWithoutItsBarcode == Spec => []CreatedWithItsBarcode
  <1>1. IInv => CreatedWithItsBarcode
    BY DEF IInv, TablesInv
  <1> QED BY <1>1, Inductive, PTL

(* A request whose references are its organization's own names nothing     *)
(* foreign.                                                                *)
LEMMA OwnIsNotForeign ==
  ASSUME IInv, NEW in \in Asked, NamesOwn(in)
  PROVE  ~Foreign(in)
  <1>1. ~(in.op \in {"link", "edit", "deactivate"} /\ in.product \in Ids
          /\ product[in.product] # NoRow /\ product[in.product].org # in.org)
    BY DEF NamesOwn, OwnProduct
  <1>2. ~(in.op = "assign" /\ \E p \in in.products :
            p \in Ids /\ product[p] # NoRow /\ product[p].org # in.org)
    BY DEF NamesOwn, OwnProduct
  <1>3. ~(/\ in.op \in {"create", "edit", "assign", "editVendor"}
          /\ in.vendor \in Ids /\ vendor[in.vendor] \notin {NoRow, in.org})
    BY CatalogAssumption DEF NamesOwn, AssertVendorOwned, OwnVendor, CatalogAssumption
  <1>4. ~(in.op \in {"editPlace", "retire"} /\ in.place \in Ids
          /\ place[in.place] # NoRow /\ place[in.place].org # in.org)
    BY DEF NamesOwn, OwnPlace
  <1> QED BY <1>1, <1>2, <1>3, <1>4 DEF Foreign

(* What names a row of another organization is answered like what names    *)
(* none, and nothing in the tables refers to one.                          *)
THEOREM TenantsStayApart == Spec => []TenantsApart
  <1>1. IInv => TenantsApart
    <2> SUFFICES ASSUME IInv PROVE TenantsApart
      OBVIOUS
    <2>1. ASSUME NEW r \in Requests, Step(r) = "answered"
          PROVE  /\ Foreign(req[r].in) => req[r].outcome \in {"notFound", "failed"}
                 /\ req[r].holder # None => OwnProduct(req[r].in.org, req[r].holder)
      <3>1. req[r] # NoRequest /\ req[r].step = "answered"
        BY <2>1 DEF Step
      <3>2. PICK in \in Asked : in = req[r].in
        BY <3>1, RequestTyped DEF IInv
      <3>3. (req[r].outcome \notin {"notFound", "failed"} => NamesOwn(in))
            /\ KnowsCodes(r, req[r])
        BY <3>1, <3>2 DEF IInv, Honest, Checked
      <3> QED BY <3>2, <3>3, OwnIsNotForeign DEF KnowsCodes
    <2>2. VendorsOwn
      BY DEF IInv, TablesInv
    <2> QED BY <2>1, <2>2 DEF TenantsApart, VendorsOwn
  <1> QED BY <1>1, Inductive, PTL

(* The refusal that a code is taken names the holder, unless the code was  *)
(* taken after the refused request took its snapshot.                      *)
THEOREM HolderIsNamed == Spec => []RefusalNamesHolder
  <1>1. IInv => RefusalNamesHolder
    BY DEF IInv, Honest, KnowsCodes, RefusalNamesHolder, Step
  <1> QED BY <1>1, Inductive, PTL

-----------------------------------------------------------------------------
(* What a step may never do.                                               *)

(* Only a commit writes barcodes or locations.                             *)
LEMMA OnlyCommitWrites ==
  ASSUME [Next]_vars
  PROVE  UNCHANGED <<barcode, place>> \/ \E r \in Requests : Commit(r)
  <1>1. ASSUME NEW r \in Requests, Handler(r), ~Commit(r)
        PROVE  UNCHANGED <<barcode, place>>
    <2>1. CASE ResolveBarcode(r) \/ Read(r)
      BY <2>1 DEF ResolveBarcode, Read, tables
    <2>2. CASE WriteProduct(r) \/ WriteProducts(r)
      BY <2>2 DEF WriteProduct, WriteProducts, tables
    <2>3. CASE WriteCode(r) \/ WritePar(r) \/ WritePlace(r)
      BY <2>3 DEF WriteCode, WritePar, WritePlace, tables
    <2> QED BY <1>1, <2>1, <2>2, <2>3 DEF Handler
  <1>2. ASSUME NEW r \in Requests, Fail(r) PROVE UNCHANGED <<barcode, place>>
    BY <1>2 DEF Fail, tables
  <1>3. ASSUME NEW r \in Requests, NEW in \in Asked, Ask(r, in)
        PROVE  UNCHANGED <<barcode, place>>
    BY <1>3 DEF Ask, tables
  <1>4. ASSUME NEW l \in Counted, CountInto(l) \/ SubmitCount(l) \/ CloseCount(l)
        PROVE  UNCHANGED <<barcode, place>>
    BY <1>4 DEF CountInto, SubmitCount, CloseCount
  <1>5. CASE UNCHANGED vars
    BY <1>5 DEF vars, tables
  <1> QED BY <1>1, <1>2, <1>3, <1>4, <1>5 DEF Next

(* The primary codes of a product after the commit of a request that       *)
(* overlapped no link to it.                                               *)
LEMMA PrimariesAfterCommit ==
  ASSUME IInv, NEW r \in Requests, NEW in \in Asked, Commit(r), Committing(r, in), r \notin late,
         NEW o \in Orgs, NEW p \in Ids
  PROVE  Primaries(o, p)' = Primaries(o, p) \/ Primaries(o, p) = {}
  <1> SUFFICES ASSUME NEW c \in Codes, barcode'[o][c] # barcode[o][c],
                      c \in Primaries(o, p)' \/ c \in Primaries(o, p)
               PROVE  ~HasCode(o, p)
    BY DEF Primaries, HasCode
  <1>1. BringsCode(in) /\ o = in.org /\ c = CodeOf(in.reading) /\ barcode[o][c] = NoRow
    BY CommitCodes
  <1>2. /\ barcode'[o][c].primary = req[r].primary
        /\ barcode'[o][c].product = (IF in.op = "link" THEN in.product ELSE NewId[r])
    BY <1>1, CommitCodes
  <1>3. req[r].primary /\ p = (IF in.op = "link" THEN in.product ELSE NewId[r])
    BY <1>1, <1>2 DEF Primaries
  <1>4. CASE in.op = "link"
    BY <1>1, <1>3, <1>4 DEF Committing, KnowsCodes
  <1>5. CASE in.op # "link"
    BY <1>3, <1>5 DEF Committing, Unborn, HasCode, IInv, TablesInv, BarcodesOwn, OwnProduct
  <1> QED BY <1>4, <1>5

(* A product with barcodes has a primary one, and gets a second only from  *)
(* a link that read before another link to it was committed.               *)
THEOREM PrimaryKept == Spec => PrimaryUnlessOverlap
  <1> DEFINE Kept(o, p) ==
        /\ HasCode(o, p)' => Primaries(o, p)' # {}
        /\ Cardinality(Primaries(o, p)) = 1 /\ Cardinality(Primaries(o, p))' > 1 =>
             \E r \in late : req[r].step = "commit" /\ req'[r].outcome = "ok"
  <1>1. IInv /\ [Next]_vars => \A o \in Orgs, p \in Ids : Kept(o, p)
    <2> SUFFICES ASSUME IInv, [Next]_vars, NEW o \in Orgs, NEW p \in Ids PROVE Kept(o, p)
      OBVIOUS
    <2>1. HasCode(o, p)' => Primaries(o, p)' # {}
      <3>1. HavePrimary'
        BY NextKeepsIInv DEF IInv, TablesInv
      <3> QED BY <3>1 DEF HavePrimary, HasCode, Primaries
    <2>2. CASE UNCHANGED <<barcode, place>>
      <3>1. Primaries(o, p)' = Primaries(o, p)
        BY <2>2 DEF Primaries
      <3> QED BY <2>1, <3>1
    <2>3. ASSUME NEW r \in Requests, Commit(r) PROVE Kept(o, p)
      <3>1. PICK in \in Asked : Committing(r, in)
        BY <2>3, CommitIs
      <3>2. req[r].step = "commit" /\ req'[r].outcome = "ok"
        BY <2>3, <3>1, CommitRest DEF Committing
      <3>3. CASE r \in late
        BY <2>1, <3>2, <3>3
      <3>4. CASE r \notin late
        <4>1. Primaries(o, p)' = Primaries(o, p) \/ Cardinality(Primaries(o, p)) = 0
          BY <2>3, <3>1, <3>4, PrimariesAfterCommit, FS_EmptySet
        <4> QED BY <2>1, <4>1
      <3> QED BY <3>3, <3>4
    <2> QED BY <2>2, <2>3, OnlyCommitWrites
  <1> QED BY <1>1, Inductive, PTL DEF Spec, PrimaryUnlessOverlap

(* What the commit of a request that overlapped none of those leaves of a  *)
(* location.                                                               *)
LEMMA PlacesAfterCommit ==
  ASSUME IInv, NEW r \in Requests, NEW in \in Asked, Commit(r), Committing(r, in), r \notin late,
         NEW l \in Ids, place[l] # NoRow
  PROVE  /\ lines[l] # "none" =>
              place'[l].mode = place[l].mode /\ place'[l].active = place[l].active
         /\ ActivePlaces(place[l].org) # {} => ActivePlaces(place[l].org)' # {}
  <1>1. /\ in.op = "editPlace" /\ in.mode \notin {Keep, place[in.place].mode} =>
             lines[in.place] = "none"
        /\ in.op = "retire" => /\ lines[in.place] = "none"
                               /\ \E k \in ActivePlaces(in.org) : k # in.place
    BY DEF Committing, KnowsPlaces
  <1>2. /\ place'[l].active = place[l].active \/ (in.op = "retire" /\ in.place = l)
        /\ \/ place'[l].mode = place[l].mode
           \/ in.op = "editPlace" /\ in.place = l /\ place'[l].mode = in.mode /\ in.mode # Keep
    BY CommitPlaces
  <1>3. lines[l] # "none" =>
          place'[l].mode = place[l].mode /\ place'[l].active = place[l].active
    BY <1>1, <1>2
  <1>4. PICK o : o = place[l].org
    OBVIOUS
  <1>5. o \in Orgs
    BY <1>4 DEF IInv, TypeOK, PlaceType
  <1>6. ASSUME NEW k \in ActivePlaces(o), ~(in.op = "retire" /\ in.place = k)
        PROVE  k \in ActivePlaces(o)'
    <2>1. k \in Ids /\ OwnPlace(o, k) /\ place[k].active /\ place[k] # NoRow
      BY <1>6 DEF ActivePlaces, OwnPlace
    <2>2. OwnPlace(o, k)' /\ place'[k].active
      BY <1>5, <1>6, <2>1, CommitPlaces, OwnStays
    <2> QED BY <2>1, <2>2 DEF ActivePlaces
  <1>7. ActivePlaces(o) # {} => ActivePlaces(o)' # {}
    <2>1. CASE in.op = "retire" /\ in.org = o
      BY <1>1, <1>6, <2>1
    <2>2. CASE in.op = "retire" /\ in.org # o
      BY <1>6, <2>2, CommitPlaces DEF ActivePlaces, OwnPlace
    <2>3. CASE in.op # "retire"
      BY <1>6, <2>3
    <2> QED BY <2>1, <2>2, <2>3
  <1>8. ActivePlaces(place[l].org)' # {} <=> ActivePlaces(o)' # {}
    <2>1. place'[l].org = o
      BY <1>4, CommitPlaces
    <2> QED BY <2>1
  <1> QED BY <1>3, <1>4, <1>7, <1>8

(* A location with lines on an open count is neither retired nor made to   *)
(* count otherwise, and an organization keeps an active location, unless   *)
(* the request that does it read before a line was counted there, before   *)
(* another retirement or before another change of its mode.                *)
THEOREM PlacesKept == Spec => PlacesUnlessOverlap
  <1> DEFINE Kept(l) ==
        place[l] # NoRow /\ place'[l] # place[l] =>
          \/ \E r \in late : req[r].step = "commit" /\ req'[r].outcome = "ok"
          \/ /\ lines[l] # "none" =>
                  place'[l].mode = place[l].mode /\ place'[l].active = place[l].active
             /\ ActivePlaces(place[l].org) # {} => ActivePlaces(place[l].org)' # {}
  <1>1. IInv /\ [Next]_vars => \A l \in Ids : Kept(l)
    <2> SUFFICES ASSUME IInv, [Next]_vars, NEW l \in Ids PROVE Kept(l)
      OBVIOUS
    <2>1. ASSUME NEW r \in Requests, Commit(r) PROVE Kept(l)
      <3>1. PICK in \in Asked : Committing(r, in)
        BY <2>1, CommitIs
      <3>2. req[r].step = "commit" /\ req'[r].outcome = "ok"
        BY <2>1, <3>1, CommitRest DEF Committing
      <3> QED BY <2>1, <3>1, <3>2, PlacesAfterCommit
    <2> QED BY <2>1, OnlyCommitWrites
  <1> QED BY <1>1, Inductive, PTL DEF Spec, PlacesUnlessOverlap

-----------------------------------------------------------------------------
(* What normalizeBarcode makes of readings.                                *)

(* It keeps readings of different articles apart.                          *)
KeepsApart == \A x, y \in Readings : CodeOf(x) = CodeOf(y) => x.article = y.article

LEMMA CodeIsMark ==
  ASSUME NEW mark, ReadTrue(mark), NEW x \in Readings
  PROVE  \/ CodeOf(x) = mark[x.article]
         \/ Bare(x.code, x.format) /\ CodeOf(x) = x.code
  <1>1. ReadOff(x.code, x.format, mark[x.article])
    BY DEF ReadTrue
  <1>2. CodeOf(x) = Standard(x.code, x.format)
    BY DEF CodeOf, Written
  <1> QED BY <1>1, <1>2, ReadsTheMark

(* Eight bare digits are what is marked on no article.                     *)
LEMMA BareIsNoMark ==
  ASSUME NEW code, NEW format, Bare(code, format),
         NEW other, NEW another, NEW mark, ReadOff(other, another, mark)
  PROVE  code # mark
  <1>1. AllDigits(code) /\ Len(code) = 8
    BY DEF Bare
  <1>2. CASE IsGtin(mark)
    <2>1. mark \in Word(14, Digit)
      BY <1>2, GtinIs
    <2>2. Len(mark) = 14
      BY <2>1, Sequence
    <2> QED BY <1>1, <2>2
  <1>3. CASE IsLabel(mark)
    BY <1>1, <1>3 DEF IsLabel
  <1> QED BY <1>2, <1>3 DEF ReadOff

LEMMA MarksKeepApart ==
  ASSUME NEW mark, ReadTrue(mark), ToldApart(mark)
  PROVE  KeepsApart
  <1> SUFFICES ASSUME NEW x \in Readings, NEW y \in Readings, CodeOf(x) = CodeOf(y)
               PROVE  x.article = y.article
    BY DEF KeepsApart
  <1>1. /\ ReadOff(x.code, x.format, mark[x.article])
        /\ ReadOff(y.code, y.format, mark[y.article])
    BY DEF ReadTrue
  <1>2. CASE CodeOf(x) = mark[x.article] /\ CodeOf(y) = mark[y.article]
    BY <1>2 DEF ToldApart
  <1>3. CASE /\ Bare(x.code, x.format) /\ CodeOf(x) = x.code
             /\ Bare(y.code, y.format) /\ CodeOf(y) = y.code
    BY <1>3 DEF ToldApart
  <1>4. CASE Bare(x.code, x.format) /\ CodeOf(x) = x.code /\ CodeOf(y) = mark[y.article]
    BY <1>1, <1>4, BareIsNoMark
  <1>5. CASE Bare(y.code, y.format) /\ CodeOf(y) = y.code /\ CodeOf(x) = mark[x.article]
    BY <1>1, <1>5, BareIsNoMark
  <1> QED BY <1>2, <1>3, <1>4, <1>5, CodeIsMark

(* Merging two different codes into one is normalizeBarcode's to avoid:    *)
(* where articles can be told apart by what is marked on them, a reading   *)
(* finds a product only if the very article was linked to it.              *)
THEOREM NothingIsMerged ==
  ASSUME NEW mark, ReadTrue(mark), ToldApart(mark)
  PROVE  Spec => []NothingMerged
  <1>1. IInv => NothingMerged
    <2> SUFFICES ASSUME IInv, NEW o \in Orgs, NEW x \in Readings, Resolve(o, x) # None
                 PROVE  barcode[o][CodeOf(x)].article = x.article
      BY DEF NothingMerged
    <2>1. CodeOf(x) \in Codes /\ barcode[o][CodeOf(x)] # NoRow
      BY CodesOf DEF Resolve
    <2>2. PICK y \in Readings : CodeOf(y) = CodeOf(x) /\ y.article = barcode[o][CodeOf(x)].article
      BY <2>1 DEF IInv, TablesInv, LinkedAsRead
    <2> QED BY <2>2, MarksKeepApart DEF KeepsApart
  <1> QED BY <1>1, Inductive, PTL

(* However an article is read, as UPC-A, EAN-13, GTIN-14, EAN-8 or UPC-E,  *)
(* its readings come to one code, so one product at most answers to them;  *)
(* only the eight digits nobody reported a symbology of are left as read,  *)
(* and those are not fourteen.                                             *)
THEOREM OneProductPerArticle ==
  ASSUME NEW mark, ReadTrue(mark)
  PROVE  Spec => []OneArticleOneProduct
  <1>1. ASSUME NEW x \in Readings, Len(CodeOf(x)) = 14
        PROVE  CodeOf(x) = mark[x.article]
    <2>1. Bare(x.code, x.format) => Len(x.code) = 8
      BY DEF Bare
    <2> QED BY <1>1, <2>1, CodeIsMark
  <1>2. OneArticleOneProduct
    BY <1>1 DEF OneArticleOneProduct, Resolve
  <1> QED BY <1>2, PTL

=============================================================================
