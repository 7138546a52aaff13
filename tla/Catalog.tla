------------------------------- MODULE Catalog -------------------------------
(***************************************************************************)
(* The catalog on the server: lib/domain/catalog.ts behind                 *)
(* app/actions/catalog.ts.  Products with their barcodes, pars and         *)
(* vendors, and locations, for several organizations.                      *)
(*                                                                         *)
(* A request is a transaction, statement by statement.  Its plain reads    *)
(* all see one snapshot (REPEATABLE READ, MySQL's default, which nothing   *)
(* in the code changes), so they are one step, Read.  Its writes lock rows *)
(* and unique keys one after the other, a lock somebody else holds is      *)
(* waited for, and others see the writes when it commits.  The locks       *)
(* foreign keys take are modelled only for counted lines.  A lost          *)
(* connection, a lock wait timeout or a deadlock is Fail.                  *)
(***************************************************************************)
EXTENDS Barcode

CONSTANTS
  Orgs,
  Ids,                        \* row ids of every table
  Names,                      \* of products (with their size) and of locations
  Readings,                   \* bound: [code, format, article], as in Barcode
  Requests,                   \* bound: each is made at most once
  NewId,                      \* the AUTO_INCREMENT id a request is given
  Asked,                      \* bound: what clients ask for
  InitialRows,                \* bound: the tables at first
  Counted,                    \* bound: the locations lines are counted in
  Keep, NoRow, NoRequest

None == NoRow                 \* SQL NULL

(* What a client may ask.  A field it leaves out is Keep; ids come from    *)
(* the client and may be anybody's.                                        *)
CodeInputs ==
       [op : {"resolve"}, org : Orgs, reading : Readings]
  \cup [op : {"link"}, org : Orgs, product : Ids, reading : Readings]

ProductInputs ==
       [op : {"create"}, org : Orgs, name : Names, vendor : Ids \cup {None},
        reading : Readings \cup {None}]
  \cup [op : {"edit"}, org : Orgs, product : Ids, name : Names \cup {Keep},
        vendor : Ids \cup {None, Keep}, par : Nat \cup {None, Keep}]
  \cup [op : {"deactivate"}, org : Orgs, product : Ids]

VendorInputs ==
       [op : {"assign"}, org : Orgs, products : SUBSET Ids, vendor : Ids \cup {None}]
  \cup [op : {"newVendor"}, org : Orgs]
  \cup [op : {"editVendor"}, org : Orgs, vendor : Ids]

PlaceInputs ==
       [op : {"newPlace"}, org : Orgs, name : Names]
  \cup [op : {"editPlace"}, org : Orgs, place : Ids, name : Names \cup {Keep},
        mode : {"tenths", "sealed", Keep}]
  \cup [op : {"retire"}, org : Orgs, place : Ids]

Inputs == CodeInputs \cup ProductInputs \cup VendorInputs \cup PlaceInputs

Written == [reading \in Readings |-> Standard(reading.code, reading.format)]
CodeOf(reading) == Written[reading]
Codes == {Written[reading] : reading \in Readings}

(* The rows of the tables.                                                 *)
ProductType ==
  [org : Orgs, name : Names, vendor : Ids \cup {None}, active : BOOLEAN,
   made : Readings \cup {None}]
CodeType == [product : Ids, primary : BOOLEAN, article : {x.article : x \in Readings}]
PlaceType == [org : Orgs, name : Names, mode : {"tenths", "sealed"}, active : BOOLEAN]

(* What earlier requests left in the tables: a barcode is of a product of  *)
(* its organization and of an article read so, a product with barcodes has *)
(* a primary one, a product's vendor is of its organization.               *)
Lawful(rows) ==
  /\ rows.vendor \in [Ids -> Orgs \cup {NoRow}]
  /\ rows.product \in [Ids -> ProductType \cup {NoRow}]
  /\ rows.barcode \in [Orgs -> [Codes -> CodeType \cup {NoRow}]]
  /\ rows.place \in [Ids -> PlaceType \cup {NoRow}]
  /\ \A o \in Orgs, c \in Codes :
       LET row == rows.barcode[o][c] IN
       row # NoRow =>
         /\ rows.product[row.product] # NoRow /\ rows.product[row.product].org = o
         /\ \E x \in Readings : CodeOf(x) = c /\ x.article = row.article
         /\ \E d \in Codes : /\ rows.barcode[o][d] # NoRow /\ rows.barcode[o][d].primary
                             /\ rows.barcode[o][d].product = row.product
  /\ \A p \in Ids :
       rows.product[p] # NoRow =>
         /\ rows.product[p].made = None
         /\ \/ rows.product[p].vendor = None
            \/ rows.vendor[rows.product[p].vendor] = rows.product[p].org

(* A transaction: what was asked, the statement it is at, the rows and     *)
(* unique keys it has locked, what its reads found, its answer.            *)
LockKeys ==
       {"product", "place", "par"} \X Ids
  \cup {"product", "place"} \X Orgs \X Names
  \cup {"code"} \X Orgs \X Codes

RequestType ==
  [in : Asked, step : {"read", "row", "code", "par", "commit", "answered"},
   locks : SUBSET LockKeys, primary : BOOLEAN, holder : Ids \cup {None},
   outcome : {"none", "ok", "notFound", "inUse", "last", "conflict", "error", "taken",
              "duplicate", "failed"}]

ASSUME CatalogAssumption ==
  /\ Asked \subseteq Inputs /\ Counted \subseteq Ids
  /\ \A reading \in Readings : reading.code # <<>>
  /\ Keep \notin Names /\ Keep \notin Ids /\ Keep # None
  /\ None \notin Ids /\ None \notin Readings
  /\ NoRow \notin ProductType \cup CodeType \cup PlaceType \cup Orgs
  /\ NoRequest \notin RequestType

(* Ids not given out yet are of no row, and no id is given out twice.      *)
ASSUME FirstTables ==
  /\ NewId \in [Requests -> Ids]
  /\ \A q, r \in Requests : NewId[q] = NewId[r] => q = r
  /\ \A rows \in InitialRows :
       /\ Lawful(rows)
       /\ \A r \in Requests : /\ rows.vendor[NewId[r]] = NoRow
                              /\ rows.product[NewId[r]] = NoRow
                              /\ rows.place[NewId[r]] = NoRow

VARIABLES
  vendor,   \* vendor rows: the organization
  product,  \* product rows
  barcode,  \* product_barcode rows, by their unique key (organization, barcode)
  par,      \* overall product_par rows: the par level
  place,    \* location rows
  lines,    \* whether a location has lines on a count not closed, and its status
  req,      \* requests
  late      \* requests that read what has been written over since

tables == <<vendor, product, barcode, par, place, lines>>
vars == <<tables, req, late>>

Init ==
  /\ \E rows \in InitialRows :
       /\ vendor = rows.vendor
       /\ product = rows.product
       /\ barcode = rows.barcode
       /\ place = rows.place
  /\ par = [p \in Ids |-> NoRow]
  /\ lines = [l \in Ids |-> "none"]
  /\ req = [r \in Requests |-> NoRequest]
  /\ late = {}

-----------------------------------------------------------------------------
(* Reading: every query names the organization of the caller.              *)

OwnVendor(o, v) == vendor[v] = o
OwnProduct(o, p) == product[p] # NoRow /\ product[p].org = o
OwnPlace(o, l) == place[l] # NoRow /\ place[l].org = o

(* Mistake: the foreign key is thought to be enough.                       *)
AnyVendor(o, v) == TRUE

(* assertVendorOwned; None and Keep need no proof.                         *)
AssertVendorOwned(o, v) == v \in {None, Keep} \/ OwnVendor(o, v)

ActivePlaces(o) == {l \in Ids : OwnPlace(o, l) /\ place[l].active}

(* Mistake: a count under review is no longer taken for open.              *)
HasLinesInProgress(l) == lines[l] = "in_progress"
HasOpenCountLines(l) == lines[l] # "none"

(* resolveBarcode, and resolveBarcodeForCount of the counting screens.     *)
Resolve(o, reading) ==
  IF barcode[o][CodeOf(reading)] = NoRow THEN None
  ELSE barcode[o][CodeOf(reading)].product

HasCode(o, p) == \E c \in Codes : barcode[o][c] # NoRow /\ barcode[o][c].product = p

(* Mistake: any product with a barcode makes this one's secondary.         *)
PrimaryIfNone(o, p) == \A c \in Codes : barcode[o][c] = NoRow
FirstCode(o, p) == ~HasCode(o, p)

-----------------------------------------------------------------------------
(* Requests.                                                               *)
Step(r) == IF req[r] = NoRequest THEN "unused" ELSE req[r].step

Answer(r, outcome) ==
  req' = [req EXCEPT ![r].step = "answered", ![r].outcome = outcome, ![r].locks = {}]

(* No other request holds any of these keys.                               *)
Free(r, keys) ==
  \A q \in Requests \ {r} : req[q] # NoRequest => req[q].locks \cap keys = {}

Go(r, keys, next) ==
  /\ Free(r, keys)
  /\ req' = [req EXCEPT ![r].step = next, ![r].locks = @ \cup keys]

Ask(r, in) ==
  /\ req[r] = NoRequest
  /\ req' = [req EXCEPT ![r] = [in |-> in, step |-> "read", locks |-> {},
                                primary |-> TRUE, holder |-> None, outcome |-> "none"]]
  /\ UNCHANGED <<tables, late>>

(* A request may bring a barcode, and somebody may hold it.                *)
BringsCode(in) == in.op = "link" \/ (in.op = "create" /\ in.reading # None)

(* Mistake: the holder is looked up under the code as it was read.         *)
HeldAsRead(in) ==
  IF BringsCode(in) /\ in.reading.code \in Codes /\ barcode[in.org][in.reading.code] # NoRow
  THEN barcode[in.org][in.reading.code].product ELSE None

Held(in) == IF BringsCode(in) THEN Resolve(in.org, in.reading) ELSE None

(* The checks of each operation, in its order, on one snapshot: the        *)
(* refusal, or "go".                                                       *)
Check(in) ==
  LET o == in.org IN
  CASE in.op = "link"   -> IF OwnProduct(o, in.product) THEN "go" ELSE "notFound"
    [] in.op = "create" -> IF AssertVendorOwned(o, in.vendor) THEN "go" ELSE "notFound"
    [] in.op = "edit"   -> IF OwnProduct(o, in.product) /\ AssertVendorOwned(o, in.vendor)
                           THEN "go" ELSE "notFound"
    [] in.op = "assign" -> IF /\ \A p \in in.products : OwnProduct(o, p)
                              /\ AssertVendorOwned(o, in.vendor)
                           THEN "go" ELSE "notFound"
    [] in.op = "editVendor" -> IF OwnVendor(o, in.vendor) THEN "go" ELSE "notFound"
    [] in.op = "editPlace" ->
         IF ~OwnPlace(o, in.place) THEN "notFound"
         ELSE IF in.mode \notin {Keep, place[in.place].mode} /\ HasOpenCountLines(in.place)
         THEN "inUse" ELSE "go"
    [] in.op = "retire" ->
         IF ~OwnPlace(o, in.place) THEN "notFound"
         ELSE IF ActivePlaces(o) \subseteq {in.place} THEN "last"
         ELSE IF HasOpenCountLines(in.place) THEN "inUse" ELSE "go"
    [] OTHER -> "go"

Read(r) ==
  /\ Step(r) = "read" /\ req[r].in.op # "resolve"
  /\ LET in == req[r].in IN
     IF Check(in) # "go" THEN Answer(r, Check(in))
     ELSE req' = [req EXCEPT
            ![r].step = CASE in.op = "link" -> "code"
                          [] in.op \in {"newVendor", "editVendor"} -> "commit"
                          [] OTHER -> "row",
            ![r].primary = in.op = "link" => FirstCode(in.org, in.product),
            ![r].holder = Held(in)]
  /\ UNCHANGED <<tables, late>>

(* resolveBarcode: null for an unknown code, which is no error.            *)
ResolveBarcode(r) ==
  /\ Step(r) = "read" /\ req[r].in.op = "resolve"
  /\ req' = [req EXCEPT ![r].step = "answered",
                        ![r].holder = Resolve(req[r].in.org, req[r].in.reading),
                        ![r].outcome = "ok"]
  /\ UNCHANGED <<tables, late>>

-----------------------------------------------------------------------------
(* The first write: the row of the product or location, and its unique     *)
(* name.                                                                   *)

(* Both the name a row gets and the one it gives up.                       *)
NameKeys(in) ==
  LET old == CASE in.op = "edit" -> {product[in.product].name}
               [] in.op = "editPlace" -> {place[in.place].name}
               [] OTHER -> {}
      table == IF in.op \in {"create", "edit"} THEN "product" ELSE "place"
  IN  IF in.name = Keep THEN {} ELSE {<<table, in.org, n>> : n \in {in.name} \cup old}

NameTaken(in) ==
  CASE in.op \in {"create", "edit"} ->
         \E p \in Ids : /\ OwnProduct(in.org, p) /\ product[p].name = in.name
                        /\ in.op = "edit" => p # in.product
    [] in.op \in {"newPlace", "editPlace"} ->
         \E l \in Ids : /\ OwnPlace(in.org, l) /\ place[l].name = in.name
                        /\ in.op = "editPlace" => l # in.place

(* A vendor of another organization that got this far is stopped by the    *)
(* composite foreign key, an error no handler expects.                     *)
ForeignVendor(in) == in.vendor \notin {None, Keep} /\ vendor[in.vendor] # in.org

WriteProduct(r) ==
  /\ Step(r) = "row" /\ req[r].in.op \in {"create", "edit"}
  /\ LET in == req[r].in
         keys == NameKeys(in) \cup IF in.op = "edit" THEN {<<"product", in.product>>} ELSE {}
         next == CASE in.op = "create" /\ in.reading # None -> "code"
                   [] in.op = "edit" /\ in.par # Keep -> "par"
                   [] OTHER -> "commit"
     IN  IF in.op = "edit" /\ in.name = Keep /\ in.vendor = Keep
         THEN Go(r, {}, next)
         ELSE IF NameTaken(in) THEN Free(r, keys) /\ Answer(r, "conflict")
         ELSE IF ForeignVendor(in) THEN Free(r, keys) /\ Answer(r, "error")
         ELSE Go(r, keys, next)
  /\ UNCHANGED <<tables, late>>

(* createLocation, updateLocation and deactivateLocation.                  *)
WritePlace(r) ==
  /\ Step(r) = "row" /\ req[r].in.op \in {"newPlace", "editPlace", "retire"}
  /\ LET in == req[r].in
         keys == (IF in.op = "retire" THEN {} ELSE NameKeys(in))
                 \cup IF in.op = "newPlace" THEN {} ELSE {<<"place", in.place>>}
     IN  IF in.op # "retire" /\ in.name # Keep /\ NameTaken(in)
         THEN Free(r, keys) /\ Answer(r, "conflict")
         ELSE Go(r, keys, "commit")
  /\ UNCHANGED <<tables, late>>

(* deactivateProduct, and the update of assignVendorToProducts: the rows   *)
(* of all its products.  Deactivating what is inactive affects no row if   *)
(* the driver counts changed rows only, as the code's comments say.        *)
WriteProducts(r) ==
  /\ Step(r) = "row" /\ req[r].in.op \in {"deactivate", "assign"}
  /\ LET in == req[r].in
         rows == IF in.op = "assign" THEN in.products ELSE {in.product}
         keys == {<<"product", p>> : p \in rows}
     IN  \/ /\ in.op = "deactivate"
            /\ OwnProduct(in.org, in.product) => ~product[in.product].active
            /\ Free(r, keys)
            /\ Answer(r, "notFound")
         \/ /\ \A p \in rows : OwnProduct(in.org, p)
            /\ Go(r, keys, "commit")
  /\ UNCHANGED <<tables, late>>

(* The insert of the barcode.  Its refusal names the holder found by a     *)
(* query of the same transaction, which sees the snapshot of its first     *)
(* read: createProduct has read nothing before unless it had a vendor.     *)
WriteCode(r) ==
  /\ Step(r) = "code"
  /\ LET in == req[r].in
         c == CodeOf(in.reading)
         key == {<<"code", in.org, c>>}
     IN  IF barcode[in.org][c] = NoRow THEN Go(r, key, "commit")
         ELSE /\ Free(r, key)
              /\ req' = [req EXCEPT
                   ![r].step = "answered", ![r].outcome = "taken", ![r].locks = {},
                   ![r].holder = IF in.op = "create" /\ in.vendor = None THEN Held(in) ELSE @]
  /\ UNCHANGED <<tables, late>>

(* upsertProductPar.  An update that affects no row is followed by an      *)
(* insert: of a duplicate when the par is there unchanged and the driver   *)
(* counts changed rows only, and then the whole edit fails.                *)
WritePar(r) ==
  /\ Step(r) = "par"
  /\ LET in == req[r].in IN
     \/ Go(r, {<<"par", in.product>>}, "commit")
     \/ /\ in.par # None /\ par[in.product] = in.par
        /\ Free(r, {<<"par", in.product>>})
        /\ Answer(r, "duplicate")
  /\ UNCHANGED <<tables, late>>

-----------------------------------------------------------------------------
(* The end: all writes of the request at once, or none.                    *)

(* Mistake: a field the client left out is written too.                    *)
PatchAlways(row, field, value) == [row EXCEPT ![field] = value]

Patch(row, field, value) == IF value = Keep THEN row ELSE [row EXCEPT ![field] = value]

ProductsAfter(r, in) ==
  CASE in.op = "create" ->
         [product EXCEPT ![NewId[r]] =
            [org |-> in.org, name |-> in.name, vendor |-> in.vendor, active |-> TRUE,
             made |-> in.reading]]
    [] in.op = "edit" ->
         [product EXCEPT ![in.product] = Patch(Patch(@, "name", in.name), "vendor", in.vendor)]
    [] in.op = "assign" ->
         [p \in Ids |-> IF p \in in.products THEN [product[p] EXCEPT !.vendor = in.vendor]
                             ELSE product[p]]
    [] in.op = "deactivate" -> [product EXCEPT ![in.product].active = FALSE]
    [] OTHER -> product

CodesAfter(r, in) ==
  IF BringsCode(in)
  THEN [barcode EXCEPT ![in.org][CodeOf(in.reading)] =
          [product |-> IF in.op = "link" THEN in.product ELSE NewId[r],
           primary |-> req[r].primary, article |-> in.reading.article]]
  ELSE barcode

PlacesAfter(r, in) ==
  CASE in.op = "newPlace" ->
         [place EXCEPT ![NewId[r]] =
            [org |-> in.org, name |-> in.name, mode |-> "tenths", active |-> TRUE]]
    [] in.op = "editPlace" ->
         [place EXCEPT ![in.place] = Patch(Patch(@, "name", in.name), "mode", in.mode)]
    [] in.op = "retire" -> [place EXCEPT ![in.place].active = FALSE]
    [] OTHER -> place

Reading(r) == Step(r) \in {"row", "code", "par", "commit"}

(* Requests past their reads that this one makes out of date.              *)
Overtaken(in) ==
  {q \in Requests : /\ Reading(q) /\ req[q].in.org = in.org
                    /\ \/ /\ in.op = "link" /\ req[q].in.op = "link"
                          /\ in.product = req[q].in.product
                       \/ /\ BringsCode(in) /\ BringsCode(req[q].in)
                          /\ CodeOf(in.reading) = CodeOf(req[q].in.reading)
                       \/ in.op = "retire" /\ req[q].in.op = "retire"
                       \/ /\ in.op = "editPlace" /\ req[q].in.op = "editPlace"
                          /\ in.mode # Keep /\ in.place = req[q].in.place}

Commit(r) ==
  /\ Step(r) = "commit"
  /\ LET in == req[r].in IN
     /\ vendor' = IF in.op = "newVendor" THEN [vendor EXCEPT ![NewId[r]] = in.org] ELSE vendor
     /\ product' = ProductsAfter(r, in)
     /\ barcode' = CodesAfter(r, in)
     /\ par' = IF in.op = "edit" /\ in.par # Keep THEN [par EXCEPT ![in.product] = in.par]
               ELSE par
     /\ place' = PlacesAfter(r, in)
     /\ late' = late \cup (Overtaken(in) \ {r})
  /\ Answer(r, "ok")
  /\ UNCHANGED lines

(* Mistake: a product is inserted outside the transaction of its barcode.  *)
FailAfterInsert(r) ==
  /\ Step(r) \in {"read", "row", "code", "par", "commit"}
  /\ Answer(r, "failed")
  /\ product' = IF Step(r) = "code" THEN ProductsAfter(r, req[r].in) ELSE product
  /\ UNCHANGED <<vendor, barcode, par, place, lines, late>>

(* The database gives up on a statement: everything is rolled back.        *)
Fail(r) ==
  /\ Step(r) \in {"read", "row", "code", "par", "commit"}
  /\ Answer(r, "failed")
  /\ UNCHANGED <<tables, late>>

-----------------------------------------------------------------------------
(* Counting, as the catalog sees it: a location gets its first line on a   *)
(* count not closed, whose foreign key waits for a retirement's lock; the  *)
(* count is submitted; it is closed.                                       *)

CountInto(l) ==
  /\ place[l] # NoRow /\ place[l].active /\ lines[l] = "none"
  /\ \A r \in Requests : Reading(r) => <<"place", l>> \notin req[r].locks
  /\ lines' = [lines EXCEPT ![l] = "in_progress"]
  /\ late' = late \cup {r \in Requests : /\ Reading(r)
                                         /\ req[r].in.op \in {"editPlace", "retire"}
                                         /\ req[r].in.place = l}
  /\ UNCHANGED <<vendor, product, barcode, par, place, req>>

SubmitCount(l) ==
  /\ lines[l] = "in_progress"
  /\ lines' = [lines EXCEPT ![l] = "submitted"]
  /\ UNCHANGED <<vendor, product, barcode, par, place, req, late>>

CloseCount(l) ==
  /\ lines[l] # "none"
  /\ lines' = [lines EXCEPT ![l] = "none"]
  /\ UNCHANGED <<vendor, product, barcode, par, place, req, late>>

-----------------------------------------------------------------------------
Handler(r) ==
  \/ ResolveBarcode(r) \/ Read(r)
  \/ WriteProduct(r) \/ WriteProducts(r) \/ WriteCode(r) \/ WritePar(r) \/ WritePlace(r)
  \/ Commit(r)

Next ==
  \/ \E r \in Requests, in \in Asked : Ask(r, in)
  \/ \E r \in Requests : Handler(r) \/ Fail(r)
  \/ \E l \in Counted : CountInto(l) \/ SubmitCount(l) \/ CloseCount(l)

Spec == Init /\ [][Next]_vars

-----------------------------------------------------------------------------
(* What is known of readings beyond what the code sees: each is of what is *)
(* marked on its article; no two articles are marked alike, nor come with  *)
(* the same eight digits of a symbology nobody reported.                   *)
ReadTrue(mark) == \A x \in Readings : ReadOff(x.code, x.format, mark[x.article])

ToldApart(mark) ==
  \A x, y \in Readings :
    \/ mark[x.article] = mark[y.article]
    \/ Bare(x.code, x.format) /\ Bare(y.code, y.format) /\ x.code = y.code
    => x.article = y.article

TypeOK ==
  /\ vendor \in [Ids -> Orgs \cup {NoRow}]
  /\ product \in [Ids -> ProductType \cup {NoRow}]
  /\ barcode \in [Orgs -> [Codes -> CodeType \cup {NoRow}]]
  /\ par \in [Ids -> Nat \cup {NoRow}]
  /\ \A p \in Ids : par[p] # NoRow => product[p] # NoRow
  /\ place \in [Ids -> PlaceType \cup {NoRow}]
  /\ lines \in [Ids -> {"none", "in_progress", "submitted"}]
  /\ req \in [Requests -> RequestType \cup {NoRequest}]
  /\ \A r \in Requests : req[r] # NoRequest => Free(r, req[r].locks)
  /\ late \subseteq Requests

(* "The only dangerous mistake here is MERGING two different codes into    *)
(* one": a reading finds a product only if the very article was linked to  *)
(* it, so a refusal that the code is taken is true as well.                *)
NothingMerged ==
  \A o \in Orgs, x \in Readings :
    Resolve(o, x) # None => barcode[o][CodeOf(x)].article = x.article

(* The bug the standard form was made for: however an article is read, if  *)
(* its check digit proves what it is, one product at most answers to it.   *)
OneArticleOneProduct ==
  \A o \in Orgs, x, y \in Readings :
    /\ x.article = y.article /\ Len(CodeOf(x)) = 14 /\ Len(CodeOf(y)) = 14
    /\ Resolve(o, x) # None /\ Resolve(o, y) # None
    => Resolve(o, x) = Resolve(o, y)

(* A product enrolled by a scan is found by that scan ever after: there is *)
(* never the product without the barcode, whatever failed on the way.      *)
CreatedWithItsBarcode ==
  \A o \in Orgs, p \in Ids :
    OwnProduct(o, p) /\ product[p].made # None => Resolve(o, product[p].made) = p

Primaries(o, p) ==
  {c \in Codes : barcode[o][c] # NoRow /\ barcode[o][c].product = p /\ barcode[o][c].primary}

(* A product with barcodes has a primary one, and gets a second primary    *)
(* only from a link that read before another link to it was committed.     *)
PrimaryUnlessOverlap ==
  [][\A o \in Orgs, p \in Ids :
       /\ HasCode(o, p)' => Primaries(o, p)' # {}
       /\ Cardinality(Primaries(o, p)) = 1 /\ Cardinality(Primaries(o, p))' > 1 =>
            \E r \in late : req[r].step = "commit" /\ req'[r].outcome = "ok"]_vars

(* A row of another organization is answered like one that does not exist, *)
(* never by an error that gives it away, and nothing refers to it.         *)
Foreign(in) ==
  LET other(table, id) == id \in Ids /\ table[id] # NoRow /\ table[id].org # in.org
  IN  \/ in.op \in {"link", "edit", "deactivate"} /\ other(product, in.product)
      \/ in.op = "assign" /\ \E p \in in.products : other(product, p)
      \/ in.op \in {"create", "edit", "assign", "editVendor"}
           /\ in.vendor \in Ids /\ vendor[in.vendor] \notin {NoRow, in.org}
      \/ in.op \in {"editPlace", "retire"} /\ other(place, in.place)

TenantsApart ==
  /\ \A r \in Requests :
       Step(r) = "answered" =>
         /\ Foreign(req[r].in) => req[r].outcome \in {"notFound", "failed"}
         /\ req[r].holder # None => OwnProduct(req[r].in.org, req[r].holder)
  /\ \A p \in Ids :
       product[p] # NoRow /\ product[p].vendor # None => OwnVendor(product[p].org, product[p].vendor)

(* A location with lines on an open count is not retired and keeps its     *)
(* counting mode, and an organization keeps an active location, unless the *)
(* request that ends this read before the line was counted, before another *)
(* retirement, or before another change of that location's mode.           *)
PlacesUnlessOverlap ==
  [][\A l \in Ids :
       place[l] # NoRow /\ place'[l] # place[l] =>
         \/ \E r \in late : req[r].step = "commit" /\ req'[r].outcome = "ok"
         \/ /\ lines[l] # "none" =>
                 place'[l].mode = place[l].mode /\ place'[l].active = place[l].active
            /\ ActivePlaces(place[l].org) # {} => ActivePlaces(place[l].org)' # {}]_vars

(* "Name who already holds it - mid-count, 'already assigned' without a    *)
(* name is a dead end": a refusal because the code is taken has the holder *)
(* unless the code was taken after the request took its snapshot.          *)
RefusalNamesHolder ==
  \A r \in Requests :
    /\ Step(r) = "answered" /\ req[r].outcome = "taken"
    => \/ /\ req[r].holder # None
          /\ req[r].holder = Resolve(req[r].in.org, req[r].in.reading)
       \/ r \in late

=============================================================================
