------------------------------- MODULE Office -------------------------------
(***************************************************************************)
(* The office's pages over the life of counts: which closed count a        *)
(* dashboard, catalog or reorder page takes its figures from               *)
(* (lib/domain/on-hand.ts, lib/domain/reports.ts), which earlier count a   *)
(* summary compares with, the bulk vendor assignment of the catalog table  *)
(* (components/office/catalog-table.tsx), and the forms of ProductForms    *)
(* and RowForms.                                                           *)
(*                                                                         *)
(* Time passes in half seconds.  started_at and closed_at hold whole       *)
(* seconds: the first is the database's now, cut off; the second is the    *)
(* server's new Date(), rounded when it is stored.  Both clocks agree.     *)
(***************************************************************************)
EXTENDS Reports, ProductForms, RowForms, Sequences

CONSTANTS
  Counts, Products, Categories, Vendors,
  Searches,           \* the sets of products a search may match
  BulkLimit,          \* products one assignment may name
  MaxTime,            \* bound: half seconds
  Unread, NoPage, NoCall

ASSUME OfficeAssumption ==
  /\ MaxTime \in Nat
  /\ BulkLimit \in Nat
  /\ Searches \subseteq SUBSET Products
  /\ Categories # {}
  /\ {NULL, Unread} \cap Counts = {} /\ NULL # Unread

VARIABLES
  desk,               \* bound: one of the screens, for good
  time,
  opened, stamped,    \* when a count was opened, and its close_at was taken
  ended,              \* the counts whose close has committed, in that order
  page,               \* a page being loaded: what it read, and since when
  summary,            \* a count's summary: the earlier count it compares with
  products,           \* category and vendor of every product
  rows,               \* the table's copy: the category of every product on it
  filter, selected, loading, call

counts == <<time, opened, stamped, ended>>
figures == <<page, summary>>
table == <<products, rows, filter, selected, loading, call>>
vars == <<desk, counts, figures, table, productForms, rowForms>>

Desks == {"figures", "summary", "table", "product", "rows"}

Never == -1

Closed == {ended[i] : i \in DOMAIN ended}
StartedAt == [c \in Counts |-> opened[c] \div 2]
ClosedAt == [c \in Counts |-> (stamped[c] + 1) \div 2]

PageType == [since : Nat, caption : Counts \cup {NULL, Unread},
             figures : Counts \cup {NULL, Unread}]
SummaryType == [of : Counts, since : Nat, earlier : Counts \cup {NULL}]
SaveCellType == [kind : {"save"}, product : Products, category : Categories]
AssignType == [kind : {"assign"}, ids : SUBSET Products, vendor : Vendors \cup {NULL},
               shown : SUBSET Products, status : {"sent", "done", "failed"}]

TypeOK ==
  /\ desk \in Desks
  /\ time \in 0..MaxTime
  /\ opened \in [Counts -> {Never} \cup 0..time]
  /\ stamped \in [Counts -> {Never} \cup 0..time]
  /\ \A c \in Counts : stamped[c] # Never => opened[c] \in 0..stamped[c]
  /\ Closed \subseteq {c \in Counts : stamped[c] # Never}
  /\ Len(ended) = Cardinality(Closed)
  /\ page = NoPage \/ (page \in PageType /\ page.since =< Len(ended))
  /\ summary = NoPage \/ (summary \in SummaryType /\ summary.since =< Len(ended))
  /\ products \in [Products -> [category : Categories, vendor : Vendors \cup {NULL}]]
  /\ DOMAIN rows \subseteq Products /\ rows \in [DOMAIN rows -> Categories]
  /\ filter \in Categories \cup {NULL}
  /\ selected \subseteq Products
  /\ loading = NoPage \/ loading \in SUBSET (Products \X Categories)
  /\ \/ call = NoCall
     \/ call \in SaveCellType
     \/ call \in AssignType /\ call.ids # {} /\ Cardinality(call.ids) =< BulkLimit
  /\ ProductFormsTypeOK /\ RowFormsTypeOK

Filings == [Products -> [category : Categories, vendor : {NULL}]]

(* A desk starts in any of its states, the others in one each.             *)
Init ==
  /\ desk \in Desks
  /\ time = 0
  /\ opened = [c \in Counts |-> Never]
  /\ stamped = [c \in Counts |-> Never]
  /\ ended = <<>>
  /\ page = NoPage
  /\ summary = NoPage
  /\ products \in IF desk = "table" THEN Filings ELSE {CHOOSE f \in Filings : TRUE}
  /\ rows = [p \in Products |-> products[p].category]
  /\ filter = NULL
  /\ selected = {}
  /\ loading = NoPage
  /\ call = NoCall
  /\ ProductFormsInit
  /\ RowFormsInit /\ (desk # "rows" => list = "vendors")

----------------------------------------------------------------------------
(* Counts open and close; several may be open at once.  A close takes its  *)
(* time inside the transaction, and the row is seen closed at the commit,  *)
(* so that two closes may commit in the other order.                       *)

OnCounts == desk \in {"figures", "summary"}

(* Bound: the behaviour ends with the page it looks at.                    *)
Shown == summary # NoPage \/ (page # NoPage /\ Unread \notin {page.caption, page.figures})

Tick ==
  /\ OnCounts /\ ~Shown /\ time < MaxTime
  /\ time' = time + 1
  /\ UNCHANGED <<desk, opened, stamped, ended, figures, table>>

OpenCount(c) ==
  /\ OnCounts /\ ~Shown /\ opened[c] = Never
  /\ opened' = [opened EXCEPT ![c] = time]
  /\ UNCHANGED <<desk, time, stamped, ended, figures, table>>

(* Mistake: the status of the count is not looked at.                      *)
BeginCloseAny(c) ==
  /\ ~Shown /\ stamped[c] = Never
  /\ stamped' = [stamped EXCEPT ![c] = time]
  /\ UNCHANGED <<desk, time, opened, ended, figures, table>>

BeginClose(c) ==
  /\ ~Shown /\ opened[c] # Never /\ stamped[c] = Never
  /\ stamped' = [stamped EXCEPT ![c] = time]
  /\ UNCHANGED <<desk, time, opened, ended, figures, table>>

CommitClose(c) ==
  /\ ~Shown /\ stamped[c] # Never /\ c \notin Closed
  /\ ended' = Append(ended, c)
  /\ UNCHANGED <<desk, time, opened, stamped, figures, table>>

----------------------------------------------------------------------------
(* A page reads the last closed count twice, in parallel: once for its     *)
(* caption (getLastClosedCount), once for its figures (getOnHandSnapshot). *)

LatestBy(at, candidates) ==
  {c \in candidates : \A d \in candidates : at[d] =< at[c]}

OrNone(found) == IF found = {} THEN {NULL} ELSE found

(* Mistake: the last count to start.                                       *)
LatestStarted == OrNone(LatestBy(StartedAt, Closed))

(* ORDER BY closed_at DESC LIMIT 1; any of those that tie.                 *)
LatestClosed == OrNone(LatestBy(ClosedAt, Closed))

OpenPage ==
  /\ desk = "figures" /\ page = NoPage
  /\ page' = [since |-> Len(ended), caption |-> Unread, figures |-> Unread]
  /\ UNCHANGED <<desk, counts, summary, table>>

ReadCaption ==
  /\ page # NoPage /\ page.caption = Unread
  /\ \E c \in LatestClosed : page' = [page EXCEPT !.caption = c]
  /\ UNCHANGED <<desk, counts, summary, table>>

ReadFigures ==
  /\ page # NoPage /\ page.figures = Unread
  /\ \E c \in LatestClosed : page' = [page EXCEPT !.figures = c]
  /\ UNCHANGED <<desk, counts, summary, table>>

(* Mistake: a count closed in the second this one started came before it.  *)
ClosedByStart(of) ==
  OrNone(LatestBy(ClosedAt, {c \in Closed \ {of} : ClosedAt[c] =< StartedAt[of]}))

(* previousCountComparison: the cutoff is the start of the count, not its  *)
(* close.                                                                  *)
EarlierCount(of) ==
  OrNone(LatestBy(ClosedAt, {c \in Closed \ {of} : ClosedAt[c] < StartedAt[of]}))

Summarize(c) ==
  /\ desk = "summary" /\ ~Shown /\ opened[c] # Never
  /\ \E e \in EarlierCount(c) :
       summary' = [of |-> c, since |-> Len(ended), earlier |-> e]
  /\ UNCHANGED <<desk, counts, page, table>>

----------------------------------------------------------------------------
(* The catalog table: a client-side copy of the rows a search returned,    *)
(* filtered by category, with boxes to tick.                               *)

VisibleIds == {p \in DOMAIN rows : filter \in {NULL, rows[p]}}

(* Mistake: every box ticked, on screen or not.                            *)
AllSelected == selected

VisibleSelected == selected \cap VisibleIds

OnTable == desk = "table" /\ UNCHANGED <<desk, counts, figures>>

Assigning == call # NoCall /\ call.kind = "assign"

(* A search, a refresh or a return to the page reads the rows anew; a      *)
(* later one takes the place of one not yet shown.                         *)
Read(matches) == {<<p, products[p].category>> : p \in matches}

Load(matches) ==
  /\ OnTable
  /\ loading' = Read(matches)
  /\ UNCHANGED <<products, rows, filter, selected, call>>

Loaded ==
  /\ OnTable /\ loading # NoPage
  /\ rows' = [p \in {l[1] : l \in loading} |-> (CHOOSE l \in loading : l[1] = p)[2]]
  /\ loading' = NoPage
  /\ UNCHANGED <<products, filter, selected, call>>

(* The filter by subcategory narrows the table in the same way, and is not *)
(* kept apart.                                                             *)
SetCategory(c) ==
  /\ OnTable /\ filter # c
  /\ filter' = c
  /\ UNCHANGED <<products, rows, selected, loading, call>>

ToggleProduct(p) ==
  /\ OnTable /\ p \in VisibleIds
  /\ selected' = IF p \in selected THEN selected \ {p} ELSE selected \cup {p}
  /\ UNCHANGED <<products, rows, filter, loading, call>>

SelectAllVisible ==
  /\ OnTable
  /\ selected' = VisibleIds
  /\ UNCHANGED <<products, rows, filter, loading, call>>

ClearSelection ==
  /\ OnTable
  /\ selected' = {}
  /\ UNCHANGED <<products, rows, filter, loading, call>>

SubmitAssignVendor(v) ==
  /\ OnTable /\ call = NoCall
  /\ VisibleSelected # {} /\ Cardinality(VisibleSelected) =< BulkLimit
  /\ call' = [kind |-> "assign", ids |-> VisibleSelected, vendor |-> v,
              shown |-> VisibleIds, status |-> "sent"]
  /\ UNCHANGED <<products, rows, filter, selected, loading>>

(* assignVendorToProducts: all of them or, on an error, none.              *)
ServeAssign ==
  /\ OnTable /\ Assigning /\ call.status = "sent"
  /\ \/ /\ products' = [p \in Products |->
                          IF p \in call.ids THEN [products[p] EXCEPT !.vendor = call.vendor]
                          ELSE products[p]]
        /\ call' = [call EXCEPT !.status = "done"]
     \/ /\ call' = [call EXCEPT !.status = "failed"]
        /\ UNCHANGED products
  /\ UNCHANGED <<rows, filter, selected, loading>>

(* Success unticks every box and reads the rows anew; a failure, or a      *)
(* reply that was lost, leaves the boxes for another try.                  *)
AssignAnswered ==
  /\ OnTable /\ Assigning /\ call.status # "sent"
  /\ \/ /\ call.status = "done"
        /\ selected' = {}
        /\ \E matches \in Searches : loading' = Read(matches)
     \/ UNCHANGED <<selected, loading>>
  /\ call' = NoCall
  /\ UNCHANGED <<products, rows, filter>>

(* A cost or case-size cell: the save answers with the product as it then  *)
(* is, and that takes the place of its row.                                *)
SaveCell(p) ==
  /\ OnTable /\ call = NoCall /\ p \in VisibleIds
  /\ call' = [kind |-> "save", product |-> p, category |-> products[p].category]
  /\ UNCHANGED <<products, rows, filter, selected, loading>>

CellSaved ==
  /\ OnTable /\ call # NoCall /\ call.kind = "save"
  /\ rows' = [p \in DOMAIN rows |-> IF p = call.product THEN call.category ELSE rows[p]]
  /\ call' = NoCall
  /\ UNCHANGED <<products, filter, selected, loading>>

(* Another desk files a product under another category.                    *)
Refile(p, c) ==
  /\ OnTable /\ products[p].category # c
  /\ products' = [products EXCEPT ![p].category = c]
  /\ UNCHANGED <<rows, filter, selected, loading, call>>

----------------------------------------------------------------------------
CountsStep == Tick \/ \E c \in Counts : OpenCount(c) \/ BeginClose(c) \/ CommitClose(c)

FiguresStep == OpenPage \/ ReadCaption \/ ReadFigures \/ \E c \in Counts : Summarize(c)

TableStep ==
  \/ \E s \in Searches : Load(s)
  \/ Loaded
  \/ \E c \in Categories \cup {NULL} : SetCategory(c)
  \/ \E p \in Products : ToggleProduct(p) \/ SaveCell(p)
  \/ SelectAllVisible \/ ClearSelection
  \/ \E v \in Vendors \cup {NULL} : SubmitAssignVendor(v)
  \/ ServeAssign \/ AssignAnswered \/ CellSaved
  \/ \E p \in Products, c \in Categories : Refile(p, c)

OnPages == (CountsStep \/ FiguresStep \/ TableStep) /\ UNCHANGED <<productForms, rowForms>>

OnProductForm ==
  /\ desk = "product" /\ ProductFormsNext
  /\ UNCHANGED <<desk, counts, figures, table, rowForms>>

OnRowList ==
  /\ desk = "rows" /\ RowFormsNext
  /\ UNCHANGED <<desk, counts, figures, table, productForms>>

Next == OnPages \/ OnProductForm \/ OnRowList

Spec == Init /\ [][Next]_vars

----------------------------------------------------------------------------
(* The counts that had closed when a page was opened.                      *)
ClosedSince(n) == {ended[i] : i \in 1..n}

(* A page's figures come from a count that has closed, and no count that   *)
(* had closed when the page was opened was closed a second or more after   *)
(* that one: in whole seconds the later of two may pass for the earlier.   *)
(* There are none only if no count had closed.  The caption, read beside   *)
(* them, names the same count unless a count closed while the page loaded, *)
(* or two closes fell in the same second.                                  *)
FiguresAreNewest ==
  page # NoPage =>
    /\ page.figures = NULL => page.since = 0
    /\ page.figures \in Counts =>
         /\ page.figures \in Closed
         /\ \A d \in ClosedSince(page.since) : stamped[d] - stamped[page.figures] < 2
    /\ {page.caption, page.figures} \subseteq Counts =>
         \/ page.caption = page.figures
         \/ Len(ended) > page.since
         \/ stamped[page.caption] - stamped[page.figures] \in -1..1

(* A summary compares a count with one whose close had begun before it     *)
(* started, however long it was left open; and it passes over a count that *)
(* closed before it started only within a second of that start, or of the  *)
(* close it chose.                                                         *)
PreviousBeforeStart ==
  summary # NoPage =>
    LET start == opened[summary.of]
        before == {d \in ClosedSince(summary.since) : stamped[d] < start - 2}
    IN  /\ summary.earlier = NULL => before = {}
        /\ summary.earlier \in Counts =>
             /\ summary.earlier # summary.of /\ stamped[summary.earlier] < start
             /\ \A d \in before : stamped[d] - stamped[summary.earlier] < 2

(* A bulk assignment changes the vendor only of products that were on the  *)
(* screen when it was asked for, whatever is ticked: a search, a category  *)
(* or an edit that takes a ticked row off the screen takes it out.         *)
BulkReachesOnlyShown ==
  [][\A p \in Products :
       products'[p].vendor # products[p].vendor => p \in call.shown]_vars

=============================================================================
