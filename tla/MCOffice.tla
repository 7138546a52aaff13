------------------------------ MODULE MCOffice ------------------------------
(* Office on a small instance, and the figures of Reports checked on every *)
(* sheet of two products in two places.                                    *)
EXTENDS Office, TLC

CONSTANTS c1, c2, c3, beer, rum, bar, cellar, v1, r1, r2, r3, n1, n2, n3, d1

Interchangeable == Permutations(Counts)

(* Bottled beer of a type on no list, a bottle, a keg, and a can of a size *)
(* on no list.                                                             *)
SomeArticles ==
  {[category |-> "Beer", unitType |-> "bottle", type |-> "house", size |-> 355, caseSize |-> 24],
   [category |-> "Spirits", unitType |-> "bottle", type |-> "Spirits", size |-> 1000,
    caseSize |-> Blank],
   [category |-> "Beer", unitType |-> "keg", type |-> "Beer", size |-> 19533,
    caseSize |-> Blank],
   [category |-> "NA", unitType |-> "can", type |-> NoType, size |-> 250, caseSize |-> Blank]}

TwoRows ==
  (r1 :> [name |-> n1, details |-> Empty, active |-> TRUE]) @@
  (r2 :> [name |-> n2, details |-> d1, active |-> TRUE]) @@ (r3 :> Absent)

(* A search for everything, for one product, and one that matches nothing. *)
SomeSearches == {Products, {beer}, {}}

Priced == [cost |-> 25000, caseSize |-> 12]
Unsized == [cost |-> 25000, caseSize |-> NULL]
Unpriced == [cost |-> NULL, caseSize |-> 12]

SomeRows ==
  {[cases |-> 1, eaches |-> 2, fills |-> <<>>, price |-> Priced],
   [cases |-> 0, eaches |-> 1, fills |-> <<3, 7>>, price |-> Unsized],
   [cases |-> 1, eaches |-> 0, fills |-> <<>>, price |-> Unsized],
   [cases |-> 0, eaches |-> 1, fills |-> <<5>>, price |-> Unpriced],
   NoLine}

Sheets == [{beer, rum} \X {bar, cellar} -> SomeRows]
Category == [p \in {beer, rum} |-> IF p = beer THEN "Beer" ELSE "Spirits"]
SomePars == [{beer, rum} -> [level : {0, 20, 300}, point : {NULL, 20, 140}]]

(* What Reports promises of its figures holds of every such sheet.         *)
ASSUME ReportsAddUp ==
  \A sheet \in Sheets :
    /\ GroupsAddUp(sheet, Category) /\ OnHandIsTheCount(sheet)
    /\ IncompleteIsAFloor(sheet, 12)

ASSUME ReorderListsAreRight ==
  \A sheet \in Sheets, pars \in SomePars :
    ReorderReachesPar(sheet, pars) /\ ReorderItems(NULL, pars) = {}

(* A product on the catalog page needs a par exactly when it can never be  *)
(* on the reorder list; a row a cell has saved no longer says so.          *)
ASSUME NeedsParIsShownAtLoad ==
  \A par \in {NULL, [level |-> 20, point |-> NULL]},
     product \in [wine : BOOLEAN, brand : BOOLEAN, byCase : BOOLEAN, active : BOOLEAN,
                  caseSize : {NULL, 12}, cost : {NULL, 25000}] :
    LET row == RowWithStock(product, TRUE, Stock(NULL, beer, par))
    IN  /\ "needs_par" \in row.incomplete <=> par = NULL
        /\ RowAsSaved(product, TRUE).incomplete = row.incomplete \ {"needs_par"}
        /\ row.stock.onHand = NULL
        /\ UnpricedAsMarked(beer :> product)
        /\ CatalogHealth("manager", beer :> product).unpriced = NULL

=============================================================================
