------------------------------ MODULE Reports ------------------------------
(***************************************************************************)
(* The figures the office reads off closed counts: lib/domain/on-hand.ts,  *)
(* lib/domain/reports.ts and the derived columns of lib/domain/catalog.ts. *)
(* Pure functions of rows already read; Office says when they are read.    *)
(*                                                                         *)
(* A sheet is a count's lines, a function from slots <<product, place>> to *)
(* rows, NoLine where the count has none.  Units are tenths of a bottle,   *)
(* as in Valuation; so are pars.                                           *)
(***************************************************************************)
EXTENDS Valuation, FiniteSetsExt

LinesOf(sheet) == {s \in DOMAIN sheet : sheet[s] # NoLine}

UnitsOr0(row) == IF UnitsKnown(row) THEN UnitTenths(row) ELSE 0

----------------------------------------------------------------------------
(* getOnHandSnapshot: units on hand of each product the count has a line   *)
(* of, over all its places.  A line of unknown size adds nothing and marks *)
(* its product: the figure is then a floor.                                *)

CountedProducts(sheet) == {s[1] : s \in LinesOf(sheet)}

OnHand(sheet) ==
  [p \in CountedProducts(sheet) |->
     SumFunction([s \in {l \in LinesOf(sheet) : l[1] = p} |-> UnitsOr0(sheet[s])])]

Indeterminate(sheet) == {s[1] : s \in {l \in LinesOf(sheet) : ~UnitsKnown(sheet[l])}}

OnHandOf(sheet, p) == IF p \in CountedProducts(sheet) THEN OnHand(sheet)[p] ELSE 0

----------------------------------------------------------------------------
(* reorderList: the products with a par that are at their reorder point,   *)
(* or at their par if they have none, and what brings them back to par.    *)

Threshold(par) == IF par.point = NULL THEN par.level ELSE par.point

Short(onHand, par) == onHand =< Threshold(par)

Suggested(onHand, par) == IF par.level > onHand THEN par.level - onHand ELSE 0

(* pars holds the overall par of every active product that has one; asOf   *)
(* is the sheet of the count, NULL when none has closed.                   *)
ReorderItems(asOf, pars) ==
  IF asOf = NULL THEN {}
  ELSE {[product |-> p, onHand |-> OnHandOf(asOf, p),
         order |-> Suggested(OnHandOf(asOf, p), pars[p])] :
          p \in {q \in DOMAIN pars : Short(OnHandOf(asOf, q), pars[q])}}

ProductsWithPar(asOf, pars) == IF asOf = NULL THEN 0 ELSE Cardinality(DOMAIN pars)

----------------------------------------------------------------------------
(* countSummary: the totals of a count and the same lines by category or   *)
(* by place, added up line by line.  Money is there for an owner only.     *)

CanSeeCost(role) == role = "owner"

EmptyGroup == [lineCount |-> 0, units |-> 0, excludedLineCount |-> 0, value |-> 0]

AddTo(group, row) ==
  [lineCount |-> group.lineCount + 1,
   units |-> group.units + UnitsOr0(row),
   excludedLineCount |-> group.excludedLineCount + IF Valued(row) THEN 0 ELSE 1,
   value |-> group.value + IF Valued(row) THEN ExtendedCents(row) ELSE 0]

Without(figures, money) == [f \in DOMAIN figures \ money |-> figures[f]]

Shaped(role, figures, money) ==
  IF CanSeeCost(role) THEN figures ELSE Without(figures, money)

(* key names the group of every slot.                                      *)
Groups(role, sheet, key) ==
  [g \in {key[s] : s \in LinesOf(sheet)} |->
     Shaped(role,
            FoldSet(LAMBDA s, group : AddTo(group, sheet[s]), EmptyGroup,
                    {s \in LinesOf(sheet) : key[s] = g}),
            {"value"})]

CountSummary(role, sheet, category) ==
  LET totals == SummarizeValuation(sheet)
  IN  [totals     |-> Shaped(role, totals, {"totalValue"}),
       byCategory |-> Groups(role, sheet, [s \in DOMAIN sheet |-> category[s[1]]]),
       byLocation |-> Groups(role, sheet, [s \in DOMAIN sheet |-> s[2]])]

(* previousCountComparison: the value of the earlier count is the one its  *)
(* close stored, if it stored one.                                         *)
Comparison(role, sheet, earlier, stored) ==
  LET now == SummarizeValuation(sheet)
      before == SummarizeValuation(earlier)
      value == IF stored = NULL THEN before.totalValue ELSE stored
  IN  Shaped(role, [totalUnits |-> before.totalUnits,
                    unitsDelta |-> now.totalUnits - before.totalUnits,
                    totalValue |-> value,
                    valueDelta |-> now.totalValue - value],
             {"totalValue", "valueDelta"})

----------------------------------------------------------------------------
(* incompleteReasons and attachStock: why a product needs attention, and   *)
(* the stock cell of its row.  Whether it is counted by the case           *)
(* (lib/pack-level.ts) is a fact of the product.                           *)

IncompleteReasons(product, showCost) ==
  {r \in {"needs_producer", "needs_case_size", "needs_cost"} :
     CASE r = "needs_producer"  -> product.wine /\ ~product.brand
       [] r = "needs_case_size" -> product.byCase /\ product.caseSize = NULL
       [] r = "needs_cost"      -> showCost /\ product.cost = NULL}

Stock(asOf, p, par) ==
  [onHand    |-> IF asOf = NULL THEN NULL ELSE OnHandOf(asOf, p),
   isPartial |-> asOf # NULL /\ p \in Indeterminate(asOf),
   par       |-> par]

(* A row as the office catalog loads it, and as a save returns it: without *)
(* a stock, and so without the reason only a stock can give.               *)
RowWithStock(product, showCost, stock) ==
  [incomplete |-> IncompleteReasons(product, showCost)
                    \cup IF stock.par = NULL THEN {"needs_par"} ELSE {},
   stock |-> stock]

RowAsSaved(product, showCost) ==
  [incomplete |-> IncompleteReasons(product, showCost), stock |-> NULL]

(* getCatalogHealth: counted in the database, not off a capped list.       *)
CatalogHealth(role, products) ==
  [active |-> Cardinality({p \in DOMAIN products : products[p].active}),
   unpriced |-> IF CanSeeCost(role)
                THEN Cardinality({p \in DOMAIN products :
                                    products[p].active /\ products[p].cost = NULL})
                ELSE NULL]

----------------------------------------------------------------------------
(* What the figures promise, of any sheet.                                 *)

AddsUpTo(groups, totals) ==
  LET Sum(field) == SumFunction([g \in DOMAIN groups |-> groups[g][field]])
  IN  /\ Sum("units") = totals.totalUnits
      /\ Sum("value") = totals.totalValue
      /\ Sum("excludedLineCount") = totals.excludedLineCount
      /\ Sum("lineCount") = totals.pricedLineCount + totals.excludedLineCount

(* The groups of a summary, by category or by place, add up to its totals. *)
GroupsAddUp(sheet, category) ==
  LET s == CountSummary("owner", sheet, category)
  IN  AddsUpTo(s.byCategory, s.totals) /\ AddsUpTo(s.byLocation, s.totals)

(* On-hand figures add up to the units of the count.                       *)
OnHandIsTheCount(sheet) == SumFunction(OnHand(sheet)) = SummarizeValuation(sheet).totalUnits

(* A product marked as incomplete has more on hand than its figure says:   *)
(* the same lines with the case size known show more of it.                *)
Sized(sheet, size) ==
  [s \in DOMAIN sheet |->
     IF sheet[s] # NoLine /\ ~UnitsKnown(sheet[s])
     THEN [sheet[s] EXCEPT !.price.caseSize = size] ELSE sheet[s]]

IncompleteIsAFloor(sheet, size) ==
  \A p \in CountedProducts(sheet) :
    IF p \in Indeterminate(sheet)
    THEN OnHandOf(sheet, p) < OnHandOf(Sized(sheet, size), p)
    ELSE OnHandOf(sheet, p) = OnHandOf(Sized(sheet, size), p)

(* The reorder list names what is short and nothing else; ordering what it *)
(* suggests brings a product to its par, and never past it.                *)
ReorderReachesPar(sheet, pars) ==
  LET items == ReorderItems(sheet, pars)
  IN  /\ \A i \in items :
           /\ i.order >= 0 /\ i.onHand + i.order >= pars[i.product].level
           /\ i.order = 0 \/ i.onHand + i.order = pars[i.product].level
      /\ \A p \in DOMAIN pars :
           (\E i \in items : i.product = p) <=> Short(OnHandOf(sheet, p), pars[p])

(* The products the dashboard counts as unpriced are those whose rows say  *)
(* that they need a cost.                                                  *)
UnpricedAsMarked(products) ==
  CatalogHealth("owner", products).unpriced =
    Cardinality({p \in DOMAIN products :
                   /\ products[p].active
                   /\ "needs_cost" \in IncompleteReasons(products[p], TRUE)})

=============================================================================
