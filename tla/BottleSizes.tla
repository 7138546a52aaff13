----------------------------- MODULE BottleSizes -----------------------------
(***************************************************************************)
(* The sizes a product form offers, in millilitres (lib/bottle-sizes.ts),  *)
(* and which products are counted by the case (lib/pack-level.ts).         *)
(***************************************************************************)

AllCategories == {"Spirits", "Beer", "Wine", "Liqueur", "NA"}
UnitTypes == {"bottle", "can", "keg"}

SpiritsSizes == [sizes |-> {50, 200, 375, 500, 700, 750, 1000, 1750}, default |-> 750]
BeerSizes    == [sizes |-> {222, 330, 355, 473, 650, 740}, default |-> 355]
WineSizes    == [sizes |-> {187, 375, 750, 1500}, default |-> 750]
KegSizes     == [sizes |-> {19533, 29337, 58674}, default |-> 19533]

(* The unit type wins over the category; an unknown category is offered    *)
(* what spirits are.                                                       *)
ListFor(category, unitType) ==
  CASE unitType = "keg"            -> KegSizes
    [] unitType # "keg" /\ category \in {"Beer", "NA"} -> BeerSizes
    [] unitType # "keg" /\ category = "Wine" -> WineSizes
    [] OTHER                       -> SpiritsSizes

BottleSizesFor(category, unitType) == ListFor(category, unitType).sizes
DefaultSizeMlFor(category, unitType) == ListFor(category, unitType).default
IsPresetSizeMl(ml, category, unitType) == ml \in BottleSizesFor(category, unitType)

IsCountedByCase(category, unitType) == category = "Beer" /\ unitType # "keg"

=============================================================================
