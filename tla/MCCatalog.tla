------------------------------ MODULE MCCatalog ------------------------------
(* Catalog on a small instance: a bar with two products, a vendor and two  *)
(* locations, an inn with one of each, and two requests that overlap.      *)
EXTENDS Catalog

CONSTANTS bar, inn, r1, r2

NewIds == [r \in Requests |-> IF r = r1 THEN 4 ELSE 5]

(* A small bottle: its UPC-E, the same code as UPC-A and EAN-13, and the   *)
(* eight digits as read by a phone that does not say which symbology.      *)
(* Another article carries the same eight digits as an EAN-8; a third has  *)
(* a short code whose zeros are elsewhere; the house has labels of its own.*)
upcE  == [code |-> <<0,1,2,3,4,5,6,5>>, format |-> "upc_e", article |-> "bottle"]
upcA  == [code |-> <<0,1,2,3,4,5,0,0,0,0,6,5>>, format |-> "upc_a", article |-> "bottle"]
ean13 == [code |-> <<0,0,1,2,3,4,5,0,0,0,0,6,5>>, format |-> "ean_13", article |-> "bottle"]
bare  == [code |-> <<0,1,2,3,4,5,6,5>>, format |-> "none", article |-> "bottle"]
ean8  == [code |-> <<0,1,2,3,4,5,6,5>>, format |-> "ean_8", article |-> "jar"]
upcE0 == [code |-> <<0,8,2,2,3,1,0,4>>, format |-> "upc_e", article |-> "flask"]
upcA0 == [code |-> <<0,8,2,0,0,0,0,0,2,3,1,4>>, format |-> "upc_a", article |-> "flask"]
label == [code |-> <<NotDigit,0,1,2,3>>, format |-> "code_128", article |-> "infusion"]

SomeReadings == {upcE, upcA, ean13, bare, ean8, upcE0, upcA0, label}

(* What is marked on each, so that the theorems about readings apply here. *)
Mark == [article \in {x.article : x \in Readings} |->
  CASE article = "bottle"   -> <<0,0,0,1,2,3,4,5,0,0,0,0,6,5>>
    [] article = "jar"      -> <<0,0,0,0,0,0,0,1,2,3,4,5,6,5>>
    [] article = "flask"    -> <<0,0,0,8,2,0,0,0,0,0,2,3,1,4>>
    [] article = "infusion" -> label.code]

ASSUME ReadTrue(Mark) /\ ToldApart(Mark)

At(rows, other) == [i \in Ids |-> IF i \in DOMAIN rows THEN rows[i] ELSE other]

Stock(o, n) == [org |-> o, name |-> n, vendor |-> None, active |-> TRUE, made |-> None]
Spot(o, n) == [org |-> o, name |-> n, mode |-> "tenths", active |-> TRUE]

Rows(codes) ==
  [vendor |-> At(<<bar, inn>>, NoRow),
   product |-> At(<<Stock(bar, "rum"), Stock(bar, "gin"), Stock(inn, "rum")>>, NoRow),
   barcode |-> codes,
   place |-> At(<<Spot(bar, "rail"), Spot(bar, "cellar"), Spot(inn, "rail")>>, NoRow)]

NoCodes == [o \in Orgs |-> [c \in Codes |-> NoRow]]

NewOrUsed ==
  {Rows(NoCodes),
   Rows([NoCodes EXCEPT
           ![bar][CodeOf(upcA)] = [product |-> 1, primary |-> TRUE, article |-> "bottle"],
           ![bar][CodeOf(upcA0)] = [product |-> 1, primary |-> FALSE, article |-> "flask"]])}

AskedOfTheBar ==
       [op : {"resolve"}, org : {bar}, reading : {upcE, ean8}]
  \cup [op : {"link"}, org : {bar}, product : {1, 2}, reading : {upcE, ean13, bare, upcE0, label}]
  \cup [op : {"link"}, org : {bar}, product : {2}, reading : {ean8, upcA0}]
  \cup [op : {"link"}, org : {bar}, product : {3, 4}, reading : {upcA}]
  \cup [op : {"create"}, org : {bar}, name : {"tea"}, vendor : {None, 1, 2}, reading : {None, upcE}]
  \cup [op : {"edit"}, org : {bar}, product : {1}, name : {"tea", "gin"}, vendor : {1, Keep},
        par : {2, Keep}]
  \cup [op : {"edit"}, org : {bar}, product : {1}, name : {Keep}, vendor : {2, None, Keep},
        par : {2, None}]
  \cup [op : {"edit"}, org : {bar}, product : {3}, name : {Keep}, vendor : {None}, par : {2}]
  \cup [op : {"deactivate"}, org : {bar}, product : {1, 3}]
  \cup [op : {"assign"}, org : {bar}, products : {{1, 2}, {1, 3}}, vendor : {1, 2, None}]
  \cup [op : {"newVendor"}, org : {bar}]
  \cup [op : {"editVendor"}, org : {bar}, vendor : {1, 2}]
  \cup [op : {"newPlace"}, org : {bar}, name : {"rail", "yard"}]
  \cup [op : {"editPlace"}, org : {bar}, place : {1}, name : {Keep}, mode : {"tenths", "sealed"}]
  \cup [op : {"editPlace"}, org : {bar}, place : {1, 3}, name : {"yard"}, mode : {Keep}]
  \cup [op : {"retire"}, org : {bar}, place : {1, 2, 3}]

AskedOfTheInn ==
       [op : {"link"}, org : {inn}, product : {1, 3}, reading : {upcA}]
  \cup [op : {"retire"}, org : {inn}, place : {1, 3}]

AskedOfBoth == AskedOfTheBar \cup AskedOfTheInn

=============================================================================
