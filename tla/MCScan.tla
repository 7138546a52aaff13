------------------------------- MODULE MCScan -------------------------------
(* Scan on a small instance: a bar and a cellar, a product whose barcode   *)
(* the catalog knows, and a bottle nobody has scanned yet.                 *)
EXTENDS Scan, TLC

CONSTANTS bar, cellar, rum, known, unknown

AtFirst == [code \in Codes |-> IF code = known THEN rum ELSE Nobody]

(* Which call is which does not matter.                                    *)
AnyCall == Permutations(Calls)

=============================================================================
