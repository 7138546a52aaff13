------------------------------- MODULE Barcode -------------------------------
(***************************************************************************)
(* One barcode, one written form: lib/barcode.ts, with the reader choice   *)
(* of lib/barcode-reader.ts and the pack-level rule of lib/pack-level.ts.  *)
(*                                                                         *)
(* A reading is a sequence of symbols and the symbology the camera         *)
(* reported.  Any symbol that is not a digit is NotDigit; the surrounding  *)
(* blanks that the code trims are not modelled.                            *)
(***************************************************************************)
EXTENDS Integers, SequencesExt

RetailFormats == {"upc_a", "upc_e", "ean_13", "ean_8"}
ScanFormats == RetailFormats \cup {"code_128", "code_39"}

NotDigit == 10
AllDigits(code) == code # <<>> /\ \A i \in DOMAIN code : code[i] # NotDigit

PadTo14(code) == [i \in 1 .. 14 - Len(code) |-> 0] \o code

(* GS1 mod-10: weights 3, 1, 3, ... leftwards from beside the check digit. *)
IsValidGs1(code) ==
  LET n == Len(code)
      weighted == [i \in 1 .. n - 1 |-> code[i] * (IF (n - i) % 2 = 1 THEN 3 ELSE 1)]
  IN  (10 - (SumFunction(weighted) % 10)) % 10 = code[n]

(* Mistake: zeros restored as though the last digit were always 5 to 9.    *)
ExpandLikeFive(c) ==
  <<c[1]>> \o SubSeq(c, 2, 6) \o <<0, 0, 0, 0, c[7]>> \o <<c[8]>>

(* UPC-E to the UPC-A it abbreviates: the sixth digit says where the zeros *)
(* were.  Number systems other than 0 and 1 have no short form.            *)
ExpandUpcE(c) ==
  LET d == SubSeq(c, 2, 7)
      body == CASE d[6] <= 2 -> <<d[1], d[2], d[6], 0, 0, 0, 0, d[3], d[4], d[5]>>
                [] d[6] = 3  -> <<d[1], d[2], d[3], 0, 0, 0, 0, 0, d[4], d[5]>>
                [] d[6] = 4  -> <<d[1], d[2], d[3], d[4], 0, 0, 0, 0, 0, d[5]>>
                [] d[6] >= 5 -> <<d[1], d[2], d[3], d[4], d[5], 0, 0, 0, 0, d[6]>>
  IN  <<c[1]>> \o body \o <<c[8]>>

(* Mistake: eight digits of unknown symbology are taken for an EAN-8.      *)
GuessingStandard(code, format) ==
  IF AllDigits(code) /\ Len(code) \in {8, 12, 13, 14} /\ IsValidGs1(code)
  THEN PadTo14(code) ELSE code

(* normalizeBarcode: the form a code is stored and looked up in.  Nothing  *)
(* is rewritten unless its check digit proves what it is.                  *)
Standard(code, format) ==
  IF AllDigits(code)
  THEN CASE Len(code) \in {12, 13, 14} /\ IsValidGs1(code) -> PadTo14(code)
         [] Len(code) = 8 /\ format = "upc_e" /\ code[1] \in {0, 1}
              /\ IsValidGs1(ExpandUpcE(code)) -> PadTo14(ExpandUpcE(code))
         [] Len(code) = 8 /\ format = "ean_8" /\ IsValidGs1(code) -> PadTo14(code)
         [] OTHER -> code
  ELSE code

(* chooseBarcodeReader: the phone's own reader only if it exists, can say  *)
(* what it reads, and reads every retail symbology.                        *)
UseBuiltIn(available, canSay, supported) ==
  available /\ canSay /\ RetailFormats \subseteq supported

ReaderFormats(available, canSay, supported) ==
  IF UseBuiltIn(available, canSay, supported)
  THEN ScanFormats \cap supported
  ELSE ScanFormats

(* isCountedByCase: bottled beer only; a keg is one unit.                  *)
CountedByCase(category, unitType) == category = "beer" /\ unitType # "keg"

-----------------------------------------------------------------------------
(* What the forms of a barcode are, to hold the code against: GS1 says how *)
(* a GTIN is written, not how a reading is turned back into one.           *)

IsGtin(code) == code \in [1 .. 14 -> 0 .. 9] /\ IsValidGs1(code)

ZerosFrom(code, i, j) == \A k \in i .. j : code[k] = 0

(* Zero suppression: the short form of a UPC-A with the zeros it takes.    *)
ShortForm(short, upcA) ==
  /\ short \in [1 .. 8 -> 0 .. 9] /\ upcA \in [1 .. 12 -> 0 .. 9]
  /\ short[1] = upcA[1] /\ short[8] = upcA[12]
  /\ short[2] = upcA[2] /\ short[3] = upcA[3]
  /\ \/ /\ upcA[4] \in 0 .. 2 /\ ZerosFrom(upcA, 5, 8)
        /\ short[4] = upcA[9] /\ short[5] = upcA[10] /\ short[6] = upcA[11]
        /\ short[7] = upcA[4]
     \/ /\ upcA[4] \in 3 .. 9 /\ ZerosFrom(upcA, 5, 9)
        /\ short[4] = upcA[4] /\ short[5] = upcA[10] /\ short[6] = upcA[11]
        /\ short[7] = 3
     \/ /\ upcA[5] # 0 /\ ZerosFrom(upcA, 6, 10)
        /\ short[4] = upcA[4] /\ short[5] = upcA[5] /\ short[6] = upcA[11]
        /\ short[7] = 4
     \/ /\ upcA[6] # 0 /\ ZerosFrom(upcA, 7, 10) /\ upcA[11] \in 5 .. 9
        /\ short[4] = upcA[4] /\ short[5] = upcA[5] /\ short[6] = upcA[6]
        /\ short[7] = upcA[11]

(* The ways a GTIN is read: as UPC-A, EAN-13 or GTIN-14, whatever the      *)
(* symbology reported; as EAN-8 or UPC-E when it is reported.              *)
WrittenForm(code, format, gtin) ==
  \/ Len(code) \in 12 .. 14 /\ PadTo14(code) = gtin
  \/ Len(code) = 8 /\ format = "ean_8" /\ PadTo14(code) = gtin
  \/ /\ Len(code) = 8 /\ format = "upc_e" /\ code[1] \in {0, 1}
     /\ ShortForm(code, SubSeq(gtin, 3, 14)) /\ ZerosFrom(gtin, 1, 2)

(* Eight digits of a symbology nobody reported could be either.            *)
Bare(code, format) ==
  AllDigits(code) /\ Len(code) = 8 /\ format \notin {"ean_8", "upc_e"}

(* A label that is no GTIN is read as it is.                               *)
IsLabel(code) == ~ (AllDigits(code) /\ Len(code) \in {8, 12, 13, 14})

(* A reading of what is marked on an article.                              *)
ReadOff(code, format, mark) ==
  /\ code \in Seq(0 .. NotDigit)
  /\ \/ IsGtin(mark) /\ (WrittenForm(code, format, mark) \/ Bare(code, format))
     \/ IsLabel(mark) /\ code = mark

=============================================================================
