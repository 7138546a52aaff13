---------------------------- MODULE BarcodeProofs ----------------------------
(***************************************************************************)
(* normalizeBarcode for every code: what is rewritten is a GTIN, every     *)
(* written form of a GTIN becomes that GTIN, and the check digit tells a   *)
(* code from the same code with one digit misread.  A code is a sequence   *)
(* over 0 .. NotDigit.                                                     *)
(***************************************************************************)
EXTENDS Barcode, Sums, SequenceTheorems

Symbol == 0 .. NotDigit
Digit == 0 .. 9

(* The digits of a code are digits.                                        *)
LEMMA DigitsOf ==
  ASSUME NEW code \in Seq(Symbol), AllDigits(code)
  PROVE  code \in Seq(Digit) /\ Len(code) # 0
  <1>1. \A i \in 1 .. Len(code) : code[i] \in Digit
    BY DEF AllDigits, Symbol, Digit, NotDigit
  <1>2. code \in Seq(Digit)
    BY <1>1
  <1> QED BY <1>2 DEF AllDigits

(* Sequences of n symbols of S.                                            *)
Word(n, S) == [1 .. n -> S]

LEMMA Sequence ==
  ASSUME NEW S, NEW n \in Nat, NEW f \in Word(n, S)
  PROVE  f \in Seq(S) /\ Len(f) = n
  BY DEF Word

(* A concatenation, position by position.                                  *)
IsJoin(u, m, s, n, t) ==
  /\ \A i \in 1 .. m : u[i] = s[i]
  /\ \A i \in 1 .. n : u[m + i] = t[i]

LEMMA Joined ==
  ASSUME NEW S, NEW m \in Nat, NEW n \in Nat, NEW s \in Word(m, S), NEW t \in Word(n, S)
  PROVE  s \o t \in Word(m + n, S) /\ IsJoin(s \o t, m, s, n, t)
  <1>1. s \in Seq(S) /\ Len(s) = m /\ t \in Seq(S) /\ Len(t) = n
    BY Sequence
  <1>2. /\ s \o t \in Seq(S) /\ Len(s \o t) = m + n
        /\ \A i \in 1 .. m + n : (s \o t)[i] = IF i <= m THEN s[i] ELSE t[i - m]
    BY <1>1, ConcatProperties
  <1>3. s \o t \in Word(m + n, S)
    BY <1>2, LenProperties DEF Word
  <1>4. \A i \in 1 .. n : m + i \in 1 .. m + n /\ ~ (m + i <= m) /\ (m + i) - m = i
    OBVIOUS
  <1> QED BY <1>2, <1>3, <1>4 DEF IsJoin

LEMMA JoinedIs ==
  ASSUME NEW S, NEW m \in Nat, NEW n \in Nat, NEW s \in Word(m, S), NEW t \in Word(n, S),
         NEW u \in Word(m + n, S), IsJoin(u, m, s, n, t)
  PROVE  u = s \o t
  <1>1. PICK v : v = s \o t
    OBVIOUS
  <1>2. v \in Word(m + n, S) /\ IsJoin(v, m, s, n, t)
    BY <1>1, Joined
  <1>3. ASSUME NEW i \in 1 .. m + n PROVE u[i] = v[i]
    <2>1. i \in 1 .. m \/ \E j \in 1 .. n : i = m + j
      <3>1. CASE i =< m
        BY <3>1
      <3>2. CASE i > m
        <4>1. i - m \in 1 .. n /\ i = m + (i - m)
          BY <3>2
        <4> QED BY <4>1
      <3> QED BY <3>1, <3>2
    <2> QED BY <1>2, <2>1 DEF IsJoin
  <1>4. u = v
    BY <1>2, <1>3 DEF Word
  <1> QED BY <1>1, <1>4

-----------------------------------------------------------------------------
(* Check digits.                                                           *)
Weight(n, i) == IF (n - i) % 2 = 1 THEN 3 ELSE 1
Weighted(code, n) == [i \in 1 .. n - 1 |-> code[i] * Weight(n, i)]

LEMMA CheckDigit ==
  ASSUME NEW code \in Seq(Digit), NEW n \in Nat, n = Len(code)
  PROVE  IsValidGs1(code) <=> (10 - (SumFunction(Weighted(code, n)) % 10)) % 10 = code[n]
  BY DEF IsValidGs1, Weighted, Weight

LEMMA WeightedTyped ==
  ASSUME NEW n \in Nat \ {0}, NEW code \in Word(n, Digit)
  PROVE  /\ Weighted(code, n) \in Word(n - 1, Int)
         /\ IsFiniteSet(1 .. n - 1)
         /\ SumFunction(Weighted(code, n)) \in Int
  <1>1. \A i \in 1 .. n - 1 : Weight(n, i) \in Int /\ code[i] \in Int
    BY DEF Weight, Digit, Word
  <1>2. Weighted(code, n) \in Word(n - 1, Int)
    BY <1>1 DEF Weighted, Word
  <1>3. IsFiniteSet(1 .. n - 1)
    BY FS_Interval
  <1>4. SumFunction(Weighted(code, n)) \in Int
    BY <1>2, <1>3, SumTyped DEF Word
  <1> QED BY <1>2, <1>3, <1>4

(* Padding puts zeros in front.                                            *)
Zeros(k) == [i \in 1 .. k |-> 0]

LEMMA Padded ==
  ASSUME NEW S, 0 \in S,
         NEW n \in 1 .. 14, NEW k \in 0 .. 13, k = 14 - n, NEW code \in Word(n, S)
  PROVE  /\ PadTo14(code) = Zeros(k) \o code
         /\ PadTo14(code) \in Word(14, S)
         /\ IsJoin(PadTo14(code), k, Zeros(k), n, code)
  <1>1. n \in Nat /\ k \in Nat /\ k + n = 14
    OBVIOUS
  <1>2. Len(code) = n
    BY <1>1, Sequence
  <1>3. PadTo14(code) = Zeros(k) \o code
    BY <1>2 DEF PadTo14, Zeros
  <1>4. Zeros(k) \in Word(k, S)
    BY DEF Zeros, Word
  <1>5. Zeros(k) \o code \in Word(k + n, S) /\ IsJoin(Zeros(k) \o code, k, Zeros(k), n, code)
    BY <1>1, <1>4, Joined
  <1> QED BY <1>1, <1>3, <1>5

(* Zeros in front of a code do not change its check digit.                 *)
LEMMA PadKeepsCheckDigit ==
  ASSUME NEW n \in 1 .. 14, NEW code \in Word(n, Digit)
  PROVE  IsValidGs1(PadTo14(code)) <=> IsValidGs1(code)
  <1>1. PICK k \in 0 .. 13 : k = 14 - n
    OBVIOUS
  <1>2. PICK p : p = PadTo14(code)
    OBVIOUS
  <1>3. /\ p \in Word(14, Digit)
        /\ \A i \in 1 .. k : p[i] = 0
        /\ \A i \in 1 .. n : p[k + i] = code[i]
    <2>1. 0 \in Digit
      BY DEF Digit
    <2>2. p \in Word(14, Digit) /\ IsJoin(p, k, Zeros(k), n, code)
      BY <1>1, <1>2, <2>1, Padded
    <2> QED BY <2>2 DEF IsJoin, Zeros
  <1>4. PICK b \in Nat : b = n - 1
    OBVIOUS
  <1>5. PICK wc : wc = Weighted(code, n)
    OBVIOUS
  <1>6. PICK wp : wp = Weighted(p, 14)
    OBVIOUS
  <1>7. wc \in Word(b, Int) /\ SumFunction(wc) \in Int /\ wp \in Word(13, Int)
    <2>1. n \in Nat \ {0} /\ 14 \in Nat \ {0} /\ 14 - 1 = 13
      OBVIOUS
    <2>2. wc \in Word(n - 1, Int) /\ SumFunction(wc) \in Int
      BY <1>5, <2>1, WeightedTyped
    <2>3. wp \in Word(14 - 1, Int)
      BY <1>3, <1>6, <2>1, WeightedTyped
    <2> QED BY <1>4, <2>1, <2>2, <2>3
  <1>8. Zeros(k) \in Word(k, Int) /\ \A i \in 1 .. k : Zeros(k)[i] = 0
    BY DEF Zeros, Word
  <1>9. \A i \in 1 .. k : wp[i] = Zeros(k)[i]
    BY <1>1, <1>3, <1>6, <1>8 DEF Weighted, Weight
  <1>10. \A i \in 1 .. b : wp[k + i] = wc[i]
    <2> SUFFICES ASSUME NEW i \in 1 .. b PROVE wp[k + i] = wc[i]
      OBVIOUS
    <2>1. 14 - (k + i) = n - i /\ k + i \in 1 .. 14 - 1 /\ i \in 1 .. n /\ i \in 1 .. n - 1
      BY <1>1, <1>4
    <2>2. Weight(14, k + i) = Weight(n, i)
      BY <2>1 DEF Weight
    <2>3. wp[k + i] = p[k + i] * Weight(14, k + i)
      BY <1>6, <2>1 DEF Weighted
    <2>4. wc[i] = code[i] * Weight(n, i)
      BY <1>5, <2>1 DEF Weighted
    <2> QED BY <1>3, <2>1, <2>2, <2>3, <2>4
  <1>11. wp = Zeros(k) \o wc
    <2>1. k \in Nat /\ 13 = k + b
      BY <1>1, <1>4
    <2>2. IsJoin(wp, k, Zeros(k), b, wc)
      BY <1>9, <1>10 DEF IsJoin
    <2> QED BY <1>7, <1>8, <2>1, <2>2, JoinedIs
  <1>12. SumFunction(wp) = SumFunction(wc)
    <2>1. IsFiniteSet(1 .. k)
      BY FS_Interval
    <2>2. SumFunction(Zeros(k)) = 0
      BY <1>8, <2>1, SumOfZeros DEF Word
    <2>3. Zeros(k) \in Seq(Int) /\ wc \in Seq(Int)
      BY <1>4, <1>7, <1>8, Sequence
    <2>4. SumFunction(wp) = SumFunction(Zeros(k)) + SumFunction(wc)
      BY <1>11, <2>3, SumOfConcat
    <2> QED BY <1>7, <2>2, <2>4
  <1>13. p[14] = code[n]
    BY <1>1, <1>3
  <1>14. IsValidGs1(p) <=> (10 - (SumFunction(wp) % 10)) % 10 = p[14]
    <2>1. PICK m \in Nat : m = 14
      OBVIOUS
    <2>2. p \in Word(m, Digit)
      BY <1>3, <2>1
    <2>3. p \in Seq(Digit) /\ Len(p) = m
      BY <2>2, Sequence
    <2> QED BY <1>6, <2>1, <2>3, CheckDigit
  <1>15. IsValidGs1(code) <=> (10 - (SumFunction(wc) % 10)) % 10 = code[n]
    <2>1. code \in Seq(Digit) /\ Len(code) = n /\ n \in Nat
      BY Sequence
    <2> QED BY <1>5, <2>1, CheckDigit
  <1> QED BY <1>2, <1>12, <1>13, <1>14, <1>15

-----------------------------------------------------------------------------
(* What the standard form is.                                              *)
LEMMA StandardCases ==
  ASSUME NEW code, NEW format
  PROVE  \/ Standard(code, format) = code
         \/ /\ AllDigits(code) /\ Len(code) \in {8, 12, 13, 14} /\ IsValidGs1(code)
            /\ Standard(code, format) = PadTo14(code)
         \/ /\ AllDigits(code) /\ Len(code) = 8 /\ IsValidGs1(ExpandUpcE(code))
            /\ Standard(code, format) = PadTo14(ExpandUpcE(code))
  BY DEF Standard

LEMMA AsWord ==
  ASSUME NEW S, NEW code \in Seq(S), NEW n \in Nat, n = Len(code)
  PROVE  code \in Word(n, S)
  BY LenProperties DEF Word

(* The ten digits between the number system and the check digit.           *)
Between(c) ==
  LET d == SubSeq(c, 2, 7)
  IN  CASE d[6] <= 2 -> <<d[1], d[2], d[6], 0, 0, 0, 0, d[3], d[4], d[5]>>
        [] d[6] = 3  -> <<d[1], d[2], d[3], 0, 0, 0, 0, 0, d[4], d[5]>>
        [] d[6] = 4  -> <<d[1], d[2], d[3], d[4], 0, 0, 0, 0, 0, d[5]>>
        [] d[6] >= 5 -> <<d[1], d[2], d[3], d[4], d[5], 0, 0, 0, 0, d[6]>>

LEMMA BetweenIs ==
  ASSUME NEW c \in Word(8, Digit)
  PROVE  /\ c[7] \in 0 .. 2 =>
              Between(c) = <<c[2], c[3], c[7], 0, 0, 0, 0, c[4], c[5], c[6]>>
         /\ c[7] = 3 => Between(c) = <<c[2], c[3], c[4], 0, 0, 0, 0, 0, c[5], c[6]>>
         /\ c[7] = 4 => Between(c) = <<c[2], c[3], c[4], c[5], 0, 0, 0, 0, 0, c[6]>>
         /\ c[7] \in 5 .. 9 =>
              Between(c) = <<c[2], c[3], c[4], c[5], c[6], 0, 0, 0, 0, c[7]>>
         /\ Between(c) \in Word(10, Digit)
  <1>1. PICK d : d = SubSeq(c, 2, 7)
    OBVIOUS
  <1>2. \A i \in 1 .. 8 : c[i] \in Digit
    BY DEF Word
  <1>3. /\ d[1] = c[2] /\ d[2] = c[3] /\ d[3] = c[4]
        /\ d[4] = c[5] /\ d[5] = c[6] /\ d[6] = c[7]
    <2>1. \A i \in 1 .. 6 : d[i] = c[2 + i - 1]
      BY <1>1, <1>2, SubSeqProperties
    <2> QED BY <2>1
  <1>4. c[7] \in 0 .. 9
    BY <1>2 DEF Digit
  <1>5. Between(c) = CASE c[7] <= 2 -> <<c[2], c[3], c[7], 0, 0, 0, 0, c[4], c[5], c[6]>>
                       [] c[7] = 3  -> <<c[2], c[3], c[4], 0, 0, 0, 0, 0, c[5], c[6]>>
                       [] c[7] = 4  -> <<c[2], c[3], c[4], c[5], 0, 0, 0, 0, 0, c[6]>>
                       [] c[7] >= 5 -> <<c[2], c[3], c[4], c[5], c[6], 0, 0, 0, 0, c[7]>>
    BY <1>1, <1>3 DEF Between
  <1>6. CASE c[7] \in 0 .. 2
    <2>1. Between(c) = <<c[2], c[3], c[7], 0, 0, 0, 0, c[4], c[5], c[6]>>
      BY <1>5, <1>6
    <2>2. Between(c) \in Word(10, Digit)
      BY <1>2, <2>1 DEF Word, Digit
    <2> QED BY <1>6, <2>1, <2>2
  <1>7. CASE c[7] = 3
    <2>1. Between(c) = <<c[2], c[3], c[4], 0, 0, 0, 0, 0, c[5], c[6]>>
      BY <1>5, <1>7
    <2>2. Between(c) \in Word(10, Digit)
      BY <1>2, <2>1 DEF Word, Digit
    <2> QED BY <1>7, <2>1, <2>2
  <1>8. CASE c[7] = 4
    <2>1. Between(c) = <<c[2], c[3], c[4], c[5], 0, 0, 0, 0, 0, c[6]>>
      BY <1>5, <1>8
    <2>2. Between(c) \in Word(10, Digit)
      BY <1>2, <2>1 DEF Word, Digit
    <2> QED BY <1>8, <2>1, <2>2
  <1>9. CASE c[7] \in 5 .. 9
    <2>1. Between(c) = <<c[2], c[3], c[4], c[5], c[6], 0, 0, 0, 0, c[7]>>
      BY <1>5, <1>9
    <2>2. Between(c) \in Word(10, Digit)
      BY <1>2, <2>1 DEF Word, Digit
    <2> QED BY <1>9, <2>1, <2>2
  <1> QED BY <1>4, <1>6, <1>7, <1>8, <1>9

(* ExpandUpcE, position by position.                                       *)
LEMMA Expanded ==
  ASSUME NEW c \in Word(8, Digit), NEW e, e = ExpandUpcE(c)
  PROVE  /\ e \in Word(12, Digit)
         /\ e[1] = c[1] /\ e[12] = c[8]
         /\ \A i \in 1 .. 10 : e[i + 1] = Between(c)[i]
  <1>1. PICK b : b = Between(c)
    OBVIOUS
  <1>2. PICK first : first = <<c[1]>>
    OBVIOUS
  <1>3. PICK last : last = <<c[8]>>
    OBVIOUS
  <1>4. /\ first \in Word(1, Digit) /\ first[1] = c[1]
        /\ last \in Word(1, Digit) /\ last[1] = c[8]
    BY <1>2, <1>3 DEF Word
  <1>5. e = (first \o b) \o last
    BY <1>1, <1>2, <1>3 DEF ExpandUpcE, Between
  <1>6. b \in Word(10, Digit)
    BY <1>1, BetweenIs
  <1>7. PICK f : f = first \o b
    OBVIOUS
  <1>8. f \in Word(1 + 10, Digit) /\ IsJoin(f, 1, first, 10, b)
    BY <1>4, <1>6, <1>7, Joined
  <1>9. f \in Word(11, Digit)
    BY <1>8
  <1>10. e \in Word(11 + 1, Digit) /\ IsJoin(e, 11, f, 1, last)
    BY <1>4, <1>5, <1>7, <1>9, Joined
  <1>11. \A i \in 1 .. 11 : e[i] = f[i]
    BY <1>10 DEF IsJoin
  <1>12. e[12] = last[1]
    BY <1>10 DEF IsJoin
  <1>13. f[1] = first[1] /\ \A i \in 1 .. 10 : f[i + 1] = b[i]
    BY <1>8 DEF IsJoin
  <1> QED BY <1>1, <1>4, <1>10, <1>11, <1>12, <1>13

(* A GTIN, told by words.                                                  *)
LEMMA GtinIs ==
  ASSUME NEW g
  PROVE  IsGtin(g) <=> g \in Word(14, Digit) /\ IsValidGs1(g)
  BY DEF IsGtin, Word, Digit

(* A valid code, padded, is a GTIN.                                        *)
LEMMA PaddedIsGtin ==
  ASSUME NEW n \in 1 .. 14, NEW code \in Word(n, Digit), IsValidGs1(code)
  PROVE  IsGtin(PadTo14(code))
  <1>1. PICK k \in 0 .. 13 : k = 14 - n
    OBVIOUS
  <1>2. 0 \in Digit
    BY DEF Digit
  <1>3. PadTo14(code) \in Word(14, Digit)
    BY <1>1, <1>2, Padded
  <1>4. IsValidGs1(PadTo14(code))
    BY PadKeepsCheckDigit
  <1> QED BY <1>3, <1>4, GtinIs

(* A word of digits is all digits.                                         *)
LEMMA DigitsAre ==
  ASSUME NEW n \in Nat \ {0}, NEW code \in Word(n, Digit)
  PROVE  AllDigits(code) /\ Len(code) = n
  <1>1. Len(code) = n /\ code \in Seq(Digit)
    BY Sequence
  <1>2. DOMAIN code = 1 .. n /\ \A i \in 1 .. n : code[i] # NotDigit
    BY DEF Word, Digit, NotDigit
  <1>3. code # <<>>
    BY <1>1
  <1> QED BY <1>1, <1>2, <1>3 DEF AllDigits

(* A GTIN is in its standard form, whatever symbology is reported.         *)
LEMMA GtinStays ==
  ASSUME NEW g, IsGtin(g), NEW format
  PROVE  Standard(g, format) = g
  <1>1. g \in Word(14, Digit) /\ IsValidGs1(g)
    BY GtinIs
  <1>2. Len(g) = 14 /\ g \in Seq(Digit)
    BY <1>1, Sequence
  <1>3. AllDigits(g)
    BY <1>1, DigitsAre
  <1>4. PadTo14(g) = g
    <2>1. 0 \in Digit /\ 14 \in 1 .. 14 /\ 0 \in 0 .. 13 /\ 0 = 14 - 14
      BY DEF Digit
    <2>2. PadTo14(g) \in Word(14, Digit) /\ IsJoin(PadTo14(g), 0, Zeros(0), 14, g)
      BY <1>1, <2>1, Padded
    <2>3. \A i \in 1 .. 14 : PadTo14(g)[i] = g[i]
      BY <2>2 DEF IsJoin
    <2> QED BY <1>1, <2>2, <2>3 DEF Word
  <1> QED BY <1>1, <1>2, <1>3, <1>4 DEF Standard

(* "Nothing is rewritten unless its check digit proves it": what           *)
(* normalizeBarcode rewrites at all becomes fourteen digits with a right   *)
(* check digit.                                                            *)
THEOREM RewrittenIsGtin ==
  ASSUME NEW code \in Seq(Symbol), NEW format, Standard(code, format) # code
  PROVE  IsGtin(Standard(code, format))
  <1>1. CASE /\ AllDigits(code) /\ Len(code) \in {8, 12, 13, 14} /\ IsValidGs1(code)
             /\ Standard(code, format) = PadTo14(code)
    <2>1. PICK n \in 1 .. 14 : n = Len(code)
      BY <1>1
    <2>2. code \in Word(n, Digit)
      BY <1>1, <2>1, DigitsOf, AsWord
    <2> QED BY <1>1, <2>2, PaddedIsGtin
  <1>2. CASE /\ AllDigits(code) /\ Len(code) = 8 /\ IsValidGs1(ExpandUpcE(code))
             /\ Standard(code, format) = PadTo14(ExpandUpcE(code))
    <2>1. code \in Word(8, Digit)
      BY <1>2, DigitsOf, AsWord
    <2>2. ExpandUpcE(code) \in Word(12, Digit) /\ 12 \in 1 .. 14
      BY <2>1, Expanded
    <2> QED BY <1>2, <2>2, PaddedIsGtin
  <1> QED BY <1>1, <1>2, StandardCases

(* "Idempotent: normalizing the output again with the same format returns  *)
(* the same result", for every code and every format: a code read back     *)
(* from a row or a queued write is looked up as what it was stored as.     *)
THEOREM StandardIsIdempotent ==
  ASSUME NEW code \in Seq(Symbol), NEW format
  PROVE  Standard(Standard(code, format), format) = Standard(code, format)
  <1>1. CASE Standard(code, format) = code
    BY <1>1
  <1>2. CASE Standard(code, format) # code
    BY <1>2, RewrittenIsGtin, GtinStays
  <1> QED BY <1>1, <1>2

-----------------------------------------------------------------------------
(* Every written form of a GTIN becomes that GTIN.                         *)

(* What padding made digits was digits.                                    *)
LEMMA PaddedOf ==
  ASSUME NEW n \in 1 .. 14, NEW code \in Word(n, Symbol), IsGtin(PadTo14(code))
  PROVE  code \in Word(n, Digit) /\ IsValidGs1(code)
  <1>1. PICK k \in 0 .. 13 : k = 14 - n
    OBVIOUS
  <1>2. 0 \in Symbol
    BY DEF Symbol, NotDigit
  <1>3. IsJoin(PadTo14(code), k, Zeros(k), n, code)
    BY <1>1, <1>2, Padded
  <1>4. PadTo14(code) \in Word(14, Digit) /\ IsValidGs1(PadTo14(code))
    BY GtinIs
  <1>5. \A i \in 1 .. n : code[i] \in Digit
    <2> SUFFICES ASSUME NEW i \in 1 .. n PROVE code[i] \in Digit
      OBVIOUS
    <2>1. k + i \in 1 .. 14 /\ PadTo14(code)[k + i] = code[i]
      BY <1>1, <1>3 DEF IsJoin
    <2>2. PadTo14(code)[k + i] \in Digit
      BY <1>4, <2>1 DEF Word
    <2> QED BY <2>1, <2>2
  <1>6. code \in Word(n, Digit)
    BY <1>5 DEF Word
  <1> QED BY <1>4, <1>6, PadKeepsCheckDigit

(* Zero suppression is undone.                                             *)
LEMMA ShortFormExpands ==
  ASSUME NEW short, NEW upcA, ShortForm(short, upcA)
  PROVE  ExpandUpcE(short) = upcA
  <1>1. short \in Word(8, Digit) /\ upcA \in Word(12, Digit)
    BY DEF ShortForm, Word, Digit
  <1>2. PICK e : e = ExpandUpcE(short)
    OBVIOUS
  <1>3. PICK b : b = Between(short)
    OBVIOUS
  <1>4. /\ e \in Word(12, Digit)
        /\ e[1] = short[1] /\ e[12] = short[8]
        /\ \A i \in 1 .. 10 : e[i + 1] = b[i]
    BY <1>1, <1>2, <1>3, Expanded
  <1>5. \A i \in 1 .. 12 : upcA[i] \in 0 .. 9
    BY <1>1 DEF Word, Digit
  <1>6. \A i \in 1 .. 10 : b[i] = upcA[i + 1]
    <2>5. short[2] = upcA[2] /\ short[3] = upcA[3]
      BY DEF ShortForm
    <2>1. CASE /\ upcA[4] \in 0 .. 2 /\ ZerosFrom(upcA, 5, 8)
               /\ short[4] = upcA[9] /\ short[5] = upcA[10] /\ short[6] = upcA[11]
               /\ short[7] = upcA[4]
      <3>1. b = <<short[2], short[3], short[7], 0, 0, 0, 0, short[4], short[5], short[6]>>
        BY <1>1, <1>3, <2>1, BetweenIs
      <3> QED BY <2>1, <3>1, <2>5 DEF ZerosFrom
    <2>2. CASE /\ upcA[4] \in 3 .. 9 /\ ZerosFrom(upcA, 5, 9)
               /\ short[4] = upcA[4] /\ short[5] = upcA[10] /\ short[6] = upcA[11]
               /\ short[7] = 3
      <3>1. b = <<short[2], short[3], short[4], 0, 0, 0, 0, 0, short[5], short[6]>>
        BY <1>1, <1>3, <2>2, BetweenIs
      <3> QED BY <2>2, <3>1, <2>5 DEF ZerosFrom
    <2>3. CASE /\ upcA[5] # 0 /\ ZerosFrom(upcA, 6, 10)
               /\ short[4] = upcA[4] /\ short[5] = upcA[5] /\ short[6] = upcA[11]
               /\ short[7] = 4
      <3>1. b = <<short[2], short[3], short[4], short[5], 0, 0, 0, 0, 0, short[6]>>
        BY <1>1, <1>3, <2>3, BetweenIs
      <3> QED BY <2>3, <3>1, <2>5 DEF ZerosFrom
    <2>4. CASE /\ upcA[6] # 0 /\ ZerosFrom(upcA, 7, 10) /\ upcA[11] \in 5 .. 9
               /\ short[4] = upcA[4] /\ short[5] = upcA[5] /\ short[6] = upcA[6]
               /\ short[7] = upcA[11]
      <3>1. b = <<short[2], short[3], short[4], short[5], short[6], 0, 0, 0, 0, short[7]>>
        BY <1>1, <1>3, <2>4, BetweenIs
      <3> QED BY <2>4, <3>1, <2>5 DEF ZerosFrom
    <2> QED BY <2>1, <2>2, <2>3, <2>4 DEF ShortForm
  <1>7. \A i \in 1 .. 12 : e[i] = upcA[i]
    <2> SUFFICES ASSUME NEW i \in 1 .. 12 PROVE e[i] = upcA[i]
      OBVIOUS
    <2>1. CASE i = 1
      BY <1>4, <2>1 DEF ShortForm
    <2>2. CASE i = 12
      BY <1>4, <2>2 DEF ShortForm
    <2>3. CASE i \in 2 .. 11
      <3>1. PICK j \in 1 .. 10 : i = j + 1
        <4>1. i - 1 \in 1 .. 10 /\ i = (i - 1) + 1
          BY <2>3
        <4> QED BY <4>1
      <3> QED BY <1>4, <1>6, <3>1
    <2> QED BY <2>1, <2>2, <2>3
  <1> QED BY <1>1, <1>2, <1>4, <1>7 DEF Word

(* THE BUG of the tests, "three readings of one bottle are one barcode",   *)
(* for every GTIN and every form it is written in: each becomes the GTIN.  *)
THEOREM WrittenFormsMeet ==
  ASSUME NEW code \in Seq(Symbol), NEW format, NEW gtin, IsGtin(gtin),
         WrittenForm(code, format, gtin)
  PROVE  Standard(code, format) = gtin
  <1>1. ASSUME NEW n \in 1 .. 14, n = Len(code), PadTo14(code) = gtin
        PROVE  AllDigits(code) /\ IsValidGs1(code)
    <2>1. code \in Word(n, Symbol)
      BY <1>1, AsWord
    <2>2. code \in Word(n, Digit) /\ IsValidGs1(code)
      BY <1>1, <2>1, PaddedOf
    <2> QED BY <2>2, DigitsAre
  <1>2. CASE Len(code) \in 12 .. 14 /\ PadTo14(code) = gtin
    <2>1. AllDigits(code) /\ IsValidGs1(code)
      <3>1. PICK n \in 1 .. 14 : n = Len(code)
        BY <1>2
      <3> QED BY <1>1, <1>2, <3>1
    <2>2. PICK n \in 12 .. 14 : n = Len(code)
      BY <1>2
    <2>3. n \in {12, 13, 14} /\ n # 8
      OBVIOUS
    <2> QED BY <1>2, <2>1, <2>2, <2>3 DEF Standard
  <1>3. CASE Len(code) = 8 /\ format = "ean_8" /\ PadTo14(code) = gtin
    <2>1. AllDigits(code) /\ IsValidGs1(code)
      BY <1>1, <1>3
    <2> QED BY <1>3, <2>1 DEF Standard
  <1>4. CASE /\ Len(code) = 8 /\ format = "upc_e" /\ code[1] \in {0, 1}
             /\ ShortForm(code, SubSeq(gtin, 3, 14)) /\ ZerosFrom(gtin, 1, 2)
    <2>1. PICK a : a = SubSeq(gtin, 3, 14)
      OBVIOUS
    <2>2. code \in Word(8, Digit) /\ a \in Word(12, Digit) /\ a = ExpandUpcE(code)
      BY <1>4, <2>1, ShortFormExpands DEF ShortForm, Word, Digit
    <2>3. gtin \in Word(14, Digit)
      BY GtinIs
    <2>4. \A i \in 1 .. 12 : a[i] = gtin[2 + i]
      <3>1. \A i \in 3 .. 14 : gtin[i] \in Digit
        BY <2>3 DEF Word
      <3>2. \A i \in 1 .. 12 : a[i] = gtin[3 + i - 1]
        BY <2>1, <3>1, SubSeqProperties
      <3> QED BY <3>2
    <2>5. PadTo14(a) = gtin
      <3>1. 0 \in Digit /\ 12 \in 1 .. 14 /\ 2 \in 0 .. 13 /\ 2 = 14 - 12
        BY DEF Digit
      <3>2. PadTo14(a) = Zeros(2) \o a
        BY <2>2, <3>1, Padded
      <3>3. IsJoin(gtin, 2, Zeros(2), 12, a)
        BY <1>4, <2>4 DEF IsJoin, Zeros, ZerosFrom
      <3>4. Zeros(2) \in Word(2, Digit) /\ 2 \in Nat /\ 12 \in Nat /\ 14 = 2 + 12
        BY DEF Zeros, Word, Digit
      <3>5. gtin = Zeros(2) \o a
        BY <2>2, <2>3, <3>3, <3>4, JoinedIs
      <3> QED BY <3>2, <3>5
    <2>6. IsValidGs1(a)
      <3>1. 12 \in 1 .. 14
        OBVIOUS
      <3> QED BY <2>2, <2>5, <3>1, PadKeepsCheckDigit, GtinIs
    <2>7. AllDigits(code)
      BY <2>2, DigitsAre
    <2> QED BY <1>4, <2>2, <2>5, <2>6, <2>7 DEF Standard
  <1> QED BY <1>2, <1>3, <1>4 DEF WrittenForm

(* What is no GTIN, or could be two of them, is kept as it was read.       *)
LEMMA LabelStays ==
  ASSUME NEW code, NEW format, IsLabel(code)
  PROVE  Standard(code, format) = code
  BY DEF Standard, IsLabel

LEMMA BareStays ==
  ASSUME NEW code, NEW format, Bare(code, format)
  PROVE  Standard(code, format) = code
  BY DEF Standard, Bare

(* A reading of an article is stored as the article's mark, unless it is   *)
(* eight digits of unknown symbology, which stay as they are.              *)
LEMMA ReadsTheMark ==
  ASSUME NEW code, NEW format, NEW mark, ReadOff(code, format, mark)
  PROVE  \/ Standard(code, format) = mark
         \/ Bare(code, format) /\ Standard(code, format) = code
  <1>1. code \in Seq(Symbol)
    BY DEF ReadOff, Symbol
  <1>2. CASE IsGtin(mark) /\ WrittenForm(code, format, mark)
    BY <1>1, <1>2, WrittenFormsMeet
  <1>3. CASE Bare(code, format)
    BY <1>3, BareStays
  <1>4. CASE IsLabel(mark) /\ code = mark
    BY <1>4, LabelStays
  <1> QED BY <1>2, <1>3, <1>4 DEF ReadOff

-----------------------------------------------------------------------------
(* Misread codes.                                                          *)

(* d is c with another digit at position i.                                *)
Misread(c, d, i, n) ==
  /\ c \in Word(n, Digit) /\ d \in Word(n, Digit)
  /\ i \in 1 .. n /\ c[i] # d[i]
  /\ \A j \in 1 .. n : j # i => c[j] = d[j]

(* A check digit is right for one digit only, also where a digit counts    *)
(* three times: 3 and 10 have no common divisor.                           *)
LEMMA OneDigitShows ==
  ASSUME NEW s \in Int, NEW x \in Digit, NEW y \in Digit, NEW w \in {1, 3},
         (10 - (s % 10)) % 10 = (10 - ((s + (y * w - x * w)) % 10)) % 10
  PROVE  x = y
  <1> USE DEF Digit
  <1>1. s % 10 \in 0 .. 9 /\ (s + (y * w - x * w)) % 10 \in 0 .. 9
    OBVIOUS
  <1>2. s % 10 = (s + (y * w - x * w)) % 10
    BY <1>1
  <1>3. (y * w - x * w) % 10 = 0
    BY <1>2
  <1>4. CASE w = 1
    BY <1>3, <1>4
  <1>5. CASE w = 3
    BY <1>3, <1>5
  <1> QED BY <1>4, <1>5

(* One misread digit is always found: a code that differs from a valid one *)
(* in one digit is not valid.                                              *)
THEOREM OneMisreadDigitIsFound ==
  ASSUME NEW n \in Nat \ {0}, NEW c, NEW d, NEW i, Misread(c, d, i, n), IsValidGs1(c)
  PROVE  ~IsValidGs1(d)
  <1>1. /\ c \in Word(n, Digit) /\ d \in Word(n, Digit) /\ i \in 1 .. n /\ c[i] # d[i]
        /\ \A j \in 1 .. n : j # i => c[j] = d[j]
    BY DEF Misread
  <1>2. PICK wc : wc = Weighted(c, n)
    OBVIOUS
  <1>3. PICK wd : wd = Weighted(d, n)
    OBVIOUS
  <1>4. /\ wc \in Word(n - 1, Int) /\ wd \in Word(n - 1, Int) /\ IsFiniteSet(1 .. n - 1)
        /\ SumFunction(wc) \in Int
    BY <1>1, <1>2, <1>3, WeightedTyped
  <1>5. (10 - (SumFunction(wc) % 10)) % 10 = c[n]
    <2>1. c \in Seq(Digit) /\ Len(c) = n
      BY <1>1, Sequence
    <2> QED BY <1>2, <2>1, CheckDigit
  <1>6. IsValidGs1(d) <=> (10 - (SumFunction(wd) % 10)) % 10 = d[n]
    <2>1. d \in Seq(Digit) /\ Len(d) = n
      BY <1>1, Sequence
    <2> QED BY <1>3, <2>1, CheckDigit
  <1>7. CASE i = n
    <2>1. wc = wd
      <3>1. \A j \in 1 .. n - 1 : c[j] = d[j]
        BY <1>1, <1>7
      <3> QED BY <1>2, <1>3, <3>1 DEF Weighted
    <2> QED BY <1>1, <1>5, <1>6, <1>7, <2>1
  <1>8. CASE i # n
    <2>1. i \in 1 .. n - 1 /\ n \in 1 .. n
      BY <1>1, <1>8
    <2>2. c[n] = d[n]
      BY <1>1, <1>8, <2>1
    <2>3. PICK w \in {1, 3} : w = Weight(n, i)
      BY DEF Weight
    <2>4. wc[i] = c[i] * w /\ wd[i] = d[i] * w
      BY <1>2, <1>3, <2>1, <2>3 DEF Weighted
    <2>5. \A j \in 1 .. n - 1 : j # i => wc[j] = wd[j]
      BY <1>1, <1>2, <1>3 DEF Weighted
    <2>6. OneChanged(wc, wd, i, 1 .. n - 1)
      BY <1>4, <2>1, <2>5 DEF OneChanged, Word
    <2>7. SumFunction(wd) = SumFunction(wc) + (wd[i] - wc[i])
      BY <1>4, <2>6, SumAfterChange
    <2>8. c[i] \in Digit /\ d[i] \in Digit
      BY <1>1 DEF Word
    <2> SUFFICES ASSUME IsValidGs1(d) PROVE FALSE
      OBVIOUS
    <2>9. PICK s \in Int, x \in Digit, y \in Digit :
            s = SumFunction(wc) /\ x = c[i] /\ y = d[i]
      BY <1>4, <2>8
    <2>10. (10 - (s % 10)) % 10 = (10 - ((s + (y * w - x * w)) % 10)) % 10
      BY <1>5, <1>6, <2>2, <2>4, <2>7, <2>9
    <2>11. x = y
      BY <2>10, OneDigitShows
    <2> QED BY <1>1, <2>9, <2>11
  <1> QED BY <1>7, <1>8

(* So a UPC-A, EAN-13 or GTIN-14 of which one digit was misread is stored  *)
(* and looked up as read, and never as the standard form of the right one: *)
(* the two are not merged, under whatever symbologies they were reported.  *)
THEOREM MisreadIsNotMerged ==
  ASSUME NEW n \in 12 .. 14, NEW c, NEW d, NEW i, Misread(c, d, i, n), IsValidGs1(c),
         NEW format, NEW other
  PROVE  /\ Standard(d, other) = d
         /\ Standard(c, format) # Standard(d, other)
  <1>1. n \in Nat \ {0} /\ n \in 1 .. 14 /\ n \in {12, 13, 14} /\ n # 8
    OBVIOUS
  <1>2. c \in Word(n, Digit) /\ d \in Word(n, Digit) /\ c # d
    BY DEF Misread
  <1>3. AllDigits(c) /\ Len(c) = n /\ AllDigits(d) /\ Len(d) = n
    BY <1>1, <1>2, DigitsAre
  <1>4. ~IsValidGs1(d)
    BY <1>1, OneMisreadDigitIsFound
  <1>5. Standard(d, other) = d
    BY <1>1, <1>3, <1>4 DEF Standard
  <1>6. Standard(c, format) = PadTo14(c) /\ IsGtin(PadTo14(c))
    BY <1>1, <1>2, <1>3, PaddedIsGtin DEF Standard
  <1>7. IsValidGs1(Standard(c, format))
    BY <1>6, GtinIs
  <1> QED BY <1>4, <1>5, <1>7

-----------------------------------------------------------------------------
(* Whatever the browser's detector supports, the reader that is chosen     *)
(* reads every barcode retail goods carry.                                 *)
THEOREM RetailIsReadable ==
  ASSUME NEW available \in BOOLEAN, NEW canSay \in BOOLEAN, NEW supported
  PROVE  RetailFormats \subseteq ReaderFormats(available, canSay, supported)
  BY DEF RetailFormats, ScanFormats, ReaderFormats, UseBuiltIn

=============================================================================
