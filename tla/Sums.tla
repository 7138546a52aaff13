-------------------------------- MODULE Sums --------------------------------
(***************************************************************************)
(* Sums over finite sets: what SumFunction of the community modules, a     *)
(* recursion in an order CHOOSE decides, gives for any function from a     *)
(* finite set to the integers.  Totals of counts, the ledger of a line and *)
(* check digits are such sums.  Induction is by a least counterexample.    *)
(***************************************************************************)
EXTENDS Integers, Sequences, Functions, FiniteSets, FiniteSetTheorems,
        WellFoundedInduction, TLAPS

(* The order of the naturals as the library's theorems on well-founded     *)
(* relations take it.                                                      *)
Below == {p \in Nat \X Nat : p[1] < p[2]}

(* Every set of natural numbers but the empty one has a least member: what *)
(* takes the place of induction below.                                     *)
LEMMA LeastOf ==
  ASSUME NEW S \in SUBSET Nat, S # {}
  PROVE  \E m \in S : \A n \in S : m =< n
  <1>1. IsWellFoundedOn(Below, Nat)
    BY NatLessThanWellFounded DEF OpToRel, Below
  <1>2. PICK m \in S : \A n \in S : ~ (<<n, m>> \in Below)
    BY <1>1, WFMin
  <1>3. ASSUME NEW n \in S PROVE m =< n
    <2>1. n \in Nat /\ m \in Nat /\ ~ (<<n, m>> \in Below)
      BY <1>2
    <2>2. n < m => <<n, m>> \in Below
      BY <2>1 DEF Below
    <2> QED  BY <2>1, <2>2
  <1> QED  BY <1>3

(* Among finite sets there is one without a proper subset among them.      *)
LEMMA MinimalSet ==
  ASSUME NEW B, B # {}, \A b \in B : IsFiniteSet(b)
  PROVE  \E m \in B : \A b \in SUBSET m : b # m => b \notin B
  <1> DEFINE Sizes == {Cardinality(b) : b \in B}
  <1>1. Sizes \in SUBSET Nat /\ Sizes # {}
    BY FS_CardinalityType
  <1>2. PICK n \in Sizes : \A k \in Sizes : n =< k
    BY <1>1, LeastOf
  <1>3. PICK m \in B : n = Cardinality(m)
    BY <1>2
  <1>4. ASSUME NEW b \in SUBSET m, b # m  PROVE b \notin B
    <2>1. IsFiniteSet(m) /\ b \subseteq m /\ b # m
      BY <1>3, <1>4
    <2>2. Cardinality(b) \in Nat /\ Cardinality(m) \in Nat
      BY <2>1, FS_Subset, FS_CardinalityType
    <2>3. Cardinality(b) < Cardinality(m)
      BY <2>1, <2>2, FS_Subset
    <2> QED  BY <1>2, <1>3, <2>2, <2>3
  <1> QED  BY <1>3, <1>4

(* The member of a set that SumFunction adds first.                        *)
First(s) == CHOOSE x \in s : TRUE

(* g sums f over every subset of S, in the order SumFunction takes.        *)
Sums(g, f, S) ==
  \A s \in SUBSET S : g[s] = IF s = {} THEN 0 ELSE f[First(s)] + g[s \ {First(s)}]

(* What it sums depends on the values at the members only.                 *)
LEMMA SumsAgree ==
  ASSUME NEW S, IsFiniteSet(S), NEW f, NEW e, NEW g, NEW h,
         Sums(g, f, S), Sums(h, e, S), \A x \in S : f[x] = e[x]
  PROVE  \A s \in SUBSET S : g[s] = h[s]
  <1> DEFINE B == {s \in SUBSET S : g[s] # h[s]}
  <1>1. CASE B = {}
    BY <1>1
  <1>2. CASE B # {}
    <2>1. PICK m \in B : \A b \in SUBSET m : b # m => b \notin B
      <3>1. \A b \in B : IsFiniteSet(b)
        BY FS_Subset
      <3> QED  BY <1>2, <3>1, MinimalSet
    <2>2. m # {}
      BY DEF Sums
    <2>3. First(m) \in m
      BY <2>2 DEF First
    <2>4. g[m \ {First(m)}] = h[m \ {First(m)}]
      BY <2>1, <2>3
    <2> QED  BY <2>2, <2>3, <2>4 DEF Sums
  <1> QED  BY <1>1, <1>2

(* SumFunction's recursive definition has a solution: a subset without     *)
(* one, and minimal, would get it from its smaller subsets.                *)
LEMMA SumsExist ==
  ASSUME NEW S, IsFiniteSet(S), NEW f \in [S -> Int]
  PROVE  \E g \in [SUBSET S -> Int] : Sums(g, f, S)
  <1> DEFINE Has(t) == \E g \in [SUBSET t -> Int] : Sums(g, f, t)
             B == {t \in SUBSET S : ~Has(t)}
  <1>1. CASE B = {}
    BY <1>1
  <1>2. CASE B # {}
    <2>1. PICK m \in B : \A b \in SUBSET m : b # m => b \notin B
      <3>1. \A b \in B : IsFiniteSet(b)
        BY FS_Subset
      <3> QED  BY <1>2, <3>1, MinimalSet
    <2> DEFINE G(t) == CHOOSE g \in [SUBSET t -> Int] : Sums(g, f, t)
               v(s) == IF s = {} THEN 0 ELSE f[First(s)] + G(s \ {First(s)})[s \ {First(s)}]
               h == [s \in SUBSET m |-> v(s)]
    <2>2. \A t \in SUBSET m : t # m => G(t) \in [SUBSET t -> Int] /\ Sums(G(t), f, t)
      BY <2>1
    <2>3. ASSUME NEW s \in SUBSET m, s # {}
          PROVE  /\ First(s) \in s /\ f[First(s)] \in Int
                 /\ s \ {First(s)} \in SUBSET m /\ s \ {First(s)} # m
      BY <2>3 DEF First
    <2>4. h \in [SUBSET m -> Int]
      <3>1. ASSUME NEW s \in SUBSET m  PROVE v(s) \in Int
        <4> DEFINE u == s \ {First(s)}
        <4> HIDE DEF G
        <4>1. CASE s = {}
          BY <4>1
        <4>2. CASE s # {}
          <5>1. u \in SUBSET m /\ u # m /\ f[First(s)] \in Int
            BY <2>3, <4>2
          <5>2. G(u) \in [SUBSET u -> Int] /\ u \in SUBSET u
            BY <2>2, <5>1
          <5>3. G(u)[u] \in Int
            <6> HIDE DEF u
            <6> QED  BY <5>2
          <5> QED  BY <4>2, <5>1, <5>3
        <4> QED  BY <4>1, <4>2
      <3> HIDE DEF v
      <3> QED  BY <3>1
    <2>5. \A t \in SUBSET m : t # m => h[t] = G(t)[t]
      <3> SUFFICES ASSUME NEW t \in SUBSET m, t # m  PROVE v(t) = G(t)[t]
        OBVIOUS
      <3> HIDE DEF G
      <3>1. CASE t = {}
        BY <2>2, <3>1 DEF Sums
      <3>2. CASE t # {}
        <4> DEFINE u == t \ {First(t)}
        <4>1. u \in SUBSET m /\ u # m /\ u \in SUBSET t /\ IsFiniteSet(u)
          BY <2>3, <3>2, FS_Subset
        <4>2. G(t)[t] = f[First(t)] + G(t)[u]
          BY <2>2, <3>2 DEF Sums
        <4>3. Sums(G(t), f, u) /\ Sums(G(u), f, u)
          BY <2>2, <4>1 DEF Sums
        <4>4. G(t)[u] = G(u)[u]
          BY <4>1, <4>3, SumsAgree
        <4> QED  BY <3>2, <4>2, <4>4
      <3> QED  BY <3>1, <3>2
    <2>6. Sums(h, f, m)
      <3> SUFFICES ASSUME NEW s \in SUBSET m
                   PROVE  h[s] = IF s = {} THEN 0 ELSE f[First(s)] + h[s \ {First(s)}]
        BY DEF Sums
      <3>1. CASE s = {}
        BY <3>1
      <3>2. CASE s # {}
        <4>1. h[s] = f[First(s)] + G(s \ {First(s)})[s \ {First(s)}]
          BY <3>2
        <4>2. h[s \ {First(s)}] = G(s \ {First(s)})[s \ {First(s)}]
          <5> HIDE DEF G, h
          <5> QED  BY <2>3, <2>5, <3>2
        <4> HIDE DEF G, h
        <4> QED  BY <3>2, <4>1, <4>2
      <3> QED  BY <3>1, <3>2
    <2>7. Has(m)
      <3> HIDE DEF h
      <3> QED  BY <2>4, <2>6
    <2> QED  BY <2>1, <2>7
  <1> QED  BY <1>1, <1>2

(* So SumFunction is that sum.                                             *)
LEMMA SumFunctionIs ==
  ASSUME NEW S, IsFiniteSet(S), NEW f \in [S -> Int]
  PROVE  \E g \in [SUBSET S -> Int] : Sums(g, f, S) /\ SumFunction(f) = g[S]
  <1> DEFINE rec(g) == [s \in SUBSET S |-> IF s = {} THEN 0
                                           ELSE f[CHOOSE x \in s : TRUE]
                                                 + g[s \ {CHOOSE x \in s : TRUE}]]
             iter == CHOOSE g : g = rec(g)
  <1>1. PICK g \in [SUBSET S -> Int] : Sums(g, f, S)
    BY SumsExist
  <1>2. g = rec(g)
    BY <1>1 DEF Sums, First
  <1>3. iter = rec(iter)
    <2> HIDE DEF rec
    <2> QED  BY <1>2
  <1>4. Sums(iter, f, S)
    <2> HIDE DEF iter
    <2> QED  BY <1>3 DEF Sums, First
  <1>5. iter[S] = g[S]
    <2> HIDE DEF iter
    <2> QED  BY <1>1, <1>4, SumsAgree
  <1>6. SumFunction(f) = iter[S]
    BY DEF SumFunction, SumFunctionOnSet, FoldFunctionOnSet, MapThenFoldSet
  <1> QED  BY <1>1, <1>5, <1>6

(* Any member may be taken out of a sum.                                   *)
AnyOrder(g, f, S) == \A T \in SUBSET S : \A x \in T : g[T] = f[x] + g[T \ {x}]

(* The order does not matter: a minimal set of which two members could not *)
(* be taken out in either order would have a smaller one like it.          *)
LEMMA SumsInAnyOrder ==
  ASSUME NEW S, IsFiniteSet(S), NEW f, f \in [S -> Int], NEW g, g \in [SUBSET S -> Int],
         Sums(g, f, S)
  PROVE  AnyOrder(g, f, S)
  <1> DEFINE Fits(s) == \A y \in s : g[s] = f[y] + g[s \ {y}]
             B == {s \in SUBSET S : ~Fits(s)}
  <1>1. CASE B = {}
    BY <1>1 DEF AnyOrder
  <1>2. CASE B # {}
    <2>1. PICK m \in B : \A b \in SUBSET m : b # m => b \notin B
      <3>1. \A b \in B : IsFiniteSet(b)
        BY FS_Subset
      <3> QED  BY <1>2, <3>1, MinimalSet
    <2>2. PICK y \in m : g[m] # f[y] + g[m \ {y}]
      OBVIOUS
    <2>9. \A b \in SUBSET m : b # m => Fits(b)
      BY <2>1
    <2>3. PICK z \in m : g[m] = f[z] + g[m \ {z}]
      <3>1. First(m) \in m
        BY DEF First
      <3> QED  BY <3>1 DEF Sums
    <2>4. CASE y = z
      BY <2>2, <2>3, <2>4
    <2>5. CASE y # z
      <3> DEFINE rest == m \ {y, z}
      <3>1. (m \ {z}) \ {y} = rest /\ (m \ {y}) \ {z} = rest
        OBVIOUS
      <3>2. g[m \ {z}] = f[y] + g[rest]
        BY <2>5, <2>9, <3>1, <2>3
      <3>3. g[m \ {y}] = f[z] + g[rest]
        <4>1. m \ {y} \in SUBSET m /\ m \ {y} # m /\ z \in m \ {y}
          BY <2>5
        <4>2. Fits(m \ {y})
          BY <2>9, <4>1
        <4> QED  BY <3>1, <4>1, <4>2
      <3>4. f[y] \in Int /\ f[z] \in Int /\ g[rest] \in Int
        OBVIOUS
      <3> HIDE DEF rest, B
      <3>5. f[z] + (f[y] + g[rest]) = f[y] + (f[z] + g[rest])
        BY <3>4
      <3>6. g[m] = f[y] + g[m \ {y}]
        BY <2>3, <3>2, <3>3, <3>5
      <3> QED  BY <2>2, <3>6
    <2> QED  BY <2>4, <2>5
  <1> HIDE DEF B
  <1> QED  BY <1>1, <1>2

(* f is e with one more value, at x.                                       *)
OneMore(f, x, e, S) ==
  /\ x \notin S
  /\ e \in [S -> Int]
  /\ f \in [S \cup {x} -> Int]
  /\ \A y \in S : e[y] = f[y]

(* One more value adds itself to the sum.                                  *)
LEMMA SumAfterInsert ==
  ASSUME NEW S, IsFiniteSet(S), NEW x, NEW f, NEW e, OneMore(f, x, e, S)
  PROVE  SumFunction(f) = f[x] + SumFunction(e)
  <1> DEFINE T == S \cup {x}
  <1>0. x \notin S /\ e \in [S -> Int] /\ f \in [T -> Int] /\ \A y \in S : e[y] = f[y]
    BY DEF OneMore
  <1>1. IsFiniteSet(T) /\ T \in SUBSET T
    BY FS_AddElement
  <1>2. PICK g \in [SUBSET T -> Int] : Sums(g, f, T) /\ SumFunction(f) = g[T]
    BY <1>0, <1>1, SumFunctionIs
  <1>3. PICK h \in [SUBSET S -> Int] : Sums(h, e, S) /\ SumFunction(e) = h[S]
    BY <1>0, SumFunctionIs
  <1>4. g[T] = f[x] + g[T \ {x}]
    <2>1. x \in T /\ f \in [T -> Int]
      BY <1>0
    <2> HIDE DEF T
    <2>2. AnyOrder(g, f, T)
      BY <1>1, <1>2, <2>1, SumsInAnyOrder
    <2> QED  BY <1>1, <2>1, <2>2 DEF AnyOrder
  <1>5. T \ {x} = S
    BY <1>0
  <1>6. Sums(g, f, S)
    BY <1>2 DEF Sums
  <1>7. g[S] = h[S]
    BY <1>0, <1>3, <1>6, SumsAgree
  <1> QED  BY <1>2, <1>3, <1>4, <1>5, <1>7

(* A sum of integers is one.                                               *)
LEMMA SumTyped ==
  ASSUME NEW S, IsFiniteSet(S), NEW f \in [S -> Int]
  PROVE  SumFunction(f) \in Int
  <1>1. PICK g \in [SUBSET S -> Int] : SumFunction(f) = g[S]
    BY SumFunctionIs
  <1> QED  BY <1>1

(* The empty sum.                                                          *)
LEMMA SumOfNothing ==
  ASSUME NEW f \in [{} -> Int]
  PROVE  SumFunction(f) = 0
  <1>1. PICK g : Sums(g, f, {}) /\ SumFunction(f) = g[{}]
    BY SumFunctionIs, FS_EmptySet
  <1> QED  BY <1>1 DEF Sums

(* The last position of a sequence that is not empty.                      *)
LEMMA Ends ==
  ASSUME NEW m \in Nat, NEW i \in Nat, i # 0
  PROVE  /\ m + i \in 1..(m + i)
         /\ (1..(m + i)) \ {m + i} = 1..(m + (i - 1))
  OBVIOUS

(* What holds of 0 and passes from i - 1 to i holds of n.                  *)
LEMMA UpTo ==
  ASSUME NEW n \in Nat, NEW Good, 0 \in Good, \A i \in 1..n : i - 1 \in Good => i \in Good
  PROVE  n \in Good
  <1> DEFINE Bad == {i \in 0..n : i \notin Good}
  <1>1. CASE Bad = {}
    BY <1>1
  <1>2. CASE Bad # {}
    <2>1. Bad \in SUBSET Nat
      OBVIOUS
    <2>2. PICK i \in Bad : \A j \in Bad : i =< j
      <3> HIDE DEF Bad
      <3> QED  BY <1>2, <2>1, LeastOf
    <2>3. i \in 1..n /\ i \notin Good
      OBVIOUS
    <2>4. i - 1 \in 0..n /\ i - 1 \notin Bad
      BY <2>2, <2>3
    <2> QED  BY <2>3, <2>4
  <1> QED  BY <1>1, <1>2

(* The sum of a concatenation.                                             *)
LEMMA SumOfConcat ==
  ASSUME NEW s \in Seq(Int), NEW t \in Seq(Int)
  PROVE  SumFunction(s \o t) = SumFunction(s) + SumFunction(t)
  <1> DEFINE u == s \o t
  <1>0. PICK m \in Nat, n \in Nat : m = Len(s) /\ n = Len(t)
    OBVIOUS
  <1>1. /\ u \in [1..(m + n) -> Int] /\ s \in [1..m -> Int] /\ t \in [1..n -> Int]
        /\ \A i \in 1..m : u[i] = s[i]
        /\ \A i \in 1..n : u[m + i] = t[i]
    <2>1. u \in Seq(Int) /\ Len(u) = m + n
      BY <1>0
    <2>2. \A i \in 1..m : u[i] = s[i]
      BY <1>0
    <2>3. \A i \in 1..n : u[m + i] = t[i]
      BY <1>0
    <2>4. s \in [1..m -> Int] /\ t \in [1..n -> Int]
      BY <1>0
    <2> HIDE DEF u
    <2>5. u \in [1..(m + n) -> Int]
      BY <2>1
    <2> QED  BY <2>2, <2>3, <2>4, <2>5
  <1> HIDE DEF u
  <1> DEFINE M == 1..m  N == 1..n  U == 1..(m + n)
  <1>2. IsFiniteSet(M) /\ IsFiniteSet(N) /\ IsFiniteSet(U)
    BY FS_Interval
  <1>9. M \in SUBSET U /\ M \in SUBSET M /\ \A i \in 0..n : 1..(m + i) \in SUBSET U /\ 1..i \in SUBSET N
    OBVIOUS
  <1>3. PICK g \in [SUBSET U -> Int] : Sums(g, u, U) /\ SumFunction(u) = g[U]
    BY <1>1, <1>2, SumFunctionIs
  <1>4. PICK h \in [SUBSET M -> Int] : Sums(h, s, M) /\ SumFunction(s) = h[M]
    BY <1>1, <1>2, SumFunctionIs
  <1>5. PICK k \in [SUBSET N -> Int] : Sums(k, t, N) /\ SumFunction(t) = k[N]
    BY <1>1, <1>2, SumFunctionIs
  <1>12. AnyOrder(g, u, U) /\ AnyOrder(k, t, N)
    <2>1. u \in [U -> Int] /\ t \in [N -> Int]
      BY <1>1
    <2> HIDE DEF U, N
    <2> QED  BY <1>2, <1>3, <1>5, <2>1, SumsInAnyOrder
  <1>6. g[M] = h[M]
    <2>1. \A i \in M : u[i] = s[i]
      BY <1>1
    <2> HIDE DEF M, U
    <2>2. Sums(g, u, M)
      BY <1>3, <1>9 DEF Sums
    <2> QED  BY <1>2, <1>4, <1>9, <2>1, <2>2, SumsAgree
  <1> DEFINE Good == {i \in 0..n : g[1..(m + i)] = h[M] + k[1..i]}
  <1>7. h[M] \in Int
    <2> HIDE DEF M
    <2> QED  BY <1>4, <1>9
  <1>8. 0 \in Good
    <2>1. 1..0 = {} /\ 1..(m + 0) = M
      OBVIOUS
    <2>2. k[{}] = 0
      BY <1>5 DEF Sums
    <2> HIDE DEF M
    <2>3. g[1..(m + 0)] = h[M] + k[1..0]
      BY <1>6, <1>7, <2>1, <2>2
    <2> QED  BY <2>3
  <1>10. ASSUME NEW i \in 1..n, i - 1 \in Good  PROVE i \in Good
    <2>1. PICK p \in 0..n : p = i - 1
      OBVIOUS
    <2>2. g[1..(m + p)] = h[M] + k[1..p]
      BY <1>10, <2>1
    <2>3. i \in Nat /\ i # 0 /\ i \in 0..n
      OBVIOUS
    <2>4. g[1..(m + i)] = u[m + i] + g[1..(m + p)]
      <3> DEFINE I == 1..(m + i)
      <3>1. m + i \in I /\ I \ {m + i} = 1..(m + p)
        BY <2>1, <2>3, Ends
      <3>2. I \in SUBSET U
        BY <1>9, <2>3
      <3> HIDE DEF I
      <3>3. g[I] = u[m + i] + g[I \ {m + i}]
        BY <1>12, <3>1, <3>2 DEF AnyOrder
      <3> QED  BY <3>1, <3>3 DEF I
    <2>5. k[1..i] = t[i] + k[1..p]
      <3> DEFINE I == 1..i
      <3>1. i \in I /\ I \ {i} = 1..p
        BY <2>1, <2>3
      <3>2. I \in SUBSET N
        BY <1>9, <2>3
      <3> HIDE DEF I
      <3>3. k[I] = t[i] + k[I \ {i}]
        BY <1>12, <3>1, <3>2 DEF AnyOrder
      <3> QED  BY <3>1, <3>3 DEF I
    <2>6. u[m + i] = t[i] /\ t[i] \in Int
      BY <1>1
    <2>7. k[1..p] \in Int
      BY <1>5, <1>9
    <2> HIDE DEF M, N, U
    <2>8. g[1..(m + i)] = h[M] + k[1..i]
      BY SMTT(30), <1>7, <2>2, <2>4, <2>5, <2>6, <2>7
    <2> QED  BY <2>3, <2>8
  <1>11. n \in Good
    <2> HIDE DEF Good
    <2> QED  BY <1>8, <1>10, UpTo
  <1> QED  BY <1>3, <1>4, <1>5, <1>11 DEF u

-----------------------------------------------------------------------------
(* Comparing sums.                                                         *)

(* Nothing but zeros.                                                      *)
LEMMA SumOfZeros ==
  ASSUME NEW S, IsFiniteSet(S), NEW f \in [S -> Int], \A x \in S : f[x] = 0
  PROVE  SumFunction(f) = 0
  <1>1. PICK g \in [SUBSET S -> Int] : Sums(g, f, S) /\ SumFunction(f) = g[S]
    BY SumFunctionIs
  <1> DEFINE zeros == [s \in SUBSET S |-> 0]
  <1>2. Sums(zeros, f, S)
    <2>1. \A s \in SUBSET S : s # {} => First(s) \in s
      BY DEF First
    <2> QED  BY <2>1 DEF Sums
  <1>3. g[S] = zeros[S]
    <2> HIDE DEF zeros
    <2> QED  BY <1>1, <1>2, SumsAgree
  <1> QED  BY <1>1, <1>3

(* f and e are the same but at x.                                          *)
OneChanged(f, e, x, S) ==
  /\ x \in S
  /\ f \in [S -> Int]
  /\ e \in [S -> Int]
  /\ \A y \in S \ {x} : e[y] = f[y]

(* A change of one value changes the sum by as much.                       *)
LEMMA SumAfterChange ==
  ASSUME NEW S, IsFiniteSet(S), NEW x, NEW f, NEW e, OneChanged(f, e, x, S)
  PROVE  SumFunction(e) = SumFunction(f) + (e[x] - f[x])
  <1> DEFINE T == S \ {x}
             r == [y \in T |-> f[y]]
  <1>1. IsFiniteSet(T) /\ T \cup {x} = S
    BY FS_Subset DEF OneChanged
  <1>2. r \in [T -> Int]
    BY DEF OneChanged
  <1>3. OneMore(f, x, r, T) /\ OneMore(e, x, r, T)
    BY <1>1 DEF OneMore, OneChanged
  <1> HIDE DEF r, T
  <1>4. SumFunction(f) = f[x] + SumFunction(r) /\ SumFunction(e) = e[x] + SumFunction(r)
    BY <1>1, <1>3, SumAfterInsert
  <1>5. SumFunction(r) \in Int /\ f[x] \in Int /\ e[x] \in Int
    BY <1>1, <1>2, SumTyped DEF OneChanged
  <1> QED  BY <1>4, <1>5

(* d is the sum of f and e value by value.                                 *)
AddedUp(d, f, e, S) ==
  /\ f \in [S -> Int] /\ e \in [S -> Int]
  /\ d = [x \in S |-> f[x] + e[x]]

(* Sums add up.                                                            *)
LEMMA SumOfBoth ==
  ASSUME NEW S, IsFiniteSet(S), NEW d, NEW f, NEW e, AddedUp(d, f, e, S)
  PROVE  SumFunction(d) = SumFunction(f) + SumFunction(e)
  <1>0. f \in [S -> Int] /\ e \in [S -> Int] /\ d \in [S -> Int] /\ S \in SUBSET S
    BY DEF AddedUp
  <1>1. PICK g \in [SUBSET S -> Int] : Sums(g, f, S) /\ SumFunction(f) = g[S]
    BY <1>0, SumFunctionIs
  <1>2. PICK h \in [SUBSET S -> Int] : Sums(h, e, S) /\ SumFunction(e) = h[S]
    BY <1>0, SumFunctionIs
  <1>3. PICK k \in [SUBSET S -> Int] : Sums(k, d, S) /\ SumFunction(d) = k[S]
    BY <1>0, SumFunctionIs
  <1> DEFINE both == [s \in SUBSET S |-> g[s] + h[s]]
  <1>4. Sums(both, d, S)
    <2> SUFFICES ASSUME NEW s \in SUBSET S
                 PROVE  both[s] = IF s = {} THEN 0 ELSE d[First(s)] + both[s \ {First(s)}]
      BY DEF Sums
    <2>1. CASE s = {}
      <3>1. g[s] = 0 /\ h[s] = 0
        BY <1>1, <1>2, <2>1 DEF Sums
      <3> QED  BY <2>1, <3>1
    <2>2. CASE s # {}
      <3> DEFINE x == First(s)
                 u == s \ {x}
      <3>1. x \in S /\ u \in SUBSET S
        BY <2>2 DEF First
      <3>2. g[s] = f[x] + g[u] /\ h[s] = e[x] + h[u]
        BY <1>1, <1>2, <2>2 DEF Sums
      <3> HIDE DEF x, u
      <3>3. d[x] = f[x] + e[x]
        BY <3>1 DEF AddedUp
      <3>4. f[x] \in Int /\ e[x] \in Int /\ g[u] \in Int /\ h[u] \in Int
        BY <1>0, <3>1
      <3>5. both[s] = d[x] + both[u]
        BY <3>1, <3>2, <3>3, <3>4
      <3> HIDE DEF both
      <3> QED  BY <2>2, <3>5 DEF x, u
    <2> QED  BY <2>1, <2>2
  <1>5. k[S] = both[S]
    <2> HIDE DEF both
    <2> QED  BY <1>0, <1>3, <1>4, SumsAgree
  <1> QED  BY <1>0, <1>1, <1>2, <1>3, <1>5

(* A sum of natural numbers is one.                                        *)
LEMMA SumOfNats ==
  ASSUME NEW S, IsFiniteSet(S), NEW f \in [S -> Nat]
  PROVE  SumFunction(f) \in Nat
  <1>0. f \in [S -> Int]
    OBVIOUS
  <1>1. PICK g \in [SUBSET S -> Int] : Sums(g, f, S) /\ SumFunction(f) = g[S]
    BY <1>0, SumFunctionIs
  <1> DEFINE B == {s \in SUBSET S : g[s] \notin Nat}
  <1>2. CASE B = {}
    BY <1>1, <1>2
  <1>3. CASE B # {}
    <2>1. PICK m \in B : \A b \in SUBSET m : b # m => b \notin B
      <3>1. \A b \in B : IsFiniteSet(b)
        BY FS_Subset
      <3> QED  BY <1>3, <3>1, MinimalSet
    <2>2. m # {}
      <3> SUFFICES ASSUME m = {} PROVE FALSE
        OBVIOUS
      <3>1. g[m] = 0 /\ g[m] \notin Nat
        BY <1>1 DEF Sums
      <3> QED  BY <3>1
    <2> DEFINE x == First(m)
               u == m \ {x}
    <2>3. x \in m /\ u \in SUBSET m /\ u # m /\ u \in SUBSET S
      BY <2>2 DEF First
    <2>4. g[m] = f[x] + g[u]
      BY <1>1, <2>2 DEF Sums
    <2> HIDE DEF x, u
    <2>5. g[u] \in Nat /\ f[x] \in Nat
      BY <2>1, <2>3
    <2> QED  BY <2>4, <2>5
  <1> QED  BY <1>2, <1>3

(* e is f without values that are zero.                                    *)
ZerosLeftOut(f, e, S, T) ==
  /\ T \in SUBSET S
  /\ f \in [S -> Int]
  /\ e = [x \in T |-> f[x]]
  /\ \A x \in S \ T : f[x] = 0

(* Zeros may be left out of a sum.                                         *)
LEMMA SumWithoutZeros ==
  ASSUME NEW S, IsFiniteSet(S), NEW T, NEW f, NEW e, ZerosLeftOut(f, e, S, T)
  PROVE  SumFunction(e) = SumFunction(f)
  <1>0. /\ T \in SUBSET S /\ T \in SUBSET T /\ S \in SUBSET S /\ IsFiniteSet(T)
        /\ f \in [S -> Int] /\ e \in [T -> Int] /\ \A x \in T : f[x] = e[x]
    BY FS_Subset DEF ZerosLeftOut
  <1>1. PICK g \in [SUBSET S -> Int] : Sums(g, f, S) /\ SumFunction(f) = g[S]
    BY <1>0, SumFunctionIs
  <1>2. PICK h \in [SUBSET T -> Int] : Sums(h, e, T) /\ SumFunction(e) = h[T]
    BY <1>0, SumFunctionIs
  <1>3. g[T] = h[T]
    <2>1. Sums(g, f, T)
      BY <1>0, <1>1 DEF Sums
    <2> QED  BY <1>0, <1>2, <2>1, SumsAgree
  <1>4. AnyOrder(g, f, S)
    BY <1>0, <1>1, SumsInAnyOrder
  <1> DEFINE B == {s \in SUBSET S : T \subseteq s /\ g[s] # g[T]}
  <1>5. CASE B = {}
    BY <1>0, <1>1, <1>2, <1>3, <1>5
  <1>6. CASE B # {}
    <2>1. PICK m \in B : \A b \in SUBSET m : b # m => b \notin B
      <3>1. \A b \in B : IsFiniteSet(b)
        BY FS_Subset
      <3> QED  BY <1>6, <3>1, MinimalSet
    <2>2. PICK x \in m : x \notin T
      BY <2>1
    <2> DEFINE u == m \ {x}
    <2>3. u \in SUBSET m /\ u # m /\ u \in SUBSET S /\ T \subseteq u
      BY <2>2
    <2>4. g[m] = f[x] + g[u]
      BY <1>4 DEF AnyOrder
    <2>5. f[x] = 0
      BY <2>2 DEF ZerosLeftOut
    <2> HIDE DEF u
    <2>6. g[u] = g[T] /\ g[u] \in Int
      BY <2>1, <2>3
    <2> QED  BY <2>4, <2>5, <2>6
  <1> QED  BY <1>5, <1>6

-----------------------------------------------------------------------------
(* Sums by group.  key names the group of every member.                    *)
SumOver(f, T) == SumFunction([s \in T |-> f[s]])

InGroup(key, T, k) == {s \in T : key[s] = k}

GroupSums(f, key, S) ==
  [k \in {key[s] : s \in S} |-> SumOver(f, InGroup(key, S, k))]

(* One member more in a set.                                               *)
LEMMA SumOverOneMore ==
  ASSUME NEW S, IsFiniteSet(S), NEW f \in [S -> Int],
         NEW T \in SUBSET S, NEW x \in T, NEW u, u = T \ {x}
  PROVE  /\ SumOver(f, T) = f[x] + SumOver(f, u)
         /\ SumOver(f, u) \in Int
  <1>1. IsFiniteSet(u) /\ u \in SUBSET S /\ u \cup {x} = T
    BY FS_Subset
  <1> DEFINE all == [s \in T |-> f[s]]
             rest == [s \in u |-> f[s]]
  <1>2. OneMore(all, x, rest, u) /\ all[x] = f[x]
    BY <1>1 DEF OneMore
  <1>3. rest \in [u -> Int]
    BY <1>1
  <1> HIDE DEF all, rest
  <1>4. SumFunction(all) = all[x] + SumFunction(rest) /\ SumFunction(rest) \in Int
    BY <1>1, <1>2, <1>3, SumAfterInsert, SumTyped
  <1> QED  BY <1>2, <1>4 DEF SumOver, all, rest

(* The groups of a sum add up to it.                                       *)
LEMMA SumOfGroups ==
  ASSUME NEW S, IsFiniteSet(S), NEW f \in [S -> Int], NEW key
  PROVE  SumFunction(GroupSums(f, key, S)) = SumFunction(f)
  <1> DEFINE R == {key[s] : s \in S}
             part(T) == [k \in R |-> SumOver(f, InGroup(key, T, k))]
             B == {T \in SUBSET S : SumFunction(part(T)) # SumOver(f, T)}
  <1>1. IsFiniteSet(R)
    <2> DEFINE named == [s \in S |-> key[s]]
    <2>1. named \in [S -> R] /\ \A k \in R : \E s \in S : named[s] = k
      OBVIOUS
    <2>2. named \in Surjection(S, R)
      BY <2>1 DEF Surjection
    <2> QED  BY <2>2, FS_Surjection
  <1>2. CASE B = {}
    <2>1. SumFunction(part(S)) = SumOver(f, S)
      BY <1>2
    <2>2. part(S) = GroupSums(f, key, S) /\ SumOver(f, S) = SumFunction(f)
      BY DEF GroupSums, SumOver
    <2> QED  BY <2>1, <2>2
  <1>3. CASE B # {}
    <2>1. PICK m \in B : \A b \in SUBSET m : b # m => b \notin B
      <3>1. \A b \in B : IsFiniteSet(b)
        BY FS_Subset
      <3> HIDE DEF B
      <3> QED  BY <1>3, <3>1, MinimalSet
    <2>2. m \in SUBSET S /\ SumFunction(part(m)) # SumOver(f, m)
      OBVIOUS
    <2>3. ASSUME NEW T \in SUBSET S, NEW k
          PROVE  /\ InGroup(key, T, k) \in SUBSET S
                 /\ SumOver(f, InGroup(key, T, k)) \in Int
      <3> DEFINE G == InGroup(key, T, k)
                 e == [s \in G |-> f[s]]
      <3>1. G \in SUBSET S /\ IsFiniteSet(G)
        BY FS_Subset DEF InGroup
      <3>2. e \in [G -> Int]
        BY <3>1
      <3> HIDE DEF G, e
      <3>3. SumFunction(e) \in Int
        BY <3>1, <3>2, SumTyped
      <3> QED  BY <3>1, <3>3 DEF SumOver, e, G
    <2>4. \A T \in SUBSET S : part(T) \in [R -> Int]
      BY <2>3
    <2>5. CASE m = {}
      <3>1. \A k \in R : InGroup(key, m, k) = {}
        BY <2>5 DEF InGroup
      <3>2. SumOver(f, {}) = 0
        <4> DEFINE e == [s \in {} |-> f[s]]
        <4>1. e \in [{} -> Int]
          OBVIOUS
        <4> HIDE DEF e
        <4>2. SumFunction(e) = 0
          BY <4>1, SumOfNothing
        <4> QED  BY <4>2 DEF SumOver, e
      <3>3. \A k \in R : part(m)[k] = 0
        BY <3>1, <3>2
      <3>4. part(m) \in [R -> Int]
        BY <2>2, <2>4
      <3> HIDE DEF part, R
      <3>5. SumFunction(part(m)) = 0
        BY <1>1, <3>3, <3>4, SumOfZeros
      <3> QED  BY <2>2, <2>5, <3>2, <3>5
    <2>6. CASE m # {}
      <3>1. PICK x \in m : TRUE
        BY <2>6
      <3>2. PICK u : u = m \ {x}
        OBVIOUS
      <3>3. u \in SUBSET S /\ u \in SUBSET m /\ u # m
        BY <2>2, <3>2
      <3>4. SumFunction(part(u)) = SumOver(f, u)
        BY <2>1, <3>3
      <3>5. SumOver(f, m) = f[x] + SumOver(f, u) /\ SumOver(f, u) \in Int
        BY <2>2, <3>2, SumOverOneMore
      <3>6. PICK k \in R : k = key[x]
        BY <2>2
      <3>7. SumOver(f, InGroup(key, m, k)) = f[x] + SumOver(f, InGroup(key, u, k))
        <4> DEFINE G == InGroup(key, m, k)
        <4>1. G \in SUBSET S /\ x \in G /\ InGroup(key, u, k) = G \ {x}
          BY <2>2, <3>2, <3>6 DEF InGroup
        <4> HIDE DEF G
        <4> QED  BY <4>1, SumOverOneMore DEF G
      <3>8. \A j \in R \ {k} : InGroup(key, m, j) = InGroup(key, u, j)
        BY <3>2, <3>6 DEF InGroup
      <3>9. OneChanged(part(u), part(m), k, R)
        BY <2>2, <2>4, <3>3, <3>8 DEF OneChanged
      <3>10. part(m)[k] - part(u)[k] = f[x]
        <4>1. f[x] \in Int /\ SumOver(f, InGroup(key, u, k)) \in Int
          BY <2>2, <2>3, <3>3
        <4> QED  BY <3>7, <4>1
      <3>11. f[x] \in Int
        BY <2>2
      <3> HIDE DEF part, R, B
      <3>12. SumFunction(part(m)) = SumFunction(part(u)) + (part(m)[k] - part(u)[k])
        BY <1>1, <3>9, SumAfterChange
      <3> QED  BY <2>2, <3>4, <3>5, <3>10, <3>11, <3>12
    <2> QED  BY <2>5, <2>6
  <1> QED  BY <1>2, <1>3

-----------------------------------------------------------------------------
(* Growing and counting.                                                   *)

(* A sum grows with its members.                                           *)
Grown(f, e, S) == f \in [S -> Int] /\ e \in [S -> Int] /\ \A x \in S : f[x] =< e[x]

LEMMA SumGrows ==
  ASSUME NEW S, IsFiniteSet(S), NEW f, NEW e, Grown(f, e, S), NEW x \in S, f[x] < e[x]
  PROVE  SumFunction(f) < SumFunction(e)
  <1>1. f \in [S -> Int] /\ e \in [S -> Int] /\ \A y \in S : f[y] =< e[y]
    BY DEF Grown
  <1>2. PICK d : d = [y \in S |-> e[y] - f[y]]
    OBVIOUS
  <1>3. d \in [S -> Nat] /\ d \in [S -> Int] /\ d[x] > 0
    BY <1>1, <1>2
  <1>4. AddedUp(e, f, d, S)
    <2>1. \A y \in S : e[y] = f[y] + d[y]
      BY <1>1, <1>2
    <2>2. e = [y \in S |-> f[y] + d[y]]
      BY <1>1, <2>1
    <2> QED  BY <1>1, <1>3, <2>2 DEF AddedUp
  <1>5. SumFunction(e) = SumFunction(f) + SumFunction(d)
    BY <1>4, SumOfBoth
  <1>6. SumFunction(d) > 0
    <2>1. PICK T : T = S \ {x}
      OBVIOUS
    <2>2. PICK r : r = [y \in T |-> d[y]]
      OBVIOUS
    <2>3. IsFiniteSet(T) /\ T \in SUBSET S /\ T \cup {x} = S /\ x \notin T
      BY <2>1, FS_Subset
    <2>4. r \in [T -> Nat] /\ r \in [T -> Int]
      BY <1>3, <2>2, <2>3
    <2>5. OneMore(d, x, r, T)
      BY <1>3, <2>2, <2>3, <2>4 DEF OneMore
    <2>6. SumFunction(d) = d[x] + SumFunction(r)
      BY <2>3, <2>5, SumAfterInsert
    <2>7. SumFunction(r) \in Nat
      BY <2>3, <2>4, SumOfNats
    <2> QED  BY <1>3, <2>6, <2>7
  <1>7. SumFunction(f) \in Int /\ SumFunction(d) \in Int
    BY <1>1, <1>3, SumTyped
  <1> QED  BY <1>5, <1>6, <1>7

(* As many ones as members.                                                *)
LEMMA SumOfOnes ==
  ASSUME NEW S, IsFiniteSet(S), NEW f \in [S -> Int], NEW T \in SUBSET S,
         \A s \in S : f[s] = IF s \in T THEN 1 ELSE 0
  PROVE  SumFunction(f) = Cardinality(T)
  <1> DEFINE B == {b \in SUBSET S : SumOver(f, b) # Cardinality(b \cap T)}
  <1>1. CASE B = {}
    <2>1. SumOver(f, S) = Cardinality(S \cap T) /\ S \cap T = T
      BY <1>1
    <2> QED  BY <2>1 DEF SumOver
  <1>2. CASE B # {}
    <2>1. PICK m \in B : \A b \in SUBSET m : b # m => b \notin B
      <3>1. \A b \in B : IsFiniteSet(b)
        BY FS_Subset
      <3> HIDE DEF B
      <3> QED  BY <1>2, <3>1, MinimalSet
    <2>2. m \in SUBSET S /\ SumOver(f, m) # Cardinality(m \cap T)
      OBVIOUS
    <2>3. CASE m = {}
      <3> DEFINE e == [s \in {} |-> f[s]]
      <3>1. e \in [{} -> Int]
        OBVIOUS
      <3> HIDE DEF e
      <3>2. SumFunction(e) = 0
        BY <3>1, SumOfNothing
      <3>3. SumOver(f, {}) = 0
        BY <3>2 DEF SumOver, e
      <3>4. m \cap T = {}
        BY <2>3
      <3> QED  BY <2>2, <2>3, <3>3, <3>4, FS_EmptySet
    <2>4. CASE m # {}
      <3>1. PICK x \in m : TRUE
        BY <2>4
      <3>2. PICK u : u = m \ {x}
        OBVIOUS
      <3>3. u \in SUBSET S /\ u \in SUBSET m /\ u # m
        BY <2>2, <3>2
      <3>4. SumOver(f, u) = Cardinality(u \cap T)
        BY <2>1, <3>3
      <3>5. SumOver(f, m) = f[x] + SumOver(f, u)
        BY <2>2, <3>2, SumOverOneMore
      <3>6. IsFiniteSet(u \cap T)
        BY <3>3, FS_Subset
      <3>7. CASE x \in T
        <4>1. m \cap T = (u \cap T) \cup {x} /\ x \notin u \cap T /\ f[x] = 1
          BY <2>2, <3>2, <3>7
        <4>2. Cardinality(m \cap T) = Cardinality(u \cap T) + 1
          BY <3>6, <4>1, FS_AddElement
        <4>3. Cardinality(u \cap T) \in Nat
          BY <3>6, FS_CardinalityType
        <4> QED  BY <2>2, <3>4, <3>5, <4>1, <4>2, <4>3
      <3>8. CASE x \notin T
        <4>1. m \cap T = u \cap T /\ f[x] = 0
          BY <2>2, <3>2, <3>8
        <4>2. Cardinality(u \cap T) \in Nat
          BY <3>6, FS_CardinalityType
        <4>3. Cardinality(m \cap T) = Cardinality(u \cap T)
          BY <4>1
        <4> QED  BY <2>2, <3>4, <3>5, <4>1, <4>2, <4>3
      <3> QED  BY <3>7, <3>8
    <2> QED  BY <2>3, <2>4
  <1> QED  BY <1>1, <1>2

=============================================================================
