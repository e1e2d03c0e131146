---------------------------- MODULE SceneProofs -----------------------------
(* The scene of a window, for all bounds, kinds and tiles: what is painted over something is drawn
   after it. The tree of bounds stays a tree whose nodes hold the bounds and the greatest order of
   what is below them, so that the search finds the greatest order of all that a primitive
   meets; batches then take the primitives of the lower orders first. What comes before that,
   of positions, sums and recursion, is for the proofs of the other parts, too. *)
EXTENDS ScenePart, FiniteSetsExt, FiniteSetTheorems, SequenceTheorems, WellFoundedInduction, TLAPS

(* Least numbers, greatest elements of finite sets, sums and recursion *)

LEMMA LeastNat ==
  ASSUME NEW T \in SUBSET Nat, T # {}
  PROVE  \E x \in T : \A y \in T : x <= y
<1>1. PICK x \in T : \A y \in T : ~(<<y, x>> \in OpToRel(<, Nat))
  BY NatLessThanWellFounded, WFMin, Zenon
<1>2. \A y \in T : ~(y < x)
  BY <1>1 DEF OpToRel
<1> QED
  BY <1>2

\* A finite set has an element of the greatest weight.
LEMMA Heaviest ==
  ASSUME NEW S, IsFiniteSet(S), S # {}, NEW w, \A e \in S : w[e] \in Int
  PROVE  \E e \in S : \A f \in S : w[f] <= w[e]
<1> DEFINE Has(A) == \E e \in A : \A f \in A : w[f] <= w[e]
           Bad == {n \in Nat : \E A \in SUBSET S : A # {} /\ Cardinality(A) = n /\ ~Has(A)}
<1> SUFFICES ASSUME ~Has(S) PROVE FALSE
  OBVIOUS
<1>1. Bad # {}
  BY FS_CardinalityType
<1>2. PICK n \in Bad : \A m \in Bad : n <= m
  BY <1>1, LeastNat
<1>3. PICK A \in SUBSET S : A # {} /\ Cardinality(A) = n /\ ~Has(A)
  BY <1>2
<1>4. PICK a \in A : TRUE
  BY <1>3
<1>5. IsFiniteSet(A) /\ Cardinality(A \ {a}) = n - 1 /\ Cardinality(A \ {a}) \in Nat
  BY <1>2, <1>3, FS_Subset, FS_RemoveElement, FS_CardinalityType
<1>6. A \ {a} = {} \/ Has(A \ {a})
  <2> SUFFICES ASSUME A \ {a} # {}, ~Has(A \ {a}) PROVE FALSE
    OBVIOUS
  <2> HIDE DEF Has
  <2>1. A \ {a} \in SUBSET S
    OBVIOUS
  <2>2. n - 1 \in Bad
    BY <1>5, <2>1
  <2> QED
    BY <1>2, <2>2
<1>7. CASE A \ {a} = {}
  BY <1>3, <1>7
<1>8. CASE Has(A \ {a})
  <2>1. PICK e \in A \ {a} : \A f \in A \ {a} : w[f] <= w[e]
    BY <1>8
  <2>2. w[a] \in Int /\ w[e] \in Int /\ \A f \in A : w[f] \in Int
    OBVIOUS
  <2>3. CASE w[a] <= w[e]
    BY <1>3, <2>1, <2>3
  <2>4. CASE w[e] <= w[a]
    BY <1>3, <2>1, <2>2, <2>4
  <2> QED
    BY <2>2, <2>3, <2>4
<1> QED
  BY <1>6, <1>7, <1>8

\* Max and Min are what their names say.
LEMMA MaxOf ==
  ASSUME NEW S \in SUBSET Int, IsFiniteSet(S), S # {}
  PROVE  Max(S) \in S /\ \A x \in S : x <= Max(S)
<1> DEFINE w == [x \in S |-> x]
<1>1. \E x \in S : \A y \in S : w[y] <= w[x]
  BY Heaviest
<1>2. \E x \in S : \A y \in S : x >= y
  BY <1>1
<1> QED
  BY <1>2 DEF Max

LEMMA MinOf ==
  ASSUME NEW S \in SUBSET Int, IsFiniteSet(S), S # {}
  PROVE  Min(S) \in S /\ \A x \in S : Min(S) <= x
<1> DEFINE w == [x \in S |-> 0 - x]
<1>0. \A x \in S : w[x] \in Int /\ w[x] = 0 - x
  OBVIOUS
<1> HIDE DEF w
<1>1. \E x \in S : \A y \in S : w[y] <= w[x]
  BY <1>0, Heaviest
<1>2. \E x \in S : \A y \in S : x <= y
  BY <1>0, <1>1
<1> QED
  BY <1>2 DEF Min

\* Sets of places, and a bound beside them.
LEMMA PlacesFinite ==
  ASSUME NEW a \in Int, NEW b \in Int, NEW S \in SUBSET (a..b), NEW x
  PROVE  IsFiniteSet(S) /\ IsFiniteSet({x} \cup S)
<1>1. IsFiniteSet(S)
  BY FS_Interval, FS_Subset
<1>2. {x} \cup S = S \cup {x}
  OBVIOUS
<1> QED
  BY <1>1, <1>2, FS_AddElement

\* Partial sums exist, and are whole numbers.
LEMMA SumsExist ==
  ASSUME NEW n \in Nat, NEW h, \A i \in 1..n : h[i] \in Int
  PROVE  \E f \in [0..n -> Int] : f[0] = 0 /\ \A i \in 1..n : f[i] = f[i - 1] + h[i]
<1> DEFINE Sums(k, f) == f \in [0..k -> Int] /\ f[0] = 0 /\ \A i \in 1..k : f[i] = f[i - 1] + h[i]
           Bad == {k \in 0..n : \A f : ~Sums(k, f)}
<1> SUFFICES ASSUME Bad # {} PROVE FALSE
  <2>1. n \notin Bad
    OBVIOUS
  <2> QED
    BY <2>1
<1>0. Bad \in SUBSET Nat
  OBVIOUS
<1>1. PICK k \in Bad : \A j \in Bad : k <= j
  <2> HIDE DEF Bad
  <2> QED
    BY <1>0, LeastNat
<1>2. CASE k = 0
  <2>1. Sums(0, [i \in 0..0 |-> 0])
    OBVIOUS
  <2> QED
    BY <1>1, <1>2, <2>1
<1>3. CASE k # 0
  <2>1. k - 1 \in 0..n /\ k - 1 \notin Bad /\ k \in 1..n
    <3> HIDE DEF Sums
    <3> QED
      BY <1>1, <1>3
  <2>2. PICK f : Sums(k - 1, f)
    BY <2>1
  <2> DEFINE g == [i \in 0..k |-> IF i = k THEN f[k - 1] + h[k] ELSE f[i]]
  <2>3. g \in [0..k -> Int] /\ g[0] = 0
    BY <2>1, <2>2
  <2>4. \A i \in 1..k : g[i] = g[i - 1] + h[i]
    <3> TAKE i \in 1..k
    <3>1. CASE i = k
      BY <3>1, <2>1
    <3>2. CASE i # k
      <4>1. i \in 1..(k - 1) /\ i \in 0..k /\ i - 1 \in 0..k /\ i - 1 # k
        BY <3>2, <2>1
      <4>2. f[i] = f[i - 1] + h[i]
        BY <4>1, <2>2
      <4> QED
        BY <4>1, <4>2, <3>2
    <3> QED
      BY <3>1, <3>2
  <2>5. Sums(k, g)
    BY <2>3, <2>4
  <2> QED
    BY <1>1, <2>5
<1> QED
  BY <1>2, <1>3

\* What a recursive function gives for each number is a number, when each step does.
LEMMA StepsAreNat ==
  ASSUME NEW n \in Nat, NEW f, f[0] \in Nat, \A i \in 1..n : f[i - 1] \in Nat => f[i] \in Nat
  PROVE  \A i \in 0..n : f[i] \in Nat
<1> DEFINE Bad == {k \in 0..n : f[k] \notin Nat}
<1> SUFFICES ASSUME Bad # {} PROVE FALSE
  OBVIOUS
<1>0. Bad \in SUBSET Nat
  OBVIOUS
<1>1. PICK k \in Bad : \A j \in Bad : k <= j
  <2> HIDE DEF Bad
  <2> QED
    BY <1>0, LeastNat
<1>2. k \in 1..n /\ k - 1 \in 0..n /\ k - 1 \notin Bad
  BY <1>1
<1> QED
  BY <1>1, <1>2

\* Calls on p \notin stop are those on the shorter next[p], and add to what these give.
Recursion(P, V, len, stop, base, next, add) ==
  /\ len \in [P -> Nat] /\ stop \in SUBSET P
  /\ base \in [P -> V] /\ next \in [P -> P] /\ add \in [P -> [V -> V]]
  /\ \A p \in P : p \notin stop => len[next[p]] < len[p]

Solves(g, P, V, stop, base, next, add) ==
  /\ g \in [P -> V]
  /\ \A p \in P : g[p] = IF p \in stop THEN base[p] ELSE add[p][g[next[p]]]

\* A function that calls itself on something shorter, and adds to what that gives, exists.
LEMMA RecursionExists ==
  ASSUME NEW P, NEW V, NEW len, NEW stop, NEW base, NEW next, NEW add,
         Recursion(P, V, len, stop, base, next, add)
  PROVE  \E g : Solves(g, P, V, stop, base, next, add)
<1>0. /\ len \in [P -> Nat] /\ stop \in SUBSET P
      /\ base \in [P -> V] /\ next \in [P -> P] /\ add \in [P -> [V -> V]]
      /\ \A p \in P : p \notin stop => len[next[p]] < len[p]
  BY DEF Recursion
<1> DEFINE Sol(k, h) ==
             /\ h \in [P -> V]
             /\ \A p \in P : len[p] <= k =>
                  h[p] = IF p \in stop THEN base[p] ELSE add[p][h[next[p]]]
<1>1. \A k \in Nat : \E h : Sol(k, h)
  <2> DEFINE Bad == {k \in Nat : \A h : ~Sol(k, h)}
  <2> SUFFICES ASSUME Bad # {} PROVE FALSE
    <3> HIDE DEF Sol
    <3> QED
      OBVIOUS
  <2>1. Bad \in SUBSET Nat
    OBVIOUS
  <2>2. PICK k \in Bad : \A m \in Bad : k <= m
    <3> HIDE DEF Bad
    <3> QED
      BY <2>1, LeastNat
  <2>3. k \in Nat
    BY <2>1
  <2>4. CASE k = 0
    <3>1. \A p \in P : len[p] <= 0 => p \in stop
      BY <1>0
    <3>2. Sol(0, base)
      BY <1>0, <3>1
    <3> QED
      BY <2>2, <2>4, <3>2
  <2>5. CASE k # 0
    <3>1. k - 1 \in Nat /\ k - 1 \notin Bad
      BY <2>2, <2>3, <2>5
    <3>2. PICK h : Sol(k - 1, h)
      BY <3>1
    <3> DEFINE e == [p \in P |-> IF p \in stop THEN base[p] ELSE add[p][h[next[p]]]]
    <3>3. e \in [P -> V]
      BY <1>0, <3>2
    <3>4. \A p \in P : len[p] <= k - 1 => e[p] = h[p]
      BY <1>0, <3>2
    <3>5. \A p \in P : len[p] <= k /\ p \notin stop => len[next[p]] <= k - 1
      BY <1>0, <2>3
    <3>6. \A p \in P : len[p] <= k => e[p] = IF p \in stop THEN base[p] ELSE add[p][e[next[p]]]
      BY <1>0, <3>4, <3>5, Zenon
    <3>7. Sol(k, e)
      <4> HIDE DEF e
      <4> QED
        BY <3>3, <3>6
    <3> QED
      BY <2>2, <3>7, Zenon
  <2> QED
    BY <2>4, <2>5
<1>2. ASSUME NEW k, NEW m, NEW h, NEW e, Sol(k, h), Sol(m, e), k \in Nat, m \in Nat
      PROVE  \A p \in P : len[p] <= k /\ len[p] <= m => h[p] = e[p]
  <2> DEFINE Bad == {n \in Nat : \E p \in P : len[p] = n /\ n <= k /\ n <= m /\ h[p] # e[p]}
  <2> SUFFICES ASSUME Bad # {} PROVE FALSE
    <3>1. \A p \in P : len[p] \in Nat
      BY <1>0
    <3> HIDE DEF Sol
    <3> QED
      BY <3>1
  <2>1. Bad \in SUBSET Nat
    OBVIOUS
  <2>2. PICK n \in Bad : \A i \in Bad : n <= i
    <3> HIDE DEF Bad
    <3> QED
      BY <2>1, LeastNat
  <2>3. PICK p \in P : len[p] = n /\ n <= k /\ n <= m /\ h[p] # e[p]
    BY <2>2
  <2>4. p \notin stop
    BY <1>2, <2>3
  <2>5. /\ h[p] = add[p][h[next[p]]] /\ e[p] = add[p][e[next[p]]]
        /\ next[p] \in P /\ len[next[p]] < n /\ len[next[p]] \in Nat /\ n \in Nat
    BY <1>0, <1>2, <2>1, <2>3, <2>4
  <2>6. len[next[p]] \notin Bad
    BY <2>2, <2>5
  <2>7. h[next[p]] = e[next[p]]
    BY <1>2, <2>3, <2>5, <2>6
  <2> QED
    BY <2>3, <2>5, <2>7
<1> DEFINE sol == [k \in Nat |-> CHOOSE h : Sol(k, h)]
           g == [p \in P |-> sol[len[p]][p]]
<1>3. \A k \in Nat : Sol(k, sol[k])
  <2> SUFFICES ASSUME NEW k \in Nat PROVE Sol(k, sol[k])
    OBVIOUS
  <2>1. \E h : Sol(k, h)
    BY <1>1
  <2>2. sol[k] = CHOOSE h : Sol(k, h)
    OBVIOUS
  <2> HIDE DEF Sol, sol
  <2> QED
    BY <2>1, <2>2
<1> HIDE DEF sol
<1>4. g \in [P -> V]
  BY <1>0, <1>3
<1>5. \A p \in P : g[p] = IF p \in stop THEN base[p] ELSE add[p][g[next[p]]]
  <2> SUFFICES ASSUME NEW p \in P
               PROVE  g[p] = IF p \in stop THEN base[p] ELSE add[p][g[next[p]]]
    OBVIOUS
  <2>1. len[p] \in Nat /\ next[p] \in P /\ len[next[p]] \in Nat
    BY <1>0
  <2>2. g[p] = sol[len[p]][p] /\ g[next[p]] = sol[len[next[p]]][next[p]]
    BY <2>1
  <2>3. sol[len[p]][p] = IF p \in stop THEN base[p] ELSE add[p][sol[len[p]][next[p]]]
    BY <1>3, <2>1
  <2>4. p \notin stop => sol[len[p]][next[p]] = sol[len[next[p]]][next[p]]
    <3>1. Sol(len[p], sol[len[p]]) /\ Sol(len[next[p]], sol[len[next[p]]])
      BY <1>3, <2>1
    <3>2. p \notin stop => len[next[p]] < len[p]
      BY <1>0
    <3> HIDE DEF Sol
    <3> QED
      BY <1>2, <2>1, <3>1, <3>2
  <2> HIDE DEF g
  <2> QED
    BY <2>2, <2>3, <2>4
<1> HIDE DEF g
<1> QED
  BY <1>4, <1>5 DEF Solves

-----------------------------------------------------------------------------
(* Bounds, and nodes of the tree *)

\* Bounds that have a place, and what of a node is in them.
Bounds == {b \in [lo : Int, hi : Int] : b.lo < b.hi}
NodeType == [lo : Int, hi : Int, max : Nat, kids : Seq(Nat)]

LEMMA SceneConstants ==
  /\ AllBounds \subseteq Bounds /\ MaxChildren \in Nat /\ MaxChildren > 1
  /\ Kinds \in Seq(Scene!Range(Kinds)) /\ Scene!IsInjective(Kinds)
  /\ \A t \in Tiles : t.tile \in Int
BY SceneAssumption DEF SceneAssumption, Scene!SceneAssumption, Bounds

LEMMA EdgeOf ==
  ASSUME NEW a \in Int, NEW b \in Int
  PROVE  /\ Scene!Max({a, b}) \in {a, b} /\ a <= Scene!Max({a, b}) /\ b <= Scene!Max({a, b})
         /\ Scene!Min({a, b}) \in {a, b} /\ Scene!Min({a, b}) <= a /\ Scene!Min({a, b}) <= b
<1>1. /\ \E x \in {a, b} : \A y \in {a, b} : x >= y
      /\ \E x \in {a, b} : \A y \in {a, b} : x <= y
  OBVIOUS
<1> QED
  BY <1>1 DEF Scene!Max, Scene!Min

\* b is inside of outer.
Inside(b, outer) == outer.lo <= b.lo /\ b.hi <= outer.hi

\* A union holds both bounds.
LEMMA UnionHolds ==
  ASSUME NEW a \in Bounds, NEW b \in Bounds
  PROVE  /\ Scene!Union(a, b) \in Bounds
         /\ Inside(a, Scene!Union(a, b)) /\ Inside(b, Scene!Union(a, b))
<1>1. a.lo \in Int /\ a.hi \in Int /\ b.lo \in Int /\ b.hi \in Int /\ a.lo < a.hi /\ b.lo < b.hi
  BY DEF Bounds
<1> DEFINE lo == Scene!Min({a.lo, b.lo})
           hi == Scene!Max({a.hi, b.hi})
<1>2. lo \in Int /\ hi \in Int /\ lo <= a.lo /\ lo <= b.lo /\ a.hi <= hi /\ b.hi <= hi
  BY <1>1, EdgeOf
<1>3. Scene!Union(a, b) = [lo |-> lo, hi |-> hi]
  BY DEF Scene!Union
<1> HIDE DEF lo, hi
<1>4. [lo |-> lo, hi |-> hi] \in Bounds
  BY <1>1, <1>2 DEF Bounds
<1> QED
  BY <1>1, <1>2, <1>3, <1>4 DEF Inside

LEMMA WithinAll ==
  ASSUME NEW a \in Bounds, NEW b \in Bounds, NEW c \in Bounds, Inside(a, b)
  PROVE  /\ Inside(b, c) => Inside(a, c)
         /\ Scene!Intersects(c, a) => Scene!Intersects(c, b)
         /\ Scene!Intersects(a, c) <=> Scene!Intersects(c, a)
BY DEF Bounds, Inside, Scene!Intersects

-----------------------------------------------------------------------------
(* Sums over sequences of places *)

Sums(f, s, w) ==
  /\ f \in [0..Len(s) -> Int] /\ f[0] = 0
  /\ \A i \in 1..Len(s) : f[i] = f[i - 1] + w[s[i]]

Weight(s, w) == (CHOOSE f : Sums(f, s, w))[Len(s)]

LEMMA SumsAgree ==
  ASSUME NEW n \in Nat, NEW f, NEW g, f[0] = g[0],
         \A i \in 1..n : f[i - 1] = g[i - 1] => f[i] = g[i]
  PROVE  \A i \in 0..n : f[i] = g[i]
<1> DEFINE Bad == {k \in 0..n : f[k] # g[k]}
<1> SUFFICES ASSUME Bad # {} PROVE FALSE
  OBVIOUS
<1>0. Bad \in SUBSET Nat
  OBVIOUS
<1>1. PICK k \in Bad : \A j \in Bad : k <= j
  <2> HIDE DEF Bad
  <2> QED
    BY <1>0, LeastNat
<1>2. k \in 1..n /\ k - 1 \in 0..n /\ k - 1 \notin Bad
  BY <1>1
<1> QED
  BY <1>1, <1>2

\* The weight of a sequence is its last partial sum.
LEMMA WeightOf ==
  ASSUME NEW D, NEW s \in Seq(D), NEW w, \A d \in D : w[d] \in Nat
  PROVE  /\ \E f : Sums(f, s, w)
         /\ \A f : Sums(f, s, w) => f[Len(s)] = Weight(s, w)
<1>0. Len(s) \in Nat /\ \A i \in 1..Len(s) : s[i] \in D /\ w[s[i]] \in Int
  OBVIOUS
<1>1. \E f : Sums(f, s, w)
  <2> DEFINE h == [i \in 1..Len(s) |-> w[s[i]]]
  <2>1. \A i \in 1..Len(s) : h[i] \in Int /\ h[i] = w[s[i]]
    BY <1>0
  <2> HIDE DEF h
  <2>2. \E f \in [0..Len(s) -> Int] : f[0] = 0 /\ \A i \in 1..Len(s) : f[i] = f[i - 1] + h[i]
    BY <1>0, <2>1, SumsExist, ZenonT(40)
  <2> QED
    BY <2>1, <2>2 DEF Sums
<1>2. ASSUME NEW f, Sums(f, s, w) PROVE f[Len(s)] = Weight(s, w)
  <2> DEFINE g == CHOOSE g : Sums(g, s, w)
  <2>1. Sums(g, s, w)
    BY <1>1
  <2> HIDE DEF g
  <2>2. \A i \in 0..Len(s) : f[i] = g[i]
    <3>1. f[0] = g[0] /\ \A i \in 1..Len(s) : f[i - 1] = g[i - 1] => f[i] = g[i]
      BY <1>2, <2>1 DEF Sums
    <3> QED
      BY <1>0, <3>1, SumsAgree, ZenonT(40)
  <2> QED
    BY <1>0, <2>2 DEF g, Weight
<1> QED
  BY <1>1, <1>2

LEMMA WeightIsNat ==
  ASSUME NEW D, NEW s \in Seq(D), NEW w, \A d \in D : w[d] \in Nat
  PROVE  Weight(s, w) \in Nat
<1>1. PICK f : Sums(f, s, w)
  BY WeightOf
<1>2. Len(s) \in Nat /\ \A i \in 1..Len(s) : s[i] \in D /\ w[s[i]] \in Nat
  OBVIOUS
<1>3. \A i \in 1..Len(s) : f[i - 1] \in Nat => f[i] \in Nat
  <2> SUFFICES ASSUME NEW i \in 1..Len(s), f[i - 1] \in Nat PROVE f[i] \in Nat
    OBVIOUS
  <2>1. f[i] = f[i - 1] + w[s[i]] /\ w[s[i]] \in Nat
    BY <1>1, <1>2 DEF Sums
  <2> QED
    BY <2>1
<1>4. f[0] \in Nat
  BY <1>1 DEF Sums
<1>5. \A i \in 0..Len(s) : f[i] \in Nat
  BY <1>2, <1>3, <1>4, StepsAreNat
<1> QED
  BY <1>1, <1>2, <1>5, WeightOf

\* A sum grows by no more than the greatest summand each time.
LEMMA SumsGrow ==
  ASSUME NEW k \in Nat, NEW B \in Nat, NEW e, e[0] \in Nat,
         NEW d, \A j \in 1..k : e[j] = e[j - 1] + d[j] /\ d[j] \in 0..B
  PROVE  \A j \in 0..k : e[j] \in Nat /\ e[0] <= e[j] /\ e[j] <= e[0] + j * B
<1> DEFINE Fits(j) == e[j] \in Nat /\ e[0] <= e[j] /\ e[j] <= e[0] + j * B
           Bad == {j \in 0..k : ~Fits(j)}
<1> SUFFICES ASSUME Bad # {} PROVE FALSE
  OBVIOUS
<1>0. Bad \in SUBSET Nat
  OBVIOUS
<1>1. PICK j \in Bad : \A i \in Bad : j <= i
  <2> HIDE DEF Bad
  <2> QED
    BY <1>0, LeastNat
<1>2. j \in 0..k /\ ~Fits(j)
  OBVIOUS
<1>3. Fits(0)
  OBVIOUS
<1>4. j \in 1..k /\ j - 1 \in 0..k /\ ~(j <= j - 1)
  <2> HIDE DEF Fits, Bad
  <2> QED
    BY <1>2, <1>3
<1>5. Fits(j - 1)
  <2> HIDE DEF Fits
  <2> QED
    BY <1>1, <1>4
<1> HIDE DEF Bad
<1>6. e[j] = e[j - 1] + d[j] /\ d[j] \in Nat /\ d[j] <= B
  BY <1>4
<1>7. PICK b \in Int, c \in Int : b = (j - 1) * B /\ c = j * B /\ b + B = c
  BY <1>4
<1>8. e[j - 1] \in Nat /\ e[0] <= e[j - 1] /\ e[j - 1] <= e[0] + b
  BY <1>5, <1>7
<1>9. e[j] \in Nat /\ e[0] <= e[j] /\ e[j] <= e[0] + c
  BY <1>6, <1>7, <1>8
<1> QED
  BY <1>2, <1>7, <1>9

\* f adds the m numbers of x, as g does, and then the k numbers of y.
Behind(f, g, m, k, x, y, B) ==
  /\ f[0] = 0 /\ g[0] = 0
  /\ \A i \in 1..m : f[i] = f[i - 1] + x[i] /\ g[i] = g[i - 1] + x[i] /\ x[i] \in Nat
  /\ \A j \in 1..k : f[m + j] = f[m + (j - 1)] + y[j] /\ y[j] \in 0..B

SumsEnd(f, g, m, k, y, B) ==
  /\ g[m] = f[m] /\ f[m] \in Nat /\ f[m + k] \in Nat
  /\ f[m] <= f[m + k] /\ f[m + k] <= f[m] + k * B
  /\ k = 1 => f[m + k] = f[m] + y[1]

LEMMA SumsBehind ==
  ASSUME NEW m \in Nat, NEW k \in Nat, NEW B \in Nat, NEW f, NEW g, NEW x, NEW y,
         Behind(f, g, m, k, x, y, B)
  PROVE  SumsEnd(f, g, m, k, y, B)
<1>0. /\ f[0] = 0 /\ g[0] = 0
      /\ \A i \in 1..m : f[i] = f[i - 1] + x[i] /\ g[i] = g[i - 1] + x[i] /\ x[i] \in Nat
      /\ \A j \in 1..k : f[m + j] = f[m + (j - 1)] + y[j] /\ y[j] \in 0..B
  BY DEF Behind
<1>1. \A i \in 0..m : f[i] = g[i]
  BY <1>0, SumsAgree, SMTT(40)
<1>2. \A i \in 0..m : f[i] \in Nat
  <2>1. \A i \in 1..m : f[i - 1] \in Nat => f[i] \in Nat
    BY <1>0
  <2>2. f[0] \in Nat /\ m \in Nat
    BY <1>0
  <2> QED
    BY <2>1, <2>2, StepsAreNat
<1>3. m \in 0..m /\ k \in 0..k /\ m + 0 = m
  OBVIOUS
<1> DEFINE e == [j \in 0..k |-> f[m + j]]
<1>4. e[0] = f[m] /\ e[k] = f[m + k]
  BY <1>3
<1>5. \A j \in 1..k : e[j] = e[j - 1] + y[j] /\ y[j] \in 0..B
  <2>1. \A j \in 1..k : j \in 0..k /\ j - 1 \in 0..k
    OBVIOUS
  <2> QED
    BY <1>0, <2>1
<1> HIDE DEF e
<1>6. \A j \in 0..k : e[j] \in Nat /\ e[0] <= e[j] /\ e[j] <= e[0] + j * B
  BY <1>2, <1>3, <1>4, <1>5, SumsGrow
<1>7. k = 1 => e[1] = e[0] + y[1]
  BY <1>5
<1>8. /\ g[m] = f[m] /\ f[m] \in Nat /\ f[m + k] \in Nat
      /\ f[m] <= f[m + k] /\ f[m + k] <= f[m] + k * B
      /\ k = 1 => f[m + k] = f[m] + y[1]
  BY <1>1, <1>2, <1>3, <1>4, <1>6, <1>7
<1> QED
  BY <1>8 DEF SumsEnd

\* What is put behind a sequence weighs no more than each time the heaviest.
LEMMA WeightBehind ==
  ASSUME NEW D, NEW s \in Seq(D), NEW t \in Seq(D), NEW w, \A d \in D : w[d] \in Nat,
         NEW B \in Nat, \A i \in 1..Len(t) : w[t[i]] <= B
  PROVE  /\ Weight(s \o t, w) <= Weight(s, w) + Len(t) * B
         /\ Weight(s \o t, w) >= Weight(s, w)
         /\ Len(t) = 1 => Weight(s \o t, w) = Weight(s, w) + w[t[1]]
<1> PICK m \in Nat, k \in Nat : m = Len(s) /\ k = Len(t)
  OBVIOUS
<1>0. /\ s \o t \in Seq(D) /\ Len(s \o t) = m + k
      /\ \A i \in 1..m : (s \o t)[i] = s[i] /\ s[i] \in D
      /\ \A i \in 1..k : (s \o t)[m + i] = t[i] /\ t[i] \in D
  <2>1. /\ s \o t \in Seq(D) /\ Len(s \o t) = Len(s) + Len(t)
        /\ \A i \in 1..(Len(s) + Len(t)) : (s \o t)[i] = IF i <= Len(s) THEN s[i] ELSE t[i - Len(s)]
    BY ConcatProperties
  <2>2. (\A i \in 1..m : s[i] \in D) /\ (\A i \in 1..k : t[i] \in D)
    OBVIOUS
  <2>3. \A i \in 1..m : i \in 1..(m + k) /\ i <= m
    OBVIOUS
  <2>4. \A i \in 1..k : m + i \in 1..(m + k) /\ ~(m + i <= m) /\ (m + i) - m = i
    OBVIOUS
  <2> QED
    BY <2>1, <2>2, <2>3, <2>4
<1>1. PICK f : Sums(f, s \o t, w)
  BY <1>0, WeightOf
<1>2. PICK g : Sums(g, s, w)
  BY WeightOf
<1> DEFINE x == [i \in 1..m |-> w[s[i]]]
           y == [i \in 1..k |-> w[t[i]]]
<1>3. /\ f[0] = 0 /\ g[0] = 0
      /\ \A i \in 1..(m + k) : f[i] = f[i - 1] + w[(s \o t)[i]]
      /\ \A i \in 1..m : g[i] = g[i - 1] + w[s[i]]
  BY <1>0, <1>1, <1>2 DEF Sums
<1>4. \A i \in 1..m : f[i] = f[i - 1] + x[i] /\ g[i] = g[i - 1] + x[i] /\ x[i] \in Nat
  <2> SUFFICES ASSUME NEW i \in 1..m
               PROVE  f[i] = f[i - 1] + x[i] /\ g[i] = g[i - 1] + x[i] /\ x[i] \in Nat
    OBVIOUS
  <2>1. i \in 1..(m + k) /\ (s \o t)[i] = s[i] /\ w[s[i]] \in Nat
    BY <1>0
  <2> QED
    BY <1>3, <2>1
<1>5. \A j \in 1..k : f[m + j] = f[m + (j - 1)] + y[j] /\ y[j] \in 0..B
  <2> SUFFICES ASSUME NEW j \in 1..k PROVE f[m + j] = f[m + (j - 1)] + y[j] /\ y[j] \in 0..B
    OBVIOUS
  <2>1. (s \o t)[m + j] = t[j] /\ t[j] \in D
    BY <1>0
  <2>2. w[t[j]] \in Nat /\ w[t[j]] <= B
    BY <2>1
  <2>3. PICK i \in 1..(m + k) : i = m + j /\ i - 1 = m + (j - 1)
    OBVIOUS
  <2>4. f[i] = f[i - 1] + w[t[j]]
    BY <1>3, <2>1, <2>3
  <2> QED
    BY <2>2, <2>3, <2>4
<1> HIDE DEF x, y
<1>6. SumsEnd(f, g, m, k, y, B)
  <2>1. Behind(f, g, m, k, x, y, B)
    BY <1>3, <1>4, <1>5, Zenon DEF Behind
  <2> QED
    BY <2>1, SumsBehind, Zenon
<1>7. f[m + k] = Weight(s \o t, w)
  <2> PICK st \in Seq(D) : st = s \o t
    BY <1>0
  <2>1. Sums(f, st, w) /\ Len(st) = m + k
    BY <1>0, <1>1
  <2>2. f[Len(st)] = Weight(st, w)
    BY <2>1, WeightOf
  <2> QED
    BY <2>1, <2>2
<1>8. g[m] = Weight(s, w)
  BY <1>2, WeightOf
<1>9. k = 1 => y[1] = w[t[1]]
  BY DEF y
<1>10. /\ g[m] = f[m] /\ f[m] <= f[m + k] /\ f[m + k] <= f[m] + k * B
       /\ k = 1 => f[m + k] = f[m] + y[1]
  BY <1>6, Zenon DEF SumsEnd
<1> QED
  BY <1>7, <1>8, <1>9, <1>10

\* Numbers of which each is more than M of the one before.
Powers(p, M) ==
  /\ p \in [Nat -> Nat \ {0}]
  /\ \A k \in Nat : p[k + 1] > M * p[k]
  /\ \A k \in Nat : \A j \in 0..k : p[j] <= p[k]

LEMMA PowersExist ==
  ASSUME NEW M \in Nat \ {0}
  PROVE  \E p : Powers(p, M)
<1> DEFINE V == Nat \ {0}
           len == [k \in Nat |-> k]
           stop == {0}
           base == [k \in Nat |-> 1]
           next == [k \in Nat |-> IF k = 0 THEN 0 ELSE k - 1]
           add == [k \in Nat |-> [v \in V |-> M * v + 1]]
<1>1. \A v \in V : M * v \in Nat /\ M * v + 1 \in V /\ M * v + 1 >= v
  <2> SUFFICES ASSUME NEW v \in V PROVE M * v \in Nat /\ M * v >= v
    OBVIOUS
  <2>1. M * v = v + (M - 1) * v /\ (M - 1) * v >= 0 /\ (M - 1) * v \in Int
    OBVIOUS
  <2> QED
    BY <2>1
<1>2. Recursion(Nat, V, len, stop, base, next, add)
  <2>1. next \in [Nat -> Nat] /\ \A k \in Nat : k \notin stop => len[next[k]] < len[k]
    OBVIOUS
  <2>2. add \in [Nat -> [V -> V]]
    BY <1>1
  <2>3. len \in [Nat -> Nat] /\ stop \in SUBSET Nat /\ base \in [Nat -> V]
    OBVIOUS
  <2> HIDE DEF len, stop, base, next, add, V
  <2> QED
    BY <2>1, <2>2, <2>3 DEF Recursion
<1>3. PICK p : Solves(p, Nat, V, stop, base, next, add)
  <2> HIDE DEF len, stop, base, next, add, V
  <2> QED
    BY <1>2, RecursionExists
<1>4. p \in [Nat -> V]
  BY <1>3 DEF Solves
<1>5. \A k \in Nat : p[k + 1] = M * p[k] + 1
  <2> SUFFICES ASSUME NEW k \in Nat PROVE p[k + 1] = M * p[k] + 1
    OBVIOUS
  <2>1. k + 1 \in Nat /\ k + 1 \notin stop /\ next[k + 1] = k /\ p[k] \in V
    BY <1>4
  <2>2. p[k + 1] = add[k + 1][p[k]]
    <3> HIDE DEF stop, next, base, add
    <3> QED
      BY <1>3, <2>1 DEF Solves
  <2> HIDE DEF V
  <2> QED
    BY <2>1, <2>2
<1> HIDE DEF len, stop, base, next, add
<1>6. \A k \in Nat : p[k] <= p[k + 1] /\ M * p[k] < p[k + 1]
  <2> SUFFICES ASSUME NEW k \in Nat PROVE p[k] <= p[k + 1] /\ M * p[k] < p[k + 1]
    OBVIOUS
  <2>1. p[k] \in V
    BY <1>4
  <2>2. PICK x : x = M * p[k]
    OBVIOUS
  <2>3. x \in Nat /\ x + 1 >= p[k] /\ p[k + 1] = x + 1
    BY <1>1, <1>5, <2>1, <2>2
  <2> QED
    BY <2>1, <2>2, <2>3
<1>7. ASSUME NEW k \in Nat PROVE \A j \in 0..k : p[j] <= p[k]
  <2> DEFINE Bad == {i \in 0..k : ~(p[k - i] <= p[k])}
  <2> SUFFICES ASSUME Bad # {} PROVE FALSE
    <3> SUFFICES ASSUME NEW j \in 0..k, ~(p[j] <= p[k]) PROVE Bad # {}
      OBVIOUS
    <3>1. k - j \in 0..k /\ k - (k - j) = j
      OBVIOUS
    <3> QED
      BY <3>1
  <2>0. Bad \in SUBSET Nat
    OBVIOUS
  <2>1. PICK i \in Bad : \A j \in Bad : i <= j
    <3> HIDE DEF Bad
    <3> QED
      BY <2>0, LeastNat
  <2>2. i \in 0..k /\ ~(p[k - i] <= p[k])
    BY <2>1
  <2>3. p[k - 0] <= p[k]
    BY <1>4
  <2>4. i \in 1..k /\ i - 1 \in 0..k /\ ~(i <= i - 1)
    BY <2>2, <2>3
  <2>5. i - 1 \notin Bad
    BY <2>1, <2>4
  <2>6. p[k - (i - 1)] <= p[k]
    BY <2>4, <2>5
  <2>7. k - i \in Nat /\ k - (i - 1) = (k - i) + 1 /\ k - (i - 1) \in Nat
    BY <2>4
  <2>8. p[k - i] <= p[k - (i - 1)]
    BY <1>6, <2>7
  <2>9. p[k - i] \in Nat /\ p[k - (i - 1)] \in Nat /\ p[k] \in Nat
    BY <1>4, <2>7
  <2> QED
    BY <2>2, <2>6, <2>8, <2>9
<1> QED
  BY <1>4, <1>6, <1>7 DEF Powers

\* Among the places of a sequence there is a least by cost, and the first of these.
LEMMA FirstCheapest ==
  ASSUME NEW n \in Nat \ {0}, NEW c, \A i \in 1..n : c[i] \in Nat
  PROVE  \E i \in 1..n : \A j \in 1..n : c[i] < c[j] \/ (c[i] = c[j] /\ i <= j)
<1> DEFINE Costs == {c[i] : i \in 1..n}
<1>1. Costs \in SUBSET Nat /\ Costs # {}
  <2>1. c[1] \in Costs
    OBVIOUS
  <2> QED
    BY <2>1
<1>2. PICK x \in Costs : \A y \in Costs : x <= y
  <2> HIDE DEF Costs
  <2> QED
    BY <1>1, LeastNat
<1> DEFINE Cheap == {i \in 1..n : c[i] = x}
<1>3. Cheap \in SUBSET Nat /\ Cheap # {}
  BY <1>2
<1>4. PICK i \in Cheap : \A j \in Cheap : i <= j
  <2> HIDE DEF Cheap
  <2> QED
    BY <1>3, LeastNat
<1>5. i \in 1..n /\ c[i] = x
  BY <1>4
<1>6. \A j \in 1..n : x <= c[j] /\ c[j] \in Nat
  BY <1>2
<1>7. \A j \in 1..n : c[j] = x => i <= j
  BY <1>4
<1> HIDE DEF Cheap, Costs
<1> QED
  BY <1>1, <1>2, <1>5, <1>6, <1>7
-----------------------------------------------------------------------------
(* The tree of bounds *)

BoxIn(T, n) == [lo |-> T[n].lo, hi |-> T[n].hi]
LeafIn(T, n) == T[n].kids = <<>>

\* The nodes in A lead from the root to a leaf; each holds its bounds and order.
Reaches(T, r, A, l) ==
  /\ A \in SUBSET DOMAIN T /\ r \in A /\ l \in A
  /\ \A n \in A : /\ Inside(BoxIn(T, l), BoxIn(T, n)) /\ T[l].max <= T[n].max
                  /\ n = l \/ \E i \in DOMAIN T[n].kids : T[n].kids[i] \in A

\* No node is below itself.
Lower(T, h) ==
  /\ h \in [DOMAIN T -> Nat]
  /\ \A n \in DOMAIN T : \A i \in DOMAIN T[n].kids : h[T[n].kids[i]] < h[n]

NodesTyped(T) ==
  /\ T \in Seq(NodeType)
  /\ \A n \in DOMAIN T :
       /\ BoxIn(T, n) \in Bounds
       /\ T[n].kids \in Seq(DOMAIN T) /\ Len(T[n].kids) <= MaxChildren

\* best is a leaf of the highest order, and all leaves can be reached from the root.
LeavesReached(T, r, best) ==
  \A l \in DOMAIN T : LeafIn(T, l) => T[l].max <= T[best].max /\ \E A : Reaches(T, r, A, l)

TreeWhole(T, r, best) ==
  /\ NodesTyped(T) /\ \E h : Lower(T, h)
  /\ r \in 0..Len(T) /\ best \in 0..Len(T)
  /\ r = 0 <=> T = <<>>
  /\ r # 0 <=> best # 0
  /\ r # 0 => LeafIn(T, best) /\ LeavesReached(T, r, best)

LEMMA FrontAndLast ==
  ASSUME NEW D, NEW s \in Seq(D), s # <<>>
  PROVE  /\ Scene!Front(s) \in Seq(D) /\ Scene!Last(s) \in D
         /\ s = Scene!Front(s) \o <<Scene!Last(s)>>
         /\ \A i \in DOMAIN s : s[i] = Scene!Last(s) \/ \E j \in DOMAIN Scene!Front(s) : Scene!Front(s)[j] = s[i]
<1> DEFINE k == Len(s)
<1>1. k \in Nat /\ k > 0 /\ DOMAIN s = 1..k /\ \A i \in 1..k : s[i] \in D
  OBVIOUS
<1>2. /\ Scene!Front(s) = SubSeq(s, 1, k - 1) /\ Scene!Last(s) = s[k]
  BY DEF Scene!Front, Scene!Last
<1>3. /\ SubSeq(s, 1, k - 1) \in Seq(D) /\ Len(SubSeq(s, 1, k - 1)) = k - 1
      /\ \A i \in 1..(k - 1) : SubSeq(s, 1, k - 1)[i] = s[i]
  BY <1>1
<1> DEFINE front == SubSeq(s, 1, k - 1)
<1> HIDE DEF k, front
<1>4. DOMAIN front = 1..(k - 1)
  BY <1>1, <1>3 DEF front
<1>5. \A i \in DOMAIN s : s[i] = s[k] \/ \E j \in DOMAIN front : front[j] = s[i]
  <2> SUFFICES ASSUME NEW i \in 1..k, i # k PROVE \E j \in DOMAIN front : front[j] = s[i]
    BY <1>1
  <2>1. i \in 1..(k - 1)
    BY <1>1
  <2> QED
    BY <1>3, <1>4, <2>1, Zenon DEF front
<1>6. s = front \o <<s[k]>>
  <2>1. /\ front \o <<s[k]>> \in Seq(D) /\ Len(front \o <<s[k]>>) = k
        /\ \A i \in 1..k : (front \o <<s[k]>>)[i] = s[i]
    <3>1. front \in Seq(D) /\ <<s[k]>> \in Seq(D) /\ Len(front) = k - 1 /\ Len(<<s[k]>>) = 1
      BY <1>1, <1>3 DEF front
    <3>2. /\ front \o <<s[k]>> \in Seq(D) /\ Len(front \o <<s[k]>>) = Len(front) + Len(<<s[k]>>)
          /\ \A i \in 1..(Len(front) + Len(<<s[k]>>)) :
               (front \o <<s[k]>>)[i] = IF i <= Len(front) THEN front[i] ELSE <<s[k]>>[i - Len(front)]
      BY <3>1, ConcatProperties
    <3>3. (k - 1) + 1 = k
      BY <1>1
    <3>4. \A i \in 1..k : (front \o <<s[k]>>)[i] = IF i <= k - 1 THEN front[i] ELSE <<s[k]>>[i - (k - 1)]
      BY <3>1, <3>2, <3>3
    <3>5. ASSUME NEW i \in 1..k PROVE (front \o <<s[k]>>)[i] = s[i]
      <4>1. CASE i <= k - 1
        <5>1. i \in 1..(k - 1)
          BY <4>1
        <5> QED
          BY <1>3, <3>4, <4>1, <5>1 DEF front
      <4>2. CASE i = k
        <5>1. ~(i <= k - 1) /\ i - (k - 1) = 1
          BY <1>1, <4>2
        <5>2. <<s[k]>>[1] = s[k]
          OBVIOUS
        <5>3. (front \o <<s[k]>>)[i] = <<s[k]>>[i - (k - 1)]
          BY <3>4, <5>1
        <5> QED
          BY <4>2, <5>1, <5>2, <5>3
      <4>3. i <= k - 1 \/ i = k
        BY <1>1
      <4> QED
        BY <4>1, <4>2, <4>3
    <3> QED
      BY <3>1, <3>2, <3>3, <3>5
  <2> QED
    BY <1>1, <2>1, SeqEqual, Zenon DEF k
<1> QED
  BY <1>1, <1>2, <1>3, <1>5, <1>6 DEF front

LEMMA ProductGrows ==
  ASSUME NEW a \in Nat, NEW c \in Nat, NEW d \in Nat, a <= c
  PROVE  a * d <= c * d /\ a * d \in Nat /\ c * d \in Nat
<1>1. (c - a) * d >= 0 /\ c * d = a * d + (c - a) * d /\ a * d \in Nat /\ c * d \in Nat
  OBVIOUS
<1> QED
  BY <1>1

\* The weights of the kids of a node are, together, less than its own.
LEMMA KidsAreLight ==
  ASSUME NEW k \in Nat, NEW M \in Nat, k <= M, NEW p, Powers(p, M), NEW top_ \in Nat,
         NEW g, \A i \in 1..k : g[i] \in Nat /\ g[i] < top_
  PROVE  \E B \in Nat : k * B \in Nat /\ k * B < p[top_] /\ \A i \in 1..k : p[g[i]] <= B
<1>0. /\ \A j \in Nat : p[j] \in Nat \ {0} /\ p[j + 1] > M * p[j]
      /\ \A j \in Nat : \A i \in 0..j : p[i] <= p[j]
  BY DEF Powers
<1>1. CASE k = 0
  <2>1. k * 0 \in Nat /\ k * 0 < p[top_] /\ \A i \in 1..k : p[g[i]] <= 0
    BY <1>0, <1>1
  <2> QED
    BY <2>1
<1>2. CASE k # 0
  <2>1. g[1] \in Nat /\ g[1] < top_
    BY <1>2
  <2>2. PICK j \in Nat : top_ = j + 1
    <3>1. top_ - 1 \in Nat /\ top_ = (top_ - 1) + 1
      BY <2>1
    <3> QED
      BY <3>1
  <2>3. p[j] \in Nat /\ p[top_] \in Nat /\ p[top_] > M * p[j]
    BY <1>0, <2>2
  <2>4. \A i \in 1..k : p[g[i]] <= p[j]
    <3> SUFFICES ASSUME NEW i \in 1..k PROVE p[g[i]] <= p[j]
      OBVIOUS
    <3>1. g[i] \in 0..j
      BY <2>2
    <3> QED
      BY <1>0, <3>1
  <2>5. k * p[j] <= M * p[j] /\ k * p[j] \in Nat /\ M * p[j] \in Nat
    BY <2>3, ProductGrows
  <2>6. k * p[j] < p[top_]
    <3> PICK a \in Nat, c \in Nat : a = k * p[j] /\ c = M * p[j]
      BY <2>5
    <3> QED
      BY <2>3, <2>5
  <2> QED
    BY <2>3, <2>4, <2>5, <2>6
<1> QED
  BY <1>1, <1>2

\* A node is replaced by its kids, or taken away.
LEMMA StackGetsLighter ==
  ASSUME NEW D, NEW rest \in Seq(D), NEW n \in D, NEW kids \in Seq(D),
         NEW w, \A d \in D : w[d] \in Nat, w[n] > 0,
         NEW B \in Nat, \A i \in 1..Len(kids) : w[kids[i]] <= B,
         Len(kids) * B \in Nat, Len(kids) * B < w[n]
  PROVE  /\ Weight(rest, w) \in Nat /\ Weight(rest \o <<n>>, w) \in Nat
         /\ Weight(rest \o kids, w) \in Nat
         /\ Weight(rest, w) < Weight(rest \o <<n>>, w)
         /\ Weight(rest \o kids, w) < Weight(rest \o <<n>>, w)
<1>1. PICK one \in Seq(D) : one = <<n>> /\ Len(one) = 1 /\ one[1] = n /\ \A i \in 1..Len(one) : one[i] = n
  <2>1. <<n>> \in Seq(D) /\ Len(<<n>>) = 1 /\ <<n>>[1] = n
    OBVIOUS
  <2>2. \A i \in 1..1 : i = 1
    OBVIOUS
  <2>3. \A i \in 1..Len(<<n>>) : <<n>>[i] = n
    BY <2>1, <2>2
  <2> QED
    BY <2>1, <2>3
<1>2. rest \o one \in Seq(D) /\ rest \o kids \in Seq(D)
  BY ConcatProperties
<1>3. Weight(rest, w) \in Nat /\ Weight(rest \o one, w) \in Nat /\ Weight(rest \o kids, w) \in Nat
  BY <1>2, WeightIsNat
<1>4. Weight(rest \o kids, w) <= Weight(rest, w) + Len(kids) * B
  BY WeightBehind
<1>5. Weight(rest \o one, w) = Weight(rest, w) + w[n]
  <2>1. w[n] \in Nat /\ \A i \in 1..Len(one) : w[one[i]] <= w[n]
    BY <1>1
  <2>2. Weight(rest \o one, w) = Weight(rest, w) + w[one[1]]
    BY <1>1, <2>1, WeightBehind, ZenonT(40)
  <2> QED
    BY <1>1, <2>2
<1>6. PICK a \in Nat, b \in Nat, c \in Nat, d \in Nat, e \in Nat :
           /\ a = Weight(rest, w) /\ b = Weight(rest \o one, w) /\ c = Weight(rest \o kids, w)
           /\ d = Len(kids) * B /\ e = w[n]
  BY <1>3
<1>7. c <= a + d /\ b = a + e /\ d < e /\ e > 0
  BY <1>4, <1>5, <1>6
<1>8. a < b /\ c < b
  BY <1>7
<1> QED
  BY <1>1, <1>6, <1>8

\* One step of the search: the stack and what was found after the node on top.
Visited(b, n, found) == ~(nodes[n].max <= found \/ ~Scene!Intersects(b, Scene!Box(n)))
After(b, at) ==
  LET n == Scene!Last(at.stack)
      rest == Scene!Front(at.stack)
  IN  IF ~Visited(b, n, at.found) THEN [stack |-> rest, found |-> at.found]
      ELSE IF Scene!Leaf(n) THEN [stack |-> rest, found |-> nodes[n].max]
      ELSE [stack |-> rest \o nodes[n].kids, found |-> at.found]

SearchState == [stack : Seq(DOMAIN nodes), found : Nat]

LEMMA NodesAre ==
  ASSUME NEW T, NodesTyped(T), NEW n \in DOMAIN T
  PROVE  /\ T[n].max \in Nat /\ BoxIn(T, n) \in Bounds /\ T[n] \in NodeType
         /\ T[n].kids \in Seq(DOMAIN T) /\ Len(T[n].kids) \in Nat /\ Len(T[n].kids) <= MaxChildren
         /\ DOMAIN T[n].kids = 1..Len(T[n].kids)
         /\ \A i \in DOMAIN T[n].kids : T[n].kids[i] \in DOMAIN T
         /\ DOMAIN T = 1..Len(T) /\ Len(T) \in Nat
<1>1. T \in Seq(NodeType) /\ T[n] \in NodeType
  BY DEF NodesTyped
<1>2. T[n].kids \in Seq(DOMAIN T) /\ Len(T[n].kids) <= MaxChildren /\ BoxIn(T, n) \in Bounds
  BY DEF NodesTyped
<1>3. T[n].max \in Nat
  BY <1>1 DEF NodeType
<1>4. DOMAIN T = 1..Len(T) /\ Len(T) \in Nat
  BY <1>1
<1> PICK D : D = DOMAIN T
  OBVIOUS
<1> PICK kids \in Seq(D) : kids = T[n].kids
  BY <1>2
<1>5. Len(kids) \in Nat /\ DOMAIN kids = 1..Len(kids) /\ \A i \in DOMAIN kids : kids[i] \in D
  OBVIOUS
<1> QED
  BY <1>1, <1>2, <1>3, <1>4, <1>5

\* The stack gets lighter with each step.
LEMMA SearchEnds ==
  ASSUME NodesTyped(nodes), NEW h, Lower(nodes, h), NEW p, Powers(p, MaxChildren), NEW b,
         NEW w, \A n \in DOMAIN nodes : w[n] = p[h[n]],
         NEW at \in SearchState, at.stack # <<>>
  PROVE  /\ After(b, at) \in SearchState
         /\ Weight(at.stack, w) \in Nat /\ Weight(After(b, at).stack, w) \in Nat
         /\ Weight(After(b, at).stack, w) < Weight(at.stack, w)
<1> PICK D : D = DOMAIN nodes
  OBVIOUS
<1>0. at.stack \in Seq(D) /\ at.found \in Nat
  BY DEF SearchState
<1> PICK s \in Seq(D) : s = at.stack /\ s # <<>>
  BY <1>0
<1>a. PICK n \in D, rest \in Seq(D) : n = Scene!Last(s) /\ rest = Scene!Front(s) /\ s = rest \o <<n>>
  <2>1. Scene!Front(s) \in Seq(D) /\ Scene!Last(s) \in D /\ s = Scene!Front(s) \o <<Scene!Last(s)>>
    BY FrontAndLast
  <2> QED
    BY <2>1
<1> PICK kids \in Seq(D) : kids = nodes[n].kids
  BY NodesAre
<1>1. /\ nodes[n].max \in Nat /\ Len(kids) \in Nat /\ Len(kids) <= MaxChildren /\ MaxChildren \in Nat
      /\ DOMAIN kids = 1..Len(kids) /\ \A i \in DOMAIN kids : kids[i] \in D
  BY NodesAre, SceneConstants
<1>2. \A d \in D : h[d] \in Nat
  BY DEF Lower
<1>3. \A d \in D : w[d] = p[h[d]] /\ w[d] \in Nat /\ w[d] > 0
  <2>1. p \in [Nat -> Nat \ {0}]
    BY DEF Powers
  <2> SUFFICES ASSUME NEW d \in D PROVE w[d] = p[h[d]] /\ w[d] \in Nat /\ w[d] > 0
    OBVIOUS
  <2>2. h[d] \in Nat /\ w[d] = p[h[d]]
    BY <1>2
  <2>3. p[h[d]] \in Nat \ {0}
    BY <2>1, <2>2
  <2> QED
    BY <2>2, <2>3
<1> PICK g : g = [i \in 1..Len(kids) |-> h[kids[i]]]
  OBVIOUS
<1>4. \A i \in 1..Len(kids) : g[i] = h[kids[i]] /\ g[i] \in Nat /\ g[i] < h[n] /\ w[kids[i]] = p[g[i]]
  BY <1>1, <1>2, <1>3 DEF Lower
<1>5. PICK B \in Nat : /\ Len(kids) * B \in Nat /\ Len(kids) * B < p[h[n]]
                       /\ \A i \in 1..Len(kids) : p[g[i]] <= B
  <2> PICK k \in Nat : k = Len(kids) /\ k <= MaxChildren
    BY <1>1
  <2>1. h[n] \in Nat /\ \A i \in 1..k : g[i] \in Nat /\ g[i] < h[n]
    BY <1>2, <1>4
  <2>2. \E B \in Nat : k * B \in Nat /\ k * B < p[h[n]] /\ \A i \in 1..k : p[g[i]] <= B
    BY <1>1, <2>1, KidsAreLight, ZenonT(40)
  <2> QED
    BY <2>2
<1>6. /\ Weight(rest, w) \in Nat /\ Weight(rest \o <<n>>, w) \in Nat
      /\ Weight(rest \o kids, w) \in Nat
      /\ Weight(rest, w) < Weight(rest \o <<n>>, w)
      /\ Weight(rest \o kids, w) < Weight(rest \o <<n>>, w)
  <2>1. /\ \A i \in 1..Len(kids) : w[kids[i]] <= B
        /\ Len(kids) * B < w[n] /\ w[n] > 0
    BY <1>3, <1>4, <1>5
  <2> QED
    BY <1>3, <1>5, <2>1, StackGetsLighter
<1>7. rest \o kids \in Seq(D)
  BY ConcatProperties
<1>8. \/ After(b, at) = [stack |-> rest, found |-> at.found]
      \/ After(b, at) = [stack |-> rest, found |-> nodes[n].max]
      \/ After(b, at) = [stack |-> rest \o kids, found |-> at.found]
  BY <1>a DEF After
<1>9. After(b, at) \in SearchState /\ After(b, at).stack \in {rest, rest \o kids}
  <2>1. at.found \in Nat /\ nodes[n].max \in Nat /\ rest \in Seq(D) /\ rest \o kids \in Seq(D)
    BY <1>0, <1>1, <1>7
  <2>2. /\ [stack |-> rest, found |-> at.found] \in SearchState
        /\ [stack |-> rest, found |-> nodes[n].max] \in SearchState
        /\ [stack |-> rest \o kids, found |-> at.found] \in SearchState
    BY <2>1 DEF SearchState
  <2>3. After(b, at) \in SearchState
    BY <1>8, <2>2, Zenon
  <2>4. After(b, at).stack = rest \/ After(b, at).stack = rest \o kids
    <3> HIDE DEF After
    <3> QED
      BY <1>8
  <2> QED
    BY <2>3, <2>4
<1> QED
  BY <1>6, <1>9, <1>a

\* A leaf that intersects, and that the stack leads to or that was taken into account.
Awaited(l, A, at) ==
  \/ nodes[l].max <= at.found
  \/ \E i \in DOMAIN at.stack : at.stack[i] \in A

LEMMA SearchRises ==
  ASSUME NodesTyped(nodes), NEW b, NEW at \in SearchState, at.stack # <<>>
  PROVE  at.found <= After(b, at).found
<1> PICK D : D = DOMAIN nodes
  OBVIOUS
<1> PICK s \in Seq(D), found \in Nat : s = at.stack /\ found = at.found /\ s # <<>>
  BY DEF SearchState
<1>1. PICK n \in D : n = Scene!Last(s)
  BY FrontAndLast
<1>2. nodes[n].max \in Nat
  BY NodesAre
<1>3. After(b, at).found = found \/ (After(b, at).found = nodes[n].max /\ ~(nodes[n].max <= found))
  BY <1>1 DEF After, Visited
<1> HIDE DEF After
<1> QED
  BY <1>2, <1>3

\* A step of the search does not lose a leaf.
LEMMA SearchKeeps ==
  ASSUME NodesTyped(nodes), NEW b \in Bounds, NEW at \in SearchState, at.stack # <<>>,
         NEW l \in DOMAIN nodes, LeafIn(nodes, l), NEW r, NEW A, Reaches(nodes, r, A, l),
         Scene!Intersects(b, BoxIn(nodes, l)), Awaited(l, A, at)
  PROVE  Awaited(l, A, After(b, at)) /\ at.found <= After(b, at).found
<1> PICK D : D = DOMAIN nodes
  OBVIOUS
<1> PICK s \in Seq(D), found \in Nat : s = at.stack /\ found = at.found /\ s # <<>>
  BY DEF SearchState
<1>1. PICK n \in D, rest \in Seq(D) :
        /\ n = Scene!Last(s) /\ rest = Scene!Front(s)
        /\ \A i \in DOMAIN s : s[i] = n \/ \E j \in DOMAIN rest : rest[j] = s[i]
  <2>1. /\ Scene!Front(s) \in Seq(D) /\ Scene!Last(s) \in D
        /\ \A i \in DOMAIN s : s[i] = Scene!Last(s) \/ \E j \in DOMAIN Scene!Front(s) : Scene!Front(s)[j] = s[i]
    BY FrontAndLast
  <2> QED
    BY <2>1
<1> PICK kids \in Seq(D) : kids = nodes[n].kids
  BY NodesAre
<1>2. nodes[n].max \in Nat /\ nodes[l].max \in Nat /\ BoxIn(nodes, n) \in Bounds /\ BoxIn(nodes, l) \in Bounds
  BY NodesAre
<1>3. /\ \A i \in DOMAIN rest : i \in DOMAIN (rest \o kids) /\ (rest \o kids)[i] = rest[i]
      /\ \A i \in DOMAIN kids : \E j \in DOMAIN (rest \o kids) : (rest \o kids)[j] = kids[i]
  <2> PICK m \in Nat, k \in Nat : m = Len(rest) /\ k = Len(kids)
    OBVIOUS
  <2>1. /\ DOMAIN rest = 1..m /\ DOMAIN kids = 1..k /\ DOMAIN (rest \o kids) = 1..(m + k)
        /\ \A i \in 1..(m + k) : (rest \o kids)[i] = IF i <= m THEN rest[i] ELSE kids[i - m]
    BY ConcatProperties
  <2>2. \A i \in 1..m : i \in 1..(m + k) /\ i <= m
    OBVIOUS
  <2>3. \A i \in 1..k : m + i \in 1..(m + k) /\ ~(m + i <= m) /\ (m + i) - m = i
    OBVIOUS
  <2>4. \A i \in DOMAIN rest : i \in DOMAIN (rest \o kids) /\ (rest \o kids)[i] = rest[i]
    BY <2>1, <2>2
  <2>5. ASSUME NEW i \in DOMAIN kids PROVE \E j \in DOMAIN (rest \o kids) : (rest \o kids)[j] = kids[i]
    <3>1. m + i \in DOMAIN (rest \o kids) /\ (rest \o kids)[m + i] = kids[i]
      BY <2>1, <2>3, ZenonT(40)
    <3> QED
      BY <3>1
  <2> QED
    BY <2>4, <2>5
<1>4. CASE n \notin A \/ nodes[l].max <= found
  <2>1. nodes[l].max <= found \/ \E j \in DOMAIN rest : rest[j] \in A
    BY <1>1, <1>4 DEF Awaited
  <2>2. /\ After(b, at).found \in {found, nodes[n].max} /\ found <= After(b, at).found
        /\ After(b, at).stack \in {rest, rest \o kids}
    BY <1>1, <1>2 DEF After, Visited
  <2> HIDE DEF After
  <2>3. nodes[l].max <= found => nodes[l].max <= After(b, at).found
    BY <1>2, <2>2
  <2>4. \A j \in DOMAIN rest : \E i \in DOMAIN After(b, at).stack : After(b, at).stack[i] = rest[j]
    BY <1>3, <2>2
  <2> QED
    BY <2>1, <2>2, <2>3, <2>4 DEF Awaited
<1>5. CASE n \in A /\ ~(nodes[l].max <= found)
  <2>1. /\ Inside(BoxIn(nodes, l), BoxIn(nodes, n)) /\ nodes[l].max <= nodes[n].max
        /\ n = l \/ \E i \in DOMAIN kids : kids[i] \in A
    BY <1>5 DEF Reaches
  <2>2. Scene!Intersects(b, BoxIn(nodes, n)) /\ BoxIn(nodes, n) = Scene!Box(n)
    <3>1. BoxIn(nodes, n) = Scene!Box(n)
      BY DEF BoxIn, Scene!Box
    <3> QED
      BY <1>2, <2>1, <3>1, WithinAll
  <2>3. Visited(b, n, found)
    BY <1>2, <1>5, <2>1, <2>2 DEF Visited
  <2>4. CASE n = l
    <3>1. After(b, at) = [stack |-> rest, found |-> nodes[n].max]
      BY <1>1, <2>3, <2>4 DEF After, LeafIn, Scene!Leaf
    <3>2. found <= nodes[n].max
      BY <1>2, <1>5, <2>4
    <3> QED
      BY <1>2, <2>4, <3>1, <3>2 DEF Awaited
  <2>5. CASE n # l
    <3>1. PICK i \in DOMAIN kids : kids[i] \in A
      BY <2>1, <2>5
    <3>2. ~Scene!Leaf(n)
      BY <3>1 DEF Scene!Leaf
    <3>3. After(b, at) = [stack |-> rest \o kids, found |-> found]
      BY <1>1, <2>3, <3>2 DEF After
    <3>4. \E j \in DOMAIN (rest \o kids) : (rest \o kids)[j] \in A
      BY <1>3, <3>1
    <3> QED
      BY <3>3, <3>4, SMTT(40) DEF Awaited
  <2> QED
    BY <2>4, <2>5
<1> QED
  BY <1>4, <1>5

\* The order that is found is no lower than that of any leaf that intersects.
LEMMA SearchFinds ==
  ASSUME TreeWhole(nodes, root, maxLeaf), NEW b \in Bounds
  PROVE  /\ Scene!FindMaxOrdering(b) \in Nat
         /\ \A l \in DOMAIN nodes : LeafIn(nodes, l) /\ Scene!Intersects(b, BoxIn(nodes, l)) =>
              nodes[l].max <= Scene!FindMaxOrdering(b)
<1> DEFINE Step(f) ==
             [at \in [stack : Seq(DOMAIN nodes), found : Nat] |->
               IF at.stack = <<>> THEN at.found
               ELSE LET n == Scene!Last(at.stack)
                        rest == Scene!Front(at.stack)
                    IN  IF nodes[n].max <= at.found \/ ~Scene!Intersects(b, Scene!Box(n))
                        THEN f[[stack |-> rest, found |-> at.found]]
                        ELSE IF Scene!Leaf(n) THEN f[[stack |-> rest, found |-> nodes[n].max]]
                        ELSE f[[stack |-> rest \o nodes[n].kids, found |-> at.found]]]
           u == CHOOSE g : g = Step(g)
           start == [stack |-> <<root>>, found |-> 0]
<1>1. Scene!FindMaxOrdering(b) =
        IF root = 0 THEN 0
        ELSE IF Scene!Intersects(b, Scene!Box(maxLeaf)) THEN nodes[maxLeaf].max ELSE u[start]
  BY DEF Scene!FindMaxOrdering
<1> HIDE DEF u, start
<1>2. NodesTyped(nodes) /\ \E h : Lower(nodes, h)
  BY DEF TreeWhole
<1>3. \A f : Step(f) = [at \in SearchState |-> IF at.stack = <<>> THEN at.found ELSE f[After(b, at)]]
  BY DEF After, Visited, SearchState
<1>4. PICK h : Lower(nodes, h)
  BY <1>2
<1>5. PICK p : Powers(p, MaxChildren)
  BY PowersExist, SceneConstants
<1> DEFINE w == [n \in DOMAIN nodes |-> p[h[n]]]
           len == [at \in SearchState |-> IF at.stack = <<>> THEN 0 ELSE Weight(at.stack, w)]
           stop == {at \in SearchState : at.stack = <<>>}
           base == [at \in SearchState |-> at.found]
           next == [at \in SearchState |-> IF at.stack = <<>> THEN at ELSE After(b, at)]
           add == [at \in SearchState |-> [v \in Nat |-> v]]
<1>6. \A n \in DOMAIN nodes : w[n] = p[h[n]]
  OBVIOUS
<1> HIDE DEF w
<1>7. ASSUME NEW at \in SearchState, at.stack # <<>>
      PROVE  /\ After(b, at) \in SearchState
             /\ Weight(at.stack, w) \in Nat /\ Weight(After(b, at).stack, w) \in Nat
             /\ Weight(After(b, at).stack, w) < Weight(at.stack, w)
  BY <1>2, <1>4, <1>5, <1>6, <1>7, SearchEnds
<1>8. \A at \in SearchState : at.found \in Nat
  BY DEF SearchState
<1>9. Recursion(SearchState, Nat, len, stop, base, next, add)
  <2>1. len \in [SearchState -> Nat] /\ next \in [SearchState -> SearchState]
    BY <1>7
  <2>2. stop \in SUBSET SearchState /\ base \in [SearchState -> Nat] /\ add \in [SearchState -> [Nat -> Nat]]
    BY <1>8
  <2>3. ASSUME NEW at \in SearchState, at \notin stop PROVE len[next[at]] < len[at]
    <3>1. at.stack # <<>> /\ next[at] = After(b, at) /\ len[at] = Weight(at.stack, w)
      BY <2>3
    <3>2. /\ After(b, at) \in SearchState
          /\ Weight(at.stack, w) \in Nat /\ Weight(After(b, at).stack, w) \in Nat
          /\ Weight(After(b, at).stack, w) < Weight(at.stack, w)
      BY <1>7, <3>1
    <3>3. len[After(b, at)] = 0 \/ len[After(b, at)] = Weight(After(b, at).stack, w)
      BY <3>2
    <3> HIDE DEF len, next, stop
    <3> QED
      BY <3>1, <3>2, <3>3
  <2> HIDE DEF len, stop, base, next, add
  <2> QED
    BY <2>1, <2>2, <2>3 DEF Recursion
<1>a. /\ len \in [SearchState -> Nat]
      /\ \A at \in SearchState : at.stack # <<>> => len[After(b, at)] < len[at]
  <2>1. len \in [SearchState -> Nat] /\ \A at \in SearchState : at \notin stop => len[next[at]] < len[at]
    <3> HIDE DEF len, stop, base, next, add
    <3> QED
      BY <1>9 DEF Recursion
  <2>2. \A at \in SearchState : at.stack # <<>> => at \notin stop /\ next[at] = After(b, at)
    OBVIOUS
  <2> HIDE DEF len, stop, base, next, add
  <2> QED
    BY <2>1, <2>2
<1>10. PICK g : Solves(g, SearchState, Nat, stop, base, next, add)
  <2> HIDE DEF len, stop, base, next, add
  <2> QED
    BY <1>9, RecursionExists
<1>11. g \in [SearchState -> Nat]
  BY <1>10 DEF Solves
<1>12. ASSUME NEW at \in SearchState
       PROVE  g[at] = IF at.stack = <<>> THEN at.found ELSE g[After(b, at)]
  <2>1. g[at] = IF at \in stop THEN base[at] ELSE add[at][g[next[at]]]
    <3> HIDE DEF stop, base, next, add
    <3> QED
      BY <1>10 DEF Solves
  <2>2. CASE at.stack = <<>>
    <3>1. at \in stop /\ base[at] = at.found
      BY <2>2
    <3> QED
      BY <2>1, <2>2, <3>1
  <2>3. CASE at.stack # <<>>
    <3>1. at \notin stop /\ next[at] = After(b, at) /\ After(b, at) \in SearchState
      BY <1>7, <2>3
    <3>2. g[After(b, at)] \in Nat
      BY <1>11, <3>1
    <3>3. add[at][g[After(b, at)]] = g[After(b, at)]
      BY <3>2
    <3> HIDE DEF stop, base, next, add
    <3> QED
      BY <2>1, <2>3, <3>1, <3>3
  <2> QED
    BY <2>2, <2>3
<1> HIDE DEF len, stop, base, next, add
<1>13. g = Step(g)
  <2>1. Step(g) = [at \in SearchState |-> IF at.stack = <<>> THEN at.found ELSE g[After(b, at)]]
    BY <1>3
  <2> HIDE DEF Step
  <2> QED
    BY <1>11, <1>12, <2>1
<1>14. u = [at \in SearchState |-> IF at.stack = <<>> THEN at.found ELSE u[After(b, at)]]
  <2>1. u = Step(u)
    <3> HIDE DEF Step
    <3> QED
      BY <1>13 DEF u
  <2> HIDE DEF Step
  <2> QED
    BY <1>3, <2>1
<1>15. ASSUME NEW at \in SearchState
       PROVE  u[at] = IF at.stack = <<>> THEN at.found ELSE u[After(b, at)]
  BY <1>14
<1> HIDE DEF Step
<1> DEFINE Meets(l, A) ==
             LeafIn(nodes, l) /\ Reaches(nodes, root, A, l) /\ Scene!Intersects(b, BoxIn(nodes, l))
           Good(at) ==
             /\ u[at] \in Nat /\ at.found <= u[at]
             /\ \A l \in DOMAIN nodes : \A A : Meets(l, A) /\ Awaited(l, A, at) => nodes[l].max <= u[at]
           Bad == {k \in Nat : \E at \in SearchState : len[at] = k /\ ~Good(at)}
<1>16. \A at \in SearchState : Good(at)
  <2> SUFFICES ASSUME Bad # {} PROVE FALSE
    <3> HIDE DEF Good
    <3> QED
      BY <1>a
  <2>1. PICK k \in Bad : \A m \in Bad : k <= m
    <3>1. Bad \in SUBSET Nat
      OBVIOUS
    <3> HIDE DEF Bad
    <3> QED
      BY <3>1, LeastNat
  <2>2. PICK at \in SearchState : len[at] = k /\ ~Good(at)
    <3> HIDE DEF Good
    <3> QED
      OBVIOUS
  <2>3. CASE at.stack = <<>>
    <3>1. u[at] = at.found /\ at.found \in Nat
      BY <1>8, <1>15, <2>3
    <3>2. \A l \in DOMAIN nodes : \A A : Awaited(l, A, at) => nodes[l].max <= at.found
      BY <2>3 DEF Awaited
    <3> QED
      BY <2>2, <3>1, <3>2
  <2>4. CASE at.stack # <<>>
    <3> DEFINE on == After(b, at)
    <3>1. on \in SearchState /\ u[at] = u[on] /\ len[on] < k /\ len[on] \in Nat /\ k \in Nat
      BY <1>7, <1>15, <1>a, <2>2, <2>4
    <3> HIDE DEF on
    <3>2. len[on] \notin Bad
      <4> HIDE DEF Bad
      <4> QED
        BY <2>1, <3>1
    <3>3. Good(on)
      <4> HIDE DEF Good
      <4> QED
        BY <3>1, <3>2
    <3>4. ASSUME NEW l \in DOMAIN nodes, NEW A, Meets(l, A), Awaited(l, A, at)
          PROVE  nodes[l].max <= u[at] 
      <4>1. Awaited(l, A, on)
        BY <1>2, <2>4, <3>4, SearchKeeps DEF on
      <4> QED
        BY <3>1, <3>3, <3>4, <4>1
    <3>5. at.found <= on.found
      BY <1>2, <1>8, <2>4, SearchRises DEF on
    <3> QED
      BY <1>8, <2>2, <3>1, <3>3, <3>4, <3>5
  <2> QED
    BY <2>3, <2>4
<1>17. CASE root = 0
  <2>1. nodes = <<>> /\ DOMAIN nodes = {}
    BY <1>17 DEF TreeWhole
  <2> QED
    BY <1>1, <1>17, <2>1
<1>18. CASE root # 0 /\ Scene!Intersects(b, Scene!Box(maxLeaf))
  <2>1. maxLeaf \in DOMAIN nodes /\ LeavesReached(nodes, root, maxLeaf)
    BY <1>2, <1>18 DEF TreeWhole, NodesTyped
  <2>2. nodes[maxLeaf].max \in Nat
    BY <1>2, <2>1, NodesAre
  <2> QED
    BY <1>1, <1>18, <2>1, <2>2 DEF LeavesReached
<1>19. CASE root # 0 /\ ~Scene!Intersects(b, Scene!Box(maxLeaf))
  <2>1. root \in DOMAIN nodes /\ LeavesReached(nodes, root, maxLeaf)
    BY <1>2, <1>19 DEF TreeWhole, NodesTyped
  <2>2. start \in SearchState /\ DOMAIN start.stack = {1} /\ start.stack[1] = root
    BY <2>1 DEF start, SearchState
  <2>3. Good(start)
    <3> HIDE DEF Good
    <3> QED
      BY <1>16, <2>2
  <2>4. ASSUME NEW l \in DOMAIN nodes, LeafIn(nodes, l), Scene!Intersects(b, BoxIn(nodes, l))
        PROVE  nodes[l].max <= u[start]
    <3>1. PICK A : Reaches(nodes, root, A, l)
      BY <2>1, <2>4 DEF LeavesReached
    <3>2. Awaited(l, A, start)
      BY <2>2, <3>1 DEF Awaited, Reaches
    <3> QED
      BY <2>3, <2>4, <3>1, <3>2
  <2> QED
    BY <1>1, <1>19, <2>3, <2>4
<1> QED
  BY <1>17, <1>18, <1>19

LEMMA CostIs ==
  ASSUME NEW a \in Bounds, NEW b \in Bounds
  PROVE  Scene!Cost(a, b) \in Nat
<1> PICK c \in Bounds : c = Scene!Union(a, b)
  BY UnionHolds
<1>1. c.hi \in Int /\ c.lo \in Int /\ c.lo < c.hi
  BY DEF Bounds
<1> QED
  BY <1>1 DEF Scene!Cost

LEMMA BestIs ==
  ASSUME NodesTyped(nodes), NEW b \in Bounds, NEW n \in DOMAIN nodes, ~LeafIn(nodes, n)
  PROVE  Scene!Best(n, b) \in DOMAIN nodes[n].kids
<1> PICK D : D = DOMAIN nodes
  OBVIOUS
<1> PICK kids \in Seq(D) : kids = nodes[n].kids
  BY NodesAre
<1> PICK k \in Nat \ {0} : k = Len(kids) /\ DOMAIN kids = 1..k
  BY DEF LeafIn
<1> DEFINE c == [i \in 1..k |-> Scene!Cost(b, Scene!Box(kids[i]))]
<1>1. \A i \in 1..k : c[i] = Scene!Cost(b, Scene!Box(kids[i])) /\ c[i] \in Nat
  <2> SUFFICES ASSUME NEW i \in 1..k PROVE Scene!Cost(b, Scene!Box(kids[i])) \in Nat
    OBVIOUS
  <2>1. kids[i] \in D
    OBVIOUS
  <2>2. Scene!Box(kids[i]) \in Bounds
    BY <2>1, NodesAre DEF Scene!Box, BoxIn
  <2> QED
    BY <2>2, CostIs
<1> HIDE DEF c
<1>2. \E i \in 1..k : \A j \in 1..k : c[i] < c[j] \/ (c[i] = c[j] /\ i <= j)
  BY <1>1, FirstCheapest
<1>3. \E i \in DOMAIN nodes[n].kids : \A j \in DOMAIN nodes[n].kids :
        LET ci == Scene!Cost(b, Scene!Box(nodes[n].kids[i]))
            cj == Scene!Cost(b, Scene!Box(nodes[n].kids[j]))
        IN  ci < cj \/ (ci = cj /\ i <= j)
  <2>1. PICK i \in 1..k : \A j \in 1..k : c[i] < c[j] \/ (c[i] = c[j] /\ i <= j)
    BY <1>2
  <2>2. \A j \in 1..k : c[j] = Scene!Cost(b, Scene!Box(nodes[n].kids[j]))
    BY <1>1
  <2>3. \A j \in 1..k : LET ci == Scene!Cost(b, Scene!Box(nodes[n].kids[i]))
                             cj == Scene!Cost(b, Scene!Box(nodes[n].kids[j]))
                         IN  ci < cj \/ (ci = cj /\ i <= j)
    BY <2>1, <2>2, Zenon
  <2>4. DOMAIN nodes[n].kids = 1..k
    OBVIOUS
  <2> QED
    BY <2>3, <2>4, Zenon
<1> QED
  BY <1>3 DEF Scene!Best

-----------------------------------------------------------------------------
\* The way down to the node above the best leaf.
Inner == {m \in DOMAIN nodes : ~Scene!Leaf(m)}
Child(n, b) == nodes[n].kids[Scene!Best(n, b)]
DownFrom(b) ==
  LET Down[n \in {m \in DOMAIN nodes : ~Scene!Leaf(m)}] ==
        LET child == nodes[n].kids[Scene!Best(n, b)]
        IN  IF Scene!Leaf(child) THEN <<n>> ELSE <<n>> \o Down[child]
  IN  Down

Trail(s, n, b) ==
  /\ s \in Seq(Inner) /\ Len(s) > 0 /\ \E i \in DOMAIN s : s[i] = n
  /\ Scene!Leaf(Child(Scene!Last(s), b))
  /\ \A i \in DOMAIN s : s[i] = Scene!Last(s) \/ \E j \in DOMAIN s : s[j] = Child(s[i], b)

LEMMA ChildIs ==
  ASSUME NodesTyped(nodes), NEW b \in Bounds, NEW n \in Inner
  PROVE  /\ Child(n, b) \in DOMAIN nodes /\ Scene!Best(n, b) \in DOMAIN nodes[n].kids
         /\ \A h : Lower(nodes, h) => h[Child(n, b)] < h[n]
<1>1. n \in DOMAIN nodes /\ ~LeafIn(nodes, n)
  BY DEF Inner, LeafIn, Scene!Leaf
<1>2. Scene!Best(n, b) \in DOMAIN nodes[n].kids
  BY <1>1, BestIs
<1>3. Child(n, b) \in DOMAIN nodes
  BY <1>1, <1>2, NodesAre DEF Child
<1> QED
  BY <1>1, <1>2, <1>3 DEF Lower, Child

LEMMA TrailOfOne ==
  ASSUME NodesTyped(nodes), NEW b \in Bounds, NEW n \in Inner, Scene!Leaf(Child(n, b))
  PROVE  Trail(<<n>>, n, b)
<1>1. <<n>> \in Seq(Inner) /\ Len(<<n>>) = 1 /\ <<n>>[1] = n /\ DOMAIN <<n>> = {1}
  OBVIOUS
<1>2. Scene!Last(<<n>>) = n
  BY <1>1 DEF Scene!Last
<1> QED
  BY <1>1, <1>2 DEF Trail

LEMMA TrailLonger ==
  ASSUME NodesTyped(nodes), NEW b \in Bounds, NEW n \in Inner, NEW s, Trail(s, Child(n, b), b)
  PROVE  Trail(<<n>> \o s, n, b)
<1> PICK t \in Seq(Inner) : t = s /\ Len(t) > 0
  BY DEF Trail
<1> PICK k \in Nat \ {0} : k = Len(t) /\ DOMAIN t = 1..k
  OBVIOUS
<1> PICK a \in Seq(Inner) : a = <<n>> \o t
  <2>1. <<n>> \in Seq(Inner)
    OBVIOUS
  <2>2. <<n>> \o t \in Seq(Inner)
    BY <2>1, ConcatProperties
  <2> QED
    BY <2>2
<1>1. /\ Len(a) = 1 + k /\ DOMAIN a = 1..(1 + k)
      /\ a[1] = n /\ \A i \in 1..k : a[i + 1] = t[i]
  <2> PICK one \in Seq(Inner) : one = <<n>> /\ Len(one) = 1 /\ one[1] = n
    <3>1. <<n>> \in Seq(Inner) /\ Len(<<n>>) = 1 /\ <<n>>[1] = n
      OBVIOUS
    <3> QED
      BY <3>1
  <2>1. /\ Len(a) = 1 + k
        /\ \A i \in 1..(1 + k) : a[i] = IF i <= 1 THEN one[i] ELSE t[i - 1]
    BY ConcatProperties
  <2>2. 1 \in 1..(1 + k) /\ \A i \in 1..k : i + 1 \in 1..(1 + k) /\ ~(i + 1 <= 1) /\ (i + 1) - 1 = i
    OBVIOUS
  <2>3. DOMAIN a = 1..Len(a)
    OBVIOUS
  <2> QED
    BY <2>1, <2>2, <2>3
<1>2. Scene!Last(a) = t[k] /\ Scene!Last(t) = t[k]
  BY <1>1 DEF Scene!Last
<1>3. /\ \E i \in 1..k : t[i] = Child(n, b)
      /\ Scene!Leaf(Child(t[k], b))
      /\ \A i \in 1..k : t[i] = t[k] \/ \E j \in 1..k : t[j] = Child(t[i], b)
  BY <1>2 DEF Trail
<1>4. \A i \in 1..(1 + k) : i = 1 \/ (i - 1 \in 1..k /\ a[i] = t[i - 1])
  <2> SUFFICES ASSUME NEW i \in 1..(1 + k), i # 1 PROVE i - 1 \in 1..k /\ a[i] = t[i - 1]
    OBVIOUS
  <2>1. i - 1 \in 1..k /\ (i - 1) + 1 = i
    OBVIOUS
  <2> QED
    BY <1>1, <2>1
<1>5. \A i \in 1..k : i + 1 \in 1..(1 + k)
  OBVIOUS
<1>6. ASSUME NEW i \in 1..(1 + k)
      PROVE  a[i] = t[k] \/ \E j \in 1..(1 + k) : a[j] = Child(a[i], b)
  <2>1. CASE i = 1
    <3>1. PICK j \in 1..k : t[j] = Child(n, b)
      BY <1>3
    <3>2. a[j + 1] = Child(a[i], b) /\ j + 1 \in 1..(1 + k)
      BY <1>1, <1>5, <2>1, <3>1
    <3> QED
      BY <3>2
  <2>2. CASE i # 1
    <3>1. i - 1 \in 1..k /\ a[i] = t[i - 1]
      BY <1>4, <2>2
    <3>2. CASE t[i - 1] = t[k]
      BY <3>1, <3>2
    <3>3. CASE \E j \in 1..k : t[j] = Child(t[i - 1], b)
      <4>1. PICK j \in 1..k : t[j] = Child(t[i - 1], b)
        BY <3>3
      <4>2. a[j + 1] = Child(a[i], b) /\ j + 1 \in 1..(1 + k)
        BY <1>1, <1>5, <3>1, <4>1
      <4> QED
        BY <4>2
    <3> QED
      BY <1>3, <3>1, <3>2, <3>3
  <2> QED
    BY <2>1, <2>2
<1>7. 1 \in 1..(1 + k) /\ Len(a) > 0
  BY <1>1
<1> QED
  BY <1>1, <1>2, <1>3, <1>6, <1>7, ZenonT(40) DEF Trail

LEMMA DownLeads ==
  ASSUME NodesTyped(nodes), \E h : Lower(nodes, h), NEW b \in Bounds
  PROVE  \A n \in Inner : Trail(DownFrom(b)[n], n, b)
<1> PICK h : Lower(nodes, h)
  OBVIOUS
<1> DEFINE Step(f) == [n \in {m \in DOMAIN nodes : ~Scene!Leaf(m)} |->
                        LET child == nodes[n].kids[Scene!Best(n, b)]
                        IN  IF Scene!Leaf(child) THEN <<n>> ELSE <<n>> \o f[child]]
           u == CHOOSE g : g = Step(g)
<1>1. DownFrom(b) = u
  BY DEF DownFrom
<1> HIDE DEF u
<1>2. \A f : Step(f) = [n \in Inner |-> IF Scene!Leaf(Child(n, b)) THEN <<n>> ELSE <<n>> \o f[Child(n, b)]]
  BY DEF Inner, Child
<1>3. \A n \in Inner : ~Scene!Leaf(Child(n, b)) => Child(n, b) \in Inner
  BY ChildIs DEF Inner
<1>4. \A n \in Inner : h[n] \in Nat /\ h[Child(n, b)] < h[n]
  BY ChildIs DEF Inner, Lower
<1> DEFINE V == Seq(Inner)
           len == [n \in Inner |-> h[n]]
           stop == {n \in Inner : Scene!Leaf(Child(n, b))}
           base == [n \in Inner |-> <<n>>]
           next == [n \in Inner |-> IF Scene!Leaf(Child(n, b)) THEN n ELSE Child(n, b)]
           add == [n \in Inner |-> [v \in V |-> <<n>> \o v]]
<1>5. Recursion(Inner, V, len, stop, base, next, add)
  <2>1. /\ len \in [Inner -> Nat] /\ stop \in SUBSET Inner
        /\ next \in [Inner -> Inner] /\ \A n \in Inner : n \notin stop => len[next[n]] < len[n]
    BY <1>3, <1>4
  <2>2. base \in [Inner -> V]
    OBVIOUS
  <2>3. add \in [Inner -> [V -> V]]
    <3>1. \A n \in Inner : \A v \in V : <<n>> \o v \in V
      BY ConcatProperties
    <3> HIDE DEF V
    <3> QED
      BY <3>1
  <2> HIDE DEF len, stop, base, next, add, V
  <2> QED
    BY <2>1, <2>2, <2>3 DEF Recursion
<1>6. PICK g : Solves(g, Inner, V, stop, base, next, add)
  <2> HIDE DEF len, stop, base, next, add, V
  <2> QED
    BY <1>5, RecursionExists
<1>7. g \in [Inner -> V]
  BY <1>6 DEF Solves
<1>8. ASSUME NEW n \in Inner
      PROVE  g[n] = IF Scene!Leaf(Child(n, b)) THEN <<n>> ELSE <<n>> \o g[Child(n, b)]
  <2>1. g[n] = IF n \in stop THEN base[n] ELSE add[n][g[next[n]]]
    <3> HIDE DEF stop, base, next, add, V
    <3> QED
      BY <1>6 DEF Solves
  <2>2. CASE Scene!Leaf(Child(n, b))
    <3>1. n \in stop /\ base[n] = <<n>>
      BY <2>2
    <3> QED
      BY <2>1, <2>2, <3>1
  <2>3. CASE ~Scene!Leaf(Child(n, b))
    <3>1. n \notin stop /\ next[n] = Child(n, b) /\ Child(n, b) \in Inner
      BY <1>3, <2>3
    <3>2. g[Child(n, b)] \in V
      BY <1>7, <3>1
    <3>3. add[n][g[Child(n, b)]] = <<n>> \o g[Child(n, b)]
      <4> HIDE DEF V
      <4> QED
        BY <3>2
    <3> HIDE DEF stop, base, next, add
    <3> QED
      BY <2>1, <2>3, <3>1, <3>3
  <2> QED
    BY <2>2, <2>3
<1> HIDE DEF len, stop, base, next, add, V
<1>9. g = Step(g)
  <2>1. Step(g) = [n \in Inner |-> IF Scene!Leaf(Child(n, b)) THEN <<n>> ELSE <<n>> \o g[Child(n, b)]]
    BY <1>2
  <2> HIDE DEF Step
  <2> QED
    BY <1>7, <1>8, <2>1
<1>10. ASSUME NEW n \in Inner
       PROVE  u[n] = IF Scene!Leaf(Child(n, b)) THEN <<n>> ELSE <<n>> \o u[Child(n, b)]
  <2>1. u = Step(u)
    <3> HIDE DEF Step
    <3> QED
      BY <1>9 DEF u
  <2>2. u = [m \in Inner |-> IF Scene!Leaf(Child(m, b)) THEN <<m>> ELSE <<m>> \o u[Child(m, b)]]
    <3> HIDE DEF Step
    <3> QED
      BY <1>2, <2>1
  <2> QED
    BY <2>2
<1> HIDE DEF Step
<1> DEFINE Bad == {k \in Nat : \E n \in Inner : h[n] = k /\ ~Trail(u[n], n, b)}
<1> SUFFICES ASSUME Bad # {} PROVE FALSE
  BY <1>1, <1>4
<1>11. PICK k \in Bad : \A m \in Bad : k <= m
  <2>1. Bad \in SUBSET Nat
    OBVIOUS
  <2> HIDE DEF Bad
  <2> QED
    BY <2>1, LeastNat
<1>12. PICK n \in Inner : h[n] = k /\ ~Trail(u[n], n, b)
  OBVIOUS
<1>13. CASE Scene!Leaf(Child(n, b))
  BY <1>10, <1>12, <1>13, TrailOfOne
<1>14. CASE ~Scene!Leaf(Child(n, b))
  <2>1. Child(n, b) \in Inner /\ h[Child(n, b)] \in Nat /\ h[Child(n, b)] < k
    BY <1>3, <1>4, <1>12, <1>14
  <2>2. h[Child(n, b)] \notin Bad
    <3>1. k \in Nat
      OBVIOUS
    <3> HIDE DEF Bad
    <3> QED
      BY <1>11, <2>1, <3>1
  <2>3. Trail(u[Child(n, b)], Child(n, b), b)
    BY <2>1, <2>2
  <2>4. Trail(<<n>> \o u[Child(n, b)], n, b)
    BY <2>3, TrailLonger
  <2> QED
    BY <1>10, <1>12, <1>14, <2>4
<1> QED
  BY <1>13, <1>14

Has(s, e) == \E i \in DOMAIN s : s[i] = e

LEMMA SwapLastHas ==
  ASSUME NEW D, NEW s \in Seq(D), NEW i \in DOMAIN s
  PROVE  /\ Scene!SwapLast(s, i) \in Seq(D) /\ Len(Scene!SwapLast(s, i)) = Len(s)
         /\ \A e : Has(Scene!SwapLast(s, i), e) <=> Has(s, e)
<1> PICK k \in Nat \ {0} : k = Len(s) /\ DOMAIN s = 1..k
  OBVIOUS
<1>0. i \in 1..k /\ k \in 1..k /\ \A j \in 1..k : s[j] \in D
  OBVIOUS
<1> DEFINE t == [s EXCEPT ![i] = s[k], ![k] = s[i]]
<1>1. Scene!SwapLast(s, i) = t
  BY DEF Scene!SwapLast, Scene!Last
<1>2. /\ t \in Seq(D) /\ Len(t) = k
      /\ \A j \in 1..k : t[j] = IF j = k THEN s[i] ELSE IF j = i THEN s[k] ELSE s[j]
  <2> PICK r \in Seq(D) : r = [s EXCEPT ![i] = s[k]] /\ Len(r) = k /\ \A j \in 1..k : r[j] = IF j = i THEN s[k] ELSE s[j]
    <3> PICK at \in 1..Len(s), x \in D : at = i /\ x = s[k]
      BY <1>0
    <3>1. /\ [s EXCEPT ![at] = x] \in Seq(D) /\ Len([s EXCEPT ![at] = x]) = Len(s)
          /\ \A j \in 1..Len(s) : [s EXCEPT ![at] = x][j] = IF j = at THEN x ELSE s[j]
      BY ExceptSeq
    <3> QED
      BY <3>1
  <2>1. /\ [r EXCEPT ![k] = s[i]] \in Seq(D) /\ Len([r EXCEPT ![k] = s[i]]) = k
        /\ \A j \in 1..k : [r EXCEPT ![k] = s[i]][j] = IF j = k THEN s[i] ELSE r[j]
    BY <1>0, ExceptSeq
  <2>2. t = [r EXCEPT ![k] = s[i]]
    OBVIOUS
  <2> HIDE DEF t
  <2> QED
    BY <2>1, <2>2
<1> HIDE DEF t
<1>3. DOMAIN t = 1..k
  BY <1>2
<1>4. \A e : Has(t, e) => Has(s, e)
  BY <1>0, <1>2, <1>3 DEF Has
<1>5. ASSUME NEW e, Has(s, e) PROVE Has(t, e)
  <2>1. PICK j \in 1..k : s[j] = e
    BY <1>5 DEF Has
  <2>2. t[k] = s[i] /\ (i # k => t[i] = s[k]) /\ (j # k /\ j # i => t[j] = s[j]) /\ (i = k => t[k] = s[k])
    BY <1>0, <1>2
  <2> QED
    BY <1>0, <1>3, <2>1, <2>2 DEF Has
<1> QED
  BY <1>1, <1>2, <1>4, <1>5

LEMMA AddedHas ==
  ASSUME NEW D, NEW s \in Seq(D), s # <<>>, NEW x \in D
  PROVE  /\ Append(s, x) \in Seq(D) /\ Len(Append(s, x)) = Len(s) + 1
         /\ \A e : Has(Append(s, x), e) <=> Has(s, e) \/ e = x
         /\ Scene!InsertAt(s, Len(s), x) \in Seq(D) /\ Len(Scene!InsertAt(s, Len(s), x)) = Len(s) + 1
         /\ \A e : Has(Scene!InsertAt(s, Len(s), x), e) <=> Has(s, e) \/ e = x
<1> PICK k \in Nat \ {0} : k = Len(s) /\ DOMAIN s = 1..k
  OBVIOUS
<1>0. /\ \A j \in 1..k : s[j] \in D /\ j \in 1..(k + 1)
      /\ k + 1 \in 1..(k + 1) /\ k \in 1..k /\ \A j \in 1..(k + 1) : j \in 1..k \/ j = k + 1
  OBVIOUS
<1> PICK a \in Seq(D) : /\ a = Append(s, x) /\ Len(a) = k + 1
                        /\ \A j \in 1..k : a[j] = s[j]
                        /\ a[k + 1] = x
  BY AppendProperties, ZenonT(40)
<1>1. DOMAIN a = 1..(k + 1)
  OBVIOUS
<1>2. \A e : Has(a, e) <=> Has(s, e) \/ e = x
  BY <1>0, <1>1 DEF Has
<1>3. PICK c \in Seq(D) : /\ c = Scene!InsertAt(s, k, x) /\ Len(c) = k + 1
                          /\ \A j \in 1..(k + 1) : c[j] = IF j <= k - 1 THEN s[j] ELSE IF j = k THEN x ELSE s[k]
  <2> PICK front \in Seq(D) : front = SubSeq(s, 1, k - 1) /\ Len(front) = k - 1 /\ \A j \in 1..(k - 1) : front[j] = s[j]
    <3>1. \A j \in 1..(k - 1) : s[j] \in D
      BY <1>0
    <3>2. /\ SubSeq(s, 1, k - 1) \in Seq(D)
          /\ Len(SubSeq(s, 1, k - 1)) = IF 1 <= k - 1 THEN (k - 1) - 1 + 1 ELSE 0
          /\ \A j \in 1..((k - 1) - 1 + 1) : SubSeq(s, 1, k - 1)[j] = s[1 + j - 1]
      BY <3>1, SubSeqProperties
    <3>3. Len(SubSeq(s, 1, k - 1)) = k - 1 /\ \A j \in 1..(k - 1) : SubSeq(s, 1, k - 1)[j] = s[j]
      BY <3>2
    <3> QED
      BY <3>2, <3>3
  <2> PICK one \in Seq(D) : one = <<x>> /\ Len(one) = 1 /\ one[1] = x
    <3>1. <<x>> \in Seq(D) /\ Len(<<x>>) = 1 /\ <<x>>[1] = x
      OBVIOUS
    <3> QED
      BY <3>1
  <2> PICK last_ \in Seq(D) : last_ = SubSeq(s, k, k) /\ Len(last_) = 1 /\ last_[1] = s[k]
    <3>1. \A j \in k..k : s[j] \in D
      BY <1>0
    <3>2. /\ SubSeq(s, k, k) \in Seq(D)
          /\ Len(SubSeq(s, k, k)) = IF k <= k THEN k - k + 1 ELSE 0
          /\ \A j \in 1..(k - k + 1) : SubSeq(s, k, k)[j] = s[k + j - 1]
      BY <3>1, SubSeqProperties
    <3>3. Len(SubSeq(s, k, k)) = 1 /\ SubSeq(s, k, k)[1] = s[k]
      BY <3>2
    <3> QED
      BY <3>2, <3>3
  <2> PICK fo \in Seq(D) : /\ fo = front \o one /\ Len(fo) = k
                           /\ \A j \in 1..k : fo[j] = IF j <= k - 1 THEN front[j] ELSE one[j - (k - 1)]
    <3>1. /\ front \o one \in Seq(D) /\ Len(front \o one) = Len(front) + Len(one)
          /\ \A j \in 1..(Len(front) + Len(one)) : (front \o one)[j] = IF j <= Len(front) THEN front[j] ELSE one[j - Len(front)]
      BY ConcatProperties
    <3>2. Len(front) + Len(one) = k /\ Len(front) = k - 1
      OBVIOUS
    <3>3. Len(front \o one) = k /\ \A j \in 1..k : (front \o one)[j] = IF j <= k - 1 THEN front[j] ELSE one[j - (k - 1)]
      BY <3>1, <3>2
    <3>4. front \o one \in Seq(D)
      BY <3>1
    <3> QED
      BY <3>3, <3>4, Zenon
  <2> PICK c \in Seq(D) : c = fo \o last_ /\ Len(c) = k + 1 /\ \A j \in 1..(k + 1) : c[j] = IF j <= k THEN fo[j] ELSE last_[j - k]
    <3>1. /\ fo \o last_ \in Seq(D) /\ Len(fo \o last_) = Len(fo) + Len(last_)
          /\ \A j \in 1..(Len(fo) + Len(last_)) : (fo \o last_)[j] = IF j <= Len(fo) THEN fo[j] ELSE last_[j - Len(fo)]
      BY ConcatProperties
    <3>2. Len(fo) + Len(last_) = k + 1 /\ Len(fo) = k
      OBVIOUS
    <3>3. Len(fo \o last_) = k + 1 /\ \A j \in 1..(k + 1) : (fo \o last_)[j] = IF j <= k THEN fo[j] ELSE last_[j - k]
      BY <3>1, <3>2
    <3>4. fo \o last_ \in Seq(D)
      BY <3>1
    <3> QED
      BY <3>3, <3>4, Zenon
  <2>1. c = Scene!InsertAt(s, k, x)
    BY DEF Scene!InsertAt
  <2>2. \A j \in 1..(k + 1) : c[j] = IF j <= k - 1 THEN s[j] ELSE IF j = k THEN x ELSE s[k]
    <3> SUFFICES ASSUME NEW j \in 1..(k + 1)
                 PROVE  c[j] = IF j <= k - 1 THEN s[j] ELSE IF j = k THEN x ELSE s[k]
      OBVIOUS
    <3>1. CASE j <= k - 1
      <4>1. j \in 1..(k - 1) /\ j \in 1..k /\ j <= k
        BY <3>1
      <4> QED
        BY <3>1, <4>1
    <3>2. CASE j = k
      <4>1. ~(j <= k - 1) /\ j <= k /\ j - (k - 1) = 1 /\ j \in 1..k
        BY <3>2
      <4>2. c[j] = fo[j] /\ fo[j] = one[1]
        BY <4>1
      <4> QED
        BY <3>2, <4>1, <4>2
    <3>3. CASE j = k + 1
      <4>1. ~(j <= k - 1) /\ ~(j <= k) /\ j # k /\ j - k = 1
        BY <3>3
      <4>2. c[j] = last_[1]
        BY <4>1
      <4> QED
        BY <4>1, <4>2
    <3> QED
      BY <3>1, <3>2, <3>3
  <2> QED
    BY <2>1, <2>2
<1>4. DOMAIN c = 1..(k + 1)
  BY <1>3
<1>5. \A e : Has(c, e) => Has(s, e) \/ e = x
  <2>1. \A j \in 1..(k + 1) : j <= k - 1 => j \in 1..k
    OBVIOUS
  <2> QED
    BY <1>0, <1>3, <1>4, <2>1 DEF Has
<1>6. c[k] = x /\ c[k + 1] = s[k]
  <2>1. ~(k <= k - 1) /\ ~(k + 1 <= k - 1) /\ k + 1 # k /\ k \in 1..(k + 1)
    OBVIOUS
  <2> QED
    BY <1>0, <1>3, <2>1
<1>7. ASSUME NEW e, Has(s, e) \/ e = x PROVE Has(c, e)
  <2>1. CASE e = x
    BY <1>0, <1>4, <1>6, <2>1 DEF Has
  <2>2. CASE Has(s, e)
    <3>1. PICK j \in 1..k : s[j] = e
      BY <2>2 DEF Has
    <3>2. j = k \/ (j <= k - 1 /\ j \in 1..(k + 1))
      OBVIOUS
    <3>3. j # k => c[j] = s[j]
      BY <1>3, <3>2
    <3> QED
      BY <1>0, <1>4, <1>6, <3>1, <3>2, <3>3 DEF Has
  <2> QED
    BY <1>7, <2>1, <2>2
<1> QED
  BY <1>2, <1>3, <1>5, <1>7

\* One of the kids gives way to another.
Replaced(r, D, s, i, x) ==
  /\ r \in Seq(D) /\ Len(r) = Len(s) /\ DOMAIN r = DOMAIN s
  /\ Has(r, x)
  /\ \A e : Has(r, e) => Has(s, e) \/ e = x
  /\ \A e : Has(s, e) => Has(r, e) \/ e = s[i]

LEMMA ReplacedHas ==
  ASSUME NEW D, NEW s \in Seq(D), NEW i \in DOMAIN s, NEW x \in D
  PROVE  Replaced([s EXCEPT ![i] = x], D, s, i, x)
<1> PICK k \in Nat \ {0} : k = Len(s) /\ DOMAIN s = 1..k
  OBVIOUS
<1> PICK t \in Seq(D) : t = [s EXCEPT ![i] = x] /\ Len(t) = k /\ \A j \in 1..k : t[j] = IF j = i THEN x ELSE s[j]
  <2> PICK at \in 1..Len(s) : at = i
    OBVIOUS
  <2>1. /\ [s EXCEPT ![at] = x] \in Seq(D) /\ Len([s EXCEPT ![at] = x]) = Len(s)
        /\ \A j \in 1..Len(s) : [s EXCEPT ![at] = x][j] = IF j = at THEN x ELSE s[j]
    BY ExceptSeq
  <2> QED
    BY <2>1
<1>1. DOMAIN t = 1..k
  OBVIOUS
<1>2. /\ Has(t, x)
      /\ \A e : Has(t, e) => Has(s, e) \/ e = x
      /\ \A e : Has(s, e) => Has(t, e) \/ e = s[i]
  BY <1>1 DEF Has
<1> QED
  BY <1>1, <1>2 DEF Replaced

-----------------------------------------------------------------------------
(* Trees that grow by a leaf *)

LEMMA HigherOf ==
  ASSUME NEW a \in Nat, NEW b \in Nat
  PROVE  Scene!Max({a, b}) \in Nat /\ a <= Scene!Max({a, b}) /\ b <= Scene!Max({a, b})
<1> PICK x \in Int, y \in Int : x = a /\ y = b
  OBVIOUS
<1>1. Scene!Max({x, y}) \in {x, y} /\ x <= Scene!Max({x, y}) /\ y <= Scene!Max({x, y})
  BY EdgeOf
<1> QED
  BY <1>1

\* n holds the new leaf, and what it held.
Carries(T, U, n, R, b, order, old, new, above) ==
  /\ BoxIn(U, n) = Scene!Union(BoxIn(T, n), b) /\ U[n].max = Scene!Max({T[n].max, order})
  /\ U[n].kids \in Seq(DOMAIN U) /\ Len(U[n].kids) \in 1..MaxChildren
  /\ \A e : Has(U[n].kids, e) => Has(T[n].kids, e) \/ e = new \/ e = above
  /\ \A e : Has(T[n].kids, e) => Has(U[n].kids, e) \/ (e = old /\ Len(U) = above /\ Has(U[n].kids, above))
  /\ \E e \in DOMAIN U : Has(U[n].kids, e) /\ (e \in R \/ e = new \/ e = above)

\* U is T with a new leaf below all nodes of R, beside old if that takes a node of its own.
Grafted(T, U, R, b, order, old, new, above) ==
  /\ new = Len(T) + 1 /\ above = new + 1
  /\ U \in Seq(NodeType) /\ Len(U) \in {new, above}
  /\ R \in SUBSET DOMAIN T /\ \A n \in R : ~LeafIn(T, n)
  /\ \A n \in DOMAIN T \ R : U[n] = T[n]
  /\ BoxIn(U, new) = b /\ U[new].max = order /\ LeafIn(U, new)
  /\ Len(U) = above =>
       /\ old \in DOMAIN T /\ LeafIn(T, old)
       /\ BoxIn(U, above) = Scene!Union(BoxIn(T, old), b)
       /\ U[above].max = Scene!Max({T[old].max, order})
       /\ U[above].kids \in Seq({old, new}) /\ Len(U[above].kids) = 2
       /\ Has(U[above].kids, old) /\ Has(U[above].kids, new)
  /\ \A n \in R : Carries(T, U, n, R, b, order, old, new, above)

LEMMA GraftedIs ==
  ASSUME NEW T, NEW U, NEW R, NEW b, NEW order, NEW old, NEW new, NEW above,
         NodesTyped(T), Grafted(T, U, R, b, order, old, new, above)
  PROVE  /\ Len(T) \in Nat /\ DOMAIN T = 1..Len(T) /\ new = Len(T) + 1 /\ above = Len(T) + 2
         /\ DOMAIN U = 1..Len(U) /\ DOMAIN T \subseteq DOMAIN U /\ new \in DOMAIN U
         /\ \A n \in DOMAIN U : n \in DOMAIN T \/ n = new \/ n = above
         /\ above \in DOMAIN U <=> Len(U) = above
         /\ new \notin DOMAIN T /\ above \notin DOMAIN T /\ new # above
<1>1. T \in Seq(NodeType)
  BY DEF NodesTyped
<1>2. Len(T) \in Nat /\ DOMAIN T = 1..Len(T)
  BY <1>1
<1>3. /\ new = Len(T) + 1 /\ above = new + 1
      /\ U \in Seq(NodeType) /\ Len(U) \in {new, above}
  BY DEF Grafted
<1>4. DOMAIN U = 1..Len(U)
  BY <1>3, SMTT(40)
<1> PICK k \in Nat : k = Len(T)
  BY <1>2, Zenon
<1> PICK m \in Nat : m = Len(U) /\ m \in {k + 1, k + 2}
  BY <1>3
<1>5. DOMAIN T = 1..k /\ DOMAIN U = 1..m /\ new = k + 1 /\ above = k + 2
  BY <1>2, <1>3, <1>4
<1> QED
  BY <1>5

LEMMA GraftedTyped ==
  ASSUME NEW T, NEW U, NEW R, NEW b \in Bounds, NEW order \in Nat, NEW old, NEW new, NEW above,
         NodesTyped(T), Grafted(T, U, R, b, order, old, new, above)
  PROVE  NodesTyped(U)
<1>0. U \in Seq(NodeType) /\ MaxChildren \in Nat /\ MaxChildren > 1
  BY SceneConstants DEF Grafted, Carries
<1>1. /\ DOMAIN T \subseteq DOMAIN U /\ new \in DOMAIN U
      /\ \A n \in DOMAIN U : n \in DOMAIN T \/ n = new \/ n = above
      /\ above \in DOMAIN U <=> Len(U) = above
  BY GraftedIs
<1> SUFFICES ASSUME NEW n \in DOMAIN U
             PROVE  /\ BoxIn(U, n) \in Bounds
                    /\ U[n].kids \in Seq(DOMAIN U) /\ Len(U[n].kids) <= MaxChildren
  BY <1>0 DEF NodesTyped
<1>2. CASE n \in DOMAIN T \ R
  <2>1. U[n] = T[n] /\ BoxIn(U, n) = BoxIn(T, n)
    BY <1>2 DEF Grafted, Carries, BoxIn
  <2>2. T[n].kids \in Seq(DOMAIN T) /\ Len(T[n].kids) <= MaxChildren /\ BoxIn(T, n) \in Bounds
    BY <1>2, NodesAre
  <2>3. Seq(DOMAIN T) \subseteq Seq(DOMAIN U)
    <3> PICK D, E : D = DOMAIN T /\ E = DOMAIN U /\ D \subseteq E
      BY <1>1
    <3>1. Seq(D) \subseteq Seq(E)
      OBVIOUS
    <3> QED
      BY <3>1
  <2> QED
    BY <2>1, <2>2, <2>3
<1>3. CASE n \in R
  <2>1. n \in DOMAIN T /\ BoxIn(T, n) \in Bounds
    BY <1>3, NodesAre DEF Grafted, Carries
  <2>2. BoxIn(U, n) = Scene!Union(BoxIn(T, n), b)
    BY <1>3 DEF Grafted, Carries
  <2>3. BoxIn(U, n) \in Bounds
    BY <2>1, <2>2, UnionHolds
  <2>4. U[n].kids \in Seq(DOMAIN U) /\ Len(U[n].kids) \in 1..MaxChildren
    BY <1>3 DEF Grafted, Carries
  <2> QED
    BY <1>0, <2>3, <2>4
<1>4. CASE n = new
  <2>1. U[n].kids = <<>> /\ BoxIn(U, n) = b
    BY <1>4 DEF Grafted, Carries, LeafIn
  <2>2. <<>> \in Seq(DOMAIN U) /\ Len(<<>>) <= MaxChildren
    BY <1>0
  <2> QED
    BY <2>1, <2>2
<1>5. CASE n = above
  <2>1. Len(U) = above
    BY <1>1, <1>5
  <2>2. /\ old \in DOMAIN T /\ BoxIn(U, above) = Scene!Union(BoxIn(T, old), b)
        /\ U[above].kids \in Seq({old, new}) /\ Len(U[above].kids) = 2
    BY <2>1 DEF Grafted, Carries
  <2>3. BoxIn(U, above) \in Bounds
    BY <2>2, NodesAre, UnionHolds
  <2>4. Seq({old, new}) \subseteq Seq(DOMAIN U)
    <3>0. {old, new} \subseteq DOMAIN U
      BY <1>1, <2>2
    <3> PICK D, E : D = {old, new} /\ E = DOMAIN U /\ D \subseteq E
      BY <3>0, Zenon
    <3>1. Seq(D) \subseteq Seq(E)
      OBVIOUS
    <3> QED
      BY <3>1
  <2> QED
    BY <1>0, <1>5, <2>2, <2>3, <2>4
<1> QED
  BY <1>1, <1>2, <1>3, <1>4, <1>5

LEMMA GraftedLower ==
  ASSUME NEW T, NEW U, NEW R, NEW b, NEW order, NEW old, NEW new, NEW above,
         NodesTyped(T), NEW h, Lower(T, h), Grafted(T, U, R, b, order, old, new, above)
  PROVE  \E g : Lower(U, g)
<1>1. /\ DOMAIN T \subseteq DOMAIN U /\ new \in DOMAIN U
      /\ \A n \in DOMAIN U : n \in DOMAIN T \/ n = new \/ n = above
      /\ above \in DOMAIN U <=> Len(U) = above
      /\ new \notin DOMAIN T /\ above \notin DOMAIN T /\ new # above
  BY GraftedIs
<1> DEFINE g == [n \in DOMAIN U |-> IF n \in DOMAIN T /\ ~LeafIn(T, n) THEN h[n] + 2
                                    ELSE IF n = above THEN 1 ELSE 0]
<1>2. \A n \in DOMAIN T : h[n] \in Nat
  BY DEF Lower
<1>3. g \in [DOMAIN U -> Nat]
  BY <1>2
<1>4. /\ \A n \in DOMAIN T : ~LeafIn(T, n) => g[n] = h[n] + 2
      /\ \A n \in DOMAIN T : LeafIn(T, n) => g[n] = 0
      /\ g[new] = 0 /\ (above \in DOMAIN U => g[above] = 1)
  BY <1>1
<1>5. g \in [DOMAIN U -> Nat]
  BY <1>2
<1> HIDE DEF g
<1>6. ASSUME NEW n \in DOMAIN T, ~LeafIn(T, n), NEW c \in DOMAIN U,
             Has(T[n].kids, c) \/ c = new \/ c = above
      PROVE  g[c] < g[n]
  <2>1. g[n] = h[n] + 2 /\ h[n] \in Nat
    BY <1>2, <1>4, <1>6
  <2>2. CASE c = new \/ c = above
    BY <1>4, <2>1, <2>2
  <2>3. CASE Has(T[n].kids, c)
    <3>1. c \in DOMAIN T /\ h[c] < h[n] /\ h[c] \in Nat
      BY <1>2, <2>3, NodesAre DEF Has, Lower
    <3> QED
      BY <1>4, <2>1, <3>1
  <2> QED
    BY <1>6, <2>2, <2>3
<1>7. ASSUME NEW n \in DOMAIN U, NEW i \in DOMAIN U[n].kids PROVE g[U[n].kids[i]] < g[n]
  <2> PICK c : c = U[n].kids[i] /\ Has(U[n].kids, c)
    BY DEF Has
  <2>1. CASE n \in DOMAIN T \ R
    <3>1. U[n] = T[n]
      BY <2>1 DEF Grafted, Carries
    <3>2. c \in DOMAIN T /\ ~LeafIn(T, n)
      BY <2>1, <3>1, NodesAre DEF LeafIn
    <3> QED
      BY <1>1, <1>6, <2>1, <3>1, <3>2
  <2>2. CASE n \in R
    <3>1. /\ n \in DOMAIN T /\ ~LeafIn(T, n) /\ U[n].kids \in Seq(DOMAIN U)
          /\ Has(T[n].kids, c) \/ c = new \/ c = above
      BY <2>2 DEF Grafted, Carries
    <3>2. c \in DOMAIN U
      <4> PICK E : E = DOMAIN U
        OBVIOUS
      <4> PICK s \in Seq(E) : s = U[n].kids
        BY <3>1
      <4> QED
        OBVIOUS
    <3> QED
      BY <1>6, <3>1, <3>2
  <2>3. CASE n = new
    BY <2>3 DEF Grafted, Carries, LeafIn
  <2>4. CASE n = above
    <3>1. old \in DOMAIN T /\ LeafIn(T, old) /\ U[above].kids \in Seq({old, new})
      BY <1>1, <2>4 DEF Grafted, Carries
    <3>2. c \in {old, new}
      <4> PICK E : E = {old, new}
        OBVIOUS
      <4> PICK s \in Seq(E) : s = U[n].kids
        BY <2>4, <3>1
      <4> QED
        OBVIOUS
    <3> QED
      BY <1>4, <2>4, <3>1, <3>2
  <2> QED
    BY <1>1, <2>1, <2>2, <2>3, <2>4
<1> QED
  BY <1>5, <1>7 DEF Lower

\* All leaves of U can be reached from s, its root, as those of T from r.
StillReached(T, U, r, s, new) ==
  /\ s \in DOMAIN U /\ \E A : Reaches(U, s, A, new)
  /\ \A l \in DOMAIN T : LeafIn(T, l) =>
       /\ U[l] = T[l] /\ LeafIn(U, l)
       /\ (\E A : Reaches(T, r, A, l)) => (\E A : Reaches(U, s, A, l))
  /\ \A l \in DOMAIN U : LeafIn(U, l) => l = new \/ (l \in DOMAIN T /\ LeafIn(T, l))

LEMMA GraftedReached ==
  ASSUME NEW T, NEW U, NEW R, NEW b \in Bounds, NEW order \in Nat, NEW old, NEW new, NEW above,
         NodesTyped(T), Grafted(T, U, R, b, order, old, new, above),
         NEW r \in DOMAIN T, NEW s, (s = r /\ r \in R) \/ (s = above /\ r = old /\ Len(U) = above)
  PROVE  StillReached(T, U, r, s, new)
<1>1. /\ DOMAIN T \subseteq DOMAIN U /\ new \in DOMAIN U
      /\ \A n \in DOMAIN U : n \in DOMAIN T \/ n = new \/ n = above
      /\ above \in DOMAIN U <=> Len(U) = above
      /\ new \notin DOMAIN T /\ above \notin DOMAIN T /\ new # above
  BY GraftedIs
<1>2. R \in SUBSET DOMAIN T /\ \A n \in R : ~LeafIn(T, n)
  BY DEF Grafted, Carries
<1>3. s \in DOMAIN U
  BY <1>1, <1>2
<1>4. \A n \in DOMAIN T \ R : U[n] = T[n]
  BY DEF Grafted, Carries
<1>5. ASSUME NEW n \in R
      PROVE  /\ BoxIn(T, n) \in Bounds /\ BoxIn(U, n) \in Bounds
             /\ Inside(BoxIn(T, n), BoxIn(U, n)) /\ Inside(b, BoxIn(U, n))
             /\ T[n].max \in Nat /\ U[n].max \in Nat /\ T[n].max <= U[n].max /\ order <= U[n].max
  <2>1. BoxIn(T, n) \in Bounds /\ T[n].max \in Nat
    BY <1>2, NodesAre
  <2>2. BoxIn(U, n) = Scene!Union(BoxIn(T, n), b) /\ U[n].max = Scene!Max({T[n].max, order})
    BY DEF Grafted, Carries
  <2>3. U[n].max \in Nat /\ T[n].max <= U[n].max /\ order <= U[n].max
    <3> PICK m \in Nat : m = T[n].max
      BY <2>1
    <3>1. Scene!Max({m, order}) \in Nat /\ m <= Scene!Max({m, order}) /\ order <= Scene!Max({m, order})
      BY HigherOf
    <3> QED
      BY <2>2, <3>1
  <2> QED
    BY <2>1, <2>2, <2>3, UnionHolds
<1>6. ASSUME Len(U) = above
      PROVE  /\ old \in DOMAIN T /\ LeafIn(T, old) /\ BoxIn(T, old) \in Bounds
             /\ Inside(BoxIn(T, old), BoxIn(U, above)) /\ Inside(b, BoxIn(U, above))
             /\ T[old].max <= U[above].max /\ order <= U[above].max
             /\ Has(U[above].kids, old) /\ Has(U[above].kids, new)
  <2>1. /\ old \in DOMAIN T /\ LeafIn(T, old)
        /\ BoxIn(U, above) = Scene!Union(BoxIn(T, old), b)
        /\ U[above].max = Scene!Max({T[old].max, order})
        /\ Has(U[above].kids, old) /\ Has(U[above].kids, new)
    BY <1>6 DEF Grafted, Carries
  <2>2. BoxIn(T, old) \in Bounds /\ T[old].max \in Nat
    BY <2>1, NodesAre
  <2>3. T[old].max <= U[above].max /\ order <= U[above].max
    <3> PICK m \in Nat : m = T[old].max
      BY <2>2
    <3>1. m <= Scene!Max({m, order}) /\ order <= Scene!Max({m, order})
      BY HigherOf
    <3> QED
      BY <2>1, <3>1
  <2>4. Inside(BoxIn(T, old), BoxIn(U, above)) /\ Inside(b, BoxIn(U, above))
    BY <2>1, <2>2, UnionHolds
  <2> QED
    BY <2>1, <2>2, <2>3, <2>4
<1>7. BoxIn(U, new) = b /\ U[new].max = order /\ LeafIn(U, new) /\ Inside(b, b)
  BY DEF Grafted, Carries, Inside, Bounds
<1>8. ASSUME NEW l \in DOMAIN T, LeafIn(T, l) PROVE U[l] = T[l] /\ LeafIn(U, l)
  BY <1>2, <1>4, <1>8 DEF LeafIn
<1>9. \E A : Reaches(U, s, A, new)
  <2> DEFINE A == R \cup {new} \cup (DOMAIN U \cap {above})
  <2>1. A \in SUBSET DOMAIN U /\ s \in A /\ new \in A
    BY <1>1, <1>2
  <2>2. ASSUME NEW n \in A
        PROVE  /\ Inside(BoxIn(U, new), BoxIn(U, n)) /\ U[new].max <= U[n].max
               /\ n = new \/ Has(U[n].kids, new) \/ \E e \in A : Has(U[n].kids, e)
    <3>1. CASE n \in R
      <4>1. PICK e \in DOMAIN U : Has(U[n].kids, e) /\ (e \in R \/ e = new \/ e = above)
        BY <3>1 DEF Grafted, Carries
      <4> QED
        BY <1>5, <1>7, <3>1, <4>1
    <3>2. CASE n = new
      BY <1>7, <3>2
    <3>3. CASE n = above /\ above \in DOMAIN U
      BY <1>1, <1>6, <1>7, <3>3
    <3> QED
      BY <3>1, <3>2, <3>3
  <2> HIDE DEF A
  <2>3. \A n \in A : n = new \/ \E i \in DOMAIN U[n].kids : U[n].kids[i] \in A
    BY <2>1, <2>2 DEF Has
  <2>4. Reaches(U, s, A, new)
    BY <2>1, <2>2, <2>3 DEF Reaches
  <2> QED
    BY <2>4
<1>10. ASSUME NEW l \in DOMAIN T, LeafIn(T, l), NEW B, Reaches(T, r, B, l)
       PROVE  \E A : Reaches(U, s, A, l)
  <2> DEFINE A == B \cup (IF Len(U) = above /\ l = old THEN {above} ELSE {})
  <2>0. U[l] = T[l] /\ LeafIn(U, l) /\ BoxIn(U, l) = BoxIn(T, l) /\ BoxIn(T, l) \in Bounds /\ T[l].max \in Nat
    BY <1>8, <1>10, NodesAre DEF BoxIn
  <2>1. /\ B \in SUBSET DOMAIN T /\ r \in B /\ l \in B
        /\ \A n \in B : /\ Inside(BoxIn(T, l), BoxIn(T, n)) /\ T[l].max <= T[n].max
                        /\ n = l \/ \E e \in B : Has(T[n].kids, e)
    BY <1>10 DEF Reaches, Has
  <2>2. Len(U) = above /\ old \in B => l = old
    <3> SUFFICES ASSUME Len(U) = above, old \in B, l # old PROVE FALSE
      OBVIOUS
    <3>1. PICK e \in B : Has(T[old].kids, e)
      BY <2>1
    <3>2. T[old].kids = <<>>
      BY <1>6 DEF LeafIn
    <3> QED
      BY <3>1, <3>2 DEF Has
  <2>3. A \in SUBSET DOMAIN U /\ s \in A /\ l \in A
    BY <1>1, <2>1, <2>2
  <2>4. ASSUME NEW n \in A
        PROVE  /\ Inside(BoxIn(U, l), BoxIn(U, n)) /\ U[l].max <= U[n].max
               /\ n = l \/ \E e \in A : Has(U[n].kids, e)
    <3>1. CASE n \in B \ R
      <4>1. U[n] = T[n] /\ BoxIn(U, n) = BoxIn(T, n)
        BY <1>4, <2>1, <3>1 DEF BoxIn
      <4> QED
        BY <2>0, <2>1, <3>1, <4>1
    <3>2. CASE n \in B /\ n \in R
      <4>1. n # l
        BY <1>2, <1>10, <3>2
      <4>2. Inside(BoxIn(U, l), BoxIn(U, n)) /\ U[l].max <= U[n].max
        <5>1. Inside(BoxIn(T, l), BoxIn(T, n)) /\ T[l].max <= T[n].max
          BY <2>1, <3>2
        <5>2. Inside(BoxIn(T, l), BoxIn(U, n))
          BY <1>5, <2>0, <3>2, <5>1, WithinAll
        <5>3. T[l].max <= U[n].max
          BY <1>5, <2>0, <3>2, <5>1
        <5> QED
          BY <2>0, <5>2, <5>3
      <4>3. PICK e \in B : Has(T[n].kids, e)
        BY <2>1, <3>2, <4>1
      <4>4. Has(U[n].kids, e) \/ (e = old /\ Len(U) = above /\ Has(U[n].kids, above))
        BY <3>2, <4>3 DEF Grafted, Carries
      <4>5. \E c \in A : Has(U[n].kids, c)
        BY <2>2, <4>3, <4>4
      <4> QED
        BY <4>2, <4>5
    <3>3. CASE n = above /\ Len(U) = above /\ l = old
      BY <1>6, <2>0, <2>1, <3>3
    <3> QED
      BY <3>1, <3>2, <3>3
  <2> HIDE DEF A
  <2>5. \A n \in A : n = l \/ \E i \in DOMAIN U[n].kids : U[n].kids[i] \in A
    BY <2>4 DEF Has
  <2>6. Reaches(U, s, A, l)
    BY <2>3, <2>4, <2>5 DEF Reaches
  <2> QED
    BY <2>6
<1>11. ASSUME NEW l \in DOMAIN U, LeafIn(U, l) PROVE l = new \/ (l \in DOMAIN T /\ LeafIn(T, l))
  <2>1. CASE l \in R
    <3>1. Len(U[l].kids) \in 1..MaxChildren
      BY <2>1 DEF Grafted, Carries
    <3>2. Len(<<>>) = 0 /\ MaxChildren \in Nat
      BY SceneConstants
    <3> QED
      BY <1>11, <3>1, <3>2 DEF LeafIn
  <2>2. CASE l = above
    <3>1. Len(U[l].kids) = 2
      BY <1>1, <2>2 DEF Grafted, Carries
    <3>2. Len(<<>>) = 0
      OBVIOUS
    <3> QED
      BY <1>11, <3>1, <3>2 DEF LeafIn
  <2>3. CASE l \in DOMAIN T \ R
    BY <1>4, <1>11, <2>3 DEF LeafIn
  <2> QED
    BY <1>1, <2>1, <2>2, <2>3
<1> QED
  BY <1>3, <1>8, <1>9, <1>10, <1>11 DEF StillReached

-----------------------------------------------------------------------------
(* Insertion *)

LEMMA NodeIs ==
  ASSUME NEW b \in Bounds, NEW order \in Nat, NEW kids \in Seq(Nat)
  PROVE  /\ Scene!Node(b, order, kids) \in NodeType
         /\ Scene!Node(b, order, kids).kids = kids /\ Scene!Node(b, order, kids).max = order
         /\ [lo |-> Scene!Node(b, order, kids).lo, hi |-> Scene!Node(b, order, kids).hi] = b
<1>1. b.lo \in Int /\ b.hi \in Int /\ b = [lo |-> b.lo, hi |-> b.hi]
  BY DEF Bounds
<1> QED
  BY <1>1 DEF Scene!Node, NodeType

LEMMA NewLeaf ==
  ASSUME NEW b \in Bounds, NEW order \in Nat, NEW U, NEW n, U[n] = Scene!Node(b, order, <<>>)
  PROVE  BoxIn(U, n) = b /\ U[n].max = order /\ LeafIn(U, n)
<1>1. b = [lo |-> b.lo, hi |-> b.hi]
  BY DEF Bounds
<1>2. U[n] = [lo |-> b.lo, hi |-> b.hi, max |-> order, kids |-> <<>>]
  BY DEF Scene!Node
<1>3. U[n].kids = <<>> /\ U[n].max = order /\ U[n].lo = b.lo /\ U[n].hi = b.hi
  BY <1>2
<1> QED
  BY <1>1, <1>3 DEF BoxIn, LeafIn

\* The tree with the new leaf, and with what joins it and old.
Tree(b, order) == Append(nodes, Scene!Node(b, order, <<>>))
Joint(old, b, order) ==
  Append(Tree(b, order), Scene!Node(Scene!Union(Scene!Box(old), b), Scene!Max({nodes[old].max, order}),
                                    Scene!Pair(Tree(b, order), old, Len(nodes) + 1)))

LEMMA TreeIs ==
  ASSUME NodesTyped(nodes), NEW b \in Bounds, NEW order \in Nat
  PROVE  /\ Tree(b, order) \in Seq(NodeType) /\ Len(Tree(b, order)) = Len(nodes) + 1
         /\ \A n \in DOMAIN nodes : Tree(b, order)[n] = nodes[n]
         /\ Tree(b, order)[Len(nodes) + 1] = Scene!Node(b, order, <<>>)
<1> PICK k \in Nat : k = Len(nodes)
  BY DEF NodesTyped
<1>1. nodes \in Seq(NodeType) /\ DOMAIN nodes = 1..k
  BY DEF NodesTyped
<1>2. <<>> \in Seq(Nat)
  OBVIOUS
<1> PICK leaf \in NodeType : leaf = Scene!Node(b, order, <<>>)
  BY <1>2, NodeIs
<1>3. /\ Append(nodes, leaf) \in Seq(NodeType) /\ Len(Append(nodes, leaf)) = Len(nodes) + 1
      /\ \A n \in 1..Len(nodes) : Append(nodes, leaf)[n] = nodes[n]
      /\ Append(nodes, leaf)[Len(nodes) + 1] = leaf
  BY <1>1, AppendProperties
<1> QED
  BY <1>1, <1>3 DEF Tree

Joins(T, old, b, order, new, above) ==
  /\ T \in Seq(NodeType) /\ Len(T) = above
  /\ \A n \in DOMAIN nodes : T[n] = nodes[n]
  /\ T[new] = Scene!Node(b, order, <<>>)
  /\ BoxIn(T, above) = Scene!Union(BoxIn(nodes, old), b)
  /\ T[above].max = Scene!Max({nodes[old].max, order})
  /\ T[above].kids \in Seq({old, new}) /\ Len(T[above].kids) = 2
  /\ Has(T[above].kids, old) /\ Has(T[above].kids, new)

LEMMA JointIs ==
  ASSUME NodesTyped(nodes), NEW b \in Bounds, NEW order \in Nat, NEW old \in DOMAIN nodes,
         NEW new, NEW above, new = Len(nodes) + 1, above = new + 1
  PROVE  Joins(Joint(old, b, order), old, b, order, new, above)
<1> PICK k \in Nat : k = Len(nodes)
  BY DEF NodesTyped
<1>1. nodes \in Seq(NodeType) /\ DOMAIN nodes = 1..k /\ old \in Nat
  BY DEF NodesTyped
<1> PICK tree \in Seq(NodeType) :
      /\ tree = Tree(b, order) /\ Len(tree) = k + 1
      /\ \A n \in DOMAIN nodes : tree[n] = nodes[n]
      /\ tree[k + 1] = Scene!Node(b, order, <<>>)
  BY TreeIs
<1> PICK box \in Bounds : box = Scene!Union(BoxIn(nodes, old), b)
  BY NodesAre, UnionHolds
<1> PICK high \in Nat : high = Scene!Max({nodes[old].max, order})
  <2> PICK m \in Nat : m = nodes[old].max
    BY NodesAre
  <2>1. Scene!Max({m, order}) \in Nat
    BY HigherOf
  <2> QED
    BY <2>1
<1> PICK pair : pair = Scene!Pair(tree, old, k + 1)
  OBVIOUS
<1>2. pair = <<old, k + 1>> \/ pair = <<k + 1, old>>
  BY DEF Scene!Pair
<1>3. /\ pair \in Seq({old, k + 1}) /\ pair \in Seq(Nat) /\ Len(pair) = 2
      /\ Has(pair, old) /\ Has(pair, k + 1)
  <2>0. new \in Nat /\ new = k + 1
    OBVIOUS
  <2> PICK x \in {old, new}, y \in {old, new} : pair = <<x, y>> /\ {x, y} = {old, new}
    BY <1>2, <2>0
  <2>1. x \in Nat /\ y \in Nat
    BY <1>1, <2>0
  <2>2. <<x, y>> \in Seq({old, new}) /\ <<x, y>> \in Seq(Nat) /\ Len(<<x, y>>) = 2
    BY <2>1
  <2>3. 1 \in DOMAIN pair /\ 2 \in DOMAIN pair /\ pair[1] = x /\ pair[2] = y
    OBVIOUS
  <2>4. Has(pair, x) /\ Has(pair, y)
    BY <2>3 DEF Has
  <2> QED
    BY <2>0, <2>2, <2>4
<1> PICK top_ \in NodeType : /\ top_ = Scene!Node(box, high, pair) /\ top_.kids = pair /\ top_.max = high
                              /\ [lo |-> top_.lo, hi |-> top_.hi] = box
  BY <1>3, NodeIs
<1>4. /\ Append(tree, top_) \in Seq(NodeType) /\ Len(Append(tree, top_)) = Len(tree) + 1
      /\ \A n \in 1..Len(tree) : Append(tree, top_)[n] = tree[n]
      /\ Append(tree, top_)[Len(tree) + 1] = top_
  BY AppendProperties, SMTT(40)
<1>5. Joint(old, b, order) = Append(tree, top_)
  BY DEF Joint, BoxIn, Scene!Box
<1> DEFINE T == Append(tree, top_)
<1>a. T \in Seq(NodeType)
  BY <1>4
<1>6. /\ Len(T) = (k + 1) + 1 /\ \A n \in DOMAIN nodes : T[n] = nodes[n]
      /\ T[k + 1] = Scene!Node(b, order, <<>>) /\ T[(k + 1) + 1] = top_
  <2>1. k + 1 \in 1..(k + 1) /\ \A n \in 1..k : n \in 1..(k + 1)
    OBVIOUS
  <2> QED
    BY <1>1, <1>4, <1>a, <2>1
<1>7. BoxIn(T, (k + 1) + 1) = box
  BY <1>6 DEF BoxIn
<1> HIDE DEF T
<1>8. Joins(T, old, b, order, new, above)
  BY <1>3, <1>6, <1>7, <1>a DEF Joins
<1> QED
  BY <1>5, <1>8 DEF T

\* The root is a leaf.
LEMMA InsertedBesideRoot ==
  ASSUME NodesTyped(nodes), NEW b \in Bounds, NEW order \in Nat,
         root \in DOMAIN nodes, root # 0, LeafIn(nodes, root), Scene!InsertLeaf(b, order)
  PROVE  LET new == Len(nodes) + 1
         IN  Grafted(nodes, nodes', {}, b, order, root, new, new + 1) /\ root' = new + 1 /\ Len(nodes') = new + 1
<1>1. nodes' = Joint(root, b, order) /\ root' = Len(nodes) + 1 + 1
  BY DEF Scene!InsertLeaf, Joint, Tree, LeafIn, Scene!Leaf
<1> DEFINE new == Len(nodes) + 1
           above == new + 1
           T == Joint(root, b, order)
<1>2. /\ T \in Seq(NodeType) /\ Len(T) = above
      /\ \A n \in DOMAIN nodes : T[n] = nodes[n]
      /\ T[new] = Scene!Node(b, order, <<>>)
      /\ BoxIn(T, above) = Scene!Union(BoxIn(nodes, root), b)
      /\ T[above].max = Scene!Max({nodes[root].max, order})
      /\ T[above].kids \in Seq({root, new}) /\ Len(T[above].kids) = 2
      /\ Has(T[above].kids, root) /\ Has(T[above].kids, new)
  <2>1. Joins(T, root, b, order, new, above)
    BY JointIs
  <2> QED
    BY <2>1, Zenon DEF Joins
<1>3. BoxIn(T, new) = b /\ T[new].max = order /\ LeafIn(T, new)
  <2>1. T[new] = Scene!Node(b, order, <<>>)
    BY <1>2
  <2> HIDE DEF T, new
  <2> QED
    BY <2>1, NewLeaf, Zenon
<1> HIDE DEF T
<1>4. Grafted(nodes, T, {}, b, order, root, new, above)
  BY <1>2, <1>3 DEF Grafted
<1> QED
  BY <1>1, <1>2, <1>4 DEF T
\* The nodes on the way down, the last of them, and what they become on the way back.
Route(b) == Scene!Range(DownFrom(b)[root])
Bottom(b) == Scene!Last(DownFrom(b)[root])
Up(n, b, order, kids) == Scene!Node(Scene!Union(Scene!Box(n), b), Scene!Max({nodes[n].max, order}), kids)
Sifted(n, b, order) ==
  IF nodes[n].max < order THEN Scene!SwapLast(nodes[n].kids, Scene!Best(n, b)) ELSE nodes[n].kids
ClimbsTree(grown, b, order, kids) ==
  [n \in DOMAIN grown |->
    IF n = Bottom(b) THEN Up(n, b, order, kids)
    ELSE IF n \in Route(b) THEN Up(n, b, order, Sifted(n, b, order))
    ELSE grown[n]]

\* The root is not a leaf.
Deep ==
  NodesTyped(nodes) /\ (\E h : Lower(nodes, h)) /\ root \in DOMAIN nodes /\ ~LeafIn(nodes, root)

LEMMA RouteIs ==
  ASSUME Deep, NEW b \in Bounds
  PROVE  /\ Route(b) \in SUBSET Inner /\ root \in Route(b) /\ Bottom(b) \in Route(b)
         /\ LeafIn(nodes, Child(Bottom(b), b))
         /\ \A n \in Route(b) : n = Bottom(b) \/ Child(n, b) \in Route(b)
<1>0. NodesTyped(nodes) /\ (\E h : Lower(nodes, h)) /\ root \in DOMAIN nodes /\ ~LeafIn(nodes, root)
  BY DEF Deep
<1> PICK s : s = DownFrom(b)[root]
  OBVIOUS
<1>1. root \in Inner
  BY <1>0 DEF Inner, LeafIn, Scene!Leaf
<1>2. Trail(s, root, b)
  BY <1>0, <1>1, DownLeads
<1>3. /\ s \in Seq(Inner) /\ Len(s) > 0 /\ \E i \in DOMAIN s : s[i] = root
      /\ Scene!Leaf(Child(Scene!Last(s), b))
      /\ \A i \in DOMAIN s : s[i] = Scene!Last(s) \/ \E j \in DOMAIN s : s[j] = Child(s[i], b)
  BY <1>2 DEF Trail
<1> PICK k \in Nat \ {0} : k = Len(s) /\ DOMAIN s = 1..k
  BY <1>3
<1>4. Scene!Last(s) = s[k] /\ k \in DOMAIN s
  BY DEF Scene!Last
<1>5. Route(b) = {s[i] : i \in DOMAIN s} /\ Bottom(b) = Scene!Last(s)
  BY DEF Route, Bottom, Scene!Range
<1>6. \A i \in DOMAIN s : s[i] \in Inner
  BY <1>3
<1> QED
  BY <1>3, <1>4, <1>5, <1>6 DEF LeafIn, Scene!Leaf

LEMMA RouteNode ==
  ASSUME Deep, NEW b \in Bounds, NEW n \in Route(b)
  PROVE  /\ n \in DOMAIN nodes /\ ~LeafIn(nodes, n)
         /\ nodes[n].kids \in Seq(DOMAIN nodes) /\ nodes[n].kids # <<>>
         /\ Len(nodes[n].kids) \in 1..MaxChildren
         /\ Scene!Best(n, b) \in DOMAIN nodes[n].kids
         /\ Child(n, b) \in DOMAIN nodes /\ Has(nodes[n].kids, Child(n, b))
<1>0. NodesTyped(nodes) /\ (\E h : Lower(nodes, h)) /\ root \in DOMAIN nodes /\ ~LeafIn(nodes, root)
  BY DEF Deep
<1>1. n \in Inner
  BY RouteIs
<1>2. n \in DOMAIN nodes /\ ~LeafIn(nodes, n)
  BY <1>1 DEF Inner, LeafIn, Scene!Leaf
<1>3. Scene!Best(n, b) \in DOMAIN nodes[n].kids /\ Child(n, b) \in DOMAIN nodes
  BY <1>0, <1>1, ChildIs
<1>4. Has(nodes[n].kids, Child(n, b))
  BY <1>3 DEF Has, Child
<1> PICK D : D = DOMAIN nodes
  OBVIOUS
<1> PICK kids \in Seq(D) : kids = nodes[n].kids /\ Len(kids) <= MaxChildren /\ kids # <<>>
  BY <1>0, <1>2, NodesAre DEF LeafIn
<1>5. Len(kids) \in 1..MaxChildren
  BY SceneConstants
<1> QED
  BY <1>2, <1>3, <1>4, <1>5

LEMMA SiftedIs ==
  ASSUME Deep, NEW b \in Bounds, NEW order \in Nat, NEW n \in Route(b)
  PROVE  /\ Sifted(n, b, order) \in Seq(DOMAIN nodes) /\ Len(Sifted(n, b, order)) \in 1..MaxChildren
         /\ \A e : Has(Sifted(n, b, order), e) <=> Has(nodes[n].kids, e)
<1> PICK D : D = DOMAIN nodes
  OBVIOUS
<1> PICK kids \in Seq(D) : kids = nodes[n].kids /\ Len(kids) \in 1..MaxChildren /\ Scene!Best(n, b) \in DOMAIN kids
  BY RouteNode
<1>1. /\ Scene!SwapLast(kids, Scene!Best(n, b)) \in Seq(D)
      /\ Len(Scene!SwapLast(kids, Scene!Best(n, b))) = Len(kids)
      /\ \A e : Has(Scene!SwapLast(kids, Scene!Best(n, b)), e) <=> Has(kids, e)
  BY SwapLastHas
<1>2. Sifted(n, b, order) = Scene!SwapLast(kids, Scene!Best(n, b)) \/ Sifted(n, b, order) = kids
  BY DEF Sifted
<1> QED
  BY <1>1, <1>2

Rises(U, grown, b, order, kids) ==
  /\ U \in Seq(NodeType) /\ Len(U) = Len(grown)
  /\ \A n \in DOMAIN grown \ Route(b) : U[n] = grown[n]
  /\ \A n \in Route(b) :
       /\ BoxIn(U, n) = Scene!Union(BoxIn(nodes, n), b) /\ U[n].max = Scene!Max({nodes[n].max, order})
       /\ U[n].kids = IF n = Bottom(b) THEN kids ELSE Sifted(n, b, order)

LEMMA ClimbsIs ==
  ASSUME Deep, NEW b \in Bounds, NEW order \in Nat,
         NEW grown \in Seq(NodeType), DOMAIN nodes \subseteq DOMAIN grown, NEW kids \in Seq(Nat)
  PROVE  Rises(ClimbsTree(grown, b, order, kids), grown, b, order, kids)
<1>0. NodesTyped(nodes) /\ (\E h : Lower(nodes, h)) /\ root \in DOMAIN nodes /\ ~LeafIn(nodes, root)
  BY DEF Deep
<1> PICK R : R = Route(b) /\ Bottom(b) \in R /\ \A n \in R : n \in DOMAIN nodes
  BY RouteIs, RouteNode
<1>1. ASSUME NEW n \in R, NEW ks \in Seq(Nat)
      PROVE  /\ Up(n, b, order, ks) \in NodeType
             /\ [lo |-> Up(n, b, order, ks).lo, hi |-> Up(n, b, order, ks).hi] = Scene!Union(BoxIn(nodes, n), b)
             /\ Up(n, b, order, ks).max = Scene!Max({nodes[n].max, order})
             /\ Up(n, b, order, ks).kids = ks
  <2> PICK m \in Nat, box \in Bounds : m = nodes[n].max /\ box = BoxIn(nodes, n)
    BY <1>0, NodesAre
  <2>1. Scene!Max({m, order}) \in Nat /\ Scene!Union(box, b) \in Bounds
    BY HigherOf, UnionHolds
  <2>2. Up(n, b, order, ks) = Scene!Node(Scene!Union(box, b), Scene!Max({m, order}), ks)
    BY DEF Up, Scene!Box, BoxIn
  <2> QED
    BY <2>1, <2>2, NodeIs
<1>2. \A n \in R : Sifted(n, b, order) \in Seq(Nat)
  <2> SUFFICES ASSUME NEW n \in R PROVE Sifted(n, b, order) \in Seq(Nat)
    OBVIOUS
  <2>1. Sifted(n, b, order) \in Seq(DOMAIN nodes)
    BY SiftedIs
  <2>2. DOMAIN nodes \subseteq Nat
    BY <1>0 DEF NodesTyped
  <2> PICK D : D = DOMAIN nodes /\ D \subseteq Nat
    BY <2>2
  <2>3. Seq(D) \subseteq Seq(Nat)
    OBVIOUS
  <2> QED
    BY <2>1, <2>3
<1> DEFINE c == ClimbsTree(grown, b, order, kids)
<1>3. /\ c = [n \in DOMAIN grown |-> c[n]]
      /\ \A n \in R : c[n] = Up(n, b, order, IF n = Bottom(b) THEN kids ELSE Sifted(n, b, order))
      /\ \A n \in DOMAIN grown \ R : c[n] = grown[n]
  <2>1. \A n \in R : n \in DOMAIN grown
    OBVIOUS
  <2> QED
    BY <2>1 DEF ClimbsTree
<1> HIDE DEF c
<1>4. \A n \in DOMAIN grown : c[n] \in NodeType
  <2> SUFFICES ASSUME NEW n \in DOMAIN grown PROVE c[n] \in NodeType
    OBVIOUS
  <2>1. CASE n \in R
    <3> PICK ks \in Seq(Nat) : ks = IF n = Bottom(b) THEN kids ELSE Sifted(n, b, order)
      BY <1>2, <2>1
    <3> QED
      BY <1>1, <1>3, <2>1, ZenonT(40)
  <2>2. CASE n \notin R
    BY <1>3, <2>2
  <2> QED
    BY <2>1, <2>2
<1>5. c \in Seq(NodeType) /\ Len(c) = Len(grown)
  <2> PICK k \in Nat : k = Len(grown) /\ DOMAIN grown = 1..k
    OBVIOUS
  <2>1. c \in [1..k -> NodeType]
    BY <1>3, <1>4
  <2> QED
    BY <2>1, SMTT(40)
<1>6. ASSUME NEW n \in R
      PROVE  /\ BoxIn(c, n) = Scene!Union(BoxIn(nodes, n), b) /\ c[n].max = Scene!Max({nodes[n].max, order})
             /\ c[n].kids = IF n = Bottom(b) THEN kids ELSE Sifted(n, b, order)
  <2> PICK ks \in Seq(Nat) : ks = IF n = Bottom(b) THEN kids ELSE Sifted(n, b, order)
    BY <1>2
  <2>1. c[n] = Up(n, b, order, ks)
    BY <1>3
  <2> PICK up : up = Up(n, b, order, ks)
    OBVIOUS
  <2>2. /\ [lo |-> up.lo, hi |-> up.hi] = Scene!Union(BoxIn(nodes, n), b)
        /\ up.max = Scene!Max({nodes[n].max, order}) /\ up.kids = ks
    BY <1>1
  <2>3. BoxIn(c, n) = [lo |-> up.lo, hi |-> up.hi]
    BY <2>1 DEF BoxIn
  <2> QED
    BY <2>1, <2>2, <2>3
<1>7. Rises(c, grown, b, order, kids)
  BY <1>3, <1>5, <1>6, Zenon DEF Rises
<1> QED
  BY <1>7 DEF c
LEMMA InsertedIs ==
  ASSUME NodesTyped(nodes), NEW b \in Bounds, NEW order \in Nat,
         root \in DOMAIN nodes, root # 0, ~LeafIn(nodes, root), Scene!InsertLeaf(b, order)
  PROVE  LET new == Len(nodes) + 1
             bottom == Bottom(b)
             kids == nodes[bottom].kids
             best == Scene!Best(bottom, b)
             pair == [kids EXCEPT ![best] = new + 1]
         IN  /\ root' = root
             /\ nodes' = IF Len(kids) < MaxChildren
                         THEN ClimbsTree(Tree(b, order), b, order,
                                     IF nodes[bottom].max < order THEN Append(kids, new)
                                     ELSE Scene!InsertAt(kids, Len(kids), new))
                         ELSE ClimbsTree(Joint(kids[best], b, order), b, order,
                                     IF nodes[bottom].max < order THEN Scene!SwapLast(pair, best) ELSE pair)
BY Zenon DEF Scene!InsertLeaf, Joint, Tree, LeafIn, Scene!Leaf, ClimbsTree, Sifted, Up, Bottom, Route, DownFrom

LEMMA SeqWider ==
  ASSUME NEW D, NEW E, D \subseteq E, NEW s \in Seq(D)
  PROVE  s \in Seq(E)
OBVIOUS

\* What a node of the way down becomes, when the last of them gets the kids ks.
Grows(U, E, n, b, order, ks) ==
  /\ BoxIn(U, n) = Scene!Union(BoxIn(nodes, n), b) /\ U[n].max = Scene!Max({nodes[n].max, order})
  /\ U[n].kids \in Seq(E) /\ Len(U[n].kids) \in 1..MaxChildren
  /\ n # Bottom(b) => /\ \A e : Has(U[n].kids, e) <=> Has(nodes[n].kids, e)
                      /\ \E e \in E : Has(U[n].kids, e) /\ e \in Route(b)
  /\ n = Bottom(b) => U[n].kids = ks

\* The nodes before the climb, with what is new, and after it.
Extended(grown, E, ks) ==
  /\ E \in SUBSET Nat /\ DOMAIN nodes \subseteq E
  /\ grown \in Seq(NodeType) /\ DOMAIN grown = E /\ \A n \in DOMAIN nodes : grown[n] = nodes[n]
  /\ ks \in Seq(E) /\ Len(ks) \in 1..MaxChildren

Climbed(U, grown, E, b, order, ks) ==
  /\ U \in Seq(NodeType) /\ Len(U) = Len(grown) /\ DOMAIN U = E
  /\ \A n \in E \ DOMAIN nodes : U[n] = grown[n]
  /\ \A n \in DOMAIN nodes \ Route(b) : U[n] = nodes[n]
  /\ \A n \in Route(b) : Grows(U, E, n, b, order, ks)

LEMMA RouteGrows ==
  ASSUME Deep, NEW b \in Bounds, NEW order \in Nat, NEW E, NEW grown, NEW ks, Extended(grown, E, ks)
  PROVE  Climbed(ClimbsTree(grown, b, order, ks), grown, E, b, order, ks)
<1>0. /\ E \in SUBSET Nat /\ DOMAIN nodes \subseteq E
      /\ grown \in Seq(NodeType) /\ DOMAIN grown = E /\ (\A n \in DOMAIN nodes : grown[n] = nodes[n])
      /\ ks \in Seq(E) /\ Len(ks) \in 1..MaxChildren
  BY DEF Extended
<1> DEFINE R == Route(b)
           U == ClimbsTree(grown, b, order, ks)
<1>1. \A n \in R : n \in DOMAIN nodes
  BY RouteNode
<1>2. ks \in Seq(Nat)
  BY <1>0, SeqWider
<1>3. /\ U \in Seq(NodeType) /\ Len(U) = Len(grown)
      /\ \A n \in DOMAIN grown \ R : U[n] = grown[n]
      /\ \A n \in R : /\ BoxIn(U, n) = Scene!Union(BoxIn(nodes, n), b)
                      /\ U[n].max = Scene!Max({nodes[n].max, order})
                      /\ U[n].kids = IF n = Bottom(b) THEN ks ELSE Sifted(n, b, order)
  <2>1. DOMAIN nodes \subseteq DOMAIN grown
    BY <1>0
  <2>2. grown \in Seq(NodeType)
    BY <1>0
  <2>3. Rises(U, grown, b, order, ks)
    BY <1>2, <2>1, <2>2, ClimbsIs
  <2> HIDE DEF U
  <2> QED
    BY <2>3 DEF Rises
<1> HIDE DEF U
<1>4. DOMAIN U = E
  <2> PICK k \in Nat : k = Len(grown) /\ DOMAIN grown = 1..k
    BY <1>0
  <2>1. DOMAIN U = 1..k
    BY <1>3
  <2> QED
    BY <1>0, <2>1
<1>5. ASSUME NEW n \in R PROVE Grows(U, E, n, b, order, ks)
  <2>1. CASE n = Bottom(b)
    BY <1>0, <1>3, <2>1 DEF Grows
  <2>2. CASE n # Bottom(b)
    <3>1. U[n].kids = Sifted(n, b, order)
      BY <1>3, <2>2
    <3>2. /\ Sifted(n, b, order) \in Seq(DOMAIN nodes) /\ Len(Sifted(n, b, order)) \in 1..MaxChildren
          /\ \A e : Has(Sifted(n, b, order), e) <=> Has(nodes[n].kids, e)
      BY SiftedIs
    <3>3. Sifted(n, b, order) \in Seq(E)
      BY <1>0, <3>2, SeqWider
    <3>4. Child(n, b) \in R /\ Has(nodes[n].kids, Child(n, b)) /\ Child(n, b) \in E
      BY <1>0, <2>2, RouteIs, RouteNode
    <3> HIDE DEF R
    <3> QED
      BY <1>3, <2>2, <3>1, <3>2, <3>3, <3>4 DEF Grows, R
  <2> QED
    BY <2>1, <2>2
<1>6. Climbed(U, grown, E, b, order, ks)
  BY <1>0, <1>1, <1>3, <1>4, <1>5 DEF Climbed
<1> QED
  BY <1>6 DEF U

\* The kids of the last node of the way down, with the new leaf or what joins it and old.
Adds(U, b, ks, old, new, above) ==
  /\ \A e : Has(ks, e) => Has(nodes[Bottom(b)].kids, e) \/ e = new \/ e = above
  /\ \A e : Has(nodes[Bottom(b)].kids, e) => Has(ks, e) \/ (e = old /\ Len(U) = above /\ Has(ks, above))
  /\ \E e \in DOMAIN U : Has(ks, e) /\ (e = new \/ e = above)

LEMMA GrowsCarries ==
  ASSUME NEW U, NEW n, NEW b, NEW order, NEW ks, NEW new, NEW above, NEW old,
         Grows(U, DOMAIN U, n, b, order, ks), Adds(U, b, ks, old, new, above)
  PROVE  Carries(nodes, U, n, Route(b), b, order, old, new, above)
<1>3. CASE n = Bottom(b)
  BY <1>3 DEF Grows, Adds, Carries
<1>4. CASE n # Bottom(b)
  BY <1>4, Zenon DEF Grows, Carries
<1> QED
  BY <1>3, <1>4

LEMMA ClimbedGrafted ==
  ASSUME Deep, NEW b \in Bounds, NEW order \in Nat, NEW U, NEW grown, NEW E, NEW ks,
         Climbed(U, grown, E, b, order, ks),
         NEW new, new = Len(nodes) + 1, new \in E, grown[new] = Scene!Node(b, order, <<>>),
         NEW above, above = new + 1, Len(U) \in {new, above},
         NEW old, Adds(U, b, ks, old, new, above),
         Len(U) = above =>
            /\ old \in DOMAIN nodes /\ LeafIn(nodes, old)
            /\ BoxIn(U, above) = Scene!Union(BoxIn(nodes, old), b)
            /\ U[above].max = Scene!Max({nodes[old].max, order})
            /\ U[above].kids \in Seq({old, new}) /\ Len(U[above].kids) = 2
            /\ Has(U[above].kids, old) /\ Has(U[above].kids, new)
  PROVE  Grafted(nodes, U, Route(b), b, order, old, new, above)
<1>1. /\ U \in Seq(NodeType) /\ DOMAIN U = E
      /\ \A n \in E \ DOMAIN nodes : U[n] = grown[n]
      /\ \A n \in DOMAIN nodes \ Route(b) : U[n] = nodes[n]
      /\ \A n \in Route(b) : Grows(U, E, n, b, order, ks)
  BY DEF Climbed
<1>2. new \notin DOMAIN nodes
  <2>1. nodes \in Seq(NodeType)
    BY DEF Deep, NodesTyped
  <2>2. DOMAIN nodes = 1..Len(nodes) /\ Len(nodes) \in Nat
    BY <2>1
  <2> QED
    BY <2>2
<1>3. BoxIn(U, new) = b /\ U[new].max = order /\ LeafIn(U, new)
  <2>1. U[new] = Scene!Node(b, order, <<>>)
    BY <1>1, <1>2
  <2> QED
    BY <2>1, NewLeaf
<1>4. \A n \in Route(b) : Carries(nodes, U, n, Route(b), b, order, old, new, above)
  BY <1>1, GrowsCarries
<1>5. \A n \in Route(b) : n \in DOMAIN nodes /\ ~LeafIn(nodes, n)
  BY RouteNode
<1>6. Route(b) \in SUBSET DOMAIN nodes
  BY <1>5
<1> QED
  BY <1>1, <1>3, <1>4, <1>5, <1>6, Zenon DEF Grafted
\* There is room below the last node of the way down.
WithRoom(b, order, kids, new, ks) ==
  /\ kids = nodes[Bottom(b)].kids /\ Len(kids) < MaxChildren
  /\ new = Len(nodes) + 1
  /\ ks = Append(kids, new) \/ ks = Scene!InsertAt(kids, Len(kids), new)

LEMMA InsertedWithRoom ==
  ASSUME Deep, NEW b \in Bounds, NEW order \in Nat,
         NEW kids, NEW new, NEW ks, WithRoom(b, order, kids, new, ks)
  PROVE  Grafted(nodes, ClimbsTree(Tree(b, order), b, order, ks), Route(b), b, order, Child(Bottom(b), b), new, new + 1)
<1> DEFINE D == DOMAIN nodes
           E == 1..new
<1>0. NodesTyped(nodes)
  BY DEF Deep
<1>1. Len(nodes) \in Nat /\ D = 1..Len(nodes) /\ MaxChildren \in Nat
  BY <1>0, SceneConstants DEF NodesTyped
<1>a. new = Len(nodes) + 1 /\ kids = nodes[Bottom(b)].kids /\ Len(kids) < MaxChildren
  BY DEF WithRoom
<1>2. D \subseteq E /\ new \in E /\ new \in Nat /\ E \in SUBSET Nat /\ new \notin D
  BY <1>1, <1>a
<1>3. kids \in Seq(D) /\ kids # <<>> /\ Len(kids) \in 1..MaxChildren
  BY <1>a, RouteIs, RouteNode
<1> HIDE DEF D, E
<1>4. /\ ks \in Seq(E) /\ Len(ks) \in 1..MaxChildren
      /\ \A e : Has(ks, e) <=> Has(kids, e) \/ e = new
  <2>1. kids \in Seq(E)
    BY <1>2, <1>3, SeqWider, Zenon
  <2>2. /\ Append(kids, new) \in Seq(E) /\ Len(Append(kids, new)) = Len(kids) + 1
        /\ \A e : Has(Append(kids, new), e) <=> Has(kids, e) \/ e = new
        /\ Scene!InsertAt(kids, Len(kids), new) \in Seq(E)
        /\ Len(Scene!InsertAt(kids, Len(kids), new)) = Len(kids) + 1
        /\ \A e : Has(Scene!InsertAt(kids, Len(kids), new), e) <=> Has(kids, e) \/ e = new
    BY <1>2, <1>3, <2>1, AddedHas, ZenonT(40)
  <2>3. Len(kids) + 1 \in 1..MaxChildren
    BY <1>1, <1>3, <1>a
  <2> QED
    BY <2>2, <2>3 DEF WithRoom
<1> DEFINE grown == Tree(b, order)
           U == ClimbsTree(grown, b, order, ks)
<1>5. /\ grown \in Seq(NodeType) /\ Len(grown) = new
      /\ \A n \in DOMAIN nodes : grown[n] = nodes[n]
      /\ grown[new] = Scene!Node(b, order, <<>>)
  BY <1>0, <1>a, TreeIs
<1>6. DOMAIN grown = E
  <2> HIDE DEF grown
  <2> QED
    BY <1>5 DEF E
<1> HIDE DEF grown
<1>7. Climbed(U, grown, E, b, order, ks)
  <2>1. Extended(grown, E, ks)
    BY <1>2, <1>4, <1>5, <1>6 DEF Extended, D
  <2> QED
    BY <2>1, RouteGrows
<1> HIDE DEF U
<1>8. Len(U) = new /\ DOMAIN U = E /\ Len(U) # new + 1
  BY <1>2, <1>5, <1>7 DEF Climbed
<1> DEFINE old == Child(Bottom(b), b)
<1> HIDE DEF old
<1>9. Adds(U, b, ks, old, new, new + 1)
  BY <1>2, <1>4, <1>8, <1>a DEF Adds
<1>10. Grafted(nodes, U, Route(b), b, order, old, new, new + 1)
  BY <1>2, <1>5, <1>7, <1>8, <1>9, <1>a, ClimbedGrafted
<1> QED
  BY <1>10 DEF U, grown, old

\* There is none: the new leaf is joined with the best.
WithoutRoom(b, order, kids, new, ks) ==
  /\ kids = nodes[Bottom(b)].kids
  /\ new = Len(nodes) + 1
  /\ LET best == Scene!Best(Bottom(b), b)
         pair == [kids EXCEPT ![best] = new + 1]
     IN  ks = Scene!SwapLast(pair, best) \/ ks = pair

LEMMA InsertedWithoutRoom ==
  ASSUME Deep, NEW b \in Bounds, NEW order \in Nat,
         NEW kids, NEW new, NEW ks, WithoutRoom(b, order, kids, new, ks)
  PROVE  LET old == Child(Bottom(b), b)
         IN  Grafted(nodes, ClimbsTree(Joint(old, b, order), b, order, ks), Route(b), b, order, old, new, new + 1)
<1> DEFINE D == DOMAIN nodes
           above == new + 1
           E == 1..above
           best == Scene!Best(Bottom(b), b)
           pair == [kids EXCEPT ![best] = above]
           old == Child(Bottom(b), b)
<1>0. NodesTyped(nodes)
  BY DEF Deep
<1>1. Len(nodes) \in Nat /\ D = 1..Len(nodes) /\ MaxChildren \in Nat
  BY <1>0, SceneConstants DEF NodesTyped
<1>a. new = Len(nodes) + 1 /\ kids = nodes[Bottom(b)].kids /\ (ks = Scene!SwapLast(pair, best) \/ ks = pair)
  BY DEF WithoutRoom
<1>2. /\ D \subseteq E /\ new \in E /\ above \in E /\ above \in Nat /\ E \in SUBSET Nat
      /\ new \notin D /\ above \notin D /\ new # above
  BY <1>1, <1>a
<1>3. kids \in Seq(D) /\ kids # <<>> /\ Len(kids) \in 1..MaxChildren /\ best \in DOMAIN kids
  BY <1>a, RouteIs, RouteNode
<1>b. old = kids[best] /\ old \in D /\ LeafIn(nodes, old)
  BY <1>a, RouteIs, RouteNode DEF Child
<1> HIDE DEF D, E, best, old, above
<1>4. /\ ks \in Seq(E) /\ Len(ks) \in 1..MaxChildren
      /\ Has(ks, above)
      /\ \A e : Has(ks, e) => Has(kids, e) \/ e = above
      /\ \A e : Has(kids, e) => Has(ks, e) \/ e = old
  <2>1. kids \in Seq(E)
    BY <1>2, <1>3, SeqWider, Zenon
  <2>2. /\ pair \in Seq(E) /\ Len(pair) = Len(kids)
        /\ DOMAIN pair = DOMAIN kids
        /\ Has(pair, above)
        /\ \A e : Has(pair, e) => Has(kids, e) \/ e = above
        /\ \A e : Has(kids, e) => Has(pair, e) \/ e = kids[best]
    <3>1. Replaced([kids EXCEPT ![best] = above], E, kids, best, above)
      BY <1>2, <1>3, <2>1, ReplacedHas
    <3>2. Replaced(pair, E, kids, best, above)
      BY <3>1
    <3> HIDE DEF pair
    <3> QED
      BY <3>2, Zenon DEF Replaced
  <2> HIDE DEF pair
  <2>3. best \in DOMAIN pair
    BY <1>3, <2>2
  <2>4. /\ Scene!SwapLast(pair, best) \in Seq(E) /\ Len(Scene!SwapLast(pair, best)) = Len(pair)
        /\ \A e : Has(Scene!SwapLast(pair, best), e) <=> Has(pair, e)
    BY <2>2, <2>3, SwapLastHas, Zenon
  <2> QED
    BY <1>3, <1>a, <1>b, <2>2, <2>4
<1> DEFINE grown == Joint(old, b, order)
           U == ClimbsTree(grown, b, order, ks)
<1>5. /\ grown \in Seq(NodeType) /\ Len(grown) = above
      /\ \A n \in DOMAIN nodes : grown[n] = nodes[n]
      /\ grown[new] = Scene!Node(b, order, <<>>)
      /\ BoxIn(grown, above) = Scene!Union(BoxIn(nodes, old), b)
      /\ grown[above].max = Scene!Max({nodes[old].max, order})
      /\ grown[above].kids \in Seq({old, new}) /\ Len(grown[above].kids) = 2
      /\ Has(grown[above].kids, old) /\ Has(grown[above].kids, new)
  <2>1. above = new + 1 /\ new = Len(nodes) + 1 /\ old \in DOMAIN nodes /\ grown = Joint(old, b, order)
    BY <1>a, <1>b DEF D, above
  <2>2. Joins(Joint(old, b, order), old, b, order, new, above)
    BY <1>0, <2>1, JointIs
  <2> QED
    BY <2>2, Zenon DEF Joins
<1> HIDE DEF grown
<1>6. DOMAIN grown = E
  BY <1>5 DEF E
<1>7. Climbed(U, grown, E, b, order, ks)
  <2>1. Extended(grown, E, ks)
    BY <1>2, <1>4, <1>5, <1>6 DEF Extended, D
  <2> QED
    BY <2>1, RouteGrows
<1> HIDE DEF U
<1>8. Len(U) = above /\ DOMAIN U = E /\ U[above] = grown[above]
  BY <1>2, <1>5, <1>7 DEF Climbed, D
<1>9. Adds(U, b, ks, old, new, above)
  <2>1. /\ \A e : Has(ks, e) => Has(nodes[Bottom(b)].kids, e) \/ e = above
        /\ \A e : Has(nodes[Bottom(b)].kids, e) => Has(ks, e) \/ e = old
    BY <1>4, <1>a
  <2> QED
    BY <1>2, <1>4, <1>8, <2>1, Zenon DEF Adds
<1>10. /\ old \in DOMAIN nodes /\ LeafIn(nodes, old)
       /\ BoxIn(U, above) = Scene!Union(BoxIn(nodes, old), b)
       /\ U[above].max = Scene!Max({nodes[old].max, order})
       /\ U[above].kids \in Seq({old, new}) /\ Len(U[above].kids) = 2
       /\ Has(U[above].kids, old) /\ Has(U[above].kids, new)
  BY <1>5, <1>8, <1>b DEF BoxIn, D
<1>11. Grafted(nodes, U, Route(b), b, order, old, new, above)
  <2>1. above = new + 1 /\ Len(U) \in {new, above} /\ new \in E /\ new = Len(nodes) + 1
    BY <1>2, <1>8, <1>a DEF above
  <2> QED
    BY <1>5, <1>7, <1>9, <1>10, <2>1, ClimbedGrafted
<1> QED
  BY <1>11 DEF U, grown, old, above

\* The tree with the new leaf is as whole as the one before.
LEMMA InsertedBelow ==
  ASSUME Deep, root # 0, NEW b \in Bounds, NEW order \in Nat, Scene!InsertLeaf(b, order)
  PROVE  LET new == Len(nodes) + 1
         IN  /\ Grafted(nodes, nodes', Route(b), b, order, Child(Bottom(b), b), new, new + 1)
             /\ root' = root /\ root \in Route(b)
<1> DEFINE new == Len(nodes) + 1
           bottom == Bottom(b)
           kids == nodes[bottom].kids
           best == Scene!Best(bottom, b)
           pair == [kids EXCEPT ![best] = new + 1]
<1>1. /\ root' = root
      /\ nodes' = IF Len(kids) < MaxChildren
                  THEN ClimbsTree(Tree(b, order), b, order,
                              IF nodes[bottom].max < order THEN Append(kids, new)
                              ELSE Scene!InsertAt(kids, Len(kids), new))
                  ELSE ClimbsTree(Joint(kids[best], b, order), b, order,
                              IF nodes[bottom].max < order THEN Scene!SwapLast(pair, best) ELSE pair)
  <2>1. NodesTyped(nodes) /\ root \in DOMAIN nodes /\ ~LeafIn(nodes, root)
    BY DEF Deep
  <2> QED
    BY <2>1, InsertedIs
<1>2. CASE Len(kids) < MaxChildren
  <2> DEFINE ks == IF nodes[bottom].max < order THEN Append(kids, new) ELSE Scene!InsertAt(kids, Len(kids), new)
  <2>1. WithRoom(b, order, kids, new, ks)
    BY <1>2 DEF WithRoom
  <2> HIDE DEF ks
  <2>2. Grafted(nodes, ClimbsTree(Tree(b, order), b, order, ks), Route(b), b, order, Child(Bottom(b), b), new, new + 1)
    BY <2>1, InsertedWithRoom
  <2> QED
    BY <1>1, <1>2, <2>2, RouteIs DEF ks
<1>3. CASE ~(Len(kids) < MaxChildren)
  <2> DEFINE ks == IF nodes[bottom].max < order THEN Scene!SwapLast(pair, best) ELSE pair
             old == Child(Bottom(b), b)
  <2>1. WithoutRoom(b, order, kids, new, ks)
    BY DEF WithoutRoom
  <2> HIDE DEF ks
  <2>2. Grafted(nodes, ClimbsTree(Joint(old, b, order), b, order, ks), Route(b), b, order, old, new, new + 1)
    BY <2>1, InsertedWithoutRoom
  <2>3. old = kids[best]
    BY DEF Child
  <2> QED
    BY <1>1, <1>3, <2>2, <2>3, RouteIs DEF ks
<1> QED
  BY <1>2, <1>3

\* The leaves are those there were, and the new one.
Planted(T, U, b, order, new) ==
  /\ new \in DOMAIN U /\ LeafIn(U, new) /\ BoxIn(U, new) = b /\ U[new].max = order
  /\ \A l \in DOMAIN T : LeafIn(T, l) => l \in DOMAIN U /\ U[l] = T[l] /\ LeafIn(U, l)
  /\ \A l \in DOMAIN U : LeafIn(U, l) => l = new \/ (l \in DOMAIN T /\ LeafIn(T, l))

\* All leaves can be reached.
Sound(U, r) ==
  /\ NodesTyped(U) /\ \E h : Lower(U, h)
  /\ r \in DOMAIN U /\ \A l \in DOMAIN U : LeafIn(U, l) => \E A : Reaches(U, r, A, l)

LEMMA FirstInserted ==
  ASSUME NEW b \in Bounds, NEW order \in Nat, nodes = <<>>
  PROVE  Sound(Tree(b, order), 1) /\ Planted(nodes, Tree(b, order), b, order, 1)
<1>1. NodesTyped(nodes) /\ Len(nodes) = 0 /\ DOMAIN nodes = {}
  BY DEF NodesTyped
<1> DEFINE U == Tree(b, order)
<1>2. U \in Seq(NodeType) /\ Len(U) = 1 /\ U[1] = Scene!Node(b, order, <<>>)
  BY <1>1, TreeIs
<1> HIDE DEF U
<1>3. DOMAIN U = {1}
  BY <1>2
<1>4. BoxIn(U, 1) = b /\ U[1].max = order /\ LeafIn(U, 1)
  BY <1>2, NewLeaf
<1>5. NodesTyped(U)
  <2>1. <<>> \in Seq(DOMAIN U) /\ Len(<<>>) <= MaxChildren
    BY SceneConstants
  <2> QED
    BY <1>2, <1>3, <1>4, <2>1 DEF NodesTyped, LeafIn
<1>6. Lower(U, [n \in DOMAIN U |-> 0])
  <2>1. \A n \in DOMAIN U : DOMAIN U[n].kids = {}
    BY <1>3, <1>4 DEF LeafIn
  <2> QED
    BY <2>1 DEF Lower
<1>7. Reaches(U, 1, {1}, 1)
  <2>1. Inside(b, b) /\ order <= order
    BY DEF Inside, Bounds
  <2> QED
    BY <1>3, <1>4, <2>1 DEF Reaches
<1>8. Sound(U, 1)
  BY <1>3, <1>5, <1>6, <1>7 DEF Sound
<1>9. Planted(nodes, U, b, order, 1)
  BY <1>1, <1>3, <1>4 DEF Planted
<1> QED
  BY <1>8, <1>9 DEF U

LEMMA GraftedSound ==
  ASSUME NEW T, NEW U, NEW R, NEW b \in Bounds, NEW order \in Nat, NEW old, NEW new, NEW above,
         Grafted(T, U, R, b, order, old, new, above), NEW r, Sound(T, r),
         NEW s, (s = r /\ r \in R) \/ (s = above /\ r = old /\ Len(U) = above)
  PROVE  Sound(U, s) /\ Planted(T, U, b, order, new)
<1>1. /\ NodesTyped(T) /\ r \in DOMAIN T
      /\ \A l \in DOMAIN T : LeafIn(T, l) => \E A : Reaches(T, r, A, l)
  BY DEF Sound
<1>2. NodesTyped(U)
  BY <1>1, GraftedTyped
<1>3. \E h : Lower(U, h)
  <2> PICK h : Lower(T, h)
    BY DEF Sound
  <2> QED
    BY <1>1, GraftedLower
<1>4. /\ s \in DOMAIN U /\ \E A : Reaches(U, s, A, new)
      /\ \A l \in DOMAIN T : LeafIn(T, l) =>
           /\ U[l] = T[l] /\ LeafIn(U, l)
           /\ (\E A : Reaches(T, r, A, l)) => (\E A : Reaches(U, s, A, l))
      /\ \A l \in DOMAIN U : LeafIn(U, l) => l = new \/ (l \in DOMAIN T /\ LeafIn(T, l))
  <2>1. StillReached(T, U, r, s, new)
    BY <1>1, GraftedReached
  <2> QED
    BY <2>1 DEF StillReached
<1>5. DOMAIN T \subseteq DOMAIN U /\ new \in DOMAIN U
  BY <1>1, GraftedIs
<1>6. BoxIn(U, new) = b /\ U[new].max = order /\ LeafIn(U, new)
  BY DEF Grafted
<1>7. Sound(U, s)
  BY <1>1, <1>2, <1>3, <1>4 DEF Sound
<1> QED
  BY <1>4, <1>5, <1>6, <1>7 DEF Planted

\* insert keeps the tree whole.
LEMMA InsertKeepsTree ==
  ASSUME TreeWhole(nodes, root, maxLeaf), NEW b \in Bounds, NEW order \in Nat, Scene!Insert(b, order)
  PROVE  /\ TreeWhole(nodes', root', maxLeaf') /\ Planted(nodes, nodes', b, order, Len(nodes) + 1)
<1>0. /\ NodesTyped(nodes) /\ Len(nodes) \in Nat /\ DOMAIN nodes = 1..Len(nodes)
      /\ root \in 0..Len(nodes) /\ maxLeaf \in 0..Len(nodes)
      /\ root = 0 <=> nodes = <<>>
      /\ root # 0 <=> maxLeaf # 0
  <2>1. nodes \in Seq(NodeType)
    BY DEF TreeWhole, NodesTyped
  <2> QED
    BY <2>1 DEF TreeWhole
<1>1. /\ Scene!InsertLeaf(b, order)
      /\ maxLeaf' = IF maxLeaf = 0 \/ nodes[maxLeaf].max < order THEN Len(nodes) + 1 ELSE maxLeaf
  BY DEF Scene!Insert
<1> DEFINE new == Len(nodes) + 1
<1>2. Sound(nodes', root') /\ Planted(nodes, nodes', b, order, new)
  <2>1. CASE root = 0
    <3>1. nodes' = Tree(b, order) /\ root' = new
      BY <1>1, <2>1 DEF Scene!InsertLeaf, Tree
    <3>2. nodes = <<>> /\ new = 1
      BY <1>0, <2>1
    <3> QED
      BY <3>1, <3>2, FirstInserted
  <2>2. CASE root # 0
    <3>1. root \in DOMAIN nodes
      BY <1>0, <2>2
    <3>2. Sound(nodes, root)
      BY <2>2, <3>1 DEF Sound, TreeWhole, LeavesReached
    <3>3. CASE LeafIn(nodes, root)
      <4>1. Grafted(nodes, nodes', {}, b, order, root, new, new + 1) /\ root' = new + 1 /\ Len(nodes') = new + 1
        BY <1>0, <1>1, <2>2, <3>1, <3>3, InsertedBesideRoot
      <4> HIDE DEF new
      <4> QED
        BY <3>2, <4>1, GraftedSound
    <3>4. CASE ~LeafIn(nodes, root)
      <4>1. Deep
        BY <3>1, <3>4 DEF Deep, TreeWhole
      <4>2. Grafted(nodes, nodes', Route(b), b, order, Child(Bottom(b), b), new, new + 1) /\ root' = root /\ root \in Route(b)
        BY <1>1, <2>2, <4>1, InsertedBelow
      <4> HIDE DEF new
      <4> QED
        BY <3>2, <4>2, GraftedSound
    <3> QED
      BY <3>3, <3>4
  <2> QED
    BY <2>1, <2>2
<1> HIDE DEF new
<1>3. /\ nodes' \in Seq(NodeType) /\ DOMAIN nodes' = 1..Len(nodes') /\ Len(nodes') \in Nat
      /\ root' \in DOMAIN nodes' /\ new \in DOMAIN nodes'
  <2>1. nodes' \in Seq(NodeType)
    BY <1>2 DEF Sound, NodesTyped
  <2> QED
    BY <1>2, <2>1 DEF Sound, Planted
<1>4. /\ maxLeaf' \in DOMAIN nodes' /\ LeafIn(nodes', maxLeaf')
      /\ \A l \in DOMAIN nodes' : LeafIn(nodes', l) => nodes'[l].max <= nodes'[maxLeaf'].max
  <2>0. \A l \in DOMAIN nodes : nodes[l].max \in Nat
    BY <1>0, NodesAre
  <2>1. CASE maxLeaf = 0
    <3>1. DOMAIN nodes = {} /\ maxLeaf' = new
      BY <1>0, <1>1, <2>1 DEF new
    <3> QED
      BY <1>2, <3>1 DEF Planted
  <2>2. CASE maxLeaf # 0
    <3>1. /\ maxLeaf \in DOMAIN nodes /\ LeafIn(nodes, maxLeaf)
          /\ \A l \in DOMAIN nodes : LeafIn(nodes, l) => nodes[l].max <= nodes[maxLeaf].max
      BY <1>0, <2>2 DEF TreeWhole, LeavesReached
    <3> PICK top_ \in Nat : top_ = nodes[maxLeaf].max
      BY <2>0, <3>1
    <3>2. /\ maxLeaf \in DOMAIN nodes' /\ nodes'[maxLeaf].max = top_ /\ LeafIn(nodes', maxLeaf)
          /\ nodes'[new].max = order /\ LeafIn(nodes', new)
          /\ \A l \in DOMAIN nodes' : LeafIn(nodes', l) => l = new \/ (nodes'[l].max \in Nat /\ nodes'[l].max <= top_)
      BY <1>2, <2>0, <3>1 DEF Planted
    <3>3. maxLeaf' = IF top_ < order THEN new ELSE maxLeaf
      BY <1>1, <2>2 DEF new
    <3>4. CASE top_ < order
      BY <1>3, <3>2, <3>3, <3>4
    <3>5. CASE ~(top_ < order)
      BY <1>3, <3>2, <3>3, <3>5
    <3> QED
      BY <3>4, <3>5
  <2> QED
    BY <2>1, <2>2
<1>5. LeavesReached(nodes', root', maxLeaf')
  BY <1>2, <1>4 DEF LeavesReached, Sound
<1>6. NodesTyped(nodes') /\ \E h : Lower(nodes', h)
  BY <1>2 DEF Sound
<1>7. root' # 0 /\ maxLeaf' # 0 /\ root' \in 0..Len(nodes') /\ maxLeaf' \in 0..Len(nodes') /\ nodes' # <<>>
  BY <1>3, <1>4
<1>8. TreeWhole(nodes', root', maxLeaf')
  BY <1>4, <1>5, <1>6, <1>7 DEF TreeWhole
<1> QED
  BY <1>2, <1>8 DEF new

-----------------------------------------------------------------------------
(* The orders of what is painted *)

AnyTile == Tiles \cup {NoTile}
Painted == [kind : Scene!Range(Kinds), tile : AnyTile, area : AllBounds, order : Nat, before : Nat]
Layer == [area : AllBounds, order : Nat, before : Nat]

\* A leaf of the tree holds b, and has its order.
Placed(T, b, order) ==
  \E l \in DOMAIN T : LeafIn(T, l) /\ Inside(b, BoxIn(T, l)) /\ T[l].max = order

\* What was painted before b got its order, and meets it, is behind it.
MetBehind(ps, b, order, before) ==
  \A i \in DOMAIN ps : i <= before /\ Scene!Intersects(b, ps[i].area) => ps[i].order < order

InFront(ps) ==
  \A j \in DOMAIN ps :
    ps[j].before < j /\ MetBehind(ps, ps[j].area, ps[j].order, ps[j].before)

\* It is behind what is yet to be painted in a layer, too.
LayersInFront(ls, ps) ==
  \A k \in DOMAIN ls :
    ls[k].before <= Len(ps) /\ MetBehind(ps, ls[k].area, ls[k].order, ls[k].before)

PaintedTyped(ps) ==
  /\ ps \in Seq(Painted)
  /\ \A i \in DOMAIN ps : ps[i].kind \in Sprite => ps[i].tile \in Tiles

SceneInv ==
  /\ TreeWhole(nodes, root, maxLeaf)
  /\ layers \in Seq(Layer) /\ PaintedTyped(prims)
  /\ \A i \in DOMAIN prims : Placed(nodes, prims[i].area, prims[i].order)
  /\ \A k \in DOMAIN layers : Placed(nodes, layers[k].area, layers[k].order)
  /\ InFront(prims) /\ LayersInFront(layers, prims)

LEMMA PlacedStays ==
  ASSUME NEW T, NEW U, NEW b, NEW order, NEW new, Planted(T, U, b, order, new),
         NEW c, NEW o, Placed(T, c, o)
  PROVE  Placed(U, c, o)
<1> PICK l \in DOMAIN T : LeafIn(T, l) /\ Inside(c, BoxIn(T, l)) /\ T[l].max = o
  BY DEF Placed
<1>1. l \in DOMAIN U /\ U[l] = T[l] /\ LeafIn(U, l)
  BY DEF Planted
<1>2. BoxIn(U, l) = BoxIn(T, l)
  BY <1>1 DEF BoxIn
<1> QED
  BY <1>1, <1>2 DEF Placed

LEMMA PlacedNew ==
  ASSUME NEW T, NEW U, NEW b \in Bounds, NEW order, NEW new, Planted(T, U, b, order, new)
  PROVE  Placed(U, b, order)
<1>1. new \in DOMAIN U /\ LeafIn(U, new) /\ BoxIn(U, new) = b /\ U[new].max = order
  BY DEF Planted
<1>2. Inside(b, b)
  BY DEF Inside, Bounds
<1> QED
  BY <1>1, <1>2 DEF Placed

\* The order that is found is above all that is placed where it is.
LEMMA OrderAbove ==
  ASSUME TreeWhole(nodes, root, maxLeaf), NEW b \in Bounds, NEW order, order = Scene!FindMaxOrdering(b) + 1,
         NEW c \in Bounds, NEW o \in Nat, Placed(nodes, c, o), Scene!Intersects(b, c)
  PROVE  o < order
<1>1. NodesTyped(nodes)
  BY DEF TreeWhole
<1> PICK l \in DOMAIN nodes : LeafIn(nodes, l) /\ Inside(c, BoxIn(nodes, l)) /\ nodes[l].max = o
  BY DEF Placed
<1>2. BoxIn(nodes, l) \in Bounds
  BY <1>1, NodesAre
<1>3. Scene!Intersects(b, BoxIn(nodes, l))
  BY <1>2, WithinAll
<1> PICK f : f = Scene!FindMaxOrdering(b)
  OBVIOUS
<1>4. f \in Nat /\ nodes[l].max <= f
  BY <1>3, SearchFinds
<1> QED
  BY <1>4

\* What an insertion finds and leaves.
Rooted(b, order) ==
  /\ order \in Nat
  /\ TreeWhole(nodes', root', maxLeaf')
  /\ Placed(nodes', b, order)
  /\ \A i \in DOMAIN prims : Placed(nodes', prims[i].area, prims[i].order)
  /\ \A k \in DOMAIN layers : Placed(nodes', layers[k].area, layers[k].order)
  /\ MetBehind(prims, b, order, Len(prims))

LEMMA PrimIs ==
  ASSUME NEW ps \in Seq(Painted), NEW i \in DOMAIN ps
  PROVE  /\ ps[i].kind \in Scene!Range(Kinds) /\ ps[i].area \in AllBounds /\ ps[i].area \in Bounds
         /\ ps[i].order \in Nat /\ ps[i].before \in Nat
<1> PICK p \in Painted : p = ps[i]
  OBVIOUS
<1>1. p.kind \in Scene!Range(Kinds) /\ p.area \in AllBounds /\ p.order \in Nat /\ p.before \in Nat
  BY DEF Painted
<1> QED
  BY <1>1, SceneConstants

LEMMA LayerIs ==
  ASSUME NEW ls \in Seq(Layer), NEW k \in DOMAIN ls
  PROVE  ls[k] \in Layer /\ ls[k].area \in AllBounds /\ ls[k].order \in Nat /\ ls[k].before \in Nat
<1> PICK p \in Layer : p = ls[k]
  OBVIOUS
<1>1. p.area \in AllBounds /\ p.order \in Nat /\ p.before \in Nat
  BY DEF Layer
<1> QED
  BY <1>1

LEMMA InsertRoots ==
  ASSUME SceneInv, NEW b \in AllBounds, NEW order \in Scene!Orders, Scene!Insert(b, order)
  PROVE  Rooted(b, order)
<1>1. /\ TreeWhole(nodes, root, maxLeaf) /\ prims \in Seq(Painted)
      /\ \A i \in DOMAIN prims : Placed(nodes, prims[i].area, prims[i].order)
      /\ \A k \in DOMAIN layers : Placed(nodes, layers[k].area, layers[k].order)
  BY DEF SceneInv, PaintedTyped
<1>2. b \in Bounds
  BY SceneConstants
<1>3. order = Scene!FindMaxOrdering(b) + 1 /\ order \in Nat
  <2>1. order = Scene!FindMaxOrdering(b) + 1
    BY DEF Scene!Insert
  <2> PICK f \in Nat : f = Scene!FindMaxOrdering(b)
    BY <1>1, <1>2, SearchFinds
  <2> QED
    BY <2>1
<1>4. TreeWhole(nodes', root', maxLeaf') /\ Planted(nodes, nodes', b, order, Len(nodes) + 1)
  BY <1>1, <1>2, <1>3, InsertKeepsTree
<1>5. Placed(nodes', b, order)
  BY <1>2, <1>4, PlacedNew
<1>6. /\ \A i \in DOMAIN prims : Placed(nodes', prims[i].area, prims[i].order)
      /\ \A k \in DOMAIN layers : Placed(nodes', layers[k].area, layers[k].order)
  BY <1>1, <1>4, PlacedStays
<1>7. ASSUME NEW i \in DOMAIN prims, Scene!Intersects(b, prims[i].area) PROVE prims[i].order < order
  <2>1. prims[i].area \in Bounds /\ prims[i].order \in Nat
    BY <1>1, PrimIs
  <2> QED
    BY <1>1, <1>2, <1>3, <1>7, <2>1, OrderAbove
<1>8. MetBehind(prims, b, order, Len(prims))
  BY <1>7, Zenon DEF MetBehind
<1> QED
  BY <1>3, <1>4, <1>5, <1>6, <1>8, Zenon DEF Rooted

LEMMA MeetBoth ==
  ASSUME NEW a \in Bounds, NEW c \in Bounds
  PROVE  Scene!Intersects(a, c) <=> Scene!Intersects(c, a)
BY DEF Bounds, Scene!Intersects

\* One more primitive: those before it stay, and what is told of them.
LEMMA OneMore ==
  ASSUME NEW ps \in Seq(Painted), NEW p \in Painted
  PROVE  /\ Append(ps, p) \in Seq(Painted) /\ Len(Append(ps, p)) = Len(ps) + 1
         /\ Append(ps, p)[Len(ps) + 1] = p /\ Len(ps) \in Nat
         /\ DOMAIN ps = 1..Len(ps) /\ DOMAIN Append(ps, p) = 1..(Len(ps) + 1)
         /\ \A i \in DOMAIN ps : Append(ps, p)[i] = ps[i]
BY AppendProperties

LEMMA StillMetBehind ==
  ASSUME NEW ps \in Seq(Painted), NEW p \in Painted, NEW b, NEW order,
         NEW before \in Nat, before <= Len(ps), MetBehind(ps, b, order, before)
  PROVE  MetBehind(Append(ps, p), b, order, before)
<1> PICK n \in Nat : n = Len(ps)
  BY OneMore
<1> DEFINE q == Append(ps, p)
<1>1. DOMAIN ps = 1..n /\ DOMAIN q = 1..(n + 1) /\ \A i \in 1..n : q[i] = ps[i]
  BY OneMore
<1> HIDE DEF q
<1>2. ASSUME NEW i \in DOMAIN q, i <= before, Scene!Intersects(b, q[i].area) PROVE q[i].order < order
  <2>1. i \in 1..n /\ q[i] = ps[i]
    BY <1>1, <1>2
  <2> QED
    BY <1>1, <1>2, <2>1 DEF MetBehind
<1>3. MetBehind(q, b, order, before)
  BY <1>2, Zenon DEF MetBehind
<1> QED
  BY <1>3 DEF q

LEMMA OneMoreInFront ==
  ASSUME NEW ps \in Seq(Painted), InFront(ps), NEW p \in Painted, p.before <= Len(ps),
         MetBehind(ps, p.area, p.order, p.before)
  PROVE  InFront(Append(ps, p))
<1> PICK n \in Nat : n = Len(ps)
  BY OneMore
<1> DEFINE q == Append(ps, p)
<1>1. DOMAIN ps = 1..n /\ DOMAIN q = 1..(n + 1) /\ q[n + 1] = p /\ \A i \in 1..n : q[i] = ps[i]
  BY OneMore
<1>2. p.before \in Nat
  BY DEF Painted
<1>3. ASSUME NEW j \in 1..n
      PROVE  q[j].before < j /\ MetBehind(q, q[j].area, q[j].order, q[j].before)
  <2>1. q[j] = ps[j] /\ ps[j].before < j /\ MetBehind(ps, ps[j].area, ps[j].order, ps[j].before)
    BY <1>1 DEF InFront
  <2>2. ps[j].before \in Nat /\ ps[j].before <= Len(ps)
    BY <1>1, <2>1, PrimIs
  <2> HIDE DEF q
  <2>3. MetBehind(Append(ps, p), ps[j].area, ps[j].order, ps[j].before)
    BY <2>1, <2>2, StillMetBehind
  <2> QED
    BY <2>1, <2>3 DEF q
<1>4. q[n + 1].before < n + 1 /\ MetBehind(q, q[n + 1].area, q[n + 1].order, q[n + 1].before)
  <2>1. MetBehind(Append(ps, p), p.area, p.order, p.before)
    BY <1>2, StillMetBehind
  <2> QED
    BY <1>1, <1>2, <2>1
<1> HIDE DEF q
<1>5. \A j \in DOMAIN q : j \in 1..n \/ j = n + 1
  BY <1>1
<1>6. InFront(q)
  BY <1>3, <1>4, <1>5 DEF InFront
<1> QED
  BY <1>6 DEF q

\* A primitive is typed, and its sprite has a tile.
Paintable(kind, tile) ==
  /\ kind \in Scene!Range(Kinds)
  /\ tile \in AnyTile
  /\ kind \in Sprite => tile \in Tiles

LEMMA PaintedMore ==
  ASSUME PaintedTyped(prims), InFront(prims), NEW kind, NEW tile, Paintable(kind, tile),
         NEW l \in Layer, l.before <= Len(prims), MetBehind(prims, l.area, l.order, l.before),
         NEW T, Placed(T, l.area, l.order),
         \A i \in DOMAIN prims : Placed(T, prims[i].area, prims[i].order)
  PROVE  LET ps == Append(prims, Scene!Primitive(kind, tile, l))
         IN  /\ PaintedTyped(ps) /\ InFront(ps)
             /\ \A i \in DOMAIN ps : Placed(T, ps[i].area, ps[i].order)
             /\ Scene!Primitive(kind, tile, l) \in Painted
<1>1. prims \in Seq(Painted) /\ \A i \in DOMAIN prims : prims[i].kind \in Sprite => prims[i].tile \in Tiles
  BY DEF PaintedTyped
<1>2. kind \in Scene!Range(Kinds) /\ tile \in AnyTile /\ (kind \in Sprite => tile \in Tiles)
  BY DEF Paintable
<1>3. l.area \in AllBounds /\ l.order \in Nat /\ l.before \in Nat
  BY DEF Layer
<1> DEFINE p == Scene!Primitive(kind, tile, l)
           ps == Append(prims, p)
<1>4. /\ p \in Painted /\ p.area = l.area /\ p.before = l.before /\ p.order = l.order
      /\ p.kind = kind /\ p.tile = tile
  BY <1>2, <1>3 DEF Painted, Scene!Primitive
<1> HIDE DEF p
<1>5. InFront(ps)
  BY <1>1, <1>4, OneMoreInFront
<1>6. ps \in Seq(Painted) /\ \A i \in DOMAIN ps : ps[i] = p \/ \E j \in DOMAIN prims : ps[i] = prims[j]
  <2> PICK n \in Nat : n = Len(prims) /\ DOMAIN prims = 1..n
    BY <1>1
  <2>1. ps \in Seq(Painted) /\ DOMAIN ps = 1..(n + 1) /\ ps[n + 1] = p /\ \A i \in 1..n : ps[i] = prims[i]
    BY <1>1, <1>4, OneMore
  <2> HIDE DEF ps
  <2> QED
    BY <2>1
<1> HIDE DEF ps
<1>7. PaintedTyped(ps)
  BY <1>1, <1>2, <1>4, <1>6 DEF PaintedTyped
<1>8. \A i \in DOMAIN ps : Placed(T, ps[i].area, ps[i].order)
  BY <1>4, <1>6
<1> QED
  BY <1>4, <1>5, <1>7, <1>8 DEF ps, p

\* A layer, or what is painted outside of all of them, with the order found for it.
LEMMA LayerNew ==
  ASSUME prims \in Seq(Painted), NEW b \in AllBounds, NEW order \in Nat
  PROVE  /\ Scene!Layer(order, b) \in Layer /\ Scene!Layer(order, b).order = order
         /\ Scene!Layer(order, b).area = b /\ Scene!Layer(order, b).before = Len(prims)
BY DEF Scene!Layer, Layer

\* Painting outside of all layers, and in one.
LEMMA PaintKeeps ==
  ASSUME SceneInv, NEW kind, NEW tile, NEW b \in AllBounds, Paintable(kind, tile),
         Scene!InsertPrimitive(kind, tile, b)
  PROVE  SceneInv'
<1>0. /\ TreeWhole(nodes, root, maxLeaf) /\ layers \in Seq(Layer) /\ PaintedTyped(prims)
      /\ \A i \in DOMAIN prims : Placed(nodes, prims[i].area, prims[i].order)
      /\ \A k \in DOMAIN layers : Placed(nodes, layers[k].area, layers[k].order)
      /\ InFront(prims) /\ LayersInFront(layers, prims)
  BY DEF SceneInv
<1>1. layers' = layers
  BY DEF Scene!InsertPrimitive
<1>3. prims \in Seq(Painted)
  BY <1>0 DEF PaintedTyped
<1>4. CASE layers = <<>>
  <2> PICK order \in Scene!Orders :
        Scene!Insert(b, order) /\ prims' = Append(prims, Scene!Primitive(kind, tile, Scene!Layer(order, b)))
    BY <1>4 DEF Scene!InsertPrimitive
  <2>1. Rooted(b, order)
    BY InsertRoots
  <2>2. /\ order \in Nat /\ TreeWhole(nodes', root', maxLeaf') /\ Placed(nodes', b, order)
        /\ \A i \in DOMAIN prims : Placed(nodes', prims[i].area, prims[i].order)
        /\ MetBehind(prims, b, order, Len(prims))
    BY <2>1 DEF Rooted
  <2> PICK l \in Layer : l = Scene!Layer(order, b) /\ l.order = order /\ l.area = b /\ l.before = Len(prims)
    BY <1>3, <2>2, LayerNew
  <2>5. l.before <= Len(prims)
    BY <1>3
  <2>3. /\ PaintedTyped(prims') /\ InFront(prims')
        /\ \A i \in DOMAIN prims' : Placed(nodes', prims'[i].area, prims'[i].order)
    BY <1>0, <2>2, <2>5, PaintedMore
  <2>4. DOMAIN layers = {}
    BY <1>4
  <2> QED
    BY <1>0, <1>1, <2>2, <2>3, <2>4 DEF SceneInv, LayersInFront
<1>5. CASE layers # <<>>
  <2> DEFINE k == Len(layers)
             l == layers[k]
  <2>1. /\ prims' = Append(prims, Scene!Primitive(kind, tile, l))
        /\ nodes' = nodes /\ root' = root /\ maxLeaf' = maxLeaf
    BY <1>5 DEF Scene!InsertPrimitive, Scene!Last
  <2>2. k \in DOMAIN layers
    BY <1>0, <1>5
  <2>3. l \in Layer
    BY <1>0, <2>2, LayerIs
  <2>4. /\ l.before <= Len(prims) /\ MetBehind(prims, l.area, l.order, l.before)
        /\ Placed(nodes, l.area, l.order)
    BY <1>0, <2>2 DEF LayersInFront
  <2> HIDE DEF k, l
  <2>7. /\ PaintedTyped(prims') /\ InFront(prims') /\ Scene!Primitive(kind, tile, l) \in Painted
        /\ \A i \in DOMAIN prims' : Placed(nodes, prims'[i].area, prims'[i].order)
    BY <1>0, <2>1, <2>3, <2>4, PaintedMore
  <2>8. ASSUME NEW m \in DOMAIN layers
        PROVE  /\ layers[m].before <= Len(prims')
               /\ MetBehind(prims', layers[m].area, layers[m].order, layers[m].before)
    <3>1. /\ layers[m].before <= Len(prims) /\ layers[m].before \in Nat
          /\ MetBehind(prims, layers[m].area, layers[m].order, layers[m].before)
      BY <1>0, <2>8, LayerIs DEF LayersInFront
    <3>2. Len(prims') = Len(prims) + 1 /\ Len(prims) \in Nat
      BY <1>3, <2>1, <2>7, OneMore
    <3>3. MetBehind(prims', layers[m].area, layers[m].order, layers[m].before)
      BY <1>3, <2>1, <2>7, <3>1, StillMetBehind
    <3> QED
      BY <3>1, <3>2, <3>3
  <2>9. LayersInFront(layers, prims')
    BY <2>8 DEF LayersInFront
  <2> QED
    BY <1>0, <1>1, <2>1, <2>7, <2>9 DEF SceneInv
<1> QED
  BY <1>4, <1>5

LEMMA PushKeeps ==
  ASSUME SceneInv, NEW b \in AllBounds, Scene!PushLayer(b)
  PROVE  SceneInv'
<1>0. /\ TreeWhole(nodes, root, maxLeaf) /\ layers \in Seq(Layer) /\ PaintedTyped(prims)
      /\ prims \in Seq(Painted)
      /\ \A k \in DOMAIN layers : Placed(nodes, layers[k].area, layers[k].order)
      /\ InFront(prims) /\ LayersInFront(layers, prims)
  BY DEF SceneInv, PaintedTyped
<1> PICK order \in Scene!Orders :
      Scene!Insert(b, order) /\ layers' = Append(layers, Scene!Layer(order, b))
  BY DEF Scene!PushLayer
<1>1. prims' = prims
  BY DEF Scene!PushLayer
<1>2. Rooted(b, order)
  BY InsertRoots
<1>3. /\ order \in Nat /\ TreeWhole(nodes', root', maxLeaf') /\ Placed(nodes', b, order)
      /\ \A i \in DOMAIN prims : Placed(nodes', prims[i].area, prims[i].order)
      /\ MetBehind(prims, b, order, Len(prims))
      /\ \A k \in DOMAIN layers : Placed(nodes', layers[k].area, layers[k].order)
  BY <1>2 DEF Rooted
<1> PICK l \in Layer : l = Scene!Layer(order, b) /\ l.order = order /\ l.area = b /\ l.before = Len(prims)
  BY <1>0, <1>3, LayerNew
<1> PICK n \in Nat : n = Len(layers) /\ DOMAIN layers = 1..n
  BY <1>0
<1> DEFINE ls == Append(layers, l)
<1>7. /\ ls \in Seq(Layer) /\ Len(ls) = n + 1 /\ ls[n + 1] = l
      /\ \A k \in 1..n : ls[k] = layers[k]
  BY <1>0, AppendProperties
<1> HIDE DEF ls
<1>8. DOMAIN ls = 1..(n + 1) /\ \A k \in 1..(n + 1) : k \in 1..n \/ k = n + 1
  BY <1>7
<1>9. \A k \in DOMAIN ls : Placed(nodes', ls[k].area, ls[k].order)
  BY <1>3, <1>7, <1>8
<1>11. ASSUME NEW k \in DOMAIN ls
       PROVE  ls[k].before <= Len(prims) /\ MetBehind(prims, ls[k].area, ls[k].order, ls[k].before)
  <2>1. CASE k \in 1..n
    BY <1>0, <1>7, <2>1 DEF LayersInFront
  <2>2. CASE k = n + 1
    <3>1. Len(prims) \in Nat
      BY <1>0
    <3> QED
      BY <1>3, <1>7, <2>2, <3>1
  <2> QED
    BY <1>8, <2>1, <2>2
<1>12. layers' = ls /\ LayersInFront(ls, prims)
  BY <1>11 DEF ls, LayersInFront
<1> QED
  BY <1>0, <1>1, <1>3, <1>7, <1>9, <1>12 DEF SceneInv

LEMMA PopKeeps ==
  ASSUME SceneInv, Scene!PopLayer
  PROVE  SceneInv'
<1>0. /\ layers \in Seq(Layer) /\ layers # <<>> /\ layers' = Scene!Front(layers)
      /\ UNCHANGED <<nodes, root, maxLeaf, prims>>
      /\ \A k \in DOMAIN layers : Placed(nodes, layers[k].area, layers[k].order)
      /\ LayersInFront(layers, prims)
  BY DEF SceneInv, Scene!PopLayer
<1> PICK n \in Nat \ {0} : n = Len(layers) /\ DOMAIN layers = 1..n
  BY <1>0
<1> DEFINE ls == SubSeq(layers, 1, n - 1)
<1>1. layers' = ls
  BY <1>0 DEF Scene!Front
<1>2. ls \in Seq(Layer) /\ Len(ls) = n - 1 /\ \A k \in 1..(n - 1) : ls[k] = layers[k]
  BY <1>0
<1> HIDE DEF ls
<1>3. DOMAIN ls = 1..(n - 1) /\ \A k \in 1..(n - 1) : k \in 1..n
  BY <1>2
<1>4. \A k \in DOMAIN ls : Placed(nodes, ls[k].area, ls[k].order)
  BY <1>0, <1>2, <1>3
<1>6. LayersInFront(ls, prims)
  BY <1>0, <1>2, <1>3 DEF LayersInFront
<1> QED
  BY <1>0, <1>1, <1>2, <1>4, <1>6 DEF SceneInv

LEMMA EmptyScene ==
  ASSUME nodes = <<>>, root = 0, maxLeaf = 0, layers = <<>>, prims = <<>>
  PROVE  SceneInv
<1>1. TreeWhole(nodes, root, maxLeaf)
  <2>1. NodesTyped(nodes) /\ Lower(nodes, nodes) /\ Len(nodes) = 0
    <3>1. <<>> \in Seq(NodeType) /\ DOMAIN <<>> = {} /\ Len(<<>>) = 0 /\ <<>> \in [{} -> Nat]
      OBVIOUS
    <3> QED
      BY <3>1 DEF NodesTyped, Lower
  <2> QED
    BY <2>1 DEF TreeWhole
<1>2. <<>> \in Seq(Layer) /\ <<>> \in Seq(Painted) /\ DOMAIN <<>> = {}
  OBVIOUS
<1> QED
  BY <1>1, <1>2 DEF SceneInv, PaintedTyped, InFront, LayersInFront

LEMMA SceneStep ==
  ASSUME SceneInv, [Scene!Next]_sceneVars
  PROVE  SceneInv'
<1>1. ASSUME NEW kind \in Scene!Range(Kinds), NEW b \in AllBounds,
             NEW tile \in IF kind \in Sprite THEN Tiles ELSE {NoTile}, Scene!InsertPrimitive(kind, tile, b)
      PROVE  SceneInv'
  <2>1. Paintable(kind, tile)
    BY DEF Paintable, AnyTile
  <2> QED
    BY <1>1, <2>1, PaintKeeps
<1>2. ASSUME NEW b \in AllBounds, Scene!PushLayer(b) PROVE SceneInv'
  BY <1>2, PushKeeps
<1>3. CASE Scene!PopLayer
  BY <1>3, PopKeeps
<1>4. CASE Scene!Clear
  <2>1. nodes' = <<>> /\ root' = 0 /\ maxLeaf' = 0 /\ prims' = <<>> /\ layers' = <<>>
    BY <1>4 DEF Scene!Clear
  <2>2. (nodes = <<>> /\ root = 0 /\ maxLeaf = 0 /\ layers = <<>> /\ prims = <<>> => SceneInv)'
    BY EmptyScene, PTL
  <2> QED
    BY <2>1, <2>2
<1>5. CASE UNCHANGED sceneVars
  <2>1. nodes' = nodes /\ root' = root /\ maxLeaf' = maxLeaf /\ prims' = prims /\ layers' = layers
    BY <1>5 DEF sceneVars
  <2> QED
    BY <2>1 DEF SceneInv
<1> QED
  BY <1>1, <1>2, <1>3, <1>4, <1>5 DEF Scene!Next

-----------------------------------------------------------------------------
(* Sorting *)

\* lt orders S.
IsOrder(lt, S) ==
  \A x, y \in S : /\ <<x, x>> \notin lt
                  /\ x # y => <<x, y>> \in lt \/ <<y, x>> \in lt
                  /\ \A z \in S : <<x, y>> \in lt /\ <<y, z>> \in lt => <<x, z>> \in lt

SortsTo(s, S, lt) ==
  /\ s \in [1..Cardinality(S) -> S]
  /\ \A m, n \in 1..Cardinality(S) : m < n => <<s[m], s[n]>> \in lt

\* A finite set that is ordered can be sorted.
LEMMA SortExists ==
  ASSUME NEW S, IsFiniteSet(S), NEW lt, IsOrder(lt, S)
  PROVE  \E s : SortsTo(s, S, lt)
<1> PICK N \in Nat : N = Cardinality(S)
  BY FS_CardinalityType
<1> DEFINE Upto(x) == {y \in S : y = x \/ <<y, x>> \in lt}
           rank == [x \in S |-> Cardinality(Upto(x))]
<1>1. ASSUME NEW x \in S
      PROVE  /\ IsFiniteSet(Upto(x)) /\ Cardinality(Upto(x)) \in 1..N
  <2>1. Upto(x) \in SUBSET S /\ x \in Upto(x)
    OBVIOUS
  <2> HIDE DEF Upto
  <2>2. IsFiniteSet(Upto(x)) /\ Cardinality(Upto(x)) <= N
    BY <2>1, FS_Subset
  <2>3. Cardinality(Upto(x)) \in Nat /\ Cardinality(Upto(x)) # 0
    BY <2>1, <2>2, FS_CardinalityType, FS_EmptySet
  <2> QED
    BY <2>2, <2>3
<1>2. ASSUME NEW x \in S, NEW y \in S, <<x, y>> \in lt PROVE rank[x] < rank[y]
  <2>1. Upto(x) \in SUBSET Upto(y) /\ y \in Upto(y) /\ y \notin Upto(x)
    BY <1>2 DEF IsOrder
  <2>2. IsFiniteSet(Upto(y)) /\ Cardinality(Upto(y)) \in 1..N /\ Cardinality(Upto(x)) \in 1..N
    BY <1>1
  <2> HIDE DEF Upto
  <2>3. Cardinality(Upto(x)) <= Cardinality(Upto(y)) /\ Cardinality(Upto(x)) # Cardinality(Upto(y))
    BY <2>1, <2>2, FS_Subset
  <2> QED
    BY <2>2, <2>3
<1>3. rank \in [S -> 1..N]
  BY <1>1
<1> HIDE DEF rank
<1>4. \A x, y \in S : rank[x] = rank[y] => x = y
  <2> SUFFICES ASSUME NEW x \in S, NEW y \in S, rank[x] = rank[y], x # y PROVE FALSE
    OBVIOUS
  <2>1. <<x, y>> \in lt \/ <<y, x>> \in lt
    BY DEF IsOrder
  <2>2. rank[x] < rank[y] \/ rank[y] < rank[x]
    BY <1>2, <2>1
  <2> QED
    BY <1>3, <2>2
<1>5. rank \in Injection(S, 1..N)
  BY <1>3, <1>4 DEF Injection, IsInjective
<1>6. IsFiniteSet(1..N) /\ Cardinality(1..N) = N
  BY FS_Interval
<1>7. rank \in Surjection(S, 1..N)
  BY <1>5, <1>6, FS_Injection
<1>8. \A n \in 1..N : \E x \in S : rank[x] = n
  BY <1>7 DEF Surjection
<1> DEFINE s == [n \in 1..N |-> CHOOSE x \in S : rank[x] = n]
<1>9. \A n \in 1..N : s[n] \in S /\ rank[s[n]] = n
  BY <1>8
<1>10. s \in [1..N -> S]
  BY <1>9
<1> HIDE DEF s
<1>11. ASSUME NEW m \in 1..N, NEW n \in 1..N, m < n PROVE <<s[m], s[n]>> \in lt
  <2>1. s[m] # s[n]
    BY <1>9, <1>11
  <2>2. CASE <<s[n], s[m]>> \in lt
    <3>1. rank[s[n]] < rank[s[m]]
      BY <1>2, <1>9, <2>2
    <3> QED
      BY <1>9, <1>11, <3>1
  <2> QED
    BY <1>9, <2>1, <2>2 DEF IsOrder
<1> QED
  BY <1>10, <1>11 DEF SortsTo

\* What is sorted has every element once.
LEMMA SortedHasAll ==
  ASSUME NEW S, IsFiniteSet(S), NEW lt, IsOrder(lt, S), NEW s, SortsTo(s, S, lt)
  PROVE  /\ s \in Seq(S) /\ Len(s) = Cardinality(S)
         /\ \A m, n \in DOMAIN s : s[m] = s[n] => m = n
         /\ \A x \in S : \E n \in DOMAIN s : s[n] = x
<1> PICK N \in Nat : N = Cardinality(S)
  BY FS_CardinalityType
<1>1. s \in [1..N -> S] /\ \A m, n \in 1..N : m < n => <<s[m], s[n]>> \in lt
  BY DEF SortsTo
<1>2. ASSUME NEW m \in 1..N, NEW n \in 1..N, s[m] = s[n], m # n PROVE FALSE
  <2>1. m < n \/ n < m
    BY <1>2
  <2>2. <<s[m], s[m]>> \in lt
    BY <1>1, <1>2, <2>1
  <2> QED
    BY <1>1, <2>2 DEF IsOrder
<1>3. s \in Injection(1..N, S)
  BY <1>1, <1>2 DEF Injection, IsInjective
<1>4. IsFiniteSet(1..N) /\ Cardinality(1..N) = N
  BY FS_Interval
<1>5. s \in Surjection(1..N, S)
  BY <1>3, <1>4, FS_Injection
<1>6. \A x \in S : \E n \in 1..N : s[n] = x
  BY <1>5 DEF Surjection
<1>7. DOMAIN s = 1..N /\ s \in Seq(S) /\ Len(s) = N
  BY <1>1
<1> QED
  BY <1>2, <1>6, <1>7

-----------------------------------------------------------------------------
(* The primitives of a kind *)

LEMMA SameSize == \A S : Scene!Cardinality(S) = Cardinality(S)
BY DEF Scene!Cardinality, Cardinality

\* The primitives of a kind, and the order finish gives them.
OfKind(kind) == {i \in DOMAIN prims : prims[i].kind = kind}
TileOf(kind, i) == IF kind \in Sprite THEN prims[i].tile.tile ELSE 0
Sooner(kind) ==
  {p \in OfKind(kind) \X OfKind(kind) :
    \/ prims[p[1]].order < prims[p[2]].order
    \/ prims[p[1]].order = prims[p[2]].order /\ TileOf(kind, p[1]) < TileOf(kind, p[2])
    \/ prims[p[1]].order = prims[p[2]].order /\ TileOf(kind, p[1]) = TileOf(kind, p[2]) /\ p[1] < p[2]}

\* Different primitives, their orders never falling.
Rising(q) ==
  \A m, n \in DOMAIN q : m < n => q[m] # q[n] /\ prims[q[m]].order <= prims[q[n]].order

\* Primitives of one kind, in an order finish and batches keep.
Queue(q, kind) ==
  /\ q \in Seq(DOMAIN prims) /\ Rising(q)
  /\ \A m \in DOMAIN q : prims[q[m]].kind = kind

LEMMA KindIsOrdered ==
  ASSUME PaintedTyped(prims), NEW kind
  PROVE  IsFiniteSet(OfKind(kind)) /\ IsOrder(Sooner(kind), OfKind(kind))
<1> PICK N \in Nat : DOMAIN prims = 1..N
  BY DEF PaintedTyped
<1>1. IsFiniteSet(OfKind(kind))
  <2>1. IsFiniteSet(1..N) /\ OfKind(kind) \in SUBSET (1..N)
    BY FS_Interval DEF OfKind
  <2> QED
    BY <2>1, FS_Subset
<1>2. \A i \in OfKind(kind) : i \in Nat /\ prims[i].order \in Nat /\ TileOf(kind, i) \in Int
  <2> SUFFICES ASSUME NEW i \in OfKind(kind)
               PROVE  i \in Nat /\ prims[i].order \in Nat /\ TileOf(kind, i) \in Int
    OBVIOUS
  <2>1. i \in DOMAIN prims /\ prims[i].kind = kind
    BY DEF OfKind
  <2>2. prims[i].order \in Nat
    BY <2>1, PrimIs DEF PaintedTyped
  <2>3. TileOf(kind, i) \in Int
    BY <2>1, SceneConstants DEF TileOf, PaintedTyped
  <2> QED
    BY <2>1, <2>2, <2>3
<1> DEFINE S == OfKind(kind)
           lt == Sooner(kind)
<1> PICK o : o = [i \in S |-> prims[i].order]
  OBVIOUS
<1> PICK t : t = [i \in S |-> TileOf(kind, i)]
  OBVIOUS
<1>3. \A i, j \in S : <<i, j>> \in lt <=> o[i] < o[j] \/ (o[i] = o[j] /\ (t[i] < t[j] \/ (t[i] = t[j] /\ i < j)))
  BY DEF Sooner
<1>6. \A i \in S : i \in Nat /\ o[i] \in Nat /\ t[i] \in Int
  BY <1>2
<1> HIDE DEF S, lt
<1>4. \A x, y \in S : /\ <<x, x>> \notin lt
                      /\ x # y => <<x, y>> \in lt \/ <<y, x>> \in lt
  <2> SUFFICES ASSUME NEW x \in S, NEW y \in S
               PROVE  <<x, x>> \notin lt /\ (x # y => <<x, y>> \in lt \/ <<y, x>> \in lt)
    BY Zenon
  <2>1. /\ x \in Nat /\ o[x] \in Nat /\ t[x] \in Int
        /\ y \in Nat /\ o[y] \in Nat /\ t[y] \in Int
    BY <1>6
  <2>2. /\ <<x, x>> \in lt <=> o[x] < o[x] \/ (o[x] = o[x] /\ (t[x] < t[x] \/ (t[x] = t[x] /\ x < x)))
        /\ <<x, y>> \in lt <=> o[x] < o[y] \/ (o[x] = o[y] /\ (t[x] < t[y] \/ (t[x] = t[y] /\ x < y)))
        /\ <<y, x>> \in lt <=> o[y] < o[x] \/ (o[y] = o[x] /\ (t[y] < t[x] \/ (t[y] = t[x] /\ y < x)))
    BY <1>3
  <2> QED
    BY <2>1, <2>2
<1>5. \A x, y, z \in S : <<x, y>> \in lt /\ <<y, z>> \in lt => <<x, z>> \in lt
  <2> SUFFICES ASSUME NEW x \in S, NEW y \in S, NEW z \in S, <<x, y>> \in lt, <<y, z>> \in lt
               PROVE  <<x, z>> \in lt
    OBVIOUS
  <2>1. /\ x \in Nat /\ o[x] \in Nat /\ t[x] \in Int
        /\ y \in Nat /\ o[y] \in Nat /\ t[y] \in Int
        /\ z \in Nat /\ o[z] \in Nat /\ t[z] \in Int
    BY <1>6
  <2>2. /\ o[x] < o[y] \/ (o[x] = o[y] /\ (t[x] < t[y] \/ (t[x] = t[y] /\ x < y)))
        /\ o[y] < o[z] \/ (o[y] = o[z] /\ (t[y] < t[z] \/ (t[y] = t[z] /\ y < z)))
    BY <1>3
  <2>3. o[x] < o[z] \/ (o[x] = o[z] /\ (t[x] < t[z] \/ (t[x] = t[z] /\ x < z)))
    BY <2>1, <2>2, SMTT(40)
  <2> QED
    BY <1>3, <2>3
<1> QED
  BY <1>1, <1>4, <1>5 DEF IsOrder, S, lt

\* finish: the primitives of a kind, sorted.
LEMMA SortedIs ==
  ASSUME PaintedTyped(prims), NEW kind
  PROVE  /\ Queue(Scene!Sorted(kind), kind)
         /\ \A i \in DOMAIN prims : prims[i].kind = kind => \E m \in DOMAIN Scene!Sorted(kind) : Scene!Sorted(kind)[m] = i
<1> DEFINE S == OfKind(kind)
           lt == Sooner(kind)
           N == Cardinality(S)
           Is(t) == t \in [1..N -> S] /\ \A m, n \in DOMAIN t : m < n => <<t[m], t[n]>> \in lt
           s == Scene!Sorted(kind)
<1>1. IsFiniteSet(S) /\ IsOrder(lt, S)
  BY KindIsOrdered
<1>2. \A t \in [1..N -> S] : \A m, n \in DOMAIN t :
        <<t[m], t[n]>> \in lt <=>
          \/ prims[t[m]].order < prims[t[n]].order
          \/ prims[t[m]].order = prims[t[n]].order /\ TileOf(kind, t[m]) < TileOf(kind, t[n])
          \/ prims[t[m]].order = prims[t[n]].order /\ TileOf(kind, t[m]) = TileOf(kind, t[n]) /\ t[m] < t[n]
  <2> SUFFICES ASSUME NEW t \in [1..N -> S], NEW m \in DOMAIN t, NEW n \in DOMAIN t
               PROVE  <<t[m], t[n]>> \in lt <=>
                         \/ prims[t[m]].order < prims[t[n]].order
                         \/ prims[t[m]].order = prims[t[n]].order /\ TileOf(kind, t[m]) < TileOf(kind, t[n])
                         \/ /\ prims[t[m]].order = prims[t[n]].order
                            /\ TileOf(kind, t[m]) = TileOf(kind, t[n]) /\ t[m] < t[n]
    BY ZenonT(40)
  <2>1. t[m] \in S /\ t[n] \in S
    OBVIOUS
  <2> QED
    BY <2>1 DEF Sooner
<1>3. s = CHOOSE t \in [1..Scene!Cardinality(S) -> S] :
            \A m, n \in DOMAIN t : m < n =>
              \/ prims[t[m]].order < prims[t[n]].order
              \/ prims[t[m]].order = prims[t[n]].order /\ TileOf(kind, t[m]) < TileOf(kind, t[n])
              \/ prims[t[m]].order = prims[t[n]].order /\ TileOf(kind, t[m]) = TileOf(kind, t[n]) /\ t[m] < t[n]
  BY DEF Scene!Sorted, OfKind, TileOf
<1>4. Scene!Cardinality(S) = N
  BY SameSize
<1>5. \E t : Is(t)
  <2>1. PICK t : SortsTo(t, S, lt)
    BY <1>1, SortExists
  <2>2. t \in [1..N -> S] /\ DOMAIN t = 1..N
    BY <2>1 DEF SortsTo
  <2> QED
    BY <2>1, <2>2 DEF SortsTo
<1>6. Is(s)
  <2> DEFINE Goes(t) ==
               \A m, n \in DOMAIN t : m < n =>
                 \/ prims[t[m]].order < prims[t[n]].order
                 \/ prims[t[m]].order = prims[t[n]].order /\ TileOf(kind, t[m]) < TileOf(kind, t[n])
                 \/ prims[t[m]].order = prims[t[n]].order /\ TileOf(kind, t[m]) = TileOf(kind, t[n]) /\ t[m] < t[n]
  <2>1. s = CHOOSE t \in [1..N -> S] : Goes(t)
    BY <1>3, <1>4
  <2>2. \A t \in [1..N -> S] : Is(t) <=> Goes(t)
    <3> SUFFICES ASSUME NEW t \in [1..N -> S] PROVE Is(t) <=> Goes(t)
      OBVIOUS
    <3> HIDE DEF lt, s
    <3> QED
      BY <1>2
  <2>3. \E t \in [1..N -> S] : Goes(t)
    <3> HIDE DEF Goes
    <3> QED
      BY <1>5, <2>2
  <2> HIDE DEF s, Goes, lt
  <2>4. s \in [1..N -> S] /\ Goes(s)
    BY <2>1, <2>3
  <2> QED
    BY <2>2, <2>4
<1> HIDE DEF s
<1>7. SortsTo(s, S, lt)
  BY <1>6 DEF SortsTo
<1>8. /\ s \in Seq(S)
      /\ \A m, n \in DOMAIN s : s[m] = s[n] => m = n
      /\ \A x \in S : \E n \in DOMAIN s : s[n] = x
  BY <1>1, <1>7, SortedHasAll
<1>9. \A m \in DOMAIN s : s[m] \in DOMAIN prims /\ prims[s[m]].kind = kind /\ prims[s[m]].order \in Nat
  <2> SUFFICES ASSUME NEW m \in DOMAIN s
               PROVE  s[m] \in DOMAIN prims /\ prims[s[m]].kind = kind /\ prims[s[m]].order \in Nat
    OBVIOUS
  <2>1. s[m] \in S
    BY <1>8
  <2>2. s[m] \in DOMAIN prims /\ prims[s[m]].kind = kind
    BY <2>1 DEF OfKind
  <2> QED
    BY <2>2, PrimIs DEF PaintedTyped
<1>10. \A m, n \in DOMAIN s : m < n => prims[s[m]].order <= prims[s[n]].order
  <2> SUFFICES ASSUME NEW m \in DOMAIN s, NEW n \in DOMAIN s, m < n
               PROVE  prims[s[m]].order <= prims[s[n]].order
    OBVIOUS
  <2>1. <<s[m], s[n]>> \in lt
    BY <1>6
  <2>2. prims[s[m]].order < prims[s[n]].order \/ prims[s[m]].order = prims[s[n]].order
    BY <2>1 DEF Sooner
  <2> QED
    BY <1>9, <2>2
<1>11. s \in Seq(DOMAIN prims)
  <2>1. S \subseteq DOMAIN prims
    BY DEF OfKind
  <2> QED
    BY <1>8, <2>1
<1>12. Queue(s, kind)
  <2>1. \A m, n \in DOMAIN s : m < n => s[m] # s[n]
    <3>1. DOMAIN s \subseteq Nat
      BY <1>8
    <3> QED
      BY <1>8, <3>1
  <2> QED
    BY <1>9, <1>10, <1>11, <2>1 DEF Queue, Rising
<1>13. \A i \in DOMAIN prims : prims[i].kind = kind => \E m \in DOMAIN s : s[m] = i
  BY <1>8 DEF OfKind
<1> QED
  BY <1>12, <1>13 DEF s

-----------------------------------------------------------------------------
(* Batches *)

AllKinds == Scene!Range(Kinds)
Queues == [AllKinds -> Seq(DOMAIN prims)]

\* What BatchIterator takes from the queues: the kind, how many, and what is left.
LeftIn(rest) == {k \in AllKinds : rest[k] # <<>>}
FirstIn(rest) ==
  CHOOSE k \in LeftIn(rest) : \A l \in LeftIn(rest) \ {k} :
    Scene!DrawnBefore(prims[rest[k][1]].order, k, prims[rest[l][1]].order, l)
TakenFrom(rest) ==
  Scene!BatchLength(rest[FirstIn(rest)], FirstIn(rest), {rest[l][1] : l \in LeftIn(rest) \ {FirstIn(rest)}})
Batch(rest) == SubSeq(rest[FirstIn(rest)], 1, TakenFrom(rest))
AfterBatch(rest) ==
  [rest EXCEPT ![FirstIn(rest)] = SubSeq(@, TakenFrom(rest) + 1, Len(@))]

LEMMA KindsFinite ==
  /\ IsFiniteSet(AllKinds)
  /\ \A k \in AllKinds : Scene!KindIndex(k) \in Nat
  /\ \A k, l \in AllKinds : Scene!KindIndex(k) = Scene!KindIndex(l) => k = l
<1> PICK N \in Nat : DOMAIN Kinds = 1..N
  BY SceneConstants
<1>1. \A k \in AllKinds : \E n \in 1..N : Kinds[n] = k
  BY DEF AllKinds, Scene!Range
<1>2. \A k \in AllKinds : Scene!KindIndex(k) \in 1..N /\ Kinds[Scene!KindIndex(k)] = k
  BY <1>1 DEF Scene!KindIndex
<1>3. IsFiniteSet(AllKinds)
  <2>1. Kinds \in [1..N -> AllKinds]
    BY SceneConstants DEF AllKinds, Scene!Range
  <2>2. Kinds \in Surjection(1..N, AllKinds)
    BY <1>1, <2>1 DEF Surjection
  <2>3. IsFiniteSet(1..N)
    BY FS_Interval
  <2> QED
    BY <2>2, <2>3, FS_Surjection
<1> QED
  BY <1>2, <1>3

LEMMA QueueHead ==
  ASSUME PaintedTyped(prims), NEW rest \in Queues, NEW k \in LeftIn(rest)
  PROVE  /\ k \in AllKinds /\ rest[k] \in Seq(DOMAIN prims) /\ 1 \in DOMAIN rest[k]
         /\ Len(rest[k]) \in Nat \ {0} /\ DOMAIN rest[k] = 1..Len(rest[k])
         /\ rest[k][1] \in DOMAIN prims /\ prims[rest[k][1]].order \in Nat
<1>1. k \in AllKinds /\ rest[k] \in Seq(DOMAIN prims) /\ rest[k] # <<>>
  BY DEF LeftIn, Queues
<1> PICK q \in Seq(DOMAIN prims) : q = rest[k]
  BY <1>1
<1>2. 1 \in DOMAIN q /\ Len(q) \in Nat \ {0} /\ DOMAIN q = 1..Len(q) /\ q[1] \in DOMAIN prims
  BY <1>1
<1>3. prims[q[1]].order \in Nat
  BY <1>2, PrimIs DEF PaintedTyped
<1> QED
  BY <1>1, <1>2, <1>3

LEMMA FirstIs ==
  ASSUME PaintedTyped(prims), NEW rest \in Queues, LeftIn(rest) # {}
  PROVE  /\ FirstIn(rest) \in LeftIn(rest)
         /\ \A l \in LeftIn(rest) : prims[rest[FirstIn(rest)][1]].order <= prims[rest[l][1]].order
<1> DEFINE L == LeftIn(rest)
           h == [k \in L |-> prims[rest[k][1]].order]
           Leads(k) == \A l \in L \ {k} : Scene!DrawnBefore(prims[rest[k][1]].order, k, prims[rest[l][1]].order, l)
<1>1. L \in SUBSET AllKinds /\ IsFiniteSet(L)
  <2>1. L \in SUBSET AllKinds
    BY DEF LeftIn
  <2> QED
    BY <2>1, KindsFinite, FS_Subset
<1>2. \A k \in L : h[k] \in Nat
  BY QueueHead
<1>3. PICK k \in L : \A l \in L : h[k] <= h[l]
  <2> DEFINE w == [l \in L |-> 0 - h[l]]
  <2>1. L # {} /\ \A l \in L : w[l] \in Int
    BY <1>2
  <2> HIDE DEF w, L
  <2>2. PICK k \in L : \A l \in L : w[l] <= w[k]
    BY <1>1, <2>1, Heaviest
  <2>3. \A l \in L : w[l] = 0 - h[l]
    BY DEF w
  <2> HIDE DEF h
  <2> QED
    BY <1>2, <2>2, <2>3
<1> DEFINE M == {l \in L : h[l] = h[k]}
<1>4. PICK m \in M : \A l \in M : Scene!KindIndex(m) <= Scene!KindIndex(l)
  <2> DEFINE w == [l \in M |-> 0 - Scene!KindIndex(l)]
  <2>1. M \in SUBSET L /\ k \in M
    BY <1>3
  <2>2. IsFiniteSet(M)
    BY <1>1, <2>1, FS_Subset
  <2>3. \A l \in M : Scene!KindIndex(l) \in Nat
    BY <1>1, KindsFinite
  <2>4. \A l \in M : w[l] \in Int
    BY <2>3
  <2>6. \A l \in M : w[l] = 0 - Scene!KindIndex(l)
    OBVIOUS
  <2> HIDE DEF w, M
  <2>5. PICK m \in M : \A l \in M : w[l] <= w[m]
    BY <2>1, <2>2, <2>4, Heaviest
  <2> QED
    BY <2>3, <2>5, <2>6
<1>5. m \in L /\ \A l \in L \ {m} : h[m] < h[l] \/ (h[m] = h[l] /\ Scene!KindIndex(m) < Scene!KindIndex(l))
  <2> SUFFICES ASSUME NEW l \in L \ {m}
               PROVE  h[m] < h[l] \/ (h[m] = h[l] /\ Scene!KindIndex(m) < Scene!KindIndex(l))
    OBVIOUS
  <2>1. m \in L /\ h[m] = h[k] /\ h[k] <= h[l] /\ h[m] \in Nat /\ h[l] \in Nat
    BY <1>2, <1>3
  <2>2. CASE h[l] = h[k]
    <3>1. l \in M
      BY <2>2
    <3>2. Scene!KindIndex(m) <= Scene!KindIndex(l)
      BY <1>4, <3>1
    <3>3. /\ Scene!KindIndex(m) \in Nat /\ Scene!KindIndex(l) \in Nat
          /\ Scene!KindIndex(m) # Scene!KindIndex(l)
      BY <1>1, <2>1, KindsFinite
    <3> HIDE DEF h
    <3> QED
      BY <2>1, <2>2, <3>2, <3>3
  <2>3. CASE h[l] # h[k]
    <3> HIDE DEF h
    <3> QED
      BY <2>1, <2>3
  <2> QED
    BY <2>2, <2>3
<1>6. m \in L /\ Leads(m)
  BY <1>5 DEF Scene!DrawnBefore
<1>7. FirstIn(rest) = CHOOSE c \in L : Leads(c)
  BY DEF FirstIn
<1>8. FirstIn(rest) \in L /\ Leads(FirstIn(rest))
  <2> HIDE DEF L, Leads, M, h
  <2> QED
    BY <1>6, <1>7
<1>9. ASSUME NEW l \in L PROVE prims[rest[FirstIn(rest)][1]].order <= prims[rest[l][1]].order
  <2>1. prims[rest[FirstIn(rest)][1]].order \in Nat /\ prims[rest[l][1]].order \in Nat
    BY <1>8, QueueHead
  <2>2. CASE l = FirstIn(rest)
    BY <2>1, <2>2
  <2>3. CASE l # FirstIn(rest)
    BY <1>8, <2>1, <2>3 DEF Scene!DrawnBefore
  <2> QED
    BY <2>2, <2>3
<1> QED
  BY <1>8, <1>9

\* A batch is not empty, and ends before what others begin with.
LEMMA TakenIs ==
  ASSUME PaintedTyped(prims), NEW rest \in Queues, LeftIn(rest) # {}
  PROVE  LET f == FirstIn(rest)
             n == TakenFrom(rest)
         IN  /\ n \in 1..Len(rest[f])
             /\ \A m \in 2..n : \A l \in LeftIn(rest) \ {f} :
                  prims[rest[f][m]].order <= prims[rest[l][1]].order
<1> DEFINE f == FirstIn(rest)
           q == rest[f]
           others == {rest[l][1] : l \in LeftIn(rest) \ {f}}
           Fine(n) == \A m \in 2..n :
                        /\ \A o \in others : Scene!DrawnBefore(prims[q[m]].order, f, prims[o].order, prims[o].kind)
                        /\ f \in Sprite => prims[q[m]].tile.texture = prims[q[1]].tile.texture
           T == {n \in DOMAIN q : Fine(n)}
<1>1. f \in LeftIn(rest)
  BY FirstIs
<1> PICK N \in Nat \ {0} : N = Len(q) /\ DOMAIN q = 1..N /\ q \in Seq(DOMAIN prims)
  BY <1>1, QueueHead
<1>2. TakenFrom(rest) = Scene!Max(T)
  BY DEF TakenFrom, Scene!BatchLength
<1>3. 1 \in T /\ T \in SUBSET (1..N)
  OBVIOUS
<1>4. Scene!Max(T) \in T
  <2> HIDE DEF T
  <2>1. IsFiniteSet(T) /\ T # {} /\ T \in SUBSET Int
    <3>1. IsFiniteSet(1..N)
      BY FS_Interval
    <3>2. IsFiniteSet(T)
      BY <1>3, <3>1, FS_Subset, Zenon
    <3>3. 1..N \subseteq Int
      OBVIOUS
    <3> QED
      BY <1>3, <3>2, <3>3
  <2>2. Max(T) \in T
    BY <2>1, MaxOf
  <2> QED
    BY <2>2 DEF Max, Scene!Max
<1> PICK n : n = TakenFrom(rest)
  OBVIOUS
<1>5. n \in 1..N /\ Fine(n)
  BY <1>2, <1>4, Zenon
<1>6. ASSUME NEW m \in 2..n, NEW l \in LeftIn(rest) \ {f}
      PROVE  prims[q[m]].order <= prims[rest[l][1]].order
  <2>1. rest[l][1] \in others /\ m \in 1..N
    BY <1>5
  <2>2. Scene!DrawnBefore(prims[q[m]].order, f, prims[rest[l][1]].order, prims[rest[l][1]].kind)
    BY <1>5, <2>1
  <2>3. prims[rest[l][1]].order \in Nat
    BY QueueHead
  <2>4. prims[q[m]].order \in Nat
    <3>1. q[m] \in DOMAIN prims
      BY <2>1
    <3> HIDE DEF q
    <3> QED
      BY <3>1, PrimIs DEF PaintedTyped
  <2> QED
    BY <2>2, <2>3, <2>4 DEF Scene!DrawnBefore
<1> QED
  BY <1>5, <1>6

\* q is a, and then z.
Cut(q, n, a, z) ==
  /\ a \in Seq(DOMAIN prims) /\ z \in Seq(DOMAIN prims)
  /\ DOMAIN q = 1..Len(q) /\ DOMAIN a = 1..n /\ DOMAIN z = 1..(Len(q) - n)
  /\ Len(q) \in Nat /\ n \in 1..Len(q)
  /\ \A i \in DOMAIN a : a[i] = q[i]
  /\ \A i \in DOMAIN z : z[i] = q[n + i]

LEMMA CutIs ==
  ASSUME NEW q \in Seq(DOMAIN prims), NEW n \in 1..Len(q)
  PROVE  Cut(q, n, SubSeq(q, 1, n), SubSeq(q, n + 1, Len(q)))
<1> PICK N \in Nat : N = Len(q) /\ DOMAIN q = 1..N
  OBVIOUS
<1> PICK a : a = SubSeq(q, 1, n)
  OBVIOUS
<1> PICK z : z = SubSeq(q, n + 1, N)
  OBVIOUS
<1>1. a \in Seq(DOMAIN prims) /\ Len(a) = n /\ \A i \in 1..n : a[i] = q[i]
  BY SubSeqProperties
<1>2. z \in Seq(DOMAIN prims) /\ Len(z) = N - n /\ \A i \in 1..(N - n) : z[i] = q[n + i]
  BY SubSeqProperties
<1>3. DOMAIN a = 1..n /\ DOMAIN z = 1..(N - n)
  BY <1>1, <1>2
<1> QED
  BY <1>1, <1>2, <1>3 DEF Cut

\* What a batch is, and what it leaves.
Batched(rest) ==
  LET f == FirstIn(rest)
  IN  /\ f \in LeftIn(rest) /\ rest[f] \in Seq(DOMAIN prims)
      /\ Cut(rest[f], TakenFrom(rest), Batch(rest), AfterBatch(rest)[f])
      /\ AfterBatch(rest) \in Queues
      /\ \A k \in AllKinds \ {f} : AfterBatch(rest)[k] = rest[k]

LEMMA BatchIs ==
  ASSUME PaintedTyped(prims), NEW rest \in Queues, LeftIn(rest) # {}
  PROVE  Batched(rest)
<1> PICK f : f = FirstIn(rest)
  OBVIOUS
<1> PICK n : n = TakenFrom(rest)
  OBVIOUS
<1>1. f \in LeftIn(rest) /\ f \in AllKinds /\ rest[f] \in Seq(DOMAIN prims)
  BY FirstIs, QueueHead
<1>2. n \in 1..Len(rest[f])
  BY TakenIs
<1> PICK z : z = SubSeq(rest[f], n + 1, Len(rest[f]))
  OBVIOUS
<1>3. Cut(rest[f], n, Batch(rest), z)
  BY <1>1, <1>2, CutIs DEF Batch
<1>4. AfterBatch(rest) = [rest EXCEPT ![f] = z]
  BY DEF AfterBatch
<1>5. z \in Seq(DOMAIN prims)
  BY <1>3 DEF Cut
<1>6. /\ AfterBatch(rest) \in Queues /\ AfterBatch(rest)[f] = z
      /\ \A k \in AllKinds \ {f} : AfterBatch(rest)[k] = rest[k]
  BY <1>1, <1>4, <1>5 DEF Queues
<1> QED
  BY <1>1, <1>3, <1>6 DEF Batched

\* The places in the queues: a batch leaves fewer.
Waits(rest) == {p \in AllKinds \X Nat : p[2] \in DOMAIN rest[p[1]]}

LEMMA WaitsFinite ==
  ASSUME NEW rest \in Queues
  PROVE  IsFiniteSet(Waits(rest)) /\ Cardinality(Waits(rest)) \in Nat
<1>1. \A k \in AllKinds : Len(rest[k]) \in Nat /\ DOMAIN rest[k] = 1..Len(rest[k])
  BY DEF Queues
<1>2. \E B \in Nat : \A k \in AllKinds : Len(rest[k]) <= B
  <2>1. CASE AllKinds = {}
    BY <2>1
  <2>2. CASE AllKinds # {}
    <3> DEFINE w == [k \in AllKinds |-> Len(rest[k])]
    <3>1. \A k \in AllKinds : w[k] \in Int
      BY <1>1
    <3>2. PICK k \in AllKinds : \A l \in AllKinds : w[l] <= w[k]
      <4> HIDE DEF w
      <4> QED
        BY <2>2, <3>1, KindsFinite, Heaviest
    <3> QED
      BY <1>1, <3>2
  <2> QED
    BY <2>1, <2>2
<1> PICK B \in Nat : \A k \in AllKinds : Len(rest[k]) <= B
  BY <1>2
<1>3. IsFiniteSet(AllKinds) /\ IsFiniteSet(1..B)
  BY KindsFinite, FS_Interval
<1>4. IsFiniteSet(AllKinds \X (1..B))
  BY <1>3, FS_Product
<1>5. Waits(rest) \in SUBSET (AllKinds \X (1..B))
  <2> SUFFICES ASSUME NEW k \in AllKinds, NEW m \in Nat, m \in DOMAIN rest[k] PROVE m \in 1..B
    BY DEF Waits
  <2>1. m \in 1..Len(rest[k]) /\ Len(rest[k]) \in Nat /\ Len(rest[k]) <= B
    BY <1>1
  <2> QED
    BY <2>1
<1>6. IsFiniteSet(Waits(rest))
  BY <1>4, <1>5, FS_Subset
<1> QED
  BY <1>6, FS_CardinalityType

LEMMA FewerWait ==
  ASSUME NEW rest \in Queues, Batched(rest)
  PROVE  Cardinality(Waits(AfterBatch(rest))) < Cardinality(Waits(rest))
<1> PICK f : f = FirstIn(rest)
  OBVIOUS
<1> PICK n : n = TakenFrom(rest)
  OBVIOUS
<1> PICK after : after = AfterBatch(rest)
  OBVIOUS
<1>1. /\ f \in AllKinds /\ after \in Queues /\ Cut(rest[f], n, Batch(rest), after[f])
      /\ \A k \in AllKinds \ {f} : after[k] = rest[k]
  BY DEF Batched, LeftIn
<1> PICK N : N = Len(rest[f])
  OBVIOUS
<1>2. N \in Nat /\ n \in 1..N /\ DOMAIN rest[f] = 1..N /\ DOMAIN after[f] = 1..(N - n)
  BY <1>1 DEF Cut
<1>3. /\ Waits(after) \in SUBSET Waits(rest)
      /\ <<f, N>> \in Waits(rest) /\ <<f, N>> \notin Waits(after)
  <2>1. \A k \in AllKinds : DOMAIN after[k] \subseteq DOMAIN rest[k]
    BY <1>1, <1>2
  <2>2. N \in DOMAIN rest[f] /\ N \notin DOMAIN after[f]
    BY <1>2
  <2> QED
    BY <1>1, <1>2, <2>1, <2>2 DEF Waits
<1>4. IsFiniteSet(Waits(rest)) /\ Cardinality(Waits(rest)) \in Nat /\ Cardinality(Waits(after)) \in Nat
  BY <1>1, WaitsFinite
<1>5. Cardinality(Waits(after)) <= Cardinality(Waits(rest)) /\ Cardinality(Waits(after)) # Cardinality(Waits(rest))
  BY <1>3, <1>4, FS_Subset
<1> QED
  BY <1>4, <1>5

AllQueued(rest) == rest \in Queues /\ \A k \in AllKinds : Queue(rest[k], k)
InQueue(rest, i) == \E k \in AllKinds : \E m \in DOMAIN rest[k] : rest[k][m] = i

\* d draws all of the queues, in order.
Drains(d, rest) ==
  /\ d \in Seq(DOMAIN prims) /\ Rising(d)
  /\ \A i : (\E m \in DOMAIN d : d[m] = i) <=> InQueue(rest, i)

LEMMA NothingLeft ==
  ASSUME NEW rest \in Queues, LeftIn(rest) = {}
  PROVE  Drains(<<>>, rest)
<1>1. \A k \in AllKinds : rest[k] = <<>>
  BY DEF LeftIn
<1>2. \A i : ~InQueue(rest, i)
  BY <1>1 DEF InQueue
<1> QED
  BY <1>2 DEF Drains, Rising

LEMMA StillQueued ==
  ASSUME NEW rest, AllQueued(rest), Batched(rest)
  PROVE  AllQueued(AfterBatch(rest))
<1> PICK f : f = FirstIn(rest)
  OBVIOUS
<1> PICK n : n = TakenFrom(rest)
  OBVIOUS
<1> PICK after : after = AfterBatch(rest)
  OBVIOUS
<1>1. /\ f \in AllKinds /\ after \in Queues /\ Cut(rest[f], n, Batch(rest), after[f])
      /\ \A k \in AllKinds \ {f} : after[k] = rest[k]
  BY DEF Batched, LeftIn
<1> PICK q : q = rest[f]
  OBVIOUS
<1> PICK z : z = after[f]
  OBVIOUS
<1> PICK N \in Nat : N = Len(q)
  BY <1>1 DEF Cut
<1>2. /\ n \in 1..N /\ DOMAIN q = 1..N /\ DOMAIN z = 1..(N - n) /\ z \in Seq(DOMAIN prims)
      /\ \A i \in 1..(N - n) : z[i] = q[n + i]
  BY <1>1 DEF Cut
<1>3. Rising(q) /\ \A m \in DOMAIN q : prims[q[m]].kind = f
  BY <1>1 DEF AllQueued, Queue
<1>4. ASSUME NEW i \in DOMAIN z PROVE z[i] = q[n + i] /\ n + i \in DOMAIN q
  BY <1>2
<1>5. ASSUME NEW m \in DOMAIN z, NEW i \in DOMAIN z, m < i
      PROVE  z[m] # z[i] /\ prims[z[m]].order <= prims[z[i]].order
  <2>1. n + m < n + i
    BY <1>2, <1>5
  <2> QED
    BY <1>3, <1>4, <2>1 DEF Rising
<1>6. Queue(z, f)
  <2>1. Rising(z)
    BY <1>5, Zenon DEF Rising
  <2>2. \A i \in DOMAIN z : prims[z[i]].kind = f
    BY <1>3, <1>4
  <2> QED
    BY <1>2, <2>1, <2>2 DEF Queue
<1> QED
  BY <1>1, <1>6 DEF AllQueued

\* A batch goes before all that it leaves.
Ahead(rest) ==
  \A m \in DOMAIN Batch(rest) : \A i : InQueue(AfterBatch(rest), i) =>
    Batch(rest)[m] # i /\ prims[Batch(rest)[m]].order <= prims[i].order

LEMMA BatchAhead ==
  ASSUME PaintedTyped(prims), NEW rest, AllQueued(rest), LeftIn(rest) # {}
  PROVE  Ahead(rest)
<1> PICK f : f = FirstIn(rest)
  OBVIOUS
<1> PICK n : n = TakenFrom(rest)
  OBVIOUS
<1> PICK after : after = AfterBatch(rest)
  OBVIOUS
<1>0. rest \in Queues
  BY DEF AllQueued
<1>1. /\ f \in LeftIn(rest) /\ f \in AllKinds /\ after \in Queues /\ Cut(rest[f], n, Batch(rest), after[f])
      /\ \A k \in AllKinds \ {f} : after[k] = rest[k]
  BY <1>0, BatchIs DEF Batched, LeftIn
<1> PICK q : q = rest[f]
  OBVIOUS
<1> PICK z : z = after[f]
  OBVIOUS
<1> PICK a : a = Batch(rest)
  OBVIOUS
<1> PICK N \in Nat : N = Len(q)
  BY <1>1 DEF Cut
<1>2. /\ n \in 1..N /\ DOMAIN q = 1..N /\ DOMAIN a = 1..n /\ DOMAIN z = 1..(N - n)
      /\ a \in Seq(DOMAIN prims) /\ \A i \in 1..n : a[i] = q[i]
      /\ \A i \in 1..(N - n) : z[i] = q[n + i]
  BY <1>1 DEF Cut
<1>3. Rising(q) /\ \A m \in DOMAIN q : prims[q[m]].kind = f
  BY <1>1 DEF AllQueued, Queue
<1> SUFFICES ASSUME NEW m \in 1..n, NEW k \in AllKinds, NEW j \in DOMAIN after[k]
             PROVE  a[m] # after[k][j] /\ prims[a[m]].order <= prims[after[k][j]].order
  BY <1>2 DEF Ahead, InQueue
<1>4. a[m] = q[m] /\ m \in 1..N
  BY <1>2
<1>5. CASE k = f
  <2>1. after[k][j] = q[n + j] /\ n + j \in DOMAIN q /\ m < n + j
    <3>1. j \in 1..(N - n) /\ after[k][j] = z[j]
      BY <1>2, <1>5
    <3> QED
      BY <1>2, <3>1
  <2>2. m \in DOMAIN q
    BY <1>2
  <2> QED
    BY <1>3, <1>4, <2>1, <2>2 DEF Rising
<1>6. CASE k # f
  <2> PICK p : p = rest[k]
    OBVIOUS
  <2>1. after[k] = p /\ p \in Seq(DOMAIN prims) /\ j \in DOMAIN p /\ Queue(p, k)
    BY <1>0, <1>1, <1>6 DEF Queues, AllQueued
  <2>2. k \in LeftIn(rest) /\ 1 \in DOMAIN p /\ j \in Nat \ {0}
    BY <2>1 DEF LeftIn
  <2>3. prims[p[1]].order <= prims[p[j]].order /\ prims[p[j]].kind = k
    <3>1. prims[p[1]].order \in Nat
      BY <1>0, <2>2, QueueHead
    <3>2. CASE j = 1
      BY <2>1, <3>1, <3>2 DEF Queue
    <3>3. CASE j # 1
      <4>1. 1 < j
        BY <2>2, <3>3
      <4> QED
        BY <2>1, <2>2, <4>1 DEF Queue, Rising
    <3> QED
      BY <3>2, <3>3
  <2>4. prims[q[m]].order <= prims[p[1]].order
    <3>1. CASE m = 1
      BY <1>0, <2>2, <3>1, FirstIs
    <3>2. CASE m # 1
      <4>1. m \in 2..n /\ k \in LeftIn(rest) \ {f}
        BY <1>2, <1>6, <2>2, <3>2
      <4> QED
        BY <1>0, <4>1, TakenIs
    <3> QED
      BY <3>1, <3>2
  <2>5. prims[q[m]].order \in Nat /\ prims[p[1]].order \in Nat /\ prims[p[j]].order \in Nat
    <3>1. q[m] \in DOMAIN prims /\ p[1] \in DOMAIN prims /\ p[j] \in DOMAIN prims
      BY <1>2, <1>4, <2>1, <2>2
    <3> QED
      BY <3>1, PrimIs DEF PaintedTyped
  <2>6. q[m] # p[j]
    <3>1. prims[q[m]].kind = f
      BY <1>2, <1>3, <1>4
    <3> QED
      BY <1>6, <2>3, <3>1
  <2> QED
    BY <1>4, <2>1, <2>3, <2>4, <2>5, <2>6
<1> QED
  BY <1>5, <1>6

LEMMA OneMoreBatch ==
  ASSUME PaintedTyped(prims), NEW rest, AllQueued(rest), Batched(rest), Ahead(rest),
         NEW d, Drains(d, AfterBatch(rest))
  PROVE  Drains(Batch(rest) \o d, rest)
<1> PICK f : f = FirstIn(rest)
  OBVIOUS
<1> PICK n : n = TakenFrom(rest)
  OBVIOUS
<1> PICK after : after = AfterBatch(rest)
  OBVIOUS
<1>1. /\ f \in AllKinds /\ after \in Queues /\ Cut(rest[f], n, Batch(rest), after[f])
      /\ \A k \in AllKinds \ {f} : after[k] = rest[k]
  BY DEF Batched, LeftIn
<1> PICK q : q = rest[f]
  OBVIOUS
<1> PICK z : z = after[f]
  OBVIOUS
<1> PICK a : a = Batch(rest)
  OBVIOUS
<1> PICK N \in Nat : N = Len(q)
  BY <1>1 DEF Cut
<1>2. /\ n \in 1..N /\ DOMAIN q = 1..N /\ DOMAIN a = 1..n /\ DOMAIN z = 1..(N - n)
      /\ a \in Seq(DOMAIN prims) /\ \A i \in 1..n : a[i] = q[i]
      /\ \A i \in 1..(N - n) : z[i] = q[n + i]
  BY <1>1 DEF Cut
<1>3. Rising(q)
  BY <1>1 DEF AllQueued, Queue
<1>4. /\ d \in Seq(DOMAIN prims) /\ Rising(d)
      /\ \A i : (\E m \in DOMAIN d : d[m] = i) <=> InQueue(after, i)
  BY DEF Drains
<1> PICK D \in Nat : D = Len(d) /\ DOMAIN d = 1..D
  BY <1>4
<1> PICK e : e = a \o d
  OBVIOUS
<1>5. /\ e \in Seq(DOMAIN prims) /\ DOMAIN e = 1..(n + D)
      /\ \A i \in 1..n : e[i] = a[i]
      /\ \A i \in 1..D : e[n + i] = d[i]
  <2>1. n \in Nat /\ Len(a) = n /\ a \in Seq(DOMAIN prims) /\ d \in Seq(DOMAIN prims)
    BY <1>2, <1>4
  <2>2. /\ a \o d \in Seq(DOMAIN prims) /\ Len(a \o d) = n + D
        /\ \A i \in 1..(n + D) : (a \o d)[i] = IF i <= n THEN a[i] ELSE d[i - n]
    BY <2>1, ConcatProperties
  <2>3. e \in Seq(DOMAIN prims) /\ Len(e) = n + D
    BY <2>2
  <2>4. DOMAIN e = 1..(n + D)
    BY <2>1, <2>3
  <2>5. ASSUME NEW i \in 1..n PROVE e[i] = a[i]
    <3>1. i \in 1..(n + D) /\ i <= n
      BY <2>1
    <3> QED
      BY <2>2, <3>1
  <2>6. ASSUME NEW i \in 1..D PROVE e[n + i] = d[i]
    <3>1. n + i \in 1..(n + D) /\ ~ (n + i <= n) /\ (n + i) - n = i
      BY <2>1
    <3> QED
      BY <2>2, <3>1
  <2> QED
    BY <2>3, <2>4, <2>5, <2>6
<1>6. ASSUME NEW m \in 1..(n + D) PROVE m \in 1..n \/ \E i \in 1..D : m = n + i
  <2>1. m \in 1..n \/ (m - n \in 1..D /\ m = n + (m - n))
    BY <1>2
  <2> QED
    BY <2>1
<1>7. ASSUME NEW m \in DOMAIN e, NEW i \in DOMAIN e, m < i
      PROVE  e[m] # e[i] /\ prims[e[m]].order <= prims[e[i]].order
  <2>1. CASE i \in 1..n
    <3>1. m \in 1..n
      BY <1>2, <1>5, <1>7, <2>1
    <3>2. e[m] = q[m] /\ e[i] = q[i] /\ m \in DOMAIN q /\ i \in DOMAIN q
      BY <1>2, <1>5, <2>1, <3>1, SMTT(40)
    <3> QED
      BY <1>3, <1>7, <3>2 DEF Rising
  <2>2. CASE i \notin 1..n
    <3> PICK j \in 1..D : i = n + j
      BY <1>5, <1>6, <2>2
    <3>1. e[i] = d[j] /\ InQueue(after, d[j])
      BY <1>4, <1>5
    <3>2. CASE m \in 1..n
      <4>1. m \in DOMAIN a /\ e[m] = a[m]
        BY <1>2, <1>5, <3>2
      <4> QED
        BY <3>1, <4>1 DEF Ahead
    <3>3. CASE m \notin 1..n
      <4> PICK l \in 1..D : m = n + l
        BY <1>5, <1>6, <3>3
      <4>1. l < j
        BY <1>2, <1>7
      <4>2. e[m] = d[l] /\ l \in DOMAIN d /\ j \in DOMAIN d
        BY <1>5
      <4> QED
        BY <1>4, <3>1, <4>1, <4>2, ZenonT(40) DEF Rising
    <3> QED
      BY <3>2, <3>3
  <2> QED
    BY <2>1, <2>2
<1>8. ASSUME NEW i PROVE (\E m \in DOMAIN e : e[m] = i) <=> InQueue(rest, i)
  <2>1. ASSUME NEW m \in DOMAIN e, e[m] = i PROVE InQueue(rest, i)
    <3>1. CASE m \in 1..n
      <4>1. m \in DOMAIN q /\ q[m] = i
        BY <1>2, <1>5, <2>1, <3>1
      <4> QED
        BY <1>1, <4>1 DEF InQueue
    <3>2. CASE m \notin 1..n
      <4> PICK j \in 1..D : m = n + j
        BY <1>5, <1>6, <3>2
      <4> PICK k \in AllKinds : \E l \in DOMAIN after[k] : after[k][l] = i
        <5>1. InQueue(after, i)
          BY <1>4, <1>5, <2>1, ZenonT(40)
        <5> QED
          BY <5>1 DEF InQueue
      <4> PICK l \in DOMAIN after[k] : after[k][l] = i
        OBVIOUS
      <4>1. CASE k = f
        <5>0. l \in DOMAIN z /\ z[l] = i
          BY <4>1
        <5>1. l \in 1..(N - n) /\ q[n + l] = i /\ n + l \in DOMAIN q
          BY <1>2, <5>0, SMTT(40)
        <5> QED
          BY <1>1, <5>1 DEF InQueue
      <4>2. CASE k # f
        BY <1>1, <4>2 DEF InQueue
      <4> QED
        BY <4>1, <4>2
    <3> QED
      BY <3>1, <3>2
  <2>2. ASSUME InQueue(rest, i) PROVE \E m \in DOMAIN e : e[m] = i
    <3> PICK k \in AllKinds : \E l \in DOMAIN rest[k] : rest[k][l] = i
      BY <2>2 DEF InQueue
    <3> PICK l \in DOMAIN rest[k] : rest[k][l] = i
      OBVIOUS
    <3>1. CASE k = f /\ l \in 1..n
      <4>1. l \in DOMAIN e /\ e[l] = i
        BY <1>2, <1>5, <3>1
      <4> QED
        BY <4>1
    <3>2. ASSUME InQueue(after, i) PROVE \E m \in DOMAIN e : e[m] = i
      <4> PICK j \in 1..D : d[j] = i
        BY <1>4, <3>2
      <4>1. n + j \in DOMAIN e /\ e[n + j] = i
        BY <1>2, <1>5, SMTT(40)
      <4> QED
        BY <4>1
    <3>3. CASE k = f /\ l \notin 1..n
      <4>1. l \in 1..N
        BY <1>2, <3>3
      <4>2. l - n \in 1..(N - n) /\ n + (l - n) = l
        BY <1>2, <3>3, <4>1
      <4>3. l - n \in DOMAIN after[f] /\ after[f][l - n] = i
        BY <1>2, <3>3, <4>2, SMTT(40)
      <4> QED
        BY <1>1, <3>2, <4>3 DEF InQueue
    <3>4. CASE k # f
      <4>1. InQueue(after, i)
        BY <1>1, <3>4 DEF InQueue
      <4> QED
        BY <3>2, <4>1
    <3> QED
      BY <3>1, <3>3, <3>4
  <2> QED
    BY <2>1, <2>2
<1>9. Rising(e)
  BY <1>7, Zenon DEF Rising
<1> QED
  BY <1>5, <1>8, <1>9 DEF Drains

-----------------------------------------------------------------------------
(* All that is drawn *)

DrawnFrom ==
  LET Go[rest \in [Scene!Range(Kinds) -> Seq(DOMAIN prims)]] ==
        LET left == {k \in Scene!Range(Kinds) : rest[k] # <<>>}
            first == CHOOSE k \in left : \A l \in left \ {k} :
                       Scene!DrawnBefore(prims[rest[k][1]].order, k, prims[rest[l][1]].order, l)
            n == Scene!BatchLength(rest[first], first, {rest[l][1] : l \in left \ {first}})
        IN  IF left = {} THEN <<>>
            ELSE SubSeq(rest[first], 1, n) \o Go[[rest EXCEPT ![first] = SubSeq(@, n + 1, Len(@))]]
  IN  Go

LEMMA DrawnEach ==
  ASSUME PaintedTyped(prims)
  PROVE  \A rest \in Queues :
           DrawnFrom[rest] = IF LeftIn(rest) = {} THEN <<>> ELSE Batch(rest) \o DrawnFrom[AfterBatch(rest)]
<1> DEFINE Step(f) == [rest \in Queues |->
                        IF LeftIn(rest) = {} THEN <<>> ELSE Batch(rest) \o f[AfterBatch(rest)]]
           u == CHOOSE g : g = Step(g)
<1>1. DrawnFrom = u
  BY DEF DrawnFrom, Queues, AllKinds, LeftIn, FirstIn, TakenFrom, Batch, AfterBatch
<1> HIDE DEF u
<1> DEFINE V == Seq(DOMAIN prims)
           len == [rest \in Queues |-> Cardinality(Waits(rest))]
           stop == {rest \in Queues : LeftIn(rest) = {}}
           base == [rest \in Queues |-> <<>>]
           next == [rest \in Queues |-> IF LeftIn(rest) = {} THEN rest ELSE AfterBatch(rest)]
           add == [rest \in Queues |-> [v \in V |-> IF LeftIn(rest) = {} THEN <<>> ELSE Batch(rest) \o v]]
<1>2. \A rest \in Queues : LeftIn(rest) # {} =>
        /\ AfterBatch(rest) \in Queues /\ Batch(rest) \in V
        /\ Cardinality(Waits(AfterBatch(rest))) < Cardinality(Waits(rest))
  BY BatchIs, FewerWait DEF Batched, Cut
<1>3. Recursion(Queues, V, len, stop, base, next, add)
  <2>1. /\ len \in [Queues -> Nat] /\ stop \in SUBSET Queues
        /\ next \in [Queues -> Queues] /\ \A rest \in Queues : rest \notin stop => len[next[rest]] < len[rest]
    BY <1>2, WaitsFinite
  <2>2. base \in [Queues -> V]
    OBVIOUS
  <2>3. add \in [Queues -> [V -> V]]
    <3>1. \A rest \in Queues : \A v \in V : (IF LeftIn(rest) = {} THEN <<>> ELSE Batch(rest) \o v) \in V
      <4>1. <<>> \in V
        OBVIOUS
      <4>2. ASSUME NEW rest \in Queues, NEW v \in V, LeftIn(rest) # {}
            PROVE  Batch(rest) \o v \in V
        <5>1. Batch(rest) \in V
          BY <1>2, <4>2
        <5> QED
          BY <5>1, ConcatProperties
      <4> HIDE DEF V
      <4> QED
        BY <4>1, <4>2
    <3> HIDE DEF V
    <3> QED
      BY <3>1
  <2> HIDE DEF len, stop, base, next, add, V
  <2> QED
    BY <2>1, <2>2, <2>3 DEF Recursion
<1>4. PICK g : Solves(g, Queues, V, stop, base, next, add)
  <2> HIDE DEF len, stop, base, next, add, V
  <2> QED
    BY <1>3, RecursionExists
<1>5. g \in [Queues -> V]
  BY <1>4 DEF Solves
<1>6. ASSUME NEW rest \in Queues
      PROVE  g[rest] = IF LeftIn(rest) = {} THEN <<>> ELSE Batch(rest) \o g[AfterBatch(rest)]
  <2>1. g[rest] = IF rest \in stop THEN base[rest] ELSE add[rest][g[next[rest]]]
    <3> HIDE DEF stop, base, next, add, V
    <3> QED
      BY <1>4 DEF Solves
  <2>2. CASE LeftIn(rest) = {}
    <3>1. rest \in stop /\ base[rest] = <<>>
      BY <2>2
    <3> QED
      BY <2>1, <2>2, <3>1
  <2>3. CASE LeftIn(rest) # {}
    <3>1. rest \notin stop /\ next[rest] = AfterBatch(rest) /\ AfterBatch(rest) \in Queues
      BY <1>2, <2>3
    <3>2. g[AfterBatch(rest)] \in V
      BY <1>5, <3>1
    <3>3. add[rest][g[AfterBatch(rest)]] = Batch(rest) \o g[AfterBatch(rest)]
      <4> HIDE DEF V
      <4> QED
        BY <2>3, <3>2
    <3> HIDE DEF stop, base, next, add
    <3> QED
      BY <2>1, <2>3, <3>1, <3>3
  <2> QED
    BY <2>2, <2>3
<1> HIDE DEF len, stop, base, next, add, V
<1>7. g = Step(g)
  <2>1. DOMAIN g = Queues
    BY <1>5
  <2>2. g = [rest \in Queues |-> g[rest]]
    BY <1>5
  <2> QED
    BY <1>6, <2>1, <2>2
<1>8. u = Step(u)
  <2> HIDE DEF Step
  <2> QED
    BY <1>7 DEF u
<1> QED
  BY <1>1, <1>8

LEMMA DrawnDrains ==
  ASSUME PaintedTyped(prims)
  PROVE  \A rest : AllQueued(rest) => Drains(DrawnFrom[rest], rest)
<1> DEFINE Bad == {k \in Nat : \E rest \in Queues :
                     Cardinality(Waits(rest)) = k /\ AllQueued(rest) /\ ~Drains(DrawnFrom[rest], rest)}
<1> SUFFICES ASSUME Bad # {} PROVE FALSE
  BY WaitsFinite DEF AllQueued
<1>1. PICK k \in Bad : \A m \in Bad : k <= m
  <2>1. Bad \in SUBSET Nat
    OBVIOUS
  <2> HIDE DEF Bad
  <2> QED
    BY <2>1, LeastNat
<1>2. PICK rest \in Queues :
        Cardinality(Waits(rest)) = k /\ AllQueued(rest) /\ ~Drains(DrawnFrom[rest], rest)
  OBVIOUS
<1>3. CASE LeftIn(rest) = {}
  <2>1. DrawnFrom[rest] = <<>>
    BY <1>3, DrawnEach
  <2> QED
    BY <1>2, <1>3, <2>1, NothingLeft
<1>4. CASE LeftIn(rest) # {}
  <2> PICK after : after = AfterBatch(rest)
    OBVIOUS
  <2>1. Batched(rest) /\ Ahead(rest) /\ AllQueued(after) /\ after \in Queues
    BY <1>2, <1>4, BatchIs, BatchAhead, StillQueued DEF Batched
  <2>2. Cardinality(Waits(after)) < k /\ Cardinality(Waits(after)) \in Nat /\ k \in Nat
    BY <1>2, <2>1, FewerWait, WaitsFinite
  <2>3. Cardinality(Waits(after)) \notin Bad
    <3> HIDE DEF Bad
    <3> QED
      BY <1>1, <2>2
  <2>4. Drains(DrawnFrom[after], after)
    BY <2>1, <2>2, <2>3
  <2>5. DrawnFrom[rest] = Batch(rest) \o DrawnFrom[after]
    BY <1>4, DrawnEach
  <2>6. Drains(Batch(rest) \o DrawnFrom[after], rest)
    BY <1>2, <2>1, <2>4, OneMoreBatch
  <2> QED
    BY <1>2, <2>5, <2>6
<1> QED
  BY <1>3, <1>4

\* A frame draws every primitive once, and those of lower orders first.
LEMMA DrawnIs ==
  ASSUME PaintedTyped(prims)
  PROVE  /\ Scene!Drawn \in Seq(DOMAIN prims) /\ Rising(Scene!Drawn)
         /\ \A i \in DOMAIN prims : \E m \in DOMAIN Scene!Drawn : Scene!Drawn[m] = i
<1> DEFINE all == [k \in AllKinds |-> Scene!Sorted(k)]
<1>1. \A k \in AllKinds : Queue(Scene!Sorted(k), k)
  BY SortedIs
<1>2. AllQueued(all)
  BY <1>1 DEF AllQueued, Queues, Queue
<1>3. \A i \in DOMAIN prims : InQueue(all, i)
  <2> SUFFICES ASSUME NEW i \in DOMAIN prims PROVE InQueue(all, i)
    OBVIOUS
  <2> PICK k : k = prims[i].kind
    OBVIOUS
  <2>1. k \in AllKinds
    BY PrimIs DEF PaintedTyped, AllKinds
  <2>2. \E m \in DOMAIN Scene!Sorted(k) : Scene!Sorted(k)[m] = i
    BY SortedIs
  <2> QED
    BY <2>1, <2>2 DEF InQueue
<1>4. Scene!Drawn = DrawnFrom[all]
  BY DEF Scene!Drawn, DrawnFrom, AllKinds
<1> HIDE DEF all
<1>5. Drains(DrawnFrom[all], all)
  BY <1>2, DrawnDrains
<1> QED
  BY <1>3, <1>4, <1>5 DEF Drains

LEMMA CountTo ==
  ASSUME NEW n \in Nat
  PROVE  IsFiniteSet(1..n) /\ Cardinality(1..n) = n
BY FS_Interval

LEMMA InFrontIsDrawn ==
  ASSUME SceneInv
  PROVE  Scene!OverlapsInOrder
<1>0. PaintedTyped(prims) /\ InFront(prims) /\ prims \in Seq(Painted)
  BY DEF SceneInv, PaintedTyped
<1> PICK d : d = Scene!Drawn
  OBVIOUS
<1>1. /\ d \in Seq(DOMAIN prims) /\ Rising(d)
      /\ \A i \in DOMAIN prims : \E m \in DOMAIN d : d[m] = i
  BY <1>0, DrawnIs
<1> PICK N \in Nat : N = Len(prims) /\ DOMAIN prims = 1..N
  BY <1>0
<1> PICK D \in Nat : D = Len(d) /\ DOMAIN d = 1..D
  BY <1>1
<1>2. ASSUME NEW m \in 1..D, NEW n \in 1..D, d[m] = d[n] PROVE m = n
  <2>1. ~(m < n) /\ ~(n < m)
    BY <1>1, <1>2, SMTT(40) DEF Rising
  <2> QED
    BY <2>1
<1>3. d \in Surjection(1..D, 1..N) /\ d \in Injection(1..D, 1..N)
  <2>1. d \in [1..D -> 1..N]
    BY <1>1
  <2>2. \A i \in 1..N : \E m \in 1..D : d[m] = i
    BY <1>1, Zenon
  <2>3. \A m, n \in 1..D : d[m] = d[n] => m = n
    BY <1>2, Zenon
  <2>4. d \in Surjection(1..D, 1..N)
    BY <2>1, <2>2, Zenon DEF Surjection
  <2> QED
    BY <2>1, <2>3, <2>4, ZenonT(40) DEF Injection, IsInjective
<1>4. D = N
  <2>1. IsFiniteSet(1..D) /\ Cardinality(1..D) = D
    BY CountTo
  <2>2. Cardinality(1..N) = N
    BY CountTo
  <2> QED
    BY <1>3, <2>1, <2>2, FS_Surjection
<1>5. Scene!Range(d) = DOMAIN prims
  BY <1>1 DEF Scene!Range
<1> DEFINE At(i) == CHOOSE n \in DOMAIN d : d[n] = i
<1>6. \A i \in DOMAIN prims : At(i) \in 1..D /\ d[At(i)] = i
  BY <1>1
<1> HIDE DEF At
<1>7. ASSUME NEW i \in DOMAIN prims, NEW j \in DOMAIN prims,
             i <= prims[j].before, Scene!Intersects(prims[i].area, prims[j].area)
      PROVE  At(i) < At(j)
  <2>1. prims[i].order < prims[j].order
    <3>1. prims[i].area \in Bounds /\ prims[j].area \in Bounds
      BY <1>0, PrimIs
    <3>2. Scene!Intersects(prims[j].area, prims[i].area)
      BY <1>7, <3>1, MeetBoth
    <3> QED
      BY <1>0, <1>7, <3>2 DEF InFront, MetBehind
  <2>2. prims[i].order \in Nat /\ prims[j].order \in Nat
    BY <1>0, PrimIs
  <2> PICK m \in 1..D : m = At(i) /\ d[m] = i
    BY <1>6
  <2> PICK n \in 1..D : n = At(j) /\ d[n] = j
    BY <1>6
  <2>3. m # n
    BY <2>1, <2>2
  <2>4. ~(n < m)
    BY <1>1, <2>1, <2>2, SMTT(40) DEF Rising
  <2> QED
    BY <2>3, <2>4
<1> QED
  BY <1>4, <1>5, <1>7 DEF Scene!OverlapsInOrder, At
=============================================================================
