-------------------------- MODULE WindowStateProofs -------------------------
(* What a window keeps of its contents and of its surface, for all items, heights, sizes, views
   and bounds: where a list is scrolled to, what its frames show, the size the compositor has asked
   for, the views a frame draws, and the order in which it draws the scene. *)
EXTENDS WindowParts, SceneProofs

\* A step is one of the part that is exercised.
LEMMA StepOfPart ==
  [Next]_vars =>
    /\ part' = part
    /\ part = "views" => [Views!Next]_viewVars
    /\ part = "list" => [List!Next]_listVars
    /\ part = "scene" => [Scene!Next]_sceneVars
    /\ part = "surface" => [Surface!Next]_surfaceVars
BY DEF Next, InViews, InKeys, InMouse, InList, InScene, InSurface, vars

-----------------------------------------------------------------------------
(* The list *)

Entry == [id : Item, measured : BOOLEAN]
PaintedFrame == [top : List!Offset, delta : Int, last : Int, same : BOOLEAN]
Fractions == [ix : Nat, num : Nat, den : Nat \ {0}]

\* No item is twice in the list, and every place the list may scroll to is an item and a
\* number of pixels.
ListInv ==
  /\ metrics \in Metrics
  /\ items \in Seq(Entry)
  /\ \A i, j \in DOMAIN items : items[i].id = items[j].id => i = j
  /\ top \in List!Offset \cup {NoTop}
  /\ pendingScroll \in Fractions \cup {NoPending}
  /\ painted \in PaintedFrame \cup {NoFrame}

LEMMA ListConstants ==
  /\ Heights \in [Metrics -> [Item -> Nat \ {0}]]
  /\ ListHeight \in Nat \ {0} /\ Overdraw \in Nat /\ MaxOffset \in Nat
  /\ Deltas \subseteq Int
BY ListAssumption DEF ListAssumption, List!ListAssumption

\* Heights add up, though Sum is recursive: its function exists, and each of its steps
\* gives a number.
LEMMA SumTyped ==
  ASSUME NEW m, NEW n \in Nat, \A i \in 1..n : List!Height(m, i) \in Nat, NEW some
  PROVE  List!Sum(m, n, some) \in Nat /\ (n = 0 => List!Sum(m, n, some) = 0)
<1> DEFINE Step(f) ==
             [i \in 0..n |-> IF i = 0 THEN 0
                            ELSE IF i \in some THEN f[i - 1] + List!Height(m, i) ELSE f[i - 1]]
           u == CHOOSE f : f = Step(f)
           h == [i \in 1..n |-> IF i \in some THEN List!Height(m, i) ELSE 0]
<1>1. \E f : f = Step(f)
  <2>1. \A i \in 1..n : h[i] \in Int
    OBVIOUS
  <2>2. PICK f \in [0..n -> Int] : f[0] = 0 /\ \A i \in 1..n : f[i] = f[i - 1] + h[i]
    <3> HIDE DEF h
    <3> QED
      BY <2>1, SumsExist
  <2>3. \A i \in 0..n : f[i] = Step(f)[i]
    BY <2>2
  <2>4. f = Step(f)
    BY <2>2, <2>3
  <2> QED
    BY <2>4
<1>2. u = Step(u)
  BY <1>1
<1>3. u[0] = 0 /\ \A i \in 1..n : u[i - 1] \in Nat => u[i] \in Nat
  <2> HIDE DEF u
  <2>1. \A i \in 0..n : u[i] = IF i = 0 THEN 0
                                ELSE IF i \in some THEN u[i - 1] + List!Height(m, i) ELSE u[i - 1]
    BY <1>2
  <2> QED
    BY <2>1
<1>4. u[n] \in Nat
  <2> HIDE DEF u
  <2> QED
    BY <1>3, StepsAreNat
<1>5. List!Sum(m, n, some) = u[n]
  BY DEF List!Sum
<1> QED
  BY <1>3, <1>4, <1>5

LEMMA HeightTyped ==
  ASSUME ListInv, NEW m \in Metrics, NEW i \in 1..Len(items)
  PROVE  List!Height(m, i) \in Nat \ {0}
<1>1. items \in Seq(Entry)
  BY DEF ListInv
<1>2. items[i] \in Entry
  BY <1>1
<1>3. items[i].id \in Item
  BY <1>2 DEF Entry
<1> QED
  BY <1>3, ListConstants DEF List!Height

LEMMA LargerOf ==
  ASSUME NEW a \in Int, NEW b \in Int
  PROVE  /\ List!Max({a, b}) \in {a, b} /\ a <= List!Max({a, b}) /\ b <= List!Max({a, b})
         /\ List!Min({a, b}) \in {a, b} /\ List!Min({a, b}) <= a /\ List!Min({a, b}) <= b
<1>1. /\ \E x \in {a, b} : \A y \in {a, b} : x >= y
      /\ \E x \in {a, b} : \A y \in {a, b} : x <= y
  OBVIOUS
<1> QED
  BY <1>1 DEF List!Max, List!Min

LEMMA LargestOf ==
  ASSUME NEW a \in Int, NEW b \in Int, NEW c \in Int, NEW S \in SUBSET (a..b)
  PROVE  /\ List!Max({c} \cup S) \in {c} \cup S /\ c <= List!Max({c} \cup S)
         /\ List!Min({c} \cup S) \in {c} \cup S /\ List!Min({c} \cup S) <= c
         /\ S # {} => List!Max(S) \in S
<1>1. IsFiniteSet(S) /\ IsFiniteSet({c} \cup S)
  BY PlacesFinite
<1>2. S \in SUBSET Int /\ {c} \cup S \in SUBSET Int /\ {c} \cup S # {} /\ c \in {c} \cup S
  OBVIOUS
<1>3. \A T : List!Max(T) = Max(T) /\ List!Min(T) = Min(T)
  BY DEF List!Max, List!Min, Max, Min
<1>4. /\ Max({c} \cup S) \in {c} \cup S /\ c <= Max({c} \cup S)
      /\ Min({c} \cup S) \in {c} \cup S /\ Min({c} \cup S) <= c
  BY <1>1, <1>2, MaxOf, MinOf
<1>5. S # {} => Max(S) \in S
  BY <1>1, <1>2, MaxOf
<1> QED
  BY <1>3, <1>4, <1>5

LEMMA TotalTyped ==
  ASSUME ListInv, NEW m \in Metrics, NEW first, NEW last_ \in Int, last_ <= Len(items)
  PROVE  List!Total(m, first, last_) \in Nat
<1> DEFINE n == List!Max({0, last_})
<1>0. Len(items) \in Nat
  BY DEF ListInv
<1>1. n \in Nat /\ n <= Len(items) /\ Len(items) \in Nat
  <2>0. 0 \in Int
    OBVIOUS
  <2>1. n \in {0, last_} /\ 0 <= n
    BY <2>0, LargerOf, Zenon
  <2> QED
    BY <1>0, <2>1
<1> HIDE DEF n
<1>2. \A i \in 1..n : List!Height(m, i) \in Nat
  BY <1>1, HeightTyped
<1>3. List!Sum(m, n, first..last_) \in Nat
  BY <1>1, <1>2, SumTyped
<1> QED
  BY <1>3 DEF List!Total, n

LEMMA BeforeTyped ==
  ASSUME ListInv, NEW n \in 0..Len(items)
  PROVE  List!Before(n) \in Nat /\ (n = 0 => List!Before(n) = 0)
<1>1. n \in Nat /\ \A i \in 1..n : List!Height(metrics, i) \in Nat
  BY HeightTyped DEF ListInv
<1> QED
  BY <1>1, SumTyped DEF List!Before

LEMMA CountTyped ==
  ASSUME ListInv
  PROVE  List!Count = Len(items) /\ List!Count \in Nat
BY DEF List!Count, ListInv

\* A cursor stops at an item of the list, or behind the last.
LEMMA SeekTyped ==
  ASSUME ListInv, NEW y \in Nat
  PROVE  List!SeekRight(y) \in 0..Len(items) /\ List!SeekLeft(y) \in 0..Len(items)
<1> DEFINE right == {n \in 0..List!Count : List!Before(n) <= y}
           left == {n \in 1..List!Count : List!Before(n) < y}
<1>1. right \in SUBSET (0..List!Count) /\ left \in SUBSET (1..List!Count)
  OBVIOUS
<1>2. 0 \in right
  BY CountTyped, BeforeTyped
<1> HIDE DEF right, left
<1>3. List!Max(right) \in right
  <2>1. 0 \in Int /\ List!Count \in Int /\ right # {}
    BY <1>2, CountTyped
  <2> QED
    BY <1>1, <2>1, LargestOf, Zenon
<1>4. List!Max({0} \cup left) \in {0} \cup left
  <2>1. 0 \in Int /\ 1 \in Int /\ List!Count \in Int
    BY CountTyped
  <2> QED
    BY <1>1, <2>1, LargestOf, Zenon
<1> QED
  BY <1>1, <1>3, <1>4, CountTyped DEF List!SeekRight, List!SeekLeft, right, left

LEMMA AtTyped ==
  ASSUME ListInv, NEW y \in Nat
  PROVE  List!At(y) \in List!Offset
<1>1. List!SeekRight(y) \in 0..Len(items) /\ Len(items) \in Nat
  BY SeekTyped, CountTyped
<1>2. List!Before(List!SeekRight(y)) \in Nat
  BY <1>1, BeforeTyped
<1> QED
  BY <1>1, <1>2 DEF List!At, List!Offset

LEMMA PixelTopTyped ==
  ASSUME ListInv, NEW t \in List!Offset
  PROVE  List!PixelTop(t) \in Int
<1>1. t.ix \in Nat /\ t.off \in Int
  BY DEF List!Offset
<1>0. List!Count = Len(items) /\ List!Count \in Int /\ List!Count >= 0 /\ t.ix \in Int
  BY <1>1, CountTyped
<1> DEFINE least == List!Min({t.ix, List!Count})
<1>2. least \in 0..Len(items)
  <2>1. least \in {t.ix, List!Count} /\ least <= t.ix /\ least <= List!Count
    BY <1>0, LargerOf
  <2> QED
    BY <1>0, <1>1, <2>1
<1> QED
  BY <1>1, <1>2, BeforeTyped DEF List!PixelTop

LEMMA LogicalTyped ==
  ASSUME ListInv, NEW t \in List!Offset \cup {NoTop}
  PROVE  List!Logical(t) \in List!Offset /\ List!LogicalTop \in List!Offset
BY CountTyped DEF List!LogicalTop, List!Logical, List!Start, List!Offset, ListInv

LEMMA ScrollMaxTyped ==
  ASSUME ListInv
  PROVE  List!ScrollMax \in Nat /\ \A y \in Int : List!Clamp(y, List!ScrollMax) \in Nat
<1>1. List!Before(List!Count) - ListHeight \in Int
  BY CountTyped, BeforeTyped, ListConstants
<1>2. List!ScrollMax \in Nat
  BY <1>1, LargerOf DEF List!ScrollMax
<1>3. ASSUME NEW y \in Int PROVE List!Clamp(y, List!ScrollMax) \in Nat
  <2>1. List!Min({y, List!ScrollMax}) \in Int
    BY <1>2, LargerOf
  <2>2. List!Max({0, List!Min({y, List!ScrollMax})}) \in Nat
    <3> DEFINE least == List!Min({y, List!ScrollMax})
    <3> HIDE DEF least
    <3>0. 0 \in Int /\ least \in Int
      BY <2>1 DEF least
    <3>1. List!Max({0, least}) \in {0, least} /\ 0 <= List!Max({0, least})
      BY <3>0, LargerOf, Zenon
    <3> QED
      BY <3>0, <3>1 DEF least
  <2> QED
    BY <2>2 DEF List!Clamp
<1> QED
  BY <1>2, <1>3

LEMMA ScrollToPixelTyped ==
  ASSUME ListInv, NEW y \in Nat, List!ScrollToPixel(y)
  PROVE  top' \in List!Offset \cup {NoTop}
BY AtTyped DEF List!ScrollToPixel

\* The ways of scrolling leave the items alone.
ScrollsOnly ==
  /\ items' = items /\ metrics' = metrics /\ pendingScroll' = pendingScroll
  /\ top' \in List!Offset \cup {NoTop} /\ painted' \in PaintedFrame \cup {NoFrame}

LEMMA ScrollsOnlyStep ==
  ASSUME ListInv, ScrollsOnly
  PROVE  ListInv' /\ List!KeepsAnchor
<1>1. ListInv'
  BY DEF ListInv, ScrollsOnly
<1>2. List!Ids' = List!Ids
  BY DEF List!Ids, ScrollsOnly
<1> QED
  BY <1>1, <1>2 DEF List!KeepsAnchor

LEMMA ScrollByStep ==
  ASSUME ListInv, NEW d \in Int, List!ScrollBy(d)
  PROVE  ScrollsOnly
<1> DEFINE pixel == List!PixelTop(List!LogicalTop) + d
           y == List!Max({0, pixel})
<1>0. 0 \in Int /\ pixel \in Int
  <2>1. List!LogicalTop \in List!Offset
    BY LogicalTyped DEF ListInv
  <2> QED
    BY <2>1, PixelTopTyped
<1> HIDE DEF pixel
<1>1. y \in {0, pixel} /\ 0 <= y
  BY <1>0, LargerOf, Zenon
<1>2. y \in Nat
  BY <1>0, <1>1
<1> HIDE DEF y
<1>3. top' = List!At(y)
  BY DEF List!ScrollBy, y, pixel
<1>4. List!At(y) \in List!Offset
  BY <1>2, AtTyped
<1> QED
  BY <1>3, <1>4 DEF List!ScrollBy, ScrollsOnly, ListInv

LEMMA ScrollToStep ==
  ASSUME ListInv, NEW ix \in Nat, NEW off \in Int, List!ScrollTo(ix, off)
  PROVE  ScrollsOnly
<1>1. top' \in List!Offset
  BY CountTyped DEF List!ScrollTo, List!Start, List!Offset
<1> QED
  BY <1>1 DEF List!ScrollTo, ScrollsOnly, ListInv

LEMMA RevealStep ==
  ASSUME ListInv, NEW ix \in Nat, List!ScrollToRevealItem(ix)
  PROVE  ScrollsOnly
<1> DEFINE t == List!LogicalTop
           least == List!Min({ix + 1, List!Count})
           room == IF painted = NoFrame THEN 0 ELSE ListHeight
           above == List!Before(least) - room
           goal == List!Max({0, above})
           start == List!SeekLeft(goal)
<1>1. least \in 0..Len(items)
  <2>0. ix + 1 \in Int /\ List!Count \in Int
    BY CountTyped
  <2>1. least \in {ix + 1, List!Count} /\ least <= ix + 1 /\ least <= List!Count
    BY <2>0, LargerOf, Zenon
  <2> QED
    BY <2>0, <2>1, CountTyped
<1> HIDE DEF least
<1>2. 0 \in Int /\ above \in Int
  BY <1>1, BeforeTyped, ListConstants
<1> HIDE DEF above
<1>3. goal \in {0, above} /\ 0 <= goal
  BY <1>2, LargerOf, Zenon
<1>4. goal \in Nat
  BY <1>2, <1>3
<1> HIDE DEF goal
<1>5. start \in 0..Len(items)
  BY <1>4, SeekTyped
<1>6. List!Before(start) \in Nat /\ start \in Nat
  BY <1>5, BeforeTyped, CountTyped
<1>7. t \in List!Offset
  BY LogicalTyped DEF ListInv
<1> HIDE DEF start, t
<1>8. top' = IF ix <= t.ix THEN List!Start(ix)
             ELSE IF start >= t.ix THEN [ix |-> start, off |-> goal - List!Before(start)] ELSE t
  BY DEF List!ScrollToRevealItem, t, start, goal, above, room, least
<1>9. top' \in List!Offset
  BY <1>4, <1>6, <1>7, <1>8 DEF List!Start, List!Offset
<1> QED
  BY <1>9 DEF List!ScrollToRevealItem, ScrollsOnly, ListInv

LEMMA ScrollbarStep ==
  ASSUME ListInv, NEW y \in 0..List!ScrollMax, List!SetOffsetFromScrollbar(y)
  PROVE  ScrollsOnly
<1>1. y \in Nat
  BY ScrollMaxTyped
<1>2. top' \in List!Offset \cup {NoTop}
  BY <1>1, ScrollToPixelTyped DEF List!SetOffsetFromScrollbar
<1> QED
  BY <1>2 DEF List!SetOffsetFromScrollbar, ScrollsOnly, ListInv

LEMMA ScrollStep ==
  ASSUME ListInv, NEW d \in Int, List!Scroll(d)
  PROVE  ScrollsOnly
<1> DEFINE sum == IF painted.delta * d > 0 THEN painted.delta + d ELSE d
           pixel == List!PixelTop(painted.top) + sum
<1>1. painted \in PaintedFrame
  BY DEF ListInv, List!Scroll
<1>2. sum \in Int /\ pixel \in Int
  BY <1>1, PixelTopTyped DEF PaintedFrame
<1> HIDE DEF sum, pixel
<1>3. List!Clamp(pixel, List!ScrollMax) \in Nat
  BY <1>2, ScrollMaxTyped
<1>4. painted' = [painted EXCEPT !.delta = sum]
  BY DEF List!Scroll, sum
<1>5. reset \/ List!ScrollToPixel(List!Clamp(pixel, List!ScrollMax))
  BY DEF List!Scroll, pixel, sum
<1>6. reset => top' = top
  BY DEF List!Scroll
<1>7. top' \in List!Offset \cup {NoTop}
  BY <1>3, <1>5, <1>6, ScrollToPixelTyped DEF ListInv
<1>8. painted' \in PaintedFrame
  BY <1>1, <1>2, <1>4 DEF PaintedFrame
<1> QED
  BY <1>7, <1>8 DEF List!Scroll, ScrollsOnly, ListInv
-----------------------------------------------------------------------------
LEMMA StaleTyped ==
  ASSUME ListInv
  PROVE  List!Stale \in PaintedFrame \cup {NoFrame}
<1>1. CASE painted = NoFrame
  BY <1>1 DEF List!Stale
<1>2. CASE painted # NoFrame
  <2>1. painted \in PaintedFrame
    BY <1>2 DEF ListInv
  <2> DEFINE unshown == [painted EXCEPT !.last = 0]
  <2>2. unshown \in PaintedFrame
    BY <2>1, 0 \in Int, Zenon DEF PaintedFrame
  <2>3. [unshown EXCEPT !.same = FALSE] \in PaintedFrame
    <3> HIDE DEF unshown
    <3> QED
      BY <2>2 DEF PaintedFrame
  <2>4. List!Stale = [unshown EXCEPT !.same = FALSE]
    BY <1>2 DEF List!Stale
  <2> QED
    BY <2>3, <2>4
<1> QED
  BY <1>1, <1>2

\* Other metrics: the items stay, what is measured does not.
LEMMA RemeasureStep ==
  ASSUME ListInv, NEW m \in Metrics, List!Remeasure(m)
  PROVE  ListInv' /\ List!KeepsAnchor
<1>1. /\ metrics' = m /\ top' = top
      /\ items' = [n \in DOMAIN items |-> [items[n] EXCEPT !.measured = FALSE]]
      /\ painted' = List!Stale
  BY DEF List!Remeasure, List!Unmeasured
<1>2. \A n \in DOMAIN items : items[n] \in Entry
  BY DEF ListInv
<1>3. \A n \in DOMAIN items : items'[n] \in Entry /\ items'[n].id = items[n].id
  BY <1>1, <1>2 DEF Entry
<1>4. items' \in Seq(Entry) /\ DOMAIN items' = DOMAIN items
  <2>1. DOMAIN items = 1..Len(items) /\ Len(items) \in Nat
    BY DEF ListInv
  <2>2. items' \in [1..Len(items) -> Entry]
    BY <1>1, <1>3, <2>1
  <2> QED
    BY <1>1, <2>1, <2>2, SeqDef
<1>5. painted' \in PaintedFrame \cup {NoFrame}
  BY <1>1, StaleTyped
<1>6. pendingScroll' \in Fractions \cup {NoPending}
  <2>1. CASE top # NoTop /\ top.ix < List!Count /\ items[top.ix + 1].measured
    <3> DEFINE h == List!Height(metrics, top.ix + 1)
               least == List!Min({top.off, h})
    <3>1. top.ix \in Nat /\ top.off \in Int
      BY <2>1 DEF ListInv, List!Offset
    <3>2. h \in Nat \ {0}
      BY <2>1, <3>1, CountTyped, HeightTyped DEF ListInv
    <3> HIDE DEF h
    <3>3. 0 \in Int /\ h \in Int
      BY <3>2
    <3>4. least \in {top.off, h}
      BY <3>1, <3>3, LargerOf, Zenon
    <3> HIDE DEF least
    <3>5. least \in Int
      BY <3>1, <3>3, <3>4
    <3>6. List!Max({0, least}) \in {0, least} /\ 0 <= List!Max({0, least})
      BY <3>3, <3>5, LargerOf, Zenon
    <3>7. List!Clamp(top.off, h) \in Nat
      BY <3>5, <3>6 DEF List!Clamp, least
    <3>8. pendingScroll' = [ix |-> top.ix, num |-> List!Clamp(top.off, h), den |-> h]
      BY <2>1 DEF List!Remeasure, h
    <3> QED
      BY <3>1, <3>2, <3>7, <3>8 DEF Fractions
  <2>2. CASE ~(top # NoTop /\ top.ix < List!Count /\ items[top.ix + 1].measured)
    BY <2>2 DEF List!Remeasure, ListInv
  <2> QED
    BY <2>1, <2>2
<1>7. ListInv'
  BY <1>1, <1>3, <1>4, <1>5, <1>6 DEF ListInv
<1>8. List!Ids' = List!Ids
  BY <1>3, <1>4 DEF List!Ids
<1> QED
  BY <1>7, <1>8 DEF List!KeepsAnchor
-----------------------------------------------------------------------------
\* New items are typed, no two of them are the same, and none is in the list yet.
LEMMA NewsTyped ==
  ASSUME ListInv, NEW new \in List!News
  PROVE  /\ new \in Seq(Item) /\ Len(new) \in Nat /\ Len(new) <= 1
         /\ \A n \in 1..Len(new), k \in DOMAIN items : new[n] # items[k].id
<1>1. PICK m \in 0..1 : new \in [1..m -> Item \ List!Range(List!Ids)]
  BY DEF List!News, List!SeqOf
<1>2. new \in Seq(Item \ List!Range(List!Ids)) /\ Len(new) = m
  <2>1. m \in Nat
    OBVIOUS
  <2> QED
    BY <1>1, <2>1, SeqDef
<1>3. \A k \in DOMAIN items : items[k].id \in List!Range(List!Ids)
  BY DEF List!Range, List!Ids
<1> QED
  BY <1>1, <1>2, <1>3

LEMMA FreshTyped ==
  ASSUME NEW new \in Seq(Item)
  PROVE  /\ List!Fresh(new) \in Seq(Entry) /\ Len(List!Fresh(new)) = Len(new)
         /\ \A n \in 1..Len(new) : List!Fresh(new)[n].id = new[n]
<1>1. DOMAIN new = 1..Len(new) /\ Len(new) \in Nat /\ new \in [1..Len(new) -> Item]
  OBVIOUS
<1>2. List!Fresh(new) \in [1..Len(new) -> Entry]
  BY <1>1 DEF List!Fresh, Entry
<1>3. \A n \in 1..Len(new) : List!Fresh(new)[n].id = new[n]
  BY <1>1 DEF List!Fresh
<1> QED
  BY <1>1, <1>2, <1>3, SeqDef

\* Where the items of a spliced list come from.
LEMMA SplicedItems ==
  ASSUME ListInv, NEW from \in 0..Len(items), NEW to \in from..Len(items), NEW new \in List!News,
         List!Splice(from, to, new)
  PROVE  /\ items' \in Seq(Entry) /\ Len(items') = Len(items) - (to - from) + Len(new)
         /\ \A i \in 1..from : items'[i] = items[i]
         /\ \A i \in (from + 1)..(from + Len(new)) : items'[i].id = new[i - from]
         /\ \A i \in (from + Len(new) + 1)..Len(items') :
              /\ i - Len(new) + (to - from) \in (to + 1)..Len(items)
              /\ items'[i] = items[i - Len(new) + (to - from)]
<1> DEFINE n == Len(items)
           pre == SubSeq(items, 1, from)
           mid == List!Fresh(new)
           post == SubSeq(items, to + 1, n)
<1>1. n \in Nat /\ items \in Seq(Entry) /\ List!Count = n
  BY CountTyped DEF ListInv
<1>2. \A i \in 1..n : items[i] \in Entry
  BY <1>1
<1>3. /\ pre \in Seq(Entry) /\ Len(pre) = from
      /\ \A i \in 1..from : pre[i] = items[i]
  BY <1>1, <1>2, SubSeqProperties
<1>4. /\ post \in Seq(Entry) /\ Len(post) = n - to
      /\ \A i \in 1..(n - to) : post[i] = items[to + i]
  BY <1>1, <1>2, SubSeqProperties
<1>5. /\ mid \in Seq(Entry) /\ Len(mid) = Len(new) /\ Len(new) \in Nat
      /\ \A i \in 1..Len(new) : mid[i].id = new[i]
  BY FreshTyped, NewsTyped
<1>6. items' = (pre \o mid) \o post
  BY <1>1 DEF List!Splice
<1> HIDE DEF n, pre, mid, post
<1>7. /\ pre \o mid \in Seq(Entry) /\ Len(pre \o mid) = from + Len(new)
      /\ \A i \in 1..from : (pre \o mid)[i] = items[i]
      /\ \A i \in (from + 1)..(from + Len(new)) : (pre \o mid)[i] = mid[i - from]
  <2>0. pre \in Seq(Entry) /\ mid \in Seq(Entry)
    BY <1>3, <1>5
  <2>1. /\ pre \o mid \in Seq(Entry) /\ Len(pre \o mid) = Len(pre) + Len(mid)
        /\ \A i \in 1..(Len(pre) + Len(mid)) :
             (pre \o mid)[i] = IF i <= Len(pre) THEN pre[i] ELSE mid[i - Len(pre)]
    BY <2>0, ConcatProperties
  <2>2. /\ Len(pre) = from /\ Len(mid) = Len(new) /\ from \in Nat /\ Len(new) \in Nat
        /\ from + Len(new) \in Nat
    BY <1>3, <1>5
  <2>3. ASSUME NEW i \in 1..from
        PROVE  (pre \o mid)[i] = items[i]
    <3>1. i \in 1..(Len(pre) + Len(mid)) /\ i <= Len(pre)
      BY <2>2
    <3> QED
      BY <1>3, <2>1, <3>1
  <2>4. ASSUME NEW i \in (from + 1)..(from + Len(new))
        PROVE  (pre \o mid)[i] = mid[i - from]
    <3>1. i \in 1..(Len(pre) + Len(mid)) /\ ~(i <= Len(pre))
      BY <2>2
    <3>2. (pre \o mid)[i] = mid[i - Len(pre)]
      BY <2>1, <3>1
    <3> QED
      BY <2>2, <3>2
  <2> QED
    BY <2>1, <2>2, <2>3, <2>4
<1>8. /\ items' \in Seq(Entry) /\ Len(items') = from + Len(new) + (n - to)
      /\ \A i \in 1..(from + Len(new)) : items'[i] = (pre \o mid)[i]
      /\ \A i \in (from + Len(new) + 1)..(from + Len(new) + (n - to)) :
           items'[i] = post[i - (from + Len(new))]
  <2> DEFINE front == pre \o mid
  <2>1. front \in Seq(Entry) /\ Len(front) = from + Len(new)
    BY <1>7
  <2> HIDE DEF front
  <2>2. /\ front \o post \in Seq(Entry) /\ Len(front \o post) = Len(front) + Len(post)
        /\ \A i \in 1..(Len(front) + Len(post)) :
             (front \o post)[i] = IF i <= Len(front) THEN front[i] ELSE post[i - Len(front)]
    BY <1>4, <2>1, ConcatProperties, SMTT(40)
  <2>3. items' = front \o post
    BY <1>6 DEF front
  <2>4. /\ items' \in Seq(Entry) /\ Len(items') = from + Len(new) + (n - to)
        /\ \A i \in 1..(from + Len(new)) : items'[i] = front[i]
        /\ \A i \in (from + Len(new) + 1)..(from + Len(new) + (n - to)) :
             items'[i] = post[i - (from + Len(new))]
    <3>1. Len(items') = from + Len(new) + (n - to)
      BY <1>4, <2>1, <2>2, <2>3
    <3>2. Len(front) \in Int /\ Len(front) = from + Len(new) /\ Len(post) = n - to /\ n - to \in Nat
          /\ from + Len(new) \in Nat
      BY <1>1, <1>4, <1>5, <2>1
    <3>3. \A i \in 1..(from + Len(new)) : items'[i] = front[i]
      BY <2>2, <2>3, <3>2
    <3>4. \A i \in (from + Len(new) + 1)..(from + Len(new) + (n - to)) :
             items'[i] = post[i - (from + Len(new))]
      BY <2>2, <2>3, <3>2, SMTT(40)
    <3> QED
      BY <2>2, <2>3, <3>1, <3>3, <3>4
  <2> QED
    BY <2>4 DEF front
<1>9. \A i \in (from + Len(new) + 1)..Len(items') :
        /\ i - Len(new) + (to - from) \in (to + 1)..n
        /\ items'[i] = items[i - Len(new) + (to - from)]
  <2> SUFFICES ASSUME NEW i \in (from + Len(new) + 1)..Len(items')
               PROVE  /\ i - Len(new) + (to - from) \in (to + 1)..n
                      /\ items'[i] = items[i - Len(new) + (to - from)]
    OBVIOUS
  <2>1. i \in Int /\ i - (from + Len(new)) \in 1..(n - to)
    BY <1>1, <1>5, <1>8
  <2>2. items'[i] = post[i - (from + Len(new))]
    BY <1>1, <1>5, <1>8
  <2>3. to + (i - (from + Len(new))) = i - Len(new) + (to - from)
    BY <1>5, <2>1
  <2>4. post[i - (from + Len(new))] = items[to + (i - (from + Len(new)))]
    BY <1>4, <2>1
  <2>5. i - Len(new) + (to - from) \in (to + 1)..n
    BY <1>1, <1>5, <2>1
  <2> QED
    BY <2>2, <2>3, <2>4, <2>5
<1>10. \A i \in 1..from : items'[i] = items[i]
  <2>1. \A i \in 1..from : i \in 1..(from + Len(new))
    BY <1>5
  <2> QED
    BY <1>7, <1>8, <2>1
<1>11. \A i \in (from + 1)..(from + Len(new)) : items'[i].id = new[i - from]
  <2> SUFFICES ASSUME NEW i \in (from + 1)..(from + Len(new))
               PROVE  items'[i].id = new[i - from]
    OBVIOUS
  <2>1. i \in 1..(from + Len(new)) /\ i - from \in 1..Len(new)
    BY <1>5
  <2>2. items'[i] = mid[i - from]
    BY <1>7, <1>8, <2>1
  <2> QED
    BY <1>5, <2>1, <2>2
<1> QED
  BY <1>1, <1>5, <1>8, <1>9, <1>10, <1>11 DEF n

LEMMA SplicedTopTyped ==
  ASSUME ListInv, NEW from \in 0..Len(items), NEW to \in from..Len(items), NEW new \in List!News
  PROVE  /\ List!SplicedTop(from, to, new) \in List!Offset \cup {NoTop}
         /\ top # NoTop /\ to <= top.ix =>
              /\ List!SplicedTop(from, to, new).ix = top.ix - (to - from) + Len(new)
              /\ List!SplicedTop(from, to, new).off = top.off
         /\ top # NoTop /\ top.ix < from => List!SplicedTop(from, to, new) = top
<1> DEFINE on == top.ix - (to - from) + Len(new)
<1>1. Len(new) \in Nat /\ Len(items) \in Nat
  BY NewsTyped, CountTyped
<1>2. CASE top = NoTop
  BY <1>2 DEF List!SplicedTop
<1>3. CASE top # NoTop
  <2>1. top \in List!Offset
    BY <1>3 DEF ListInv
  <2>2. top.ix \in Nat /\ top.off \in Int
    BY <2>1 DEF List!Offset
  <2>3. CASE top.ix \in from..(to - 1)
    <3>1. List!SplicedTop(from, to, new) = List!Start(from)
      BY <1>3, <2>3 DEF List!SplicedTop
    <3> QED
      BY <1>1, <2>2, <2>3, <3>1 DEF List!Start, List!Offset
  <2>4. CASE to <= top.ix
    <3>1. List!SplicedTop(from, to, new) = [top EXCEPT !.ix = on]
      BY <1>1, <1>3, <2>2, <2>4 DEF List!SplicedTop
    <3>2. on \in Nat
      BY <1>1, <2>2, <2>4
    <3> HIDE DEF on
    <3>3. /\ [top EXCEPT !.ix = on] \in List!Offset
          /\ [top EXCEPT !.ix = on].ix = on /\ [top EXCEPT !.ix = on].off = top.off
      BY <2>1, <3>2 DEF List!Offset
    <3>4. to <= top.ix /\ ~(top.ix < from)
      BY <1>1, <2>2, <2>4
    <3> QED
      BY <3>1, <3>3, <3>4 DEF on
  <2>5. CASE top.ix < from
    <3>1. List!SplicedTop(from, to, new) = top /\ ~(to <= top.ix)
      BY <1>1, <1>3, <2>2, <2>5 DEF List!SplicedTop
    <3> QED
      BY <2>1, <3>1
  <2> QED
    BY <1>1, <2>2, <2>3, <2>4, <2>5
<1> QED
  BY <1>2, <1>3

LEMMA SplicedOnce ==
  ASSUME ListInv, NEW from \in 0..Len(items), NEW to \in from..Len(items), NEW new \in List!News,
         List!Splice(from, to, new)
  PROVE  \A i, j \in DOMAIN items' : items'[i].id = items'[j].id => i = j
<1> DEFINE l == Len(new)
           k(i) == i - l + (to - from)
<1>1. /\ Len(items) \in Nat /\ l \in Nat /\ l <= 1 /\ DOMAIN items = 1..Len(items)
      /\ \A n \in 1..l, i \in DOMAIN items : new[n] # items[i].id
  BY NewsTyped, CountTyped DEF ListInv
<1>2. /\ Len(items') = Len(items) - (to - from) + l /\ DOMAIN items' = 1..Len(items')
      /\ \A i \in 1..from : items'[i] = items[i]
      /\ \A i \in (from + 1)..(from + l) : items'[i].id = new[i - from]
      /\ \A i \in (from + l + 1)..Len(items') :
           k(i) \in (to + 1)..Len(items) /\ items'[i] = items[k(i)]
  BY SplicedItems
<1> HIDE DEF l
<1>3. \A i, j \in DOMAIN items : items[i].id = items[j].id => i = j
  BY DEF ListInv
<1> SUFFICES ASSUME NEW i \in DOMAIN items', NEW j \in DOMAIN items',
                    items'[i].id = items'[j].id, i < j
             PROVE  FALSE
  <2>1. \A i, j \in DOMAIN items' : i \in Int /\ j \in Int
    BY <1>2
  <2> QED
    BY <2>1
<1>4. i \in 1..Len(items') /\ j \in 1..Len(items') /\ Len(items') \in Nat
  BY <1>1, <1>2
<1>5. ASSUME NEW m \in DOMAIN items', from + l < m
      PROVE  k(m) \in (to + 1)..Len(items) /\ items'[m] = items[k(m)] /\ k(m) \in DOMAIN items
  <2>1. m \in (from + l + 1)..Len(items')
    BY <1>1, <1>2, <1>5
  <2>2. k(m) \in (to + 1)..Len(items) /\ items'[m] = items[k(m)]
    BY <1>2, <2>1
  <2>3. \A p \in (to + 1)..Len(items) : p \in DOMAIN items
    BY <1>1
  <2> QED
    BY <2>2, <2>3
<1>6. CASE j <= from
  <2>1. items'[i] = items[i] /\ items'[j] = items[j] /\ i \in DOMAIN items /\ j \in DOMAIN items
    BY <1>1, <1>2, <1>4, <1>6
  <2> QED
    BY <1>3, <1>4, <2>1
<1>7. CASE j \in (from + 1)..(from + l)
  <2>1. i \in 1..from
    BY <1>1, <1>4, <1>7
  <2>2. items'[i] = items[i] /\ i \in DOMAIN items
    BY <1>1, <1>2, <1>4, <2>1
  <2>3. items'[j].id = new[j - from] /\ j - from \in 1..l
    BY <1>1, <1>2, <1>7, SMTT(40)
  <2> QED
    BY <1>1, <2>2, <2>3
<1>8. CASE from + l < j
  <2>1. k(j) \in (to + 1)..Len(items) /\ items'[j] = items[k(j)] /\ k(j) \in DOMAIN items
    BY <1>8, <1>5
  <2>2. CASE i <= from
    <3>1. items'[i] = items[i] /\ i \in DOMAIN items /\ i # k(j)
      BY <1>1, <1>2, <1>4, <2>1, <2>2, SMTT(40)
    <3> QED
      BY <1>3, <2>1, <3>1
  <2>3. CASE i \in (from + 1)..(from + l)
    <3>1. items'[i].id = new[i - from] /\ i - from \in 1..l
      BY <1>1, <1>2, <2>3, SMTT(40)
    <3> QED
      BY <1>1, <2>1, <3>1
  <2>4. CASE from + l < i
    <3>1. items'[i] = items[k(i)] /\ k(i) \in DOMAIN items /\ k(i) # k(j)
      <4>1. k(i) # k(j)
        BY <1>1, <1>4
      <4> QED
        BY <2>4, <4>1, <1>5
    <3> QED
      BY <1>3, <2>1, <3>1
  <2> QED
    BY <1>1, <1>4, <2>2, <2>3, <2>4
<1> QED
  BY <1>1, <1>4, <1>6, <1>7, <1>8

LEMMA SpliceStep ==
  ASSUME ListInv, NEW from \in 0..Len(items), NEW to \in from..Len(items), NEW new \in List!News,
         List!Splice(from, to, new)
  PROVE  ListInv' /\ List!KeepsAnchor
<1> DEFINE l == Len(new)
<1>1. /\ Len(items) \in Nat /\ l \in Nat /\ l <= 1 /\ DOMAIN items = 1..Len(items)
      /\ \A n \in 1..l, i \in DOMAIN items : new[n] # items[i].id
  BY NewsTyped, CountTyped DEF ListInv
<1>2. /\ items' \in Seq(Entry) /\ Len(items') = Len(items) - (to - from) + l
      /\ DOMAIN items' = 1..Len(items')
      /\ \A i \in 1..from : items'[i] = items[i]
      /\ \A i \in (from + 1)..(from + l) : items'[i].id = new[i - from]
      /\ \A i \in (from + l + 1)..Len(items') :
           /\ i - l + (to - from) \in (to + 1)..Len(items)
           /\ items'[i] = items[i - l + (to - from)]
  <2>1. /\ items' \in Seq(Entry) /\ Len(items') = Len(items) - (to - from) + l
        /\ \A i \in 1..from : items'[i] = items[i]
        /\ \A i \in (from + 1)..(from + l) : items'[i].id = new[i - from]
        /\ \A i \in (from + l + 1)..Len(items') :
             /\ i - l + (to - from) \in (to + 1)..Len(items)
             /\ items'[i] = items[i - l + (to - from)]
    BY SplicedItems, Zenon
  <2>2. DOMAIN items' = 1..Len(items')
    BY <2>1
  <2> QED
    BY <2>1, <2>2
<1>3. top' = List!SplicedTop(from, to, new) /\ painted' = List!Stale
      /\ metrics' = metrics /\ pendingScroll' = pendingScroll
  BY DEF List!Splice
<1>4. /\ top' \in List!Offset \cup {NoTop}
      /\ top # NoTop /\ to <= top.ix => top'.ix = top.ix - (to - from) + l /\ top'.off = top.off
      /\ top # NoTop /\ top.ix < from => top' = top
  BY <1>3, SplicedTopTyped
<1>5. \A i, j \in DOMAIN items' : items'[i].id = items'[j].id => i = j
  BY SplicedOnce
<1>6. ListInv'
  BY <1>2, <1>3, <1>4, <1>5, StaleTyped DEF ListInv
<1> HIDE DEF l
<1>7. ASSUME top # NoTop, top' # NoTop, top.ix < List!Count,
             List!Ids[top.ix + 1] \in List!Range(List!Ids')
      PROVE  top'.ix < List!Count' /\ List!Ids'[top'.ix + 1] = List!Ids[top.ix + 1]
             /\ top'.off = top.off
  <2> DEFINE a == top.ix + 1
  <2>1. /\ top.ix \in Nat /\ a \in DOMAIN items /\ a \in Int
        /\ List!Ids[a] = items[a].id
        /\ \A i \in DOMAIN items' : List!Ids'[i] = items'[i].id
        /\ DOMAIN List!Ids' = DOMAIN items'
    BY <1>1, <1>7 DEF ListInv, List!Offset, List!Ids, List!Count
  <2>2. List!Count' = Len(items') /\ Len(items') \in Nat
    BY <1>2 DEF List!Count
  <2>3. PICK j \in DOMAIN items' : items'[j].id = items[a].id
    BY <1>7, <2>1 DEF List!Range
  <2>4. CASE top.ix \in from..(to - 1)
    <3>1. a \in (from + 1)..to
      BY <1>1, <2>1, <2>4
    <3>2. CASE j \in 1..from
      <4>1. items[j].id = items[a].id /\ j \in DOMAIN items /\ j # a
        BY <1>1, <1>2, <2>3, <3>1, <3>2
      <4> QED
        BY <2>1, <4>1 DEF ListInv
    <3>3. CASE j \in (from + 1)..(from + l)
      <4>1. new[j - from] = items[a].id /\ j - from \in 1..l
        BY <1>1, <1>2, <2>3, <3>3, SMTT(40)
      <4> QED
        BY <1>1, <2>1, <4>1
    <3>4. CASE j \in (from + l + 1)..Len(items')
      <4> DEFINE k == j - l + (to - from)
      <4>1. k \in (to + 1)..Len(items) /\ items'[j] = items[k]
        BY <1>2, <3>4
      <4> HIDE DEF k
      <4>2. k \in DOMAIN items /\ k # a /\ items[k].id = items[a].id
        BY <1>1, <2>3, <3>1, <4>1
      <4> QED
        BY <2>1, <4>2 DEF ListInv
    <3>5. \/ j \in 1..from \/ j \in (from + 1)..(from + l) \/ j \in (from + l + 1)..Len(items')
      BY <1>1, <1>2, <2>2
    <3> QED
      BY <3>2, <3>3, <3>4, <3>5
  <2>5. CASE to <= top.ix
    <3> DEFINE i == top'.ix + 1
    <3>1. top'.ix = top.ix - (to - from) + l /\ top'.off = top.off
      BY <1>4, <1>7, <2>5
    <3>2. i \in (from + l + 1)..Len(items') /\ i - l + (to - from) = a /\ top'.ix < Len(items')
      <4>1. /\ from \in Nat /\ to \in Nat /\ l \in Nat /\ top.ix \in Nat /\ Len(items) \in Nat
            /\ top.ix + 1 <= Len(items) /\ to <= top.ix /\ from <= to
        BY <1>1, <2>1, <2>5
      <4>2. /\ top'.ix = top.ix - (to - from) + l
            /\ Len(items') = Len(items) - (to - from) + l
        BY <1>2, <3>1
      <4>3. top'.ix \in Int /\ top'.ix < Len(items') /\ Len(items') \in Int
        BY <4>1, <4>2
      <4>4. from + l <= top'.ix
        BY <4>1, <4>2
      <4>5. i - l + (to - from) = a
        BY <4>1, <4>2
      <4>6. i \in (from + l + 1)..Len(items')
        BY <4>1, <4>3, <4>4
      <4> QED
        BY <4>3, <4>5, <4>6
    <3> HIDE DEF i, a
    <3>3. items'[i] = items[a] /\ i \in DOMAIN items'
      <4>1. items'[i] = items[i - l + (to - from)]
        BY <1>2, <3>2
      <4>2. \A p \in (from + l + 1)..Len(items') : p \in 1..Len(items')
        BY <1>1, <2>2
      <4> QED
        BY <1>2, <3>2, <4>1, <4>2
    <3> QED
      BY <2>1, <2>2, <3>1, <3>2, <3>3 DEF i, a
  <2>6. CASE top.ix < from
    <3>1. top' = top /\ a \in 1..from /\ a \in DOMAIN items' /\ top.ix < Len(items')
      BY <1>1, <1>2, <1>4, <1>7, <2>1, <2>6, SMTT(40)
    <3>2. items'[a] = items[a]
      BY <1>2, <3>1
    <3> QED
      BY <2>1, <2>2, <3>1, <3>2
  <2> QED
    BY <1>1, <2>1, <2>4, <2>5, <2>6
<1> QED
  BY <1>6, <1>7 DEF List!KeepsAnchor

LEMMA ResetStep ==
  ASSUME ListInv, NEW new \in List!News, List!Reset(new)
  PROVE  ListInv' /\ List!KeepsAnchor
<1>1. /\ top' = NoTop /\ items' = List!Fresh(new) /\ painted' = List!Stale
      /\ metrics' = metrics /\ pendingScroll' = pendingScroll
  BY DEF List!Reset
<1>2. /\ items' \in Seq(Entry) /\ Len(items') = Len(new) /\ Len(new) \in Nat /\ Len(new) <= 1
  BY <1>1, NewsTyped, FreshTyped
<1>3. \A i, j \in DOMAIN items' : i = j
  BY <1>2
<1> QED
  BY <1>1, <1>2, <1>3, StaleTyped DEF ListInv, List!KeepsAnchor
-----------------------------------------------------------------------------
\* What a layout gives: every item it shows is one of the list.
Layout(l) ==
  /\ l.top \in List!Offset /\ l.logical \in List!Offset \cup {NoTop} /\ l.last \in Int
  /\ \A i \in (l.top.ix + 1)..l.last : i \in 1..Len(items)

LEMMA LastDownTyped ==
  ASSUME ListInv, NEW m \in Metrics, NEW t \in List!Offset
  PROVE  List!LastDown(m, t) \in Int /\ List!LastDown(m, t) <= Len(items)
<1> DEFINE S == {n \in (t.ix + 1)..List!Count : List!Below(m, t, n) >= ListHeight + Overdraw}
<1>1. t.ix + 1 \in Int /\ List!Count \in Int /\ List!Count = Len(items)
  BY CountTyped DEF List!Offset
<1>2. S \in SUBSET ((t.ix + 1)..List!Count)
  OBVIOUS
<1>3. List!LastDown(m, t) = List!Min({List!Count} \cup S)
  BY DEF List!LastDown
<1> HIDE DEF S
<1>4. List!Min({List!Count} \cup S) \in {List!Count} \cup S
      /\ List!Min({List!Count} \cup S) <= List!Count
  BY <1>1, <1>2, LargestOf, Zenon
<1> DEFINE least == List!Min({List!Count} \cup S)
<1>5. least = List!Count \/ least \in (t.ix + 1)..List!Count
  BY <1>2, <1>4
<1> HIDE DEF least
<1>6. least \in Int
  BY <1>1, <1>5
<1> QED
  BY <1>1, <1>3, <1>4, <1>6 DEF least

LEMMA FilledTyped ==
  ASSUME ListInv, NEW m \in Metrics, NEW t \in List!Offset, NEW down \in Int, down <= Len(items)
  PROVE  List!Filled(m, t, down) \in List!Offset
<1> DEFINE S == {n \in 1..(t.ix + 1) : List!Total(m, n, down) >= ListHeight}
           first == List!Max({1} \cup S)
           left == List!Total(m, first, down) - ListHeight
<1>1. 1 \in Int /\ t.ix + 1 \in Int /\ S \in SUBSET (1..(t.ix + 1))
  BY DEF List!Offset
<1> HIDE DEF S
<1>2. first \in {1} \cup S /\ 1 <= first
  BY <1>1, LargestOf, Zenon
<1> HIDE DEF first
<1>3. first \in Nat /\ first - 1 \in Nat
  <2>1. first = 1 \/ first \in 1..(t.ix + 1)
    BY <1>1, <1>2
  <2> QED
    BY <1>1, <2>1
<1>4. left \in Int /\ 0 \in Int
  BY TotalTyped, ListConstants
<1> HIDE DEF left
<1>5. List!Max({0, left}) \in {0, left}
  BY <1>4, LargerOf, Zenon
<1>6. List!Filled(m, t, down)
         = [ix |-> first - 1, off |-> IF alignment = "top" THEN List!Max({0, left}) ELSE left]
  BY DEF List!Filled, first, left, S
<1> QED
  BY <1>3, <1>4, <1>5, <1>6 DEF List!Offset

LEMMA ArrangeTyped ==
  ASSUME ListInv, NEW m \in Metrics, NEW t, NEW down \in Int, down <= Len(items),
         NEW gap, NEW end \in List!Offset, NEW logical \in List!Offset \cup {NoTop}
  PROVE  Layout(List!Arrange(m, t, down, gap, end, logical))
<1> DEFINE S == {n \in (end.ix + 1)..down : n <= t.ix + 1 \/ List!Below(m, t, n - 1) < ListHeight}
           lowest == List!Max({end.ix} \cup S)
           l == List!Arrange(m, t, down, gap, end, logical)
<1>1. end.ix \in Int /\ end.ix \in Nat /\ end.ix + 1 \in Int /\ S \in SUBSET ((end.ix + 1)..down)
  BY DEF List!Offset
<1> HIDE DEF S
<1>2. lowest \in {end.ix} \cup S
  BY <1>1, LargestOf, Zenon
<1> HIDE DEF lowest
<1>3. lowest \in Int /\ (lowest = end.ix \/ lowest <= down)
  <2>1. lowest = end.ix \/ lowest \in (end.ix + 1)..down
    BY <1>1, <1>2
  <2> QED
    BY <1>1, <2>1
<1>4. /\ l.top = end /\ l.last = lowest
      /\ l.logical = IF ~gap THEN logical ELSE IF alignment = "top" THEN end ELSE NoTop
  BY DEF List!Arrange, List!LastShown, S, lowest
<1> HIDE DEF l
<1>5. Len(items) \in Nat
  BY CountTyped
<1>6. Layout(l)
  BY <1>1, <1>3, <1>4, <1>5 DEF Layout
<1> QED
  BY <1>6 DEF l

LEMMA SettleTyped ==
  ASSUME ListInv, NEW m \in Metrics, NEW t \in List!Offset, NEW down \in Int, down <= Len(items),
         NEW logical \in List!Offset \cup {NoTop}
  PROVE  Layout(List!Settle(m, t, down, logical))
BY FilledTyped, ArrangeTyped DEF List!Settle

LEMMA LayoutTyped ==
  ASSUME ListInv, NEW m \in Metrics, NEW was \in List!Offset \cup {NoTop},
         NEW fraction \in Fractions \cup {NoPending}
  PROVE  Layout(List!LayoutItems(m, was, fraction))
<1> DEFINE uses == fraction # NoPending /\ fraction.ix = List!Logical(was).ix
                   /\ fraction.ix < List!Count
           h == List!Height(m, fraction.ix + 1)
           t == [ix |-> fraction.ix, off |-> (fraction.num * h) \div fraction.den]
<1>1. CASE uses
  <2>1. fraction.ix \in Nat /\ fraction.num \in Nat /\ fraction.den \in Nat \ {0}
    BY <1>1 DEF Fractions
  <2>2. h \in Nat \ {0}
    BY <1>1, <2>1, CountTyped, HeightTyped
  <2> HIDE DEF h
  <2>3. fraction.num * h \in Nat
    BY <2>1, <2>2
  <2>4. (fraction.num * h) \div fraction.den \in Int
    BY <2>1, <2>3
  <2>5. t \in List!Offset
    BY <2>1, <2>4 DEF List!Offset
  <2>6. List!LayoutItems(m, was, fraction) = List!Settle(m, t, List!LastDown(m, t), t)
    BY <1>1 DEF List!LayoutItems, h
  <2> HIDE DEF t
  <2>7. Layout(List!Settle(m, t, List!LastDown(m, t), t))
    BY <2>5, LastDownTyped, SettleTyped
  <2> QED
    BY <2>6, <2>7
<1>2. CASE ~uses
  <2> DEFINE u == List!Logical(was)
  <2>1. u \in List!Offset
    BY LogicalTyped
  <2>2. List!LayoutItems(m, was, fraction) = List!Settle(m, u, List!LastDown(m, u), was)
    BY <1>2 DEF List!LayoutItems
  <2> HIDE DEF u
  <2> QED
    BY <2>1, <2>2, LastDownTyped, SettleTyped
<1> QED
  BY <1>1, <1>2

LEMMA AutoscrollTyped ==
  ASSUME ListInv, NEW m \in Metrics, NEW i \in 1..Len(items), NEW r \in Nat, NEW y
  PROVE  List!Autoscrolled(m, i, r, y) \in List!Offset
<1> DEFINE room == ListHeight - (r + 1)
           S == {n \in 1..i : List!Total(m, n, i - 1) >= room}
           start == List!Max({1} \cup S)
           above == List!Total(m, start, i - 1) - room
<1>0. Len(items) \in Nat /\ i \in Nat /\ i - 1 \in Nat /\ i - 1 <= Len(items)
  BY CountTyped
<1>1. room \in Int
  BY ListConstants
<1> HIDE DEF room
<1>2. 1 \in Int /\ i \in Int /\ S \in SUBSET (1..i)
  BY <1>0
<1> HIDE DEF S
<1>3. start \in {1} \cup S /\ 1 <= start
  BY <1>2, LargestOf, Zenon
<1> HIDE DEF start
<1>4. start - 1 \in Nat
  <2>1. start = 1 \/ start \in 1..i
    BY <1>2, <1>3
  <2> QED
    BY <1>2, <2>1
<1>5. above \in Int /\ 0 \in Int
  BY <1>0, <1>1, TotalTyped
<1> HIDE DEF above
<1>6. List!Max({0, above}) \in {0, above}
  BY <1>5, LargerOf, Zenon
<1>7. List!Autoscrolled(m, i, r, y)
         = IF y < 0 THEN [ix |-> i - 1, off |-> r]
           ELSE IF room <= 0 THEN [ix |-> i - 1, off |-> -room]
           ELSE [ix |-> start - 1, off |-> List!Max({0, above})]
  BY DEF List!Autoscrolled, above, start, S, room
<1> QED
  BY <1>0, <1>1, <1>4, <1>5, <1>6, <1>7 DEF List!Offset
-----------------------------------------------------------------------------
\* A frame measures items and leaves them in place.
LEMMA PaintStep ==
  ASSUME ListInv, NEW m \in Metrics, metrics' = m, NEW end, Layout(end), NEW layouts,
         NEW fraction \in Fractions \cup {NoPending},
         List!Paint(m, end, layouts, fraction)
  PROVE  ListInv' /\ List!KeepsAnchor
<1> DEFINE seen(n) == \/ painted # NoFrame /\ m = metrics /\ items[n].measured
                      \/ \E k \in layouts : n \in k.lead..k.down
<1>1. /\ items' = [n \in DOMAIN items |-> [items[n] EXCEPT !.measured = seen(n)]]
      /\ top' = end.logical /\ pendingScroll' = fraction
      /\ painted' = [top |-> end.top, delta |-> 0, last |-> end.last, same |-> TRUE]
  BY DEF List!Paint
<1>2. \A n \in DOMAIN items : items[n] \in Entry /\ seen(n) \in BOOLEAN
  <2>1. \A n \in DOMAIN items : items[n] \in Entry
    BY DEF ListInv
  <2>2. \A n \in DOMAIN items : seen(n) \in BOOLEAN
    BY Zenon
  <2> QED
    BY <2>1, <2>2
<1> HIDE DEF seen
<1>3. \A n \in DOMAIN items : items'[n] \in Entry /\ items'[n].id = items[n].id
  <2> SUFFICES ASSUME NEW n \in DOMAIN items
               PROVE  items'[n] \in Entry /\ items'[n].id = items[n].id
    OBVIOUS
  <2>1. items'[n] = [items[n] EXCEPT !.measured = seen(n)]
    BY <1>1
  <2> QED
    BY <1>2, <2>1 DEF Entry
<1>4. items' \in Seq(Entry) /\ DOMAIN items' = DOMAIN items
  <2>1. DOMAIN items = 1..Len(items) /\ Len(items) \in Nat
    BY DEF ListInv
  <2>2. items' \in [1..Len(items) -> Entry]
    BY <1>1, <1>3, <2>1
  <2> QED
    BY <1>1, <2>1, <2>2, SeqDef
<1>5. painted' \in PaintedFrame
  BY <1>1 DEF PaintedFrame, Layout
<1>6. ListInv'
  <2>1. top' \in List!Offset \cup {NoTop}
    BY <1>1 DEF Layout
  <2>2. \A i, j \in DOMAIN items' : items'[i].id = items'[j].id => i = j
    BY <1>3, <1>4 DEF ListInv
  <2> QED
    BY <1>1, <1>4, <1>5, <2>1, <2>2 DEF ListInv
<1>7. List!Ids' = List!Ids
  BY <1>3, <1>4 DEF List!Ids
<1> QED
  BY <1>6, <1>7 DEF List!KeepsAnchor

LEMMA FrameStep ==
  ASSUME ListInv, NEW m \in Metrics, List!Frame(m)
  PROVE  ListInv' /\ List!KeepsAnchor
<1> DEFINE l == List!LayoutItems(m, top, pendingScroll)
           left == List!PendingAfter(top, pendingScroll)
<1>1. top \in List!Offset \cup {NoTop} /\ pendingScroll \in Fractions \cup {NoPending}
  BY DEF ListInv
<1>2. \A was, fraction : fraction \in Fractions \cup {NoPending} =>
        List!PendingAfter(was, fraction) \in Fractions \cup {NoPending}
  BY DEF List!PendingAfter
<1>3. Layout(l) /\ left \in Fractions \cup {NoPending}
  BY <1>1, <1>2, LayoutTyped
<1>4. /\ metrics' = m
      /\ \/ List!Paint(m, l, {l}, left)
         \/ \E i \in (l.top.ix + 1)..l.last : \E r \in 0..(List!Height(m, i) - 1) :
              \E to \in {List!Autoscrolled(m, i, r, List!RowTop(m, l, i, r))} :
                \E again \in {List!LayoutItems(m, to, left)} :
                  List!Paint(m, again, {l, again}, List!PendingAfter(to, left))
  BY ZenonT(40) DEF List!Frame
<1> HIDE DEF l, left
<1>5. CASE List!Paint(m, l, {l}, left)
  BY <1>3, <1>4, <1>5, PaintStep
<1>6. CASE \E i \in (l.top.ix + 1)..l.last : \E r \in 0..(List!Height(m, i) - 1) :
             \E to \in {List!Autoscrolled(m, i, r, List!RowTop(m, l, i, r))} :
               \E again \in {List!LayoutItems(m, to, left)} :
                 List!Paint(m, again, {l, again}, List!PendingAfter(to, left))
  <2>0. PICK i \in (l.top.ix + 1)..l.last : \E r \in 0..(List!Height(m, i) - 1) :
             \E to \in {List!Autoscrolled(m, i, r, List!RowTop(m, l, i, r))} :
               \E again \in {List!LayoutItems(m, to, left)} :
                 List!Paint(m, again, {l, again}, List!PendingAfter(to, left))
    BY <1>6
  <2>1. PICK r \in 0..(List!Height(m, i) - 1) :
             \E to \in {List!Autoscrolled(m, i, r, List!RowTop(m, l, i, r))} :
               \E again \in {List!LayoutItems(m, to, left)} :
                 List!Paint(m, again, {l, again}, List!PendingAfter(to, left))
    BY <2>0
  <2> DEFINE to == List!Autoscrolled(m, i, r, List!RowTop(m, l, i, r))
             again == List!LayoutItems(m, to, left)
             late == List!PendingAfter(to, left)
  <2>2. List!Paint(m, again, {l, again}, late)
    BY <2>1
  <2>3. i \in 1..Len(items) /\ r \in Nat
    <3>1. i \in 1..Len(items)
      BY <1>3 DEF Layout
    <3>2. List!Height(m, i) \in Nat
      BY <3>1, HeightTyped
    <3> QED
      BY <3>1, <3>2
  <2>4. to \in List!Offset
    BY <2>3, AutoscrollTyped
  <2> HIDE DEF to
  <2>5. Layout(again) /\ late \in Fractions \cup {NoPending}
    BY <1>2, <1>3, <2>4, LayoutTyped
  <2> HIDE DEF again, late
  <2> QED
    BY <1>4, <2>2, <2>5, PaintStep
<1> QED
  BY <1>4, <1>5, <1>6
-----------------------------------------------------------------------------
LEMMA ListInit == List!Init => ListInv
<1> SUFFICES ASSUME List!Init PROVE ListInv
  OBVIOUS
<1>1. PICK ids \in List!SeqOf(Item, List!Cardinality(Item)) :
             List!IsInjective(ids) /\ items = List!Fresh(ids)
  BY DEF List!Init
<1>2. PICK k \in 0..List!Cardinality(Item) : ids \in [1..k -> Item]
  BY DEF List!SeqOf
<1>3. k \in Nat
  OBVIOUS
<1>4. ids \in Seq(Item) /\ Len(ids) = k
  BY <1>2, <1>3, SeqDef
<1>5. \A i, j \in 1..k : ids[i] = ids[j] => i = j
  BY <1>1, <1>2 DEF List!IsInjective
<1>6. /\ items \in Seq(Entry) /\ Len(items) = k
      /\ \A i \in 1..k : items[i].id = ids[i]
  BY <1>1, <1>4, FreshTyped
<1>7. \A i, j \in DOMAIN items : items[i].id = items[j].id => i = j
  BY <1>3, <1>5, <1>6
<1> QED
  BY <1>6, <1>7 DEF List!Init, ListInv

\* Whatever happens to the list between frames, and a frame.
LEMMA ListStep ==
  ListInv /\ [List!Next]_listVars => ListInv' /\ (List!KeepsAnchor \/ items' = items)
<1> SUFFICES ASSUME ListInv, [List!Next]_listVars
             PROVE  ListInv' /\ (List!KeepsAnchor \/ items' = items)
  OBVIOUS
<1>0. List!Count = Len(items) /\ Len(items) \in Nat
  BY CountTyped
<1>1. ASSUME NEW from \in 0..List!Count, NEW to \in 0..List!Count, from <= to,
             NEW new \in List!News, List!Splice(from, to, new)
      PROVE  ListInv' /\ List!KeepsAnchor
  <2>1. from \in 0..Len(items) /\ to \in from..Len(items)
    BY <1>0, <1>1
  <2> QED
    BY <1>1, <2>1, SpliceStep
<1>2. ASSUME NEW new \in List!News, List!Reset(new) PROVE ListInv' /\ List!KeepsAnchor
  BY <1>2, ResetStep
<1>3. ASSUME NEW m \in Metrics, List!Remeasure(m) PROVE ListInv' /\ List!KeepsAnchor
  BY <1>3, RemeasureStep
<1>4. ASSUME NEW d \in Deltas, List!ScrollBy(d) \/ List!Scroll(d)
      PROVE  ListInv' /\ List!KeepsAnchor
  <2>1. d \in Int
    BY ListConstants
  <2> QED
    BY <1>4, <2>1, ScrollByStep, ScrollStep, ScrollsOnlyStep
<1>5. ASSUME NEW ix \in 0..(List!Count + 1), NEW off \in 0..MaxOffset, List!ScrollTo(ix, off)
      PROVE  ListInv' /\ List!KeepsAnchor
  <2>1. ix \in Nat /\ off \in Int
    OBVIOUS
  <2> QED
    BY <1>5, <2>1, ScrollToStep, ScrollsOnlyStep
<1>6. ASSUME NEW ix \in 0..List!Count, List!ScrollToRevealItem(ix)
      PROVE  ListInv' /\ List!KeepsAnchor
  <2>1. ix \in Nat
    OBVIOUS
  <2> QED
    BY <1>6, <2>1, RevealStep, ScrollsOnlyStep
<1>7. ASSUME NEW y \in 0..List!ScrollMax, List!SetOffsetFromScrollbar(y)
      PROVE  ListInv' /\ List!KeepsAnchor
  BY <1>7, ScrollbarStep, ScrollsOnlyStep
<1>8. ASSUME NEW m \in Metrics, List!Frame(m) PROVE ListInv' /\ List!KeepsAnchor
  BY <1>8, FrameStep
<1>9. CASE UNCHANGED listVars
  BY <1>9 DEF listVars, ListInv
<1>10. CASE List!Next
  <2>1. List!Call \/ \E m \in Metrics : List!Frame(m)
    BY <1>10 DEF List!Next
  <2> QED
    BY <2>1, <1>1, <1>2, <1>3, <1>4, <1>5, <1>6, <1>7, <1>8 DEF List!Call
<1> QED
  BY <1>9, <1>10

ListSafe == part = "list" => ListInv

LEMMA ListInductive == Spec => []ListSafe
<1>1. Init => ListSafe
  BY ListInit DEF Init, ListSafe
<1>2. ListSafe /\ [Next]_vars => ListSafe'
  BY ListStep, StepOfPart DEF ListSafe
<1> QED
  BY <1>1, <1>2, PTL DEF Spec

(* Whenever items come or go, before, around or behind the item the list is scrolled to: that
   item, and how far into it, stay as long as it is in the list (splice of list.rs). Of frames
   and remeasures, which leave the items as they are, nothing is said. *)
THEOREM AnchorKept == Spec => AnchorIsKept
<1>1. ListSafe /\ [Next]_vars => [part = "list" => List!KeepsAnchor]_vars
  <2> SUFFICES ASSUME ListSafe, [Next]_vars, part = "list" PROVE List!KeepsAnchor
    OBVIOUS
  <2>1. List!KeepsAnchor \/ items' = items
    BY ListStep, StepOfPart DEF ListSafe
  <2>2. items' = items => List!Ids' = List!Ids
    BY DEF List!Ids
  <2> QED
    BY <2>1, <2>2 DEF List!KeepsAnchor
<1> QED
  BY <1>1, ListInductive, PTL DEF Spec, AnchorIsKept
-----------------------------------------------------------------------------
(* What a frame of the list shows *)

\* The heights of a list of items, and what follows from them, for any items.
SumIn(its, m, n, some) ==
  LET Upto[i \in 0..n] ==
        IF i = 0 THEN 0
        ELSE IF i \in some THEN Upto[i - 1] + Heights[m][its[i].id] ELSE Upto[i - 1]
  IN  Upto[n]
TotalIn(its, m, first, last_) == SumIn(its, m, List!Max({0, last_}), first..last_)
BeforeIn(its, m, n) == SumIn(its, m, n, {i \in 1..n : its[i].measured})

ShownIn(its, m, p) == TotalIn(its, m, p.top.ix + 1, p.last) - p.top.off
PixelIn(its, m, t) == BeforeIn(its, m, List!Min({t.ix, Len(its)})) + t.off
ScrollMaxIn(its, m) == List!Max({0, BeforeIn(its, m, Len(its)) - ListHeight})

FilledIn(its, m, al, p) ==
  p # NoFrame /\ p.same =>
    \/ p.top.off >= 0 /\ ShownIn(its, m, p) >= ListHeight
    \/ p.top.ix = 0 /\ p.last = Len(its) /\ (al = "top" => p.top.off = 0)
ScrollsIn(its, m, p) ==
  Overdraw > 0 /\ p # NoFrame /\ p.same =>
    /\ p.last < Len(its) \/ ShownIn(its, m, p) > ListHeight
       => PixelIn(its, m, p.top) < ScrollMaxIn(its, m)
    /\ p.top.ix > 0 \/ p.top.off > 0 => PixelIn(its, m, p.top) > 0

LEMMA TotalIsIn ==
  \A m, first, last_ : List!Total(m, first, last_) = TotalIn(items, m, first, last_)
BY DEF List!Total, List!Sum, List!Height, TotalIn, SumIn

LEMMA FilledIsIn ==
  /\ List!FrameIsFilled <=> FilledIn(items, metrics, alignment, painted)
  /\ List!CanScrollOn <=> ScrollsIn(items, metrics, painted)
BY DEF List!FrameIsFilled, List!CanScrollOn, List!AllShown, List!ShownEnd, List!PixelTop,
       List!ScrollMax, List!Before, List!Total, List!Sum, List!Height, List!Count,
       FilledIn, ScrollsIn, ShownIn, PixelIn, ScrollMaxIn, BeforeIn, TotalIn, SumIn

LEMMA FilledIsInNext ==
  /\ List!FrameIsFilled' <=> FilledIn(items', metrics', alignment', painted')
  /\ List!CanScrollOn' <=> ScrollsIn(items', metrics', painted')
BY DEF List!FrameIsFilled, List!CanScrollOn, List!AllShown, List!ShownEnd, List!PixelTop,
       List!ScrollMax, List!Before, List!Total, List!Sum, List!Height, List!Count,
       FilledIn, ScrollsIn, ShownIn, PixelIn, ScrollMaxIn, BeforeIn, TotalIn, SumIn

\* A sum is what any function gives that adds up the same heights.
AddsUp(f, its, m, n, some) ==
  /\ f[0] = 0
  /\ \A i \in 1..n : /\ i \in some => f[i] = f[i - 1] + Heights[m][its[i].id]
                     /\ i \notin some => f[i] = f[i - 1]

LEMMA SumOf ==
  ASSUME NEW its, NEW m, NEW n \in Nat, NEW some, NEW f, AddsUp(f, its, m, n, some)
  PROVE  SumIn(its, m, n, some) = f[n]
<1>0. /\ f[0] = 0
      /\ \A i \in 1..n : /\ i \in some => f[i] = f[i - 1] + Heights[m][its[i].id]
                         /\ i \notin some => f[i] = f[i - 1]
  BY DEF AddsUp
<1> DEFINE Step(g) ==
             [i \in 0..n |-> IF i = 0 THEN 0
                            ELSE IF i \in some THEN g[i - 1] + Heights[m][its[i].id] ELSE g[i - 1]]
           u == CHOOSE g : g = Step(g)
           g0 == [i \in 0..n |-> f[i]]
<1>1. g0 = Step(g0)
  <2>1. \A i \in 0..n : g0[i] = Step(g0)[i]
    <3> SUFFICES ASSUME NEW i \in 0..n PROVE g0[i] = Step(g0)[i]
      OBVIOUS
    <3>1. CASE i = 0
      BY <1>0, <3>1
    <3>2. CASE i # 0
      <4>1. i \in 1..n /\ i - 1 \in 0..n
        BY <3>2
      <4>2. g0[i] = f[i] /\ g0[i - 1] = f[i - 1]
        BY <4>1
      <4> QED
        BY <1>0, <4>1, <4>2, <3>2
    <3> QED
      BY <3>1, <3>2
  <2> QED
    BY <2>1
<1>2. u = Step(u)
  BY <1>1
<1>3. SumIn(its, m, n, some) = u[n]
  BY DEF SumIn
<1>4. \A i \in 0..n : u[i] = IF i = 0 THEN 0
                              ELSE IF i \in some THEN u[i - 1] + Heights[m][its[i].id] ELSE u[i - 1]
  <2> HIDE DEF u
  <2> QED
    BY <1>2
<1> HIDE DEF u
<1>5. \A i \in 0..n : u[i] = f[i]
  <2> DEFINE Bad == {i \in 0..n : u[i] # f[i]}
  <2> SUFFICES ASSUME Bad # {} PROVE FALSE
    OBVIOUS
  <2>0. Bad \in SUBSET Nat
    OBVIOUS
  <2>1. PICK k \in Bad : \A j \in Bad : k <= j
    <3> HIDE DEF Bad
    <3> QED
      BY <2>0, LeastNat
  <2>2. k \in 0..n /\ u[k] # f[k]
    OBVIOUS
  <2>3. k # 0
    BY <1>0, <1>4, <2>2
  <2>4. k \in 1..n /\ k - 1 \in 0..n /\ ~(k <= k - 1)
    BY <2>2, <2>3
  <2>5. k - 1 \notin Bad
    <3> HIDE DEF Bad
    <3> QED
      BY <2>1, <2>4
  <2>6. u[k - 1] = f[k - 1]
    BY <2>4, <2>5
  <2>7. u[k] = IF k \in some THEN f[k - 1] + Heights[m][its[k].id] ELSE f[k - 1]
    BY <1>4, <2>2, <2>3, <2>6
  <2> QED
    BY <1>0, <2>2, <2>4, <2>7
<1> QED
  BY <1>3, <1>5

\* What does not fall from one place to the next does not fall between two.
LEMMA Climbs ==
  ASSUME NEW a \in Nat, NEW b \in Nat, a <= b, NEW f,
         \A i \in a..b : f[i] \in Int, \A i \in (a + 1)..b : f[i - 1] <= f[i]
  PROVE  f[a] <= f[b]
<1> DEFINE Bad == {i \in a..b : ~(f[a] <= f[i])}
<1> SUFFICES ASSUME Bad # {} PROVE FALSE
  OBVIOUS
<1>0. Bad \in SUBSET Nat
  OBVIOUS
<1>1. PICK k \in Bad : \A j \in Bad : k <= j
  <2> HIDE DEF Bad
  <2> QED
    BY <1>0, LeastNat
<1>2. k \in a..b /\ ~(f[a] <= f[k]) /\ f[a] \in Int /\ f[k] \in Int
  OBVIOUS
<1>3. k # a
  BY <1>2
<1>4. k \in (a + 1)..b /\ k - 1 \in a..b /\ ~(k <= k - 1)
  BY <1>2, <1>3
<1>5. k - 1 \notin Bad
  <2> HIDE DEF Bad
  <2> QED
    BY <1>1, <1>4
<1>6. f[a] <= f[k - 1] /\ f[k - 1] <= f[k] /\ f[k - 1] \in Int
  BY <1>4, <1>5
<1> QED
  BY <1>2, <1>6

-----------------------------------------------------------------------------
\* Where each of the items ends, when all are measured and as they are: tall and known.
Ends(its, m, tall, known) ==
  /\ tall \in [0..Len(its) -> Int] /\ known \in [0..Len(its) -> Int]
  /\ tall[0] = 0 /\ known[0] = 0
  /\ \A i \in 1..Len(its) :
       /\ tall[i] = tall[i - 1] + Heights[m][its[i].id] /\ tall[i - 1] < tall[i]
       /\ its[i].measured => known[i] = known[i - 1] + Heights[m][its[i].id]
       /\ ~its[i].measured => known[i] = known[i - 1]

LEMMA EndsExist ==
  ASSUME NEW its \in Seq(Entry), NEW m \in Metrics
  PROVE  \E tall, known : Ends(its, m, tall, known)
<1> DEFINE c == Len(its)
           h == [i \in 1..c |-> Heights[m][its[i].id]]
           hk == [i \in 1..c |-> IF its[i].measured THEN h[i] ELSE 0]
<1>1. c \in Nat /\ \A i \in 1..c : its[i] \in Entry
  OBVIOUS
<1>2. \A i \in 1..c : h[i] \in Nat \ {0} /\ h[i] = Heights[m][its[i].id]
  BY <1>1, ListConstants DEF Entry
<1> HIDE DEF h
<1>3. \A i \in 1..c : hk[i] \in Int
  BY <1>2
<1>4. \A i \in 1..c : hk[i] = IF its[i].measured THEN h[i] ELSE 0
  OBVIOUS
<1> HIDE DEF hk, c
<1>5. PICK tall \in [0..c -> Int] : tall[0] = 0 /\ \A i \in 1..c : tall[i] = tall[i - 1] + h[i]
  <2>1. \A i \in 1..c : h[i] \in Int
    BY <1>2
  <2> QED
    BY <1>1, <2>1, SumsExist
<1>6. PICK known \in [0..c -> Int] : known[0] = 0 /\ \A i \in 1..c : known[i] = known[i - 1] + hk[i]
  BY <1>1, <1>3, SumsExist
<1>7. ASSUME NEW i \in 1..c
      PROVE  /\ tall[i] = tall[i - 1] + Heights[m][its[i].id] /\ tall[i - 1] < tall[i]
             /\ its[i].measured => known[i] = known[i - 1] + Heights[m][its[i].id]
             /\ ~its[i].measured => known[i] = known[i - 1]
  <2>1. i - 1 \in 0..c /\ tall[i - 1] \in Int /\ known[i - 1] \in Int
    BY <1>1
  <2> QED
    BY <1>2, <1>4, <1>5, <1>6, <2>1
<1>8. Ends(its, m, tall, known)
  BY <1>5, <1>6, <1>7 DEF Ends, c
<1> QED
  BY <1>8

LEMMA TotalOf ==
  ASSUME NEW its \in Seq(Entry), NEW m \in Metrics, NEW tall, NEW known, Ends(its, m, tall, known),
         NEW a \in 1..(Len(its) + 1), NEW b \in 0..Len(its), a <= b + 1
  PROVE  TotalIn(its, m, a, b) = tall[b] - tall[a - 1]
<1> DEFINE c == Len(its)
           f == [i \in 0..c |-> IF i < a THEN 0 ELSE tall[i] - tall[a - 1]]
<1>1. c \in Nat /\ b \in Nat /\ a \in Nat /\ a - 1 \in 0..c /\ b \in 0..c /\ 0 \in 0..c
  OBVIOUS
<1>2. /\ tall \in [0..c -> Int]
      /\ \A i \in 1..c : tall[i] = tall[i - 1] + Heights[m][its[i].id]
  BY DEF Ends
<1>8. \A i \in 1..c : Heights[m][its[i].id] \in Int
  <2>1. \A i \in 1..c : its[i] \in Entry
    OBVIOUS
  <2>2. \A i \in 1..c : its[i].id \in Item
    BY <2>1 DEF Entry
  <2>3. \A x \in Item : Heights[m][x] \in Int
    BY ListConstants
  <2> QED
    BY <2>2, <2>3
<1> HIDE DEF c
<1>3. f[0] = 0
  BY <1>1
<1>4. ASSUME NEW i \in 1..b
      PROVE  /\ i \in a..b => f[i] = f[i - 1] + Heights[m][its[i].id]
             /\ i \notin a..b => f[i] = f[i - 1]
  <2>1. i \in 0..c /\ i - 1 \in 0..c /\ i \in 1..c /\ i \in Nat
    BY <1>1
  <2>2. tall[i] \in Int /\ tall[i - 1] \in Int /\ tall[a - 1] \in Int
    BY <1>1, <1>2, <2>1
  <2>3. CASE i < a
    BY <1>1, <2>1, <2>3
  <2>4. CASE i = a
    <3>1. f[i] = tall[i] - tall[i - 1] /\ f[i - 1] = 0
      BY <1>1, <2>1, <2>4
    <3>2. Heights[m][its[i].id] = tall[i] - tall[i - 1]
      <4>1. tall[i] = tall[i - 1] + Heights[m][its[i].id] /\ Heights[m][its[i].id] \in Int
        BY <1>2, <1>8, <2>1
      <4> QED
        BY <2>2, <4>1, SMTT(40)
    <3> QED
      BY <1>1, <2>1, <2>2, <2>4, <3>1, <3>2
  <2>5. CASE i > a
    <3>1. f[i] = tall[i] - tall[a - 1] /\ f[i - 1] = tall[i - 1] - tall[a - 1] /\ i \in a..b
      BY <1>1, <2>1, <2>5
    <3>2. tall[i] = tall[i - 1] + Heights[m][its[i].id] /\ Heights[m][its[i].id] \in Int
      BY <1>2, <1>8, <2>1
    <3> QED
      BY <2>2, <3>1, <3>2, SMTT(40)
  <2> QED
    BY <1>1, <2>1, <2>3, <2>4, <2>5
<1>5. f[b] = tall[b] - tall[a - 1]
  <2>1. CASE b < a
    <3>1. b = a - 1 /\ f[b] = 0
      BY <1>1, <2>1
    <3> QED
      BY <1>1, <1>2, <3>1
  <2>2. CASE ~(b < a)
    BY <1>1, <2>2
  <2> QED
    BY <2>1, <2>2
<1> HIDE DEF f
<1>6. SumIn(its, m, b, a..b) = f[b]
  <2>1. \A i \in 1..b : /\ i \in a..b => f[i] = f[i - 1] + Heights[m][its[i].id]
                        /\ i \notin a..b => f[i] = f[i - 1]
    BY <1>4
  <2>2. b \in Nat
    BY <1>1
  <2>3. AddsUp(f, its, m, b, a..b)
    BY <1>3, <2>1 DEF AddsUp
  <2> QED
    BY <2>2, <2>3, SumOf
<1>7. List!Max({0, b}) = b
  <2>1. 0 \in Int /\ b \in Int
    BY <1>1
  <2>2. List!Max({0, b}) \in {0, b} /\ b <= List!Max({0, b}) /\ 0 <= List!Max({0, b})
    BY <2>1, LargerOf, Zenon
  <2> QED
    BY <1>1, <2>2
<1> QED
  BY <1>5, <1>6, <1>7 DEF TotalIn

LEMMA BeforeOf ==
  ASSUME NEW its \in Seq(Entry), NEW m, NEW tall, NEW known, Ends(its, m, tall, known),
         NEW n \in 0..Len(its)
  PROVE  BeforeIn(its, m, n) = known[n]
<1> DEFINE some == {i \in 1..n : its[i].measured}
<1>1. known[0] = 0
  BY DEF Ends
<1>2. \A i \in 1..n : /\ i \in some => known[i] = known[i - 1] + Heights[m][its[i].id]
                      /\ i \notin some => known[i] = known[i - 1]
  BY DEF Ends
<1>3. SumIn(its, m, n, some) = known[n]
  <2>1. n \in Nat
    OBVIOUS
  <2> HIDE DEF some
  <2>2. AddsUp(known, its, m, n, some)
    BY <1>1, <1>2 DEF AddsUp
  <2> QED
    BY <2>1, <2>2, SumOf
<1> QED
  BY <1>3 DEF BeforeIn

\* Both grow from item to item, and alike where everything is measured.
LEMMA EndsGrow ==
  ASSUME NEW its \in Seq(Entry), NEW m \in Metrics, NEW tall, NEW known, Ends(its, m, tall, known),
         NEW a \in 0..Len(its), NEW b \in 0..Len(its), a <= b
  PROVE  /\ tall[a] \in Int /\ tall[b] \in Int /\ known[a] \in Int /\ known[b] \in Int
         /\ tall[a] <= tall[b] /\ known[a] <= known[b]
         /\ a < b => tall[a] < tall[b]
         /\ (\A i \in (a + 1)..b : its[i].measured) => tall[b] - tall[a] <= known[b] - known[a]
         /\ known[a] >= 0
         /\ b > 0 /\ its[b].measured => known[b] > 0
<1> DEFINE c == Len(its)
<1>1. c \in Nat /\ a \in Nat /\ b \in Nat /\ a \in 0..c /\ b \in 0..c
  OBVIOUS
<1>2. /\ tall \in [0..c -> Int] /\ known \in [0..c -> Int] /\ tall[0] = 0 /\ known[0] = 0
      /\ \A i \in 1..c :
           /\ tall[i] = tall[i - 1] + Heights[m][its[i].id] /\ tall[i - 1] < tall[i]
           /\ its[i].measured => known[i] = known[i - 1] + Heights[m][its[i].id]
           /\ ~its[i].measured => known[i] = known[i - 1]
  BY DEF Ends
<1>3. \A i \in 1..c : its[i] \in Entry
  OBVIOUS
<1>4. \A i \in 1..c : Heights[m][its[i].id] \in Nat \ {0} /\ its[i].measured \in BOOLEAN
  BY <1>3, ListConstants DEF Entry
<1> HIDE DEF c
<1>5. \A i \in 1..c : i \in 0..c /\ i - 1 \in 0..c
  BY <1>1
<1>6. \A i \in 1..c : known[i - 1] <= known[i]
  <2> SUFFICES ASSUME NEW i \in 1..c PROVE known[i - 1] <= known[i]
    OBVIOUS
  <2>1. known[i] \in Int /\ known[i - 1] \in Int
    BY <1>2, <1>5
  <2> QED
    BY <1>2, <1>4, <2>1, SMTT(40)
<1>7. \A p \in 0..c, q \in 0..c : p <= q => tall[p] <= tall[q] /\ known[p] <= known[q]
  <2> SUFFICES ASSUME NEW p \in 0..c, NEW q \in 0..c, p <= q
               PROVE  tall[p] <= tall[q] /\ known[p] <= known[q]
    OBVIOUS
  <2>1. /\ p \in Nat /\ q \in Nat /\ \A i \in p..q : i \in 0..c
        /\ \A i \in (p + 1)..q : i \in 1..c /\ i - 1 \in 0..c
    BY <1>1
  <2>2. \A i \in p..q : tall[i] \in Int /\ known[i] \in Int
    BY <1>2, <2>1
  <2>3. \A i \in (p + 1)..q : tall[i - 1] <= tall[i] /\ known[i - 1] <= known[i]
    <3> SUFFICES ASSUME NEW i \in (p + 1)..q
                 PROVE  tall[i - 1] <= tall[i] /\ known[i - 1] <= known[i]
      OBVIOUS
    <3>1. i \in 1..c /\ i \in 0..c /\ i - 1 \in 0..c
      BY <1>5, <2>1
    <3>2. tall[i - 1] \in Int /\ tall[i] \in Int
      BY <1>2, <3>1
    <3> QED
      BY <1>2, <1>6, <3>1, <3>2
  <2>4. tall[p] <= tall[q]
    BY <2>1, <2>2, <2>3, Climbs
  <2>5. known[p] <= known[q]
    BY <2>1, <2>2, <2>3, Climbs
  <2> QED
    BY <2>4, <2>5
<1>8. /\ tall[a] \in Int /\ tall[b] \in Int /\ known[a] \in Int /\ known[b] \in Int
      /\ tall[a] <= tall[b] /\ known[a] <= known[b]
  BY <1>1, <1>2, <1>7
<1>9. a < b => tall[a] < tall[b]
  <2> SUFFICES ASSUME a < b PROVE tall[a] < tall[b]
    OBVIOUS
  <2>1. b \in 1..c /\ b - 1 \in 0..c /\ a <= b - 1
    BY <1>1
  <2>2. tall[a] <= tall[b - 1] /\ tall[b - 1] < tall[b] /\ tall[b - 1] \in Int
    BY <1>1, <1>2, <1>7, <2>1
  <2> QED
    BY <1>8, <2>2
<1>10. ASSUME \A i \in (a + 1)..b : its[i].measured
       PROVE  tall[b] - tall[a] <= known[b] - known[a]
  <2> DEFINE f == [i \in 0..c |-> known[i] - tall[i]]
  <2>1. \A i \in 0..c : f[i] = known[i] - tall[i] /\ f[i] \in Int /\ known[i] \in Int /\ tall[i] \in Int
    BY <1>2
  <2> HIDE DEF f
  <2>2. \A i \in (a + 1)..b : f[i - 1] <= f[i]
    <3> SUFFICES ASSUME NEW i \in (a + 1)..b PROVE f[i - 1] <= f[i]
      OBVIOUS
    <3>1. i \in 1..c /\ i \in 0..c /\ i - 1 \in 0..c
      BY <1>1
    <3>2. /\ tall[i] = tall[i - 1] + Heights[m][its[i].id]
          /\ known[i] = known[i - 1] + Heights[m][its[i].id]
          /\ Heights[m][its[i].id] \in Nat
      BY <1>2, <1>4, <1>10, <3>1
    <3> QED
      BY <2>1, <3>1, <3>2, SMTT(40)
  <2>3. \A i \in a..b : f[i] \in Int
    BY <1>1, <2>1
  <2>4. f[a] <= f[b]
    BY <1>1, <2>2, <2>3, Climbs
  <2> QED
    BY <1>1, <2>1, <2>4, SMTT(40)
<1>11. known[a] >= 0
  <2>1. known[0] <= known[a]
    BY <1>1, <1>7
  <2> QED
    BY <1>2, <1>8, <2>1
<1>12. b > 0 /\ its[b].measured => known[b] > 0
  <2> SUFFICES ASSUME b > 0, its[b].measured PROVE known[b] > 0
    OBVIOUS
  <2>1. b \in 1..c /\ b - 1 \in 0..c
    BY <1>1
  <2>2. known[0] <= known[b - 1] /\ known[b - 1] \in Int
    BY <1>1, <1>2, <1>7, <2>1
  <2>3. known[b] = known[b - 1] + Heights[m][its[b].id]
    BY <1>2, <2>1
  <2> QED
    BY <1>2, <1>4, <2>1, <2>2, <2>3
<1> QED
  BY <1>8, <1>9, <1>10, <1>11, <1>12
-----------------------------------------------------------------------------
Within(t, n) == t # NoTop => t.ix <= n /\ t.off >= 0

\* A layout l shows what the list has room for; and what it measures around that makes the list
\* higher than what it shows.
WellLaid(m, l) ==
  /\ l.top.ix \in 0..Len(items) /\ l.top.off \in Int
  /\ l.last \in l.top.ix..Len(items) /\ l.down \in l.top.ix..Len(items)
  /\ l.lead \in 1..(l.top.ix + 1)
  /\ Within(l.logical, Len(items))
  /\ \/ /\ l.top.off >= 0
        /\ List!Total(m, l.top.ix + 1, l.last) - l.top.off >= ListHeight
     \/ l.top.ix = 0 /\ l.last = Len(items) /\ (alignment = "top" => l.top.off = 0)
  /\ Overdraw > 0 =>
       /\ \/ l.last < Len(items)
          \/ List!Total(m, l.top.ix + 1, l.last) - l.top.off > ListHeight
          => List!Total(m, l.top.ix + 1, l.down) - l.top.off > ListHeight
       /\ l.top.ix > 0 /\ l.top.off <= 0 => l.top.off = 0 /\ l.lead <= l.top.ix

\* Whatever measures the items of the list, Total is a difference of two ends.
Measures(m, tall) ==
  /\ tall \in [0..Len(items) -> Int]
  /\ \A a \in 0..Len(items), b \in 0..Len(items) :
       a <= b => /\ List!Total(m, a + 1, b) = tall[b] - tall[a]
                 /\ tall[a] <= tall[b] /\ (a < b => tall[a] < tall[b])

LEMMA EndsMeasure ==
  ASSUME ListInv, NEW m \in Metrics, NEW tall, NEW known, Ends(items, m, tall, known)
  PROVE  Measures(m, tall)
<1>1. items \in Seq(Entry) /\ Len(items) \in Nat
  BY DEF ListInv
<1>2. tall \in [0..Len(items) -> Int]
  BY DEF Ends
<1>3. ASSUME NEW a \in 0..Len(items), NEW b \in 0..Len(items), a <= b
      PROVE  /\ List!Total(m, a + 1, b) = tall[b] - tall[a]
             /\ tall[a] <= tall[b] /\ (a < b => tall[a] < tall[b])
  <2>1. a + 1 \in 1..(Len(items) + 1) /\ a + 1 <= b + 1 /\ (a + 1) - 1 = a
    BY <1>1, <1>3
  <2>2. TotalIn(items, m, a + 1, b) = tall[b] - tall[(a + 1) - 1]
    BY <1>1, <2>1, TotalOf
  <2>3. List!Total(m, a + 1, b) = TotalIn(items, m, a + 1, b)
    BY TotalIsIn
  <2>4. tall[a] <= tall[b] /\ (a < b => tall[a] < tall[b])
    BY <1>1, <1>3, EndsGrow
  <2> QED
    BY <2>1, <2>2, <2>3, <2>4
<1> QED
  BY <1>2, <1>3 DEF Measures

LEMMA MeasuresExist ==
  ASSUME ListInv, NEW m \in Metrics
  PROVE  \E tall : Measures(m, tall)
<1>1. items \in Seq(Entry)
  BY DEF ListInv
<1> QED
  BY <1>1, EndsExist, EndsMeasure

LEMMA GreatestOf ==
  ASSUME NEW a \in Int, NEW b \in Int, NEW c \in Int, NEW S \in SUBSET (a..b)
  PROVE  List!Max({c} \cup S) \in {c} \cup S /\ \A x \in {c} \cup S : x <= List!Max({c} \cup S)
<1>1. IsFiniteSet({c} \cup S)
  BY PlacesFinite
<1>2. {c} \cup S \in SUBSET Int /\ {c} \cup S # {}
  OBVIOUS
<1>3. List!Max({c} \cup S) = Max({c} \cup S)
  BY DEF List!Max, Max
<1> DEFINE T == {c} \cup S
<1> HIDE DEF T
<1>4. Max(T) \in T /\ \A x \in T : x <= Max(T)
  BY <1>1, <1>2, MaxOf DEF T
<1> QED
  BY <1>3, <1>4 DEF T

\* The last item laid out is the last of the list, or the list and the overdraw are full.
LEMMA LastDownWell ==
  ASSUME ListInv, NEW m \in Metrics, NEW t \in List!Offset, t.ix <= Len(items)
  PROVE  /\ List!LastDown(m, t) \in t.ix..Len(items)
         /\ \/ List!LastDown(m, t) = Len(items)
            \/ List!Below(m, t, List!LastDown(m, t)) >= ListHeight + Overdraw
<1> DEFINE S == {n \in (t.ix + 1)..List!Count : List!Below(m, t, n) >= ListHeight + Overdraw}
           down == List!LastDown(m, t)
<1>1. t.ix + 1 \in Int /\ t.ix \in Nat /\ List!Count \in Int /\ List!Count = Len(items)
  BY CountTyped DEF List!Offset
<1>2. S \in SUBSET ((t.ix + 1)..List!Count)
  OBVIOUS
<1>3. down = List!Min({List!Count} \cup S)
  BY DEF List!LastDown
<1> HIDE DEF S, down
<1>4. down \in {List!Count} \cup S
  BY <1>1, <1>2, <1>3, LargestOf, Zenon
<1>5. down = List!Count \/ down \in S
  BY <1>4
<1>6. CASE down = List!Count
  BY <1>1, <1>6 DEF down
<1>7. CASE down \in S
  <2>1. down \in (t.ix + 1)..List!Count /\ List!Below(m, t, down) >= ListHeight + Overdraw
    BY <1>7 DEF S
  <2>2. down \in t.ix..Len(items)
    BY <1>1, <2>1
  <2> QED
    BY <2>1, <2>2 DEF down
<1> QED
  BY <1>5, <1>6, <1>7

\* The last item shown is the last laid out, or what is shown is as high as the list.
LEMMA LastShownWell ==
  ASSUME ListInv, NEW m \in Metrics, NEW t \in List!Offset, t.ix <= Len(items),
         NEW end \in List!Offset, end.ix <= t.ix, NEW down \in t.ix..Len(items)
  PROVE  /\ List!LastShown(m, t, down, end) \in end.ix..down
         /\ \/ List!LastShown(m, t, down, end) = down
            \/ /\ List!LastShown(m, t, down, end) > t.ix
               /\ ~(List!Below(m, t, List!LastShown(m, t, down, end)) < ListHeight)
<1> DEFINE S == {n \in (end.ix + 1)..down : n <= t.ix + 1 \/ List!Below(m, t, n - 1) < ListHeight}
           s == List!LastShown(m, t, down, end)
<1>1. end.ix \in Int /\ end.ix + 1 \in Int /\ t.ix \in Int /\ down \in Int /\ end.ix <= down
  BY DEF List!Offset
<1>2. S \in SUBSET ((end.ix + 1)..down)
  OBVIOUS
<1>3. s = List!Max({end.ix} \cup S)
  BY DEF List!LastShown
<1>4. \A n \in (end.ix + 1)..down : n \notin S =>
        ~(n <= t.ix + 1) /\ ~(List!Below(m, t, n - 1) < ListHeight)
  OBVIOUS
<1> HIDE DEF S, s
<1>5. s \in {end.ix} \cup S /\ \A x \in {end.ix} \cup S : x <= s
  BY <1>1, <1>2, <1>3, GreatestOf
<1>6. s \in end.ix..down
  <2>1. s = end.ix \/ s \in (end.ix + 1)..down
    BY <1>2, <1>5
  <2> QED
    BY <1>1, <2>1
<1>7. ASSUME s # down
      PROVE  s > t.ix /\ ~(List!Below(m, t, s) < ListHeight)
  <2>1. s + 1 \in (end.ix + 1)..down /\ (s + 1) - 1 = s /\ ~(s + 1 <= s)
    BY <1>1, <1>6, <1>7
  <2>2. s + 1 \notin S
    BY <1>5, <2>1
  <2>3. ~(s + 1 <= t.ix + 1) /\ ~(List!Below(m, t, s) < ListHeight)
    BY <1>4, <2>1, <2>2
  <2> QED
    BY <1>1, <1>6, <2>3
<1> QED
  BY <1>6, <1>7 DEF s

\* Above what is shown the items of the overdraw are measured.
LEMMA LeadWell ==
  ASSUME ListInv, NEW m \in Metrics, NEW t \in List!Offset, t.ix <= Len(items)
  PROVE  /\ List!LeadOf(m, t) \in 1..(t.ix + 1)
         /\ Overdraw > 0 /\ t.ix > 0 /\ t.off <= 0 => List!LeadOf(m, t) <= t.ix
<1> DEFINE S == {n \in 1..(t.ix + 1) : t.off + List!Total(m, n, t.ix) >= Overdraw}
           lead == List!LeadOf(m, t)
<1>1. t.ix \in Nat /\ t.off \in Int /\ 1 \in Int /\ t.ix + 1 \in Int /\ Overdraw \in Nat
      /\ t.ix \in 0..Len(items)
  BY ListConstants DEF List!Offset
<1>2. S \in SUBSET (1..(t.ix + 1))
  OBVIOUS
<1>3. lead = IF t.off >= Overdraw THEN t.ix + 1 ELSE List!Max({1} \cup S)
  BY DEF List!LeadOf
<1>4. t.off <= 0 /\ Overdraw > 0 => t.ix + 1 \notin S
  <2>1. PICK tall : Measures(m, tall)
    BY MeasuresExist
  <2>2. List!Total(m, t.ix + 1, t.ix) = tall[t.ix] - tall[t.ix] /\ tall[t.ix] \in Int
    BY <1>1, <2>1 DEF Measures
  <2> QED
    BY <1>1, <2>2
<1> HIDE DEF S, lead
<1>5. List!Max({1} \cup S) \in {1} \cup S
  BY <1>1, <1>2, GreatestOf
<1>6. CASE t.off >= Overdraw
  BY <1>1, <1>3, <1>6 DEF lead
<1>7. CASE ~(t.off >= Overdraw)
  <2>1. lead = 1 \/ (lead \in S /\ lead \in 1..(t.ix + 1))
    BY <1>2, <1>3, <1>5, <1>7
  <2>2. lead \in 1..(t.ix + 1)
    BY <1>1, <2>1
  <2>3. ASSUME Overdraw > 0, t.ix > 0, t.off <= 0 PROVE lead <= t.ix
    <3>1. lead = 1 \/ lead # t.ix + 1
      BY <1>4, <2>1, <2>3
    <3> QED
      BY <1>1, <2>2, <2>3, <3>1
  <2> QED
    BY <2>2, <2>3 DEF lead
<1> QED
  BY <1>6, <1>7

\* The scroll top that fills the list from below: the list is full, or it is at the first item.
LEMMA FilledWell ==
  ASSUME ListInv, NEW m \in Metrics, NEW t \in List!Offset, t.ix <= Len(items)
  PROVE  \E first \in 1..(t.ix + 1), left \in Int :
           /\ left = List!Total(m, first, Len(items)) - ListHeight
           /\ left < 0 => first = 1
           /\ List!Filled(m, t, Len(items))
                = [ix |-> first - 1,
                   off |-> IF alignment # "top" \/ left >= 0 THEN left ELSE 0]
<1> DEFINE c == Len(items)
           S == {n \in 1..(t.ix + 1) : List!Total(m, n, c) >= ListHeight}
           first == List!Max({1} \cup S)
           left == List!Total(m, first, c) - ListHeight
<1>1. t.ix \in Nat /\ 1 \in Int /\ t.ix + 1 \in Int /\ S \in SUBSET (1..(t.ix + 1))
      /\ ListHeight \in Nat
  BY ListConstants DEF List!Offset
<1>2. \A n : n \in S => List!Total(m, n, c) >= ListHeight
  OBVIOUS
<1> HIDE DEF S
<1>3. first \in {1} \cup S
  BY <1>1, GreatestOf
<1> HIDE DEF first
<1>4. first \in 1..(t.ix + 1)
  <2>1. first = 1 \/ first \in 1..(t.ix + 1)
    BY <1>1, <1>3
  <2> QED
    BY <1>1, <2>1
<1>5. List!Total(m, first, c) \in Nat
  <2>1. c \in Int /\ c <= Len(items)
    BY CountTyped
  <2> HIDE DEF c
  <2> QED
    BY <2>1, TotalTyped
<1>6. left \in Int /\ (left < 0 => first = 1)
  BY <1>1, <1>2, <1>3, <1>5
<1>7. List!Filled(m, t, c)
        = [ix |-> first - 1, off |-> IF alignment = "top" THEN List!Max({0, left}) ELSE left]
  BY DEF List!Filled, first, S
<1>8. List!Max({0, left}) = IF left >= 0 THEN left ELSE 0
  <2> HIDE DEF left
  <2>1. 0 \in Int /\ left \in Int
    BY <1>6
  <2>2. List!Max({0, left}) \in {0, left} /\ 0 <= List!Max({0, left}) /\ left <= List!Max({0, left})
    BY <2>1, LargerOf, Zenon
  <2> QED
    BY <2>1, <2>2
<1>9. List!Filled(m, t, c)
        = [ix |-> first - 1, off |-> IF alignment # "top" \/ left >= 0 THEN left ELSE 0]
  BY <1>7, <1>8
<1> QED
  BY <1>4, <1>6, <1>9

LEMMA SettleWell ==
  ASSUME ListInv, NEW m \in Metrics, NEW t \in List!Offset, t.ix <= Len(items), t.off >= 0,
         NEW logical, Within(logical, Len(items))
  PROVE  WellLaid(m, List!Settle(m, t, List!LastDown(m, t), logical))
<1> DEFINE c == Len(items)
           down == List!LastDown(m, t)
           l == List!Settle(m, t, down, logical)
<1>1. /\ c \in Nat /\ t.ix \in 0..c /\ t.ix \in Nat /\ t.off \in Int
      /\ ListHeight \in Nat \ {0} /\ Overdraw \in Nat
  BY CountTyped, ListConstants DEF List!Offset
<1>2. PICK tall : Measures(m, tall)
  BY MeasuresExist
<1>3. /\ \A n \in 0..c : tall[n] \in Int
      /\ \A a \in 0..c, b \in 0..c :
           a <= b => /\ List!Total(m, a + 1, b) = tall[b] - tall[a]
                     /\ tall[a] <= tall[b] /\ (a < b => tall[a] < tall[b])
  BY <1>2 DEF Measures
<1>4. /\ down \in t.ix..c
      /\ down = c \/ List!Below(m, t, down) >= ListHeight + Overdraw
  BY LastDownWell
<1> HIDE DEF down, c
<1>5. \A n \in t.ix..c : n \in 0..c /\ List!Below(m, t, n) = tall[n] - tall[t.ix] - t.off
                         /\ List!Below(m, t, n) \in Int
  <2> SUFFICES ASSUME NEW n \in t.ix..c
               PROVE  n \in 0..c /\ List!Below(m, t, n) = tall[n] - tall[t.ix] - t.off
                      /\ List!Below(m, t, n) \in Int
    OBVIOUS
  <2>1. n \in 0..c /\ t.ix <= n
    BY <1>1
  <2>2. List!Total(m, t.ix + 1, n) = tall[n] - tall[t.ix] /\ tall[n] \in Int /\ tall[t.ix] \in Int
    BY <1>1, <1>3, <2>1
  <2> QED
    BY <1>1, <2>1, <2>2 DEF List!Below
<1>6. CASE ~(List!Below(m, t, down) < ListHeight)
  <2> DEFINE s == List!LastShown(m, t, down, t)
             lead == List!LeadOf(m, t)
  <2>1. l = [top |-> t, lead |-> lead, down |-> down, last |-> s, logical |-> logical]
    BY <1>6 DEF List!Settle, List!Arrange
  <2>2. s \in t.ix..down /\ (s = down \/ (s > t.ix /\ ~(List!Below(m, t, s) < ListHeight)))
    BY <1>1, <1>4, LastShownWell DEF c
  <2>3. lead \in 1..(t.ix + 1) /\ (Overdraw > 0 /\ t.ix > 0 /\ t.off <= 0 => lead <= t.ix)
    BY LeadWell
  <2> HIDE DEF s, lead, l
  <2>4. s \in t.ix..c /\ s \in 0..c /\ down \in 0..c /\ s <= down
    BY <1>1, <1>4, <2>2
  <2>5. ~(List!Below(m, t, s) < ListHeight)
    BY <1>6, <2>2
  <2>6. /\ List!Below(m, t, s) = List!Total(m, t.ix + 1, s) - t.off
        /\ List!Below(m, t, down) = List!Total(m, t.ix + 1, down) - t.off
    BY DEF List!Below
  <2>7. List!Below(m, t, s) >= ListHeight /\ List!Below(m, t, s) \in Int
        /\ List!Below(m, t, down) \in Int
    BY <1>1, <1>4, <1>5, <2>4, <2>5
  <2>8. s < down => List!Below(m, t, s) < List!Below(m, t, down)
    <3>1. tall[s] \in Int /\ tall[down] \in Int /\ tall[t.ix] \in Int
          /\ (s < down => tall[s] < tall[down])
      BY <1>1, <1>3, <2>4
    <3>2. List!Below(m, t, s) = tall[s] - tall[t.ix] - t.off
          /\ List!Below(m, t, down) = tall[down] - tall[t.ix] - t.off
      BY <1>4, <1>5, <2>4
    <3> QED
      BY <1>1, <3>1, <3>2
  <2>9. ASSUME Overdraw > 0, s < c \/ List!Below(m, t, s) > ListHeight
        PROVE  List!Below(m, t, down) > ListHeight
    <3>1. CASE down = c
      <4>1. s < down \/ s = down
        BY <1>1, <2>4
      <4> QED
        BY <1>1, <2>7, <2>8, <2>9, <3>1, <4>1
    <3>2. CASE List!Below(m, t, down) >= ListHeight + Overdraw
      BY <1>1, <2>7, <2>9, <3>2
    <3> QED
      BY <1>4, <3>1, <3>2
  <2>10. t.off <= 0 => t.off = 0
    BY <1>1
  <2>11. /\ l.top = t /\ l.lead = lead /\ l.down = down /\ l.last = s /\ l.logical = logical
    BY <2>1
  <2>12. WellLaid(m, l)
    BY <1>1, <1>4, <2>3, <2>4, <2>6, <2>7, <2>9, <2>10, <2>11 DEF WellLaid, c
  <2> QED
    BY <2>12 DEF l, down
<1>7. CASE List!Below(m, t, down) < ListHeight
  <2>1. down = c
    <3>1. List!Below(m, t, down) \in Int
      BY <1>4, <1>5
    <3> QED
      BY <1>1, <1>4, <1>7, <3>1
  <2>2. PICK first \in 1..(t.ix + 1), left \in Int :
           /\ left = List!Total(m, first, c) - ListHeight
           /\ left < 0 => first = 1
           /\ List!Filled(m, t, c)
                = [ix |-> first - 1, off |-> IF alignment # "top" \/ left >= 0 THEN left ELSE 0]
    BY FilledWell DEF c
  <2> DEFINE end == List!Filled(m, t, c)
             s == List!LastShown(m, t, c, end)
             lead == List!LeadOf(m, end)
             log == IF alignment = "top" THEN end ELSE NoTop
  <2>3. /\ end.ix = first - 1 /\ end.off = (IF alignment # "top" \/ left >= 0 THEN left ELSE 0)
        /\ end.ix \in Nat /\ end.off \in Int /\ end.ix <= t.ix /\ end.ix \in 0..c
        /\ end.ix + 1 = first
    <3>1. first - 1 \in Nat /\ first - 1 <= t.ix /\ first - 1 \in 0..c /\ (first - 1) + 1 = first
      BY <1>1
    <3>2. end.ix = first - 1 /\ end.off = (IF alignment # "top" \/ left >= 0 THEN left ELSE 0)
      BY <2>2
    <3> QED
      BY <3>1, <3>2
  <2>4. end \in List!Offset
    BY <2>2, <2>3 DEF List!Offset
  <2>5. l = [top |-> end, lead |-> lead, down |-> c, last |-> s, logical |-> log]
    BY <1>7, <2>1 DEF List!Settle, List!Arrange
  <2> HIDE DEF end, l
  <2>6. s \in end.ix..c /\ (s = c \/ (s > t.ix /\ ~(List!Below(m, t, s) < ListHeight)))
    <3>1. c \in t.ix..Len(items)
      BY <1>1 DEF c
    <3> QED
      BY <2>3, <2>4, <3>1, LastShownWell DEF c
  <2>7. lead \in 1..(end.ix + 1) /\ (Overdraw > 0 /\ end.ix > 0 /\ end.off <= 0 => lead <= end.ix)
    <3>1. end.ix <= Len(items)
      BY <1>1, <2>3 DEF c
    <3> QED
      BY <2>4, <3>1, LeadWell
  <2> HIDE DEF s, lead
  <2>8. s = c
    <3> SUFFICES ASSUME s # c, s > t.ix, ~(List!Below(m, t, s) < ListHeight) PROVE FALSE
      BY <2>6
    <3>1. s \in t.ix..c /\ c \in t.ix..c /\ s \in 0..c /\ c \in 0..c /\ s <= c
      BY <1>1, <2>3, <2>6
    <3>2. List!Below(m, t, s) = tall[s] - tall[t.ix] - t.off
          /\ List!Below(m, t, c) = tall[c] - tall[t.ix] - t.off
      BY <1>5, <3>1
    <3>3. tall[s] \in Int /\ tall[c] \in Int /\ tall[t.ix] \in Int /\ tall[s] <= tall[c]
      BY <1>1, <1>3, <3>1
    <3> QED
      BY <1>1, <1>7, <2>1, <3>2, <3>3, SMTT(40)
  <2>9. List!Total(m, end.ix + 1, s) = left + ListHeight
    BY <1>1, <2>2, <2>3, <2>8, TotalTyped, CountTyped DEF c
  <2>10. /\ l.top = end /\ l.lead = lead /\ l.down = c /\ l.last = c /\ l.logical = log
    BY <2>5, <2>8
  <2>11. Within(log, c)
    <3>1. alignment = "top" => end.off >= 0
      BY <2>3
    <3> QED
      BY <1>1, <2>3, <3>1 DEF Within
  <2>12. \/ end.off >= 0 /\ List!Total(m, end.ix + 1, s) - end.off >= ListHeight
         \/ end.ix = 0 /\ (alignment = "top" => end.off = 0)
    <3>1. CASE left >= 0
      BY <1>1, <2>3, <2>9, <3>1
    <3>2. CASE left < 0
      BY <1>1, <2>2, <2>3, <3>2
    <3> QED
      BY <3>1, <3>2
  <2>13. ~(List!Total(m, end.ix + 1, s) - end.off > ListHeight)
    BY <1>1, <2>3, <2>9
  <2>14. end.ix > 0 /\ end.off <= 0 => end.off = 0
    BY <2>2, <2>3
  <2>15. WellLaid(m, l)
    BY <1>1, <2>3, <2>7, <2>8, <2>10, <2>11, <2>12, <2>13, <2>14, SMTT(40) DEF WellLaid, c
  <2> QED
    BY <2>15 DEF l, down
<1> QED
  BY <1>6, <1>7

LEMMA LayoutWell ==
  ASSUME ListInv, NEW m \in Metrics, NEW was \in List!Offset \cup {NoTop}, Within(was, Len(items)),
         NEW fraction \in Fractions \cup {NoPending}
  PROVE  WellLaid(m, List!LayoutItems(m, was, fraction))
<1> DEFINE uses == fraction # NoPending /\ fraction.ix = List!Logical(was).ix
                   /\ fraction.ix < List!Count
           h == List!Height(m, fraction.ix + 1)
           t == [ix |-> fraction.ix, off |-> (fraction.num * h) \div fraction.den]
<1>1. CASE uses
  <2>1. fraction.ix \in Nat /\ fraction.num \in Nat /\ fraction.den \in Nat \ {0}
    BY <1>1 DEF Fractions
  <2>2. h \in Nat \ {0}
    BY <1>1, <2>1, CountTyped, HeightTyped
  <2> HIDE DEF h
  <2>3. fraction.num * h \in Nat
    BY <2>1, <2>2
  <2>4. (fraction.num * h) \div fraction.den \in Nat
    BY <2>1, <2>3
  <2>5. t \in List!Offset /\ t.ix <= Len(items) /\ t.off >= 0 /\ Within(t, Len(items))
    BY <1>1, <2>1, <2>4, CountTyped DEF List!Offset, Within
  <2>6. List!LayoutItems(m, was, fraction) = List!Settle(m, t, List!LastDown(m, t), t)
    BY <1>1 DEF List!LayoutItems, h
  <2> HIDE DEF t
  <2> QED
    BY <2>5, <2>6, SettleWell
<1>2. CASE ~uses
  <2> DEFINE u == List!Logical(was)
  <2>1. u \in List!Offset
    BY LogicalTyped
  <2>2. u.ix <= Len(items) /\ u.off >= 0
    BY CountTyped DEF List!Logical, List!Start, Within
  <2>3. List!LayoutItems(m, was, fraction) = List!Settle(m, u, List!LastDown(m, u), was)
    BY <1>2 DEF List!LayoutItems
  <2> HIDE DEF u
  <2> QED
    BY <2>1, <2>2, <2>3, SettleWell
<1> QED
  BY <1>1, <1>2

LEMMA AutoscrollWell ==
  ASSUME ListInv, NEW m \in Metrics, NEW i \in 1..Len(items), NEW r \in Nat, NEW y
  PROVE  Within(List!Autoscrolled(m, i, r, y), Len(items))
<1> DEFINE room == ListHeight - (r + 1)
           S == {n \in 1..i : List!Total(m, n, i - 1) >= room}
           start == List!Max({1} \cup S)
           above == List!Total(m, start, i - 1) - room
<1>0. Len(items) \in Nat /\ i \in Nat /\ i - 1 \in Nat /\ i - 1 <= Len(items)
  BY CountTyped
<1>1. room \in Int
  BY ListConstants
<1> HIDE DEF room
<1>2. 1 \in Int /\ i \in Int /\ S \in SUBSET (1..i)
  BY <1>0
<1> HIDE DEF S
<1>3. start \in {1} \cup S
  BY <1>2, GreatestOf
<1> HIDE DEF start
<1>4. start \in 1..i
  <2>1. start = 1 \/ start \in 1..i
    BY <1>2, <1>3
  <2> QED
    BY <1>0, <2>1
<1>5. above \in Int /\ 0 \in Int
  BY <1>0, <1>1, TotalTyped
<1> HIDE DEF above
<1>6. List!Max({0, above}) \in {0, above} /\ 0 <= List!Max({0, above})
  BY <1>5, LargerOf, Zenon
<1>7. List!Autoscrolled(m, i, r, y)
         = IF y < 0 THEN [ix |-> i - 1, off |-> r]
           ELSE IF room <= 0 THEN [ix |-> i - 1, off |-> -room]
           ELSE [ix |-> start - 1, off |-> List!Max({0, above})]
  BY DEF List!Autoscrolled, above, start, S, room
<1>8. start - 1 <= Len(items) /\ List!Max({0, above}) >= 0 /\ r >= 0 /\ (room <= 0 => -room >= 0)
  BY <1>0, <1>1, <1>4, <1>5, <1>6
<1> QED
  BY <1>0, <1>7, <1>8 DEF Within

\* What was laid out well is shown well, once it is measured.
LEMMA PaintWell ==
  ASSUME ListInv, NEW m \in Metrics, metrics' = m, alignment' = alignment,
         NEW end, WellLaid(m, end), NEW layouts, end \in layouts,
         NEW fraction, List!Paint(m, end, layouts, fraction), ListInv'
  PROVE  Within(top', Len(items')) /\ List!FrameIsFilled' /\ List!CanScrollOn'
<1> DEFINE c == Len(items)
           ix == end.top.ix
           off == end.top.off
<1>1. /\ top' = end.logical
      /\ painted' = [top |-> end.top, delta |-> 0, last |-> end.last, same |-> TRUE]
      /\ items' = [n \in DOMAIN items |->
           [items[n] EXCEPT !.measured =
              \/ painted # NoFrame /\ m = metrics /\ @
              \/ \E k \in layouts : n \in k.lead..k.down]]
  BY DEF List!Paint
<1>2. items \in Seq(Entry) /\ c \in Nat /\ DOMAIN items = 1..c
  BY DEF ListInv
<1>3. ASSUME NEW n \in 1..c
      PROVE  /\ items'[n].id = items[n].id
             /\ n \in end.lead..end.down => items'[n].measured
  <2>1. items[n] \in Entry
    BY <1>2
  <2>2. items'[n] = [items[n] EXCEPT !.measured =
              \/ painted # NoFrame /\ m = metrics /\ items[n].measured
              \/ \E k \in layouts : n \in k.lead..k.down]
    BY <1>1, <1>2
  <2>3. items'[n].id = items[n].id
    BY <2>1, <2>2 DEF Entry
  <2>4. items'[n].measured = (\/ painted # NoFrame /\ m = metrics /\ items[n].measured
                              \/ \E k \in layouts : n \in k.lead..k.down)
    BY <2>1, <2>2, Zenon DEF Entry
  <2>5. n \in end.lead..end.down => \E k \in layouts : n \in k.lead..k.down
    OBVIOUS
  <2> QED
    BY <2>3, <2>4, <2>5, Zenon
<1>4. items' \in Seq(Entry) /\ Len(items') = c
  <2>1. items' \in Seq(Entry)
    BY DEF ListInv
  <2>2. DOMAIN items' = 1..c
    BY <1>1, <1>2
  <2> QED
    BY <1>2, <2>1, <2>2
<1>5. PICK tall, known : Ends(items, m, tall, known)
  BY <1>2, EndsExist
<1>6. PICK seen, now : Ends(items', m, seen, now)
  BY <1>4, EndsExist
<1>7. Ends(items', m, tall, now)
  BY <1>2, <1>3, <1>4, <1>5, <1>6, ZenonT(40) DEF Ends
<1>8. Measures(m, tall)
  BY <1>5, EndsMeasure
<1>9. /\ ix \in 0..c /\ off \in Int /\ end.last \in ix..c /\ end.down \in ix..c
      /\ end.lead \in 1..(ix + 1) /\ ListHeight \in Nat /\ Overdraw \in Nat
  BY ListConstants DEF WellLaid
<1> HIDE DEF c
<1>10. ASSUME NEW n \in ix..c
       PROVE  /\ n \in 0..c /\ tall[n] \in Int /\ tall[ix] \in Int
              /\ List!Total(m, ix + 1, n) = tall[n] - tall[ix]
              /\ TotalIn(items', m, ix + 1, n) = tall[n] - tall[ix]
  <2>1. n \in 0..c /\ ix <= n /\ ix + 1 \in 1..(c + 1) /\ ix + 1 <= n + 1 /\ (ix + 1) - 1 = ix
    BY <1>2, <1>9, SMTT(40)
  <2>2. tall[n] \in Int /\ tall[ix] \in Int /\ List!Total(m, ix + 1, n) = tall[n] - tall[ix]
    BY <1>8, <1>9, <2>1 DEF Measures, c
  <2>3. TotalIn(items', m, ix + 1, n) = tall[n] - tall[(ix + 1) - 1]
    BY <1>4, <1>7, <2>1, TotalOf
  <2> QED
    BY <2>1, <2>2, <2>3
<1>11. ASSUME NEW n \in 0..c
       PROVE  BeforeIn(items', m, n) = now[n] /\ now[n] \in Int
  <2>1. BeforeIn(items', m, n) = now[n]
    BY <1>4, <1>7, BeforeOf
  <2>2. now[n] \in Int
    BY <1>4, <1>7 DEF Ends
  <2> QED
    BY <2>1, <2>2
<1>12. /\ painted'.top = end.top /\ painted'.last = end.last /\ painted'.top.ix = ix
       /\ painted'.top.off = off
  BY <1>1
<1>13. ShownIn(items', m, painted') = List!Total(m, ix + 1, end.last) - off
  BY <1>9, <1>10, <1>12 DEF ShownIn
<1>14. FilledIn(items', m, alignment', painted')
  <2>1. \/ off >= 0 /\ List!Total(m, ix + 1, end.last) - off >= ListHeight
        \/ ix = 0 /\ end.last = c /\ (alignment = "top" => off = 0)
    BY DEF WellLaid, c
  <2> QED
    BY <1>4, <1>12, <1>13, <2>1 DEF FilledIn
<1>15. PixelIn(items', m, painted'.top) = now[ix] + off /\ now[ix] \in Int /\ now[c] \in Int
  <2>1. List!Min({ix, c}) = ix
    <3>1. ix \in Int /\ c \in Int /\ ix <= c
      BY <1>2, <1>9
    <3>2. List!Min({ix, c}) \in {ix, c} /\ List!Min({ix, c}) <= ix /\ List!Min({ix, c}) <= c
      BY <3>1, LargerOf, Zenon
    <3> QED
      BY <3>1, <3>2
  <2>2. BeforeIn(items', m, ix) = now[ix] /\ now[ix] \in Int /\ now[c] \in Int
    BY <1>2, <1>9, <1>11
  <2> QED
    BY <1>4, <1>12, <2>1, <2>2 DEF PixelIn
<1>16. ScrollMaxIn(items', m) \in Int /\ now[c] - ListHeight <= ScrollMaxIn(items', m)
  <2> DEFINE room == now[c] - ListHeight
  <2>1. BeforeIn(items', m, c) = now[c] /\ room \in Int /\ 0 \in Int
    BY <1>2, <1>9, <1>11
  <2>2. ScrollMaxIn(items', m) = List!Max({0, room})
    BY <1>4, <2>1 DEF ScrollMaxIn
  <2> HIDE DEF room
  <2>3. List!Max({0, room}) \in {0, room} /\ room <= List!Max({0, room})
    BY <2>1, LargerOf, Zenon
  <2>4. List!Max({0, room}) \in Int
    BY <2>1, <2>3
  <2> QED
    BY <2>2, <2>3, <2>4 DEF room
<1>17. ASSUME Overdraw > 0, end.last < c \/ List!Total(m, ix + 1, end.last) - off > ListHeight
       PROVE  now[ix] + off < ScrollMaxIn(items', m)
  <2>1. List!Total(m, ix + 1, end.down) - off > ListHeight
    BY <1>17 DEF WellLaid, c
  <2>2. List!Total(m, ix + 1, end.down) = tall[end.down] - tall[ix]
        /\ tall[end.down] \in Int /\ tall[ix] \in Int
    BY <1>9, <1>10
  <2>3. tall[end.down] - tall[ix] <= now[end.down] - now[ix]
    <3>1. ix \in 0..c /\ end.down \in 0..c /\ ix <= end.down
      BY <1>2, <1>9
    <3>2. \A i \in (ix + 1)..end.down : i \in 1..c /\ i \in end.lead..end.down
      BY <1>2, <1>9
    <3>3. \A i \in (ix + 1)..end.down : items'[i].measured
      BY <1>3, <3>2
    <3> QED
      BY <1>4, <1>7, <3>1, <3>3, EndsGrow
  <2>4. now[end.down] <= now[c] /\ now[end.down] \in Int
    <3>1. end.down \in 0..c /\ c \in 0..c /\ end.down <= c
      BY <1>2, <1>9
    <3> QED
      BY <1>4, <1>7, <3>1, EndsGrow
  <2>5. now[ix] + off + ListHeight < now[c]
    BY <1>9, <1>15, <2>1, <2>2, <2>3, <2>4
  <2> QED
    BY <1>9, <1>15, <1>16, <2>5
<1>18. ASSUME Overdraw > 0, ix > 0 \/ off > 0
       PROVE  now[ix] + off > 0
  <2>1. CASE off > 0
    <3>1. now[ix] >= 0
      BY <1>4, <1>7, <1>9, EndsGrow
    <3> QED
      BY <1>9, <1>15, <2>1, <3>1
  <2>2. CASE ~(off > 0)
    <3>1. ix > 0 /\ off <= 0
      BY <1>9, <1>18, <2>2
    <3>2. off = 0 /\ end.lead <= ix
      BY <1>18, <3>1 DEF WellLaid
    <3>3. ix \in 1..c /\ ix \in end.lead..end.down
      BY <1>2, <1>9, <3>1, <3>2
    <3>4. items'[ix].measured
      BY <1>3, <3>3
    <3>5. now[ix] > 0
      BY <1>4, <1>7, <1>9, <3>1, <3>4, EndsGrow
    <3> QED
      BY <1>15, <3>2, <3>5
  <2> QED
    BY <2>1, <2>2
<1>19. ScrollsIn(items', m, painted')
  BY <1>4, <1>12, <1>13, <1>15, <1>17, <1>18 DEF ScrollsIn
<1>20. List!FrameIsFilled' /\ List!CanScrollOn'
  BY <1>14, <1>19, FilledIsInNext
<1>21. Within(top', Len(items'))
  BY <1>1, <1>4 DEF WellLaid, c
<1> QED
  BY <1>20, <1>21

FillInv ==
  /\ ListInv /\ Within(top, Len(items))
  /\ List!FrameIsFilled /\ List!CanScrollOn

LEMMA FrameWell ==
  ASSUME FillInv, NEW m \in Metrics, List!Frame(m)
  PROVE  FillInv'
<1> DEFINE l == List!LayoutItems(m, top, pendingScroll)
           left == List!PendingAfter(top, pendingScroll)
<1>1. ListInv /\ Within(top, Len(items)) /\ ListInv'
  BY FrameStep DEF FillInv
<1>2. top \in List!Offset \cup {NoTop} /\ pendingScroll \in Fractions \cup {NoPending}
  BY <1>1 DEF ListInv
<1>3. left \in Fractions \cup {NoPending}
  BY <1>2 DEF List!PendingAfter
<1>4. Layout(l) /\ WellLaid(m, l)
  BY <1>1, <1>2, LayoutTyped, LayoutWell
<1>5. /\ metrics' = m /\ alignment' = alignment
      /\ \/ List!Paint(m, l, {l}, left)
         \/ \E i \in (l.top.ix + 1)..l.last : \E r \in 0..(List!Height(m, i) - 1) :
              \E to \in {List!Autoscrolled(m, i, r, List!RowTop(m, l, i, r))} :
                \E again \in {List!LayoutItems(m, to, left)} :
                  List!Paint(m, again, {l, again}, List!PendingAfter(to, left))
  BY ZenonT(40) DEF List!Frame
<1> HIDE DEF l, left
<1>6. CASE List!Paint(m, l, {l}, left)
  <2>1. l \in {l}
    OBVIOUS
  <2> QED
    BY <1>1, <1>4, <1>5, <1>6, <2>1, PaintWell DEF FillInv
<1>7. CASE \E i \in (l.top.ix + 1)..l.last : \E r \in 0..(List!Height(m, i) - 1) :
             \E to \in {List!Autoscrolled(m, i, r, List!RowTop(m, l, i, r))} :
               \E again \in {List!LayoutItems(m, to, left)} :
                 List!Paint(m, again, {l, again}, List!PendingAfter(to, left))
  <2>0. PICK i \in (l.top.ix + 1)..l.last : \E r \in 0..(List!Height(m, i) - 1) :
             \E to \in {List!Autoscrolled(m, i, r, List!RowTop(m, l, i, r))} :
               \E again \in {List!LayoutItems(m, to, left)} :
                 List!Paint(m, again, {l, again}, List!PendingAfter(to, left))
    BY <1>7
  <2>1. PICK r \in 0..(List!Height(m, i) - 1) :
             \E to \in {List!Autoscrolled(m, i, r, List!RowTop(m, l, i, r))} :
               \E again \in {List!LayoutItems(m, to, left)} :
                 List!Paint(m, again, {l, again}, List!PendingAfter(to, left))
    BY <2>0
  <2> DEFINE to == List!Autoscrolled(m, i, r, List!RowTop(m, l, i, r))
             again == List!LayoutItems(m, to, left)
             late == List!PendingAfter(to, left)
  <2>2. List!Paint(m, again, {l, again}, late)
    BY <2>1
  <2>3. i \in 1..Len(items) /\ r \in Nat
    <3>1. i \in 1..Len(items)
      BY <1>4 DEF Layout
    <3>2. List!Height(m, i) \in Nat
      BY <1>1, <3>1, HeightTyped
    <3> QED
      BY <3>1, <3>2
  <2>4. to \in List!Offset /\ Within(to, Len(items))
    BY <1>1, <2>3, AutoscrollTyped, AutoscrollWell
  <2> HIDE DEF to
  <2>5. WellLaid(m, again) /\ again \in {l, again}
    BY <1>1, <1>3, <2>4, LayoutWell
  <2> HIDE DEF again, late
  <2> QED
    BY <1>1, <1>5, <2>2, <2>5, PaintWell DEF FillInv
<1> QED
  BY <1>5, <1>6, <1>7
-----------------------------------------------------------------------------
\* Between frames the list stays as it was painted, or is known to be another.
SameOrStale ==
  /\ alignment' = alignment
  /\ \/ painted' # NoFrame => ~painted'.same
     \/ /\ items' = items /\ metrics' = metrics
        /\ (painted = NoFrame) = (painted' = NoFrame)
        /\ painted # NoFrame => /\ painted'.top = painted.top /\ painted'.last = painted.last
                                /\ painted'.same = painted.same

LEMMA SameIsFilled ==
  ASSUME List!FrameIsFilled, List!CanScrollOn, SameOrStale
  PROVE  List!FrameIsFilled' /\ List!CanScrollOn'
<1>1. FilledIn(items, metrics, alignment, painted) /\ ScrollsIn(items, metrics, painted)
  BY FilledIsIn
<1>2. FilledIn(items', metrics', alignment', painted') /\ ScrollsIn(items', metrics', painted')
  BY <1>1 DEF SameOrStale, FilledIn, ScrollsIn, ShownIn
<1> QED
  BY <1>2, FilledIsInNext

LEMMA StaleIsStale ==
  ASSUME ListInv, painted' = List!Stale
  PROVE  painted' # NoFrame => ~painted'.same
<1>1. CASE painted = NoFrame
  BY <1>1 DEF List!Stale
<1>2. CASE painted # NoFrame
  <2>1. painted \in PaintedFrame
    BY <1>2 DEF ListInv
  <2>2. painted' = [painted EXCEPT !.last = 0, !.same = FALSE]
    BY <1>2 DEF List!Stale
  <2> QED
    BY <2>1, <2>2 DEF PaintedFrame
<1> QED
  BY <1>1, <1>2

LEMMA AtInList ==
  ASSUME ListInv, NEW y \in Nat
  PROVE  Within(List!At(y), Len(items))
<1> DEFINE S == {n \in 0..List!Count : List!Before(n) <= y}
           right == List!SeekRight(y)
<1>1. S \in SUBSET (0..List!Count) /\ 0 \in S /\ right = List!Max(S) /\ {0} \cup S = S
  BY CountTyped, BeforeTyped DEF List!SeekRight
<1>2. \A n : n \in S => List!Before(n) <= y
  OBVIOUS
<1> HIDE DEF S, right
<1>3. right \in S
  <2>1. 0 \in Int /\ List!Count \in Int
    BY CountTyped
  <2>2. List!Max({0} \cup S) \in {0} \cup S
    BY <1>1, <2>1, GreatestOf
  <2> QED
    BY <1>1, <2>2
<1>4. right \in 0..Len(items) /\ List!Before(right) <= y
  BY <1>1, <1>2, <1>3, CountTyped
<1>5. List!Before(right) \in Nat
  BY <1>4, BeforeTyped
<1>6. List!At(y) = [ix |-> right, off |-> y - List!Before(right)]
  BY DEF List!At, right
<1>7. right <= Len(items) /\ y - List!Before(right) >= 0
  BY <1>4, <1>5, CountTyped
<1> QED
  BY <1>6, <1>7 DEF Within

LEMMA PixelInList ==
  ASSUME ListInv, NEW y \in Nat, List!ScrollToPixel(y)
  PROVE  Within(top', Len(items))
<1>1. top' = NoTop \/ top' = List!At(y)
  BY DEF List!ScrollToPixel
<1> QED
  BY <1>1, AtInList DEF Within

LEMMA RevealInList ==
  ASSUME ListInv, Within(top, Len(items)), NEW ix \in 0..Len(items), List!ScrollToRevealItem(ix)
  PROVE  Within(top', Len(items))
<1> DEFINE t == List!LogicalTop
           least == List!Min({ix + 1, List!Count})
           room == IF painted = NoFrame THEN 0 ELSE ListHeight
           above == List!Before(least) - room
           goal == List!Max({0, above})
           S == {n \in 1..List!Count : List!Before(n) < goal}
           start == List!SeekLeft(goal)
<1>0. ix \in Nat /\ ix <= Len(items) /\ Len(items) \in Nat /\ List!Count = Len(items)
  BY CountTyped
<1>1. least \in 0..Len(items)
  <2>1. ix + 1 \in Int /\ List!Count \in Int
    BY <1>0
  <2>2. least \in {ix + 1, List!Count} /\ least <= List!Count
    BY <2>1, LargerOf, Zenon
  <2> QED
    BY <1>0, <2>1, <2>2
<1> HIDE DEF least
<1>2. 0 \in Int /\ above \in Int
  BY <1>1, BeforeTyped, ListConstants
<1> HIDE DEF above
<1>3. goal \in {0, above} /\ 0 <= goal
  BY <1>2, LargerOf, Zenon
<1>4. goal \in Nat
  BY <1>2, <1>3
<1> HIDE DEF goal
<1>5. start = List!Max({0} \cup S) /\ S \in SUBSET (1..List!Count)
  BY DEF List!SeekLeft
<1>6. \A n : n \in S => List!Before(n) < goal
  OBVIOUS
<1> HIDE DEF S, start
<1>7. start \in {0} \cup S
  <2>1. 0 \in Int /\ 1 \in Int /\ List!Count \in Int
    BY <1>0
  <2> QED
    BY <1>5, <2>1, GreatestOf
<1>8. start \in 0..Len(items) /\ List!Before(start) \in Nat /\ goal - List!Before(start) >= 0
  <2>1. CASE start = 0
    <3>1. start \in 0..Len(items) /\ List!Before(start) = 0
      BY <1>0, <2>1, BeforeTyped
    <3> QED
      BY <1>4, <3>1
  <2>2. CASE start \in S
    <3>1. start \in 0..Len(items) /\ List!Before(start) < goal
      BY <1>0, <1>5, <1>6, <2>2
    <3>2. List!Before(start) \in Nat
      BY <3>1, BeforeTyped
    <3> QED
      BY <1>4, <3>1, <3>2
  <2> QED
    BY <1>7, <2>1, <2>2
<1>9. Within(t, Len(items))
  BY <1>0 DEF List!LogicalTop, List!Logical, List!Start, Within
<1> HIDE DEF t
<1>10. top' = IF ix <= t.ix THEN List!Start(ix)
              ELSE IF start >= t.ix THEN [ix |-> start, off |-> goal - List!Before(start)] ELSE t
  BY DEF List!ScrollToRevealItem, t, start, goal, above, room, least
<1>11. start <= Len(items)
  BY <1>8
<1> QED
  BY <1>0, <1>8, <1>9, <1>10, <1>11 DEF List!Start, Within

LEMMA SplicedInList ==
  ASSUME ListInv, Within(top, Len(items)), NEW from \in 0..Len(items), NEW to \in from..Len(items),
         NEW new \in List!News, List!Splice(from, to, new)
  PROVE  Within(top', Len(items'))
<1>1. /\ Len(items) \in Nat /\ Len(new) \in Nat /\ from \in Nat /\ to \in Nat
      /\ from <= to /\ to <= Len(items)
  BY CountTyped, NewsTyped
<1>2. Len(items') = Len(items) - (to - from) + Len(new)
  BY SplicedItems
<1>3. top' = List!SplicedTop(from, to, new)
  BY DEF List!Splice
<1>4. CASE top = NoTop
  BY <1>3, <1>4 DEF List!SplicedTop, Within
<1>5. CASE top # NoTop
  <2>1. top.ix \in Nat /\ top.ix <= Len(items) /\ top.off >= 0
    BY <1>5 DEF ListInv, List!Offset, Within
  <2>2. CASE top.ix \in from..(to - 1)
    <3>1. top' = List!Start(from)
      BY <1>3, <1>5, <2>2 DEF List!SplicedTop
    <3>2. from <= Len(items')
      BY <1>1, <1>2
    <3> QED
      BY <3>1, <3>2 DEF List!Start, Within
  <2>3. CASE to <= top.ix
    <3>1. top'.ix = top.ix - (to - from) + Len(new) /\ top'.off = top.off
      BY <1>3, <1>5, <2>3, SplicedTopTyped
    <3>2. top'.ix <= Len(items')
      BY <1>1, <1>2, <2>1, <3>1
    <3> QED
      BY <2>1, <3>1, <3>2 DEF Within
  <2>4. CASE top.ix < from
    <3>1. top' = top
      BY <1>3, <1>5, <2>4, SplicedTopTyped
    <3>2. top.ix <= Len(items')
      BY <1>1, <1>2, <2>1, <2>4
    <3> QED
      BY <2>1, <3>1, <3>2 DEF Within
  <2> QED
    BY <1>1, <2>1, <2>2, <2>3, <2>4
<1> QED
  BY <1>4, <1>5

LEMMA ScrollsInList ==
  ASSUME ListInv, Within(top, Len(items)),
         \/ \E d \in Int : List!ScrollBy(d) \/ List!Scroll(d)
         \/ \E ix \in Nat, off \in Nat : List!ScrollTo(ix, off)
         \/ \E ix \in 0..List!Count : List!ScrollToRevealItem(ix)
         \/ \E y \in 0..List!ScrollMax : List!SetOffsetFromScrollbar(y)
  PROVE  Within(top', Len(items)) /\ items' = items /\ SameOrStale
<1>0. List!Count = Len(items) /\ Len(items) \in Nat
  BY CountTyped
<1>1. ASSUME NEW d \in Int, List!ScrollBy(d)
      PROVE  Within(top', Len(items)) /\ items' = items /\ SameOrStale
  <2> DEFINE pixel == List!PixelTop(List!LogicalTop) + d
             y == List!Max({0, pixel})
  <2>1. 0 \in Int /\ pixel \in Int
    <3>1. List!LogicalTop \in List!Offset
      BY LogicalTyped DEF ListInv
    <3> QED
      BY <3>1, PixelTopTyped
  <2> HIDE DEF pixel
  <2>2. y \in {0, pixel} /\ 0 <= y
    BY <2>1, LargerOf, Zenon
  <2>3. y \in Nat
    BY <2>1, <2>2
  <2> HIDE DEF y
  <2>4. top' = List!At(y)
    BY <1>1 DEF List!ScrollBy, y, pixel
  <2>5. items' = items /\ SameOrStale
    BY <1>1 DEF List!ScrollBy, SameOrStale
  <2> QED
    BY <2>3, <2>4, <2>5, AtInList
<1>2. ASSUME NEW d \in Int, List!Scroll(d)
      PROVE  Within(top', Len(items)) /\ items' = items /\ SameOrStale
  <2> DEFINE sum == IF painted.delta * d > 0 THEN painted.delta + d ELSE d
             pixel == List!PixelTop(painted.top) + sum
  <2>1. painted \in PaintedFrame
    BY <1>2 DEF ListInv, List!Scroll
  <2>2. sum \in Int /\ pixel \in Int
    BY <2>1, PixelTopTyped DEF PaintedFrame
  <2> HIDE DEF sum, pixel
  <2>3. List!Clamp(pixel, List!ScrollMax) \in Nat
    BY <2>2, ScrollMaxTyped
  <2>4. /\ painted # NoFrame /\ painted' = [painted EXCEPT !.delta = sum]
        /\ items' = items /\ metrics' = metrics /\ alignment' = alignment
        /\ reset => top' = top
    BY <1>2 DEF List!Scroll, sum
  <2>5. reset \/ List!ScrollToPixel(List!Clamp(pixel, List!ScrollMax))
    BY <1>2 DEF List!Scroll, pixel, sum
  <2>6. Within(top', Len(items))
    BY <2>3, <2>4, <2>5, PixelInList
  <2>7. painted'.top = painted.top /\ painted'.last = painted.last /\ painted'.same = painted.same
    BY <2>1, <2>4 DEF PaintedFrame
  <2> QED
    BY <2>4, <2>6, <2>7 DEF SameOrStale
<1>3. ASSUME NEW ix \in Nat, NEW off \in Nat, List!ScrollTo(ix, off)
      PROVE  Within(top', Len(items)) /\ items' = items /\ SameOrStale
  <2>1. top' = IF ix >= Len(items) THEN [ix |-> Len(items), off |-> 0] ELSE [ix |-> ix, off |-> off]
    BY <1>0, <1>3 DEF List!ScrollTo, List!Start
  <2>2. Within(top', Len(items))
    BY <1>0, <2>1 DEF Within
  <2> QED
    BY <1>3, <2>2 DEF List!ScrollTo, SameOrStale
<1>4. ASSUME NEW ix \in 0..List!Count, List!ScrollToRevealItem(ix)
      PROVE  Within(top', Len(items)) /\ items' = items /\ SameOrStale
  <2>1. Within(top', Len(items))
    BY <1>0, <1>4, RevealInList
  <2> QED
    BY <1>4, <2>1 DEF List!ScrollToRevealItem, SameOrStale
<1>5. ASSUME NEW y \in 0..List!ScrollMax, List!SetOffsetFromScrollbar(y)
      PROVE  Within(top', Len(items)) /\ items' = items /\ SameOrStale
  <2>1. y \in Nat
    BY ScrollMaxTyped
  <2>2. Within(top', Len(items))
    BY <1>5, <2>1, PixelInList DEF List!SetOffsetFromScrollbar
  <2> QED
    BY <1>5, <2>2 DEF List!SetOffsetFromScrollbar, SameOrStale
<1> QED
  BY <1>1, <1>2, <1>3, <1>4, <1>5

LEMMA FillInit == List!Init => FillInv
<1> SUFFICES ASSUME List!Init PROVE FillInv
  OBVIOUS
<1>1. top = NoTop /\ painted = NoFrame
  BY DEF List!Init
<1>2. List!FrameIsFilled /\ List!CanScrollOn
  BY <1>1 DEF List!FrameIsFilled, List!CanScrollOn
<1> QED
  BY <1>1, <1>2, ListInit DEF FillInv, Within

LEMMA FillStep == FillInv /\ [List!Next]_listVars => FillInv'
<1> SUFFICES ASSUME FillInv, [List!Next]_listVars PROVE FillInv'
  OBVIOUS
<1>0. ListInv /\ Within(top, Len(items)) /\ List!FrameIsFilled /\ List!CanScrollOn /\ ListInv'
  BY ListStep DEF FillInv
<1>1. ASSUME SameOrStale, Within(top', Len(items')) PROVE FillInv'
  BY <1>0, <1>1, SameIsFilled DEF FillInv
<1>2. List!Count = Len(items) /\ Len(items) \in Nat
  BY <1>0, CountTyped
<1>3. ASSUME NEW from \in 0..List!Count, NEW to \in 0..List!Count, from <= to,
             NEW new \in List!News, List!Splice(from, to, new)
      PROVE  FillInv'
  <2>1. from \in 0..Len(items) /\ to \in from..Len(items)
    BY <1>2, <1>3
  <2>2. Within(top', Len(items'))
    BY <1>0, <1>3, <2>1, SplicedInList
  <2>3. painted' = List!Stale /\ alignment' = alignment
    BY <1>3 DEF List!Splice
  <2>4. SameOrStale
    BY <1>0, <2>3, StaleIsStale DEF SameOrStale
  <2> QED
    BY <1>1, <2>2, <2>4
<1>4. ASSUME NEW new \in List!News, List!Reset(new) PROVE FillInv'
  <2>1. top' = NoTop /\ painted' = List!Stale /\ alignment' = alignment
    BY <1>4 DEF List!Reset
  <2>2. SameOrStale
    BY <1>0, <2>1, StaleIsStale DEF SameOrStale
  <2> QED
    BY <1>1, <2>1, <2>2 DEF Within
<1>5. ASSUME NEW m \in Metrics, List!Remeasure(m) PROVE FillInv'
  <2>1. /\ top' = top /\ painted' = List!Stale /\ alignment' = alignment
        /\ items' = [n \in DOMAIN items |-> [items[n] EXCEPT !.measured = FALSE]]
    BY <1>5 DEF List!Remeasure, List!Unmeasured
  <2>2. SameOrStale
    BY <1>0, <2>1, StaleIsStale DEF SameOrStale
  <2>3. Len(items') = Len(items)
    <3>1. items \in Seq(Entry) /\ items' \in Seq(Entry)
      BY <1>0 DEF ListInv
    <3>2. DOMAIN items' = DOMAIN items
      BY <2>1
    <3>3. DOMAIN items = 1..Len(items) /\ DOMAIN items' = 1..Len(items') /\ Len(items') \in Nat
      BY <3>1
    <3> QED
      BY <1>2, <3>2, <3>3
  <2>4. Within(top', Len(items'))
    BY <1>0, <2>1, <2>3
  <2> QED
    BY <1>1, <2>2, <2>4
<1>6. ASSUME \/ \E d \in Deltas : List!ScrollBy(d) \/ List!Scroll(d)
             \/ \E ix \in 0..(List!Count + 1), off \in 0..MaxOffset : List!ScrollTo(ix, off)
             \/ \E ix \in 0..List!Count : List!ScrollToRevealItem(ix)
             \/ \E y \in 0..List!ScrollMax : List!SetOffsetFromScrollbar(y)
      PROVE  FillInv'
  <2>1. \A ix \in 0..(List!Count + 1), off \in 0..MaxOffset : ix \in Nat /\ off \in Nat
    BY <1>2, ListConstants
  <2>2. \A d \in Deltas : d \in Int
    BY ListConstants
  <2>3. \/ \E d \in Int : List!ScrollBy(d) \/ List!Scroll(d)
        \/ \E ix \in Nat, off \in Nat : List!ScrollTo(ix, off)
        \/ \E ix \in 0..List!Count : List!ScrollToRevealItem(ix)
        \/ \E y \in 0..List!ScrollMax : List!SetOffsetFromScrollbar(y)
    BY <1>6, <2>1, <2>2, Zenon
  <2>4. Within(top', Len(items)) /\ items' = items /\ SameOrStale
    BY <1>0, <2>3, ScrollsInList, Zenon
  <2>5. Within(top', Len(items'))
    BY <2>4
  <2> QED
    BY <1>1, <2>4, <2>5
<1>7. ASSUME NEW m \in Metrics, List!Frame(m) PROVE FillInv'
  BY <1>7, FrameWell
<1>8. CASE UNCHANGED listVars
  <2>1. SameOrStale /\ top' = top /\ items' = items
    BY <1>8 DEF listVars, SameOrStale
  <2> QED
    BY <1>0, <1>1, <2>1
<1>9. CASE List!Next
  <2>1. List!Call \/ \E m \in Metrics : List!Frame(m)
    BY <1>9 DEF List!Next
  <2> QED
    BY <2>1, <1>3, <1>4, <1>5, <1>6, <1>7 DEF List!Call
<1> QED
  BY <1>8, <1>9

FillSafe == part = "list" => FillInv

(* Whatever was measured, spliced and scrolled before: a frame of the list leaves no space in it
   blank unless it shows all items, for every list and height of its items; and with any overdraw
   but none, scroll events reach what lies around it (layout_items and scroll of list.rs). *)
THEOREM ListIsFilled == Spec => []FilledAndScrollable
<1>1. Init => FillSafe
  BY FillInit DEF Init, FillSafe
<1>2. FillSafe /\ [Next]_vars => FillSafe'
  BY FillStep, StepOfPart DEF FillSafe
<1>3. FillSafe => FilledAndScrollable
  BY DEF FillSafe, FillInv, FilledAndScrollable
<1> QED
  BY <1>1, <1>2, <1>3, PTL DEF Spec
-----------------------------------------------------------------------------
(* The surface: the configure events that are under way. *)

IsConfigure(n) == inbox[n].type = "configure"
NoneBetween(m, n) == \A k \in DOMAIN inbox : m < k /\ k < n => ~IsConfigure(k)

\* Every configure event knows whether the one before it was maximized: one that is under way
\* too, or the last that was handled.
WasIsTold ==
  \A n \in DOMAIN inbox : IsConfigure(n) =>
    /\ NoneBetween(0, n) => inbox[n].was = maximized
    /\ \A m \in DOMAIN inbox :
         m < n /\ IsConfigure(m) /\ NoneBetween(m, n) => inbox[n].was = inbox[m].maximized

\* The last configure event is the last one under way, or was handled.
LastIsLast ==
  /\ \A n \in DOMAIN inbox : IsConfigure(n) /\ NoneBetween(n, Len(inbox) + 1) => inbox[n] = last
  /\ NoneBetween(0, Len(inbox) + 1) => maximized = last.maximized

SurfaceTypes ==
  /\ inbox \in Seq(Surface!Configures \cup {Surface!Done})
  /\ last \in Surface!Configures \cup {Surface!Unconfigured}
  /\ size \in Size /\ restore \in Size
  /\ grab \in BOOLEAN /\ maximized \in BOOLEAN /\ fullscreen \in BOOLEAN
  /\ source \in Surface!Sources /\ asWindow \in Size \cup {NoSize}
  /\ resizes \in Seq(Size)

\* What the window goes back to is the size that events gave it as a window.
Restores ==
  /\ source = "window" => size = restore
  /\ (maximized \/ fullscreen) /\ asWindow # NoSize => asWindow = restore

SurfaceInv ==
  /\ SurfaceTypes
  /\ last.resizing => grab
  /\ WasIsTold
  /\ LastIsLast
  /\ Restores
  /\ Surface!SettledSize

-----------------------------------------------------------------------------
LEMMA ConfigureFacts ==
  ASSUME NEW c \in Surface!Configures
  PROVE  /\ c.type = "configure" /\ c.size \in Size \cup {NoSize}
         /\ c.maximized \in BOOLEAN /\ c.fullscreen \in BOOLEAN /\ c.resizing \in BOOLEAN
BY DEF Surface!Configures

LEMMA UnconfiguredFacts ==
  /\ Surface!Unconfigured.maximized = FALSE /\ Surface!Unconfigured.resizing = FALSE
  /\ Surface!Unconfigured.size = NoSize
BY DEF Surface!Unconfigured

\* The two kinds of events.
LEMMA EventKinds ==
  ASSUME SurfaceTypes
  PROVE  \A n \in DOMAIN inbox :
           /\ IsConfigure(n) => inbox[n] \in Surface!Configures
           /\ ~IsConfigure(n) => inbox[n] = Surface!Done
           /\ inbox[n] = Surface!Done => ~IsConfigure(n)
<1> TAKE n \in DOMAIN inbox
<1>1. inbox[n] \in Surface!Configures \cup {Surface!Done}
  BY DEF SurfaceTypes
<1>2. Surface!Done.type # "configure"
  BY DEF Surface!Done
<1> QED
  BY <1>1, <1>2, ConfigureFacts DEF IsConfigure

LEMMA SurfaceInit == Surface!Init => SurfaceInv
<1> SUFFICES ASSUME Surface!Init PROVE SurfaceInv
  OBVIOUS
<1>1. inbox = <<>> /\ DOMAIN inbox = {}
  BY DEF Surface!Init
<1>2. SurfaceTypes
  <2>1. FirstSize \in Size
    BY SurfaceAssumption DEF SurfaceAssumption, Surface!SurfaceAssumption
  <2>2. inbox \in Seq(Surface!Configures \cup {Surface!Done}) /\ resizes \in Seq(Size)
    BY DEF Surface!Init
  <2> QED
    BY <2>1, <2>2 DEF Surface!Init, SurfaceTypes, Surface!Sources
<1>3. WasIsTold
  BY <1>1 DEF WasIsTold
<1>4. LastIsLast /\ (last.resizing => grab) /\ last.size = NoSize
  BY <1>1, UnconfiguredFacts DEF Surface!Init, LastIsLast
<1>5. Restores
  BY DEF Surface!Init, Restores
<1>6. Surface!SettledSize
  BY <1>4 DEF Surface!Init, Surface!SettledSize, Surface!Unmaximized
<1> QED
  BY <1>2, <1>3, <1>4, <1>5, <1>6 DEF SurfaceInv

\* What an event that is taken out of the inbox leaves behind.
LEMMA TakenOut ==
  ASSUME SurfaceTypes, inbox # <<>>, inbox' = Tail(inbox)
  PROVE  /\ inbox' \in Seq(Surface!Configures \cup {Surface!Done})
         /\ Len(inbox') = Len(inbox) - 1 /\ Len(inbox) \in Nat \ {0} /\ 1 \in DOMAIN inbox
         /\ \A n \in DOMAIN inbox' : n + 1 \in DOMAIN inbox /\ inbox'[n] = inbox[n + 1]
         /\ \A n \in DOMAIN inbox : n > 1 => n - 1 \in DOMAIN inbox'
BY DEF SurfaceTypes

LEMMA BetweenTakenOut ==
  ASSUME SurfaceTypes, inbox # <<>>, inbox' = Tail(inbox), NEW m \in Nat, NEW n \in Nat
  PROVE  NoneBetween(m, n)' <=> NoneBetween(m + 1, n + 1)
<1>1. ASSUME NoneBetween(m, n)', NEW k \in DOMAIN inbox, m + 1 < k, k < n + 1
      PROVE  ~IsConfigure(k)
  <2>1. k - 1 \in DOMAIN inbox' /\ inbox'[k - 1] = inbox[k] /\ m < k - 1 /\ k - 1 < n
    BY <1>1, TakenOut DEF SurfaceTypes
  <2> QED
    BY <2>1, <1>1 DEF NoneBetween, IsConfigure
<1>2. ASSUME NoneBetween(m + 1, n + 1), NEW k \in DOMAIN inbox', m < k, k < n
      PROVE  ~IsConfigure(k)'
  BY <1>2, TakenOut DEF NoneBetween, IsConfigure
<1> QED
  BY <1>1, <1>2 DEF NoneBetween

\* What an event that is sent changes.
LEMMA Sent ==
  ASSUME SurfaceTypes, NEW e \in Surface!Configures \cup {Surface!Done}, inbox' = Append(inbox, e)
  PROVE  /\ inbox' \in Seq(Surface!Configures \cup {Surface!Done})
         /\ Len(inbox') = Len(inbox) + 1 /\ Len(inbox) \in Nat
         /\ \A n \in DOMAIN inbox : n \in DOMAIN inbox' /\ inbox'[n] = inbox[n] /\ n < Len(inbox')
         /\ Len(inbox') \in DOMAIN inbox' /\ inbox'[Len(inbox')] = e
         /\ \A n \in DOMAIN inbox' : n \in DOMAIN inbox \/ n = Len(inbox')
BY DEF SurfaceTypes

LEMMA BetweenSent ==
  ASSUME SurfaceTypes, NEW e \in Surface!Configures \cup {Surface!Done}, inbox' = Append(inbox, e),
         NEW m \in Nat, NEW n \in 0..(Len(inbox) + 1)
  PROVE  NoneBetween(m, n)' <=> NoneBetween(m, n)
BY Sent DEF NoneBetween, IsConfigure, SurfaceTypes
-----------------------------------------------------------------------------
LEMMA ConfigureStep ==
  ASSUME SurfaceInv, NEW c \in Surface!Configures, Surface!Configure(c)
  PROVE  SurfaceInv'
<1> USE DEF Surface!Configure, SurfaceInv
<1>1. SurfaceTypes'
  BY ConfigureFacts, Sent DEF SurfaceTypes
<1>2. last'.resizing => grab'
  BY ConfigureFacts DEF SurfaceTypes
<1> PICK l \in Nat : l = Len(inbox) + 1
  BY Sent
<1>b. IsConfigure(l)' /\ l \in DOMAIN inbox' /\ inbox'[l] = c /\ Len(inbox') = l
  BY Sent, ConfigureFacts DEF IsConfigure
<1>c. \A n \in DOMAIN inbox : IsConfigure(n)' <=> IsConfigure(n)
  BY Sent DEF IsConfigure
<1>3. WasIsTold'
  <2> SUFFICES ASSUME NEW n \in DOMAIN inbox', IsConfigure(n)'
               PROVE  /\ NoneBetween(0, n)' => inbox'[n].was = maximized'
                      /\ \A m \in DOMAIN inbox' : m < n /\ IsConfigure(m)' /\ NoneBetween(m, n)'
                                                     => inbox'[n].was = inbox'[m].maximized
    BY DEF WasIsTold
  <2>0. /\ n \in 0..(Len(inbox) + 1) /\ maximized' = maximized
        /\ \A m \in Nat : NoneBetween(m, n)' <=> NoneBetween(m, n)
    BY Sent, BetweenSent, <1>1 DEF SurfaceTypes
  <2>1. CASE n \in DOMAIN inbox
    <3>1. \A m \in DOMAIN inbox' : m < n => m \in DOMAIN inbox /\ m \in Nat
      BY <2>1, <1>1, Sent DEF SurfaceTypes
    <3> QED
      BY <3>1, <2>0, <2>1, <1>c, Sent DEF WasIsTold
  <2>2. CASE n = l
    <3>1. inbox'[n].was = last.maximized
      BY <1>b, <2>2
    <3>2. \A m \in DOMAIN inbox' : m < n => m \in DOMAIN inbox /\ m \in Nat
      BY <2>2, <1>1, Sent DEF SurfaceTypes
    <3> QED
      BY <3>1, <3>2, <2>0, <2>2, <1>c, Sent DEF LastIsLast
  <2> QED
    BY <2>1, <2>2, Sent
<1>4. LastIsLast'
  <2>1. \A n \in DOMAIN inbox' : NoneBetween(n, l + 1)' => n = l
    <3> SUFFICES ASSUME NEW n \in DOMAIN inbox', NoneBetween(n, l + 1)', n # l
                 PROVE  FALSE
      OBVIOUS
    <3> QED
      BY <1>b, Sent DEF NoneBetween, SurfaceTypes
  <2>2. ~NoneBetween(0, l + 1)'
    BY <1>b, Sent DEF NoneBetween
  <2> QED
    BY <2>1, <2>2, <1>b DEF LastIsLast
<1>5. Surface!SettledSize'
  <2>1. inbox'[Len(inbox')] # Surface!Done /\ Len(inbox') \in DOMAIN inbox'
    BY Sent, <1>b, <1>1, EventKinds, ConfigureFacts DEF Surface!Done
  <2> QED
    BY <2>1 DEF Surface!SettledSize
<1>6. Restores'
  BY DEF Restores
<1> QED
  BY <1>1, <1>2, <1>3, <1>4, <1>5, <1>6

\* What neither takes nor sends an event.
LEMMA QuietStep ==
  ASSUME SurfaceInv, inbox' = inbox, last' = last, maximized' = maximized, fullscreen' = fullscreen,
         restore' = restore, asWindow' = asWindow, grab' \in BOOLEAN, grab => grab',
         size' \in Size, source' \in Surface!Sources, resizes' \in Seq(Size),
         source' = "program" \/ (size' = size /\ source' = source)
  PROVE  SurfaceInv'
<1>1. SurfaceTypes' /\ (last'.resizing => grab')
  BY DEF SurfaceInv, SurfaceTypes
<1>2. WasIsTold' /\ LastIsLast'
  BY DEF SurfaceInv, WasIsTold, LastIsLast, NoneBetween, IsConfigure
<1>3. Surface!SettledSize'
  BY DEF SurfaceInv, SurfaceTypes, Surface!SettledSize, Surface!Unmaximized
<1>4. Restores'
  BY DEF SurfaceInv, Restores
<1> QED
  BY <1>1, <1>2, <1>3, <1>4 DEF SurfaceInv

LEMMA AnswerStep ==
  ASSUME SurfaceInv, Surface!Answer
  PROVE  SurfaceInv'
<1> USE DEF Surface!Answer, SurfaceInv
<1> PICK l \in Nat : l = Len(inbox) + 1
  BY Sent
<1>1. /\ inbox' = Append(inbox, Surface!Done)
      /\ Surface!Done \in Surface!Configures \cup {Surface!Done}
  OBVIOUS
<1>2. /\ ~IsConfigure(l)' /\ l \in DOMAIN inbox' /\ inbox'[l] = Surface!Done /\ Len(inbox') = l
      /\ \A n \in DOMAIN inbox : IsConfigure(n)' <=> IsConfigure(n)
  BY <1>1, Sent DEF IsConfigure, Surface!Done
<1>3. SurfaceTypes'
  BY <1>1, Sent DEF SurfaceTypes
<1>4. WasIsTold'
  <2> SUFFICES ASSUME NEW n \in DOMAIN inbox', IsConfigure(n)'
               PROVE  /\ NoneBetween(0, n)' => inbox'[n].was = maximized'
                      /\ \A m \in DOMAIN inbox' : m < n /\ IsConfigure(m)' /\ NoneBetween(m, n)'
                                                     => inbox'[n].was = inbox'[m].maximized
    BY DEF WasIsTold
  <2>1. n \in DOMAIN inbox /\ n \in 0..(Len(inbox) + 1)
    BY <1>1, <1>2, <1>3, Sent DEF SurfaceTypes
  <2>2. \A m \in DOMAIN inbox' : m < n => m \in DOMAIN inbox /\ m \in Nat
    BY <1>1, <1>2, <1>3, <2>1, Sent DEF SurfaceTypes
  <2>3. \A m \in Nat : NoneBetween(m, n)' <=> NoneBetween(m, n)
    BY <1>1, <2>1, BetweenSent
  <2> QED
    BY <1>1, <1>2, <2>1, <2>2, <2>3, Sent DEF WasIsTold
<1>5. \A m \in Nat : NoneBetween(m, l + 1)' => NoneBetween(m, l)
  BY <1>1, <1>2, Sent DEF NoneBetween, SurfaceTypes
<1>6. LastIsLast'
  <2>1. \A n \in DOMAIN inbox' : IsConfigure(n)' => n \in DOMAIN inbox /\ n \in Nat /\ inbox'[n] = inbox[n]
    BY <1>1, <1>2, <1>3, Sent DEF SurfaceTypes
  <2> QED
    BY <1>2, <1>5, <2>1 DEF LastIsLast
<1>7. Surface!SettledSize'
  <2>1. \A n \in DOMAIN inbox : n \in DOMAIN inbox' /\ inbox'[n] = inbox[n]
    BY <1>1, Sent
  <2> QED
    BY <2>1 DEF Surface!SettledSize, Surface!Unmaximized
<1>8. Restores'
  BY DEF Restores
<1> QED
  BY <1>3, <1>4, <1>6, <1>7, <1>8

\* The inbox after its first event was taken out.
LEMMA WasTakenOut ==
  ASSUME SurfaceInv, inbox # <<>>, inbox' = Tail(inbox),
         maximized' = IF IsConfigure(1) THEN inbox[1].maximized ELSE maximized, last' = last
  PROVE  WasIsTold' /\ LastIsLast'
<1> USE DEF SurfaceInv
<1>0. Len(inbox') \in Nat /\ Len(inbox') + 1 = Len(inbox)
  BY TakenOut, SMTT(40)
<1> PICK l \in Nat : l = Len(inbox') /\ l + 1 = Len(inbox)
  BY <1>0, Zenon
<1>1. \A n \in DOMAIN inbox' : /\ n \in 1..l /\ n + 1 \in DOMAIN inbox /\ n + 1 \in Nat
                               /\ inbox'[n] = inbox[n + 1] /\ (IsConfigure(n)' <=> IsConfigure(n + 1))
  BY TakenOut DEF IsConfigure
<1>2. \A m, n \in Nat : NoneBetween(m, n)' <=> NoneBetween(m + 1, n + 1)
  BY BetweenTakenOut
<1>3. \A n \in Nat : NoneBetween(1, n) /\ ~IsConfigure(1) => NoneBetween(0, n)
  BY DEF NoneBetween, SurfaceTypes
<1>4. 1 \in DOMAIN inbox
  BY TakenOut
<1>5. WasIsTold'
  <2> SUFFICES ASSUME NEW n \in DOMAIN inbox', IsConfigure(n)'
               PROVE  /\ NoneBetween(0, n)' => inbox'[n].was = maximized'
                      /\ \A m \in DOMAIN inbox' : m < n /\ IsConfigure(m)' /\ NoneBetween(m, n)'
                                                     => inbox'[n].was = inbox'[m].maximized
    BY DEF WasIsTold
  <2>1. ASSUME NoneBetween(0, n)' PROVE inbox'[n].was = maximized'
    <3>1. NoneBetween(1, n + 1) /\ 1 < n + 1
      BY <1>1, <1>2, <2>1
    <3> QED
      BY <3>1, <1>1, <1>3, <1>4 DEF WasIsTold
  <2>2. ASSUME NEW m \in DOMAIN inbox', m < n, IsConfigure(m)', NoneBetween(m, n)'
        PROVE  inbox'[n].was = inbox'[m].maximized
    <3>1. m \in Nat /\ n \in Nat /\ NoneBetween(m, n)'
      BY <1>1, <2>2
    <3>2. NoneBetween(m + 1, n + 1)
      BY <1>2, <3>1
    <3>3. m + 1 < n + 1
      BY <2>2, <3>1
    <3> QED
      BY <3>2, <3>3, <2>2, <1>1 DEF WasIsTold
  <2> QED
    BY <2>1, <2>2
<1>6. LastIsLast'
  <2>1. ASSUME NEW n \in DOMAIN inbox', IsConfigure(n)', NoneBetween(n, l + 1)'
        PROVE  inbox'[n] = last'
    BY <2>1, <1>1, <1>2 DEF LastIsLast
  <2>2. ASSUME NoneBetween(0, l + 1)' PROVE maximized' = last'.maximized
    <3>1. NoneBetween(1, l + 2)
      BY <2>2, <1>2
    <3> QED
      BY <3>1, <1>3, <1>4 DEF LastIsLast
  <2> QED
    BY <2>1, <2>2 DEF LastIsLast
<1> QED
  BY <1>5, <1>6

LEMMA HandleDoneStep ==
  ASSUME SurfaceInv, Surface!HandleDone
  PROVE  SurfaceInv'
<1> USE DEF Surface!HandleDone, SurfaceInv
<1>1. SurfaceTypes' /\ (last'.resizing => grab')
  BY TakenOut DEF SurfaceTypes
<1>2. inbox[1] = Surface!Done /\ ~IsConfigure(1)
  BY TakenOut, EventKinds DEF SurfaceTypes
<1>3. WasIsTold' /\ LastIsLast'
  BY <1>2, WasTakenOut
<1>4. Surface!SettledSize'
  <2>1. ASSUME \A n \in DOMAIN inbox' : inbox'[n] = Surface!Done
        PROVE  \A n \in DOMAIN inbox : inbox[n] = Surface!Done
    <3> SUFFICES ASSUME NEW n \in DOMAIN inbox, n # 1 PROVE inbox[n] = Surface!Done
      BY <1>2
    <3>1. n > 1 /\ n - 1 \in DOMAIN inbox'
      BY TakenOut DEF SurfaceTypes
    <3> QED
      BY <2>1, <3>1, TakenOut DEF SurfaceTypes
  <2> QED
    BY <2>1 DEF Surface!SettledSize, Surface!Unmaximized
<1>5. Restores'
  BY DEF Restores
<1> QED
  BY <1>1, <1>3, <1>4, <1>5

\* The last configure event is not throttled when no border is held: it is the one that
\* ended the resizing.
LEMMA HandleConfigureStep ==
  ASSUME SurfaceInv, Surface!HandleConfigure
  PROVE  SurfaceInv'
<1> USE DEF SurfaceInv
<1>1. /\ inbox # <<>> /\ inbox' = Tail(inbox) /\ Head(inbox) = inbox[1] /\ IsConfigure(1)
      /\ last' = last /\ grab' = grab /\ resizes' = resizes /\ 1 \in DOMAIN inbox
  BY TakenOut DEF Surface!HandleConfigure, IsConfigure, SurfaceTypes
<1> DEFINE c == inbox[1]
           windowed == ~c.maximized /\ ~c.fullscreen
           new == IF windowed /\ maximized THEN restore ELSE c.size
           given == IF windowed THEN "window" ELSE "screen"
<1>2. c \in Surface!Configures
  BY <1>1, EventKinds
<1>3. /\ maximized' = c.maximized /\ fullscreen' = c.fullscreen
      /\ asWindow' = (IF maximized \/ fullscreen THEN asWindow ELSE IF source = "window" THEN size ELSE NoSize)
      /\ Surface!Throttled(c) => size' = size /\ restore' = restore /\ source' = source
      /\ ~Surface!Throttled(c) => /\ size' = (IF new = NoSize THEN size ELSE new)
                                  /\ source' = (IF new = NoSize THEN source ELSE given)
                                  /\ restore' = (IF windowed /\ new # NoSize THEN new ELSE restore)
  BY <1>1 DEF Surface!HandleConfigure
<1>4. new \in Size \cup {NoSize}
  BY <1>2, ConfigureFacts DEF SurfaceTypes
<1>5. SurfaceTypes'
  <2>1. /\ size' \in Size /\ restore' \in Size /\ asWindow' \in Size \cup {NoSize}
        /\ maximized' \in BOOLEAN /\ fullscreen' \in BOOLEAN /\ source' \in Surface!Sources
    <3>1. given \in Surface!Sources
      BY DEF Surface!Sources
    <3> HIDE DEF new, given
    <3> QED
      BY <1>2, <1>3, <1>4, <3>1, ConfigureFacts DEF SurfaceTypes
  <2> QED
    BY <1>1, <2>1, TakenOut DEF SurfaceTypes
<1>6. WasIsTold' /\ LastIsLast'
  BY <1>1, <1>3, WasTakenOut
<1>7. Surface!SettledSize'
  <2> SUFFICES ASSUME \A n \in DOMAIN inbox' : inbox'[n] = Surface!Done,
                      ~grab', source' # "program"
               PROVE  /\ Surface!Unmaximized' => (asWindow' # NoSize => size' = asWindow')
                      /\ ~Surface!Unmaximized' => (last'.size # NoSize => size' = last'.size)
    BY DEF Surface!SettledSize
  <2>1. \A n \in DOMAIN inbox : n # 1 => ~IsConfigure(n)
    <3> SUFFICES ASSUME NEW n \in DOMAIN inbox, n # 1 PROVE ~IsConfigure(n)
      OBVIOUS
    <3>1. n > 1 /\ n - 1 \in DOMAIN inbox' /\ inbox'[n - 1] = inbox[n]
      BY <1>1, TakenOut DEF SurfaceTypes
    <3> QED
      BY <3>1, EventKinds
  <2>2. c = last /\ c.was = maximized
    BY <1>1, <2>1 DEF LastIsLast, WasIsTold, NoneBetween, SurfaceTypes
  <2>3. ~Surface!Throttled(c)
    BY <1>1, <2>2 DEF Surface!Throttled
  <2>4. NoSize \notin Size
    BY SurfaceAssumption DEF SurfaceAssumption, Surface!SurfaceAssumption
  <2>5. ASSUME Surface!Unmaximized', asWindow' # NoSize PROVE size' = asWindow'
    <3>1. maximized /\ windowed
      BY <1>1, <2>2, <2>5 DEF Surface!Unmaximized
    <3>2. new = restore /\ restore # NoSize
      BY <2>4, <3>1 DEF SurfaceTypes
    <3>3. asWindow' = asWindow /\ asWindow = restore
      BY <1>3, <2>5, <3>1 DEF Restores
    <3> HIDE DEF new
    <3> QED
      BY <1>3, <2>3, <3>2, <3>3
  <2>6. ASSUME ~Surface!Unmaximized', last'.size # NoSize PROVE size' = last'.size
    <3>1. new = c.size /\ c.size = last'.size
      BY <1>1, <2>2, <2>6 DEF Surface!Unmaximized
    <3> HIDE DEF new
    <3> QED
      BY <1>3, <2>3, <2>6, <3>1
  <2> QED
    BY <2>5, <2>6
<1>8. Restores'
  <2>1. CASE Surface!Throttled(c)
    <3>1. windowed
      BY <1>2, <2>1, ConfigureFacts DEF Surface!Throttled, Surface!Configures
    <3> QED
      BY <1>3, <2>1, <3>1 DEF Restores
  <2>2. CASE ~Surface!Throttled(c)
    <3> HIDE DEF new
    <3> QED
      BY <1>3, <2>2 DEF Restores
  <2> QED
    BY <2>1, <2>2
<1> QED
  BY <1>1, <1>5, <1>6, <1>7, <1>8

\* Every step of the surface.
LEMMA SurfaceStep == SurfaceInv /\ [Surface!Next]_surfaceVars => SurfaceInv'
<1> SUFFICES ASSUME SurfaceInv, [Surface!Next]_surfaceVars PROVE SurfaceInv'
  OBVIOUS
<1> USE DEF SurfaceInv, SurfaceTypes
<1>1. CASE \E c \in Surface!Configures : Surface!Configure(c)
  BY <1>1, ConfigureStep
<1>2. CASE Surface!Grab
  BY <1>2, QuietStep DEF Surface!Grab
<1>3. CASE Surface!Answer
  BY <1>3, AnswerStep
<1>4. CASE Surface!HandleDone
  BY <1>4, HandleDoneStep
<1>5. CASE Surface!HandleConfigure
  BY <1>5, HandleConfigureStep
<1>6. CASE \E s \in Size : Surface!Resize(s)
  BY <1>6, QuietStep DEF Surface!Resize
<1>7. CASE Surface!RunResize
  <2>1. size' \in Size /\ resizes' \in Seq(Size) /\ source' = "program" /\ source' \in Surface!Sources
    BY <1>7 DEF Surface!RunResize, Surface!Sources
  <2> QED
    BY <1>7, <2>1, QuietStep DEF Surface!RunResize
<1>8. CASE Surface!Invalidate
  BY <1>8, QuietStep DEF Surface!Invalidate
<1>9. CASE UNCHANGED surfaceVars
  BY <1>9, QuietStep DEF surfaceVars
<1> QED
  BY <1>1, <1>2, <1>3, <1>4, <1>5, <1>6, <1>7, <1>8, <1>9 DEF Surface!Next

SurfaceSafe == part = "surface" => SurfaceInv

LEMMA SurfaceInductive == Spec => []SurfaceSafe
<1>1. Init => SurfaceSafe
  BY SurfaceInit DEF Init, SurfaceSafe
<1>2. SurfaceSafe /\ [Next]_vars => SurfaceSafe'
  BY SurfaceStep, StepOfPart DEF SurfaceSafe
<1> QED
  BY <1>1, <1>2, PTL DEF Spec

(* However many configure events were throttled during an interactive resize, and whatever
   resizes of the program and frames came between: when all events are handled, no border is
   held and the program set no size since, the window has the size the compositor sent last or,
   when it was maximized before, the one it had then as a window, unless the program had set
   that one (handle_xdg_surface_event). *)
THEOREM SizeSettles == Spec => []SettledSize
<1>1. SurfaceSafe => SettledSize
  BY DEF SurfaceSafe, SurfaceInv, SettledSize
<1> QED
  BY <1>1, SurfaceInductive, PTL
-----------------------------------------------------------------------------
(* The views: what the frames they are taken from must have kept. *)

InCached == {v \in View : Path[v] \cap Cached # {}}

\* A view that was notified, and not while the window was drawn, is among the dirty ones; what is
\* on the screen is tracked; and the state of a cached view knows of all views in it, and of
\* none in another cached view.
ViewInv ==
  /\ stale \subseteq screen
  /\ stale \ swallowed \subseteq dirtyViews \cap screen
  /\ stale \ swallowed # {} => dirty
  /\ screen \subseteq tracked \cap View
  /\ \A c \in Cached : state[c] # NoState =>
       /\ \A v \in screen : c \in Path[v] => v \in state[c]
       /\ \A v \in state[c] \cap InCached : c \in Path[v]

LEMMA PathFacts ==
  /\ Cached \subseteq View
  /\ \A v \in View : v \in Path[v] /\ Path[v] \subseteq View
  /\ \A v \in View : \A u \in Path[v] : Path[u] \subseteq Path[v]
  /\ \A v \in View : \A u, w \in Path[v] : u \in Path[w] \/ w \in Path[u]
  /\ \A v \in View : MayRead[v] \subseteq View \cup Model
BY ViewAssumption DEF ViewAssumption, Views!TreeAssumption, Views!Entity

LEMMA ViewInit == Views!Init => ViewInv
<1> SUFFICES ASSUME Views!Init PROVE ViewInv
  OBVIOUS
<1>1. \A c \in Cached : state[c] = NoState
  BY DEF Views!Init
<1> QED
  BY <1>1 DEF Views!Init, ViewInv

\* A reused view is in no other cached view, so that nothing is in it and in a rendered one.
LEMMA ReusedApart ==
  ASSUME NEW shows, NEW d \in Views!Reused(shows), NEW v \in View, d \in Path[v]
  PROVE  /\ v \notin Views!Rendered(shows)
         /\ \A c \in Cached \cap Views!Rendered(shows) : c \notin Path[v]
<1>1. d \in Cached /\ Path[d] \cap Cached = {d}
  BY DEF Views!Reused
<1>2. v \notin Views!Rendered(shows)
  BY DEF Views!Rendered
<1>3. ASSUME NEW c \in Cached \cap Views!Rendered(shows), c \in Path[v] PROVE FALSE
  <2>1. c \in View /\ d \in View /\ d \notin Path[c]
    BY <1>1, <1>3, PathFacts DEF Views!Rendered
  <2>2. c \in Path[d]
    BY <1>3, <2>1, PathFacts
  <2>3. c = d
    BY <1>1, <1>3, <2>2
  <2> QED
    BY <2>1, <2>3, PathFacts
<1> QED
  BY <1>2, <1>3

LEMMA AccessedIn ==
  ASSUME NEW rendered, NEW reused, NEW reading, NEW e \in Views!AccessedBy(rendered, reused, reading)
  PROVE  \/ e \in rendered
         \/ \E v \in rendered : e \in MayRead[v]
         \/ \E c \in reused : e \in state[c]
BY DEF Views!AccessedBy

\* What a frame is made of, when no view reads a cached view or one in it.
LEMMA FrameOfViews ==
  ASSUME ViewInv, \A v \in View : MayRead[v] \cap InCached = {},
         NEW shows, NEW reading, NEW frame, frame = Views!Frame(shows, reading)
  PROVE  /\ frame.screen \subseteq frame.accessed \cap View
         /\ (stale \ swallowed) \cap frame.screen \subseteq frame.rendered
         /\ \A c \in Cached : frame.state[c] # NoState =>
              /\ \A v \in frame.screen : c \in Path[v] => v \in frame.state[c]
              /\ \A v \in frame.state[c] \cap InCached : c \in Path[v]
<1> DEFINE reused == Views!Reused(shows)
           rendered == Views!Rendered(shows)
           left == {v \in screen : Path[v] \cap reused # {}}
<1>1. /\ frame.rendered = rendered /\ frame.screen = rendered \cup left
      /\ frame.accessed = Views!AccessedBy(rendered, reused, reading)
      /\ \A c \in Cached : frame.state[c] = IF c \in rendered THEN Views!Detected(c, rendered, reused, reading)
                                          ELSE IF c \in left THEN state[c] ELSE NoState
  BY DEF Views!Frame
<1>2. /\ rendered \subseteq View /\ left \subseteq View /\ screen \subseteq View
      /\ reused \subseteq Cached /\ \A d \in reused : state[d] # NoState /\ d \notin Views!MarkedDirty
  BY DEF Views!Rendered, Views!Reused, ViewInv
<1> HIDE DEF reused, rendered, left
<1>3. \A v \in left : \E d \in reused : d \in Path[v] /\ v \in state[d] /\ v \in screen
  BY <1>2 DEF left, ViewInv
<1>4. frame.screen \subseteq frame.accessed \cap View
  BY <1>1, <1>2, <1>3 DEF Views!AccessedBy
<1>5. ASSUME NEW v \in stale \ swallowed, v \in left PROVE FALSE
  <2>1. v \in dirtyViews \cap screen
    BY <1>5 DEF ViewInv
  <2>2. Path[v] \subseteq Views!MarkedDirty
    BY <2>1 DEF Views!MarkedDirty
  <2> QED
    BY <1>2, <1>3, <1>5, <2>2
<1>6. ASSUME NEW c \in Cached, c \in rendered
      PROVE  /\ \A v \in frame.screen : c \in Path[v] => v \in frame.state[c]
             /\ \A v \in frame.state[c] \cap InCached : c \in Path[v]
  <2> DEFINE within == {v \in rendered : c \in Path[v]}
             before == {v \in rendered : \A d \in Path[v] \cap Cached : Order[d] < Order[c]}
             ahead == {d \in reused : Order[d] < Order[c]}
  <2>1. frame.state[c] = Views!AccessedBy(within, {}, reading) \ Views!AccessedBy(before, ahead, reading)
    BY <1>1, <1>6 DEF Views!Detected
  <2>2. ASSUME NEW v \in frame.screen, c \in Path[v] PROVE v \in frame.state[c]
    <3>1. v \in View /\ v \in InCached
      BY <1>1, <1>2, <2>2 DEF InCached
    <3>2. \A d \in reused : d \notin Path[v]
      BY <1>6, <2>2, <3>1, ReusedApart DEF reused, rendered
    <3>3. v \in rendered
      BY <1>1, <2>2, <3>2 DEF left
    <3>4. v \in Views!AccessedBy(within, {}, reading)
      BY <2>2, <3>3 DEF Views!AccessedBy
    <3>5. v \notin before
      <4>1. ~(Order[c] < Order[c])
        BY <1>2, <1>6, ViewAssumption DEF ViewAssumption, Views!TreeAssumption
      <4> QED
        BY <1>6, <2>2, <4>1
    <3>6. \A u \in View : v \notin MayRead[u]
      BY <3>1
    <3>7. \A d \in ahead : v \notin state[d]
      BY <1>2, <3>1, <3>2 DEF ViewInv
    <3>8. v \notin Views!AccessedBy(before, ahead, reading)
      <4>1. before \subseteq View
        BY <1>2
      <4> HIDE DEF before, ahead
      <4> QED
        BY <3>5, <3>6, <3>7, <4>1, AccessedIn
    <3> QED
      BY <2>1, <3>4, <3>8
  <2>3. ASSUME NEW v \in frame.state[c] \cap InCached PROVE c \in Path[v]
    <3>1. v \in Views!AccessedBy(within, {}, reading) /\ \A u \in View : v \notin MayRead[u]
      BY <2>1, <2>3
    <3> QED
      BY <1>2, <3>1 DEF Views!AccessedBy
  <2> QED
    BY <2>2, <2>3
<1>7. ASSUME NEW c \in Cached, c \notin rendered, frame.state[c] # NoState
      PROVE  /\ \A v \in frame.screen : c \in Path[v] => v \in frame.state[c]
             /\ \A v \in frame.state[c] \cap InCached : c \in Path[v]
  <2>1. c \in left /\ frame.state[c] = state[c] /\ state[c] # NoState
    BY <1>1, <1>7
  <2>2. PICK d \in reused : d \in Path[c]
    BY <1>3, <2>1
  <2>3. ASSUME NEW v \in frame.screen, c \in Path[v] PROVE v \in screen
    <3>1. v \in View /\ d \in Path[v]
      BY <1>1, <1>2, <2>2, <2>3, PathFacts
    <3>2. v \notin rendered
      BY <3>1, ReusedApart DEF reused, rendered
    <3> QED
      BY <1>1, <1>3, <2>3, <3>2
  <2> QED
    BY <2>1, <2>3 DEF ViewInv
<1> QED
  BY <1>1, <1>4, <1>5, <1>6, <1>7

LEMMA ViewStep ==
  ASSUME \A v \in View : MayRead[v] \cap InCached = {}, ViewInv, [Views!Next]_viewVars
  PROVE  ViewInv'
<1>1. ASSUME Views!Draw PROVE ViewInv'
  <2>1. PICK hidden, reading, frame, notified :
          /\ notified \subseteq View
          /\ frame = Views!Frame(View \ hidden, reading)
          /\ screen' = frame.screen /\ state' = frame.state /\ tracked' = frame.accessed
          /\ swallowed' = ((swallowed \ frame.rendered) \cup notified) \cap frame.screen
          /\ stale' = ((stale \ frame.rendered) \cup notified) \cap frame.screen
    <3> DEFINE readers == {v \in View : MayRead[v] # {}}
               Frames(hidden) == {Views!Frame(View \ hidden, reading) : reading \in SUBSET readers}
               frames == UNION {Frames(hidden) : hidden \in SUBSET MayHide}
    <3>1. PICK frame \in frames, notified \in {{}} \cup {{v} : v \in View} :
            /\ screen' = frame.screen /\ state' = frame.state /\ tracked' = frame.accessed
            /\ swallowed' = ((swallowed \ frame.rendered) \cup notified) \cap frame.screen
            /\ stale' = ((stale \ frame.rendered) \cup notified) \cap frame.screen
      BY <1>1, Zenon DEF Views!Draw
    <3>2. PICK hidden : frame \in Frames(hidden)
      OBVIOUS
    <3>3. PICK reading : frame = Views!Frame(View \ hidden, reading)
      BY <3>2
    <3>4. notified \subseteq View
      BY <3>1
    <3> HIDE DEF frames
    <3> QED
      BY <3>1, <3>3, <3>4
  <2>2. stale' \ swallowed' = {}
    BY <2>1, FrameOfViews
  <2>3. screen' \subseteq tracked' \cap View
    BY <2>1, FrameOfViews
  <2>4. \A c \in Cached : state'[c] # NoState =>
          /\ \A v \in screen' : c \in Path[v] => v \in state'[c]
          /\ \A v \in state'[c] \cap InCached : c \in Path[v]
    BY <2>1, FrameOfViews
  <2>5. stale' \subseteq screen'
    BY <2>1
  <2> QED
    BY <2>2, <2>3, <2>4, <2>5 DEF ViewInv, InCached
<1>2. ASSUME NEW e \in Views!Entity, Views!Notify(e) PROVE ViewInv'
  <2>1. /\ stale' = stale \cup ({e} \cap screen) /\ swallowed' = swallowed \ {e}
        /\ screen' = screen /\ state' = state /\ tracked' = tracked
    BY <1>2 DEF Views!Notify
  <2>2. screen \subseteq tracked
    BY DEF ViewInv
  <2>3. stale' \ swallowed' \subseteq dirtyViews' \cap screen'
    <3>1. /\ e \in tracked => dirtyViews' = dirtyViews \cup {e}
          /\ e \notin tracked => dirtyViews' = dirtyViews
      BY <1>2 DEF Views!Notify
    <3>2. stale \ swallowed \subseteq dirtyViews \cap screen
      BY DEF ViewInv
    <3>3. stale \subseteq screen
      BY DEF ViewInv
    <3>4. ASSUME NEW v \in stale' \ swallowed' PROVE v \in dirtyViews' /\ v \in screen
      <4>1. v \in screen /\ (v \in stale \ swallowed \/ v = e)
        BY <2>1, <3>3
      <4>2. CASE v \in stale \ swallowed
        BY <3>1, <3>2, <4>2
      <4>3. CASE v = e
        BY <2>2, <3>1, <4>1, <4>3
      <4> QED
        BY <4>1, <4>2, <4>3
    <3> QED
      BY <2>1, <3>4
  <2>4. stale' \ swallowed' # {} => dirty'
    <3>1. CASE e \in tracked
      BY <1>2, <3>1 DEF Views!Notify
    <3>2. CASE e \notin tracked
      <4>1. ASSUME NEW v \in stale' \ swallowed' PROVE v \in stale \ swallowed
        <5>1. stale \subseteq screen /\ e \notin screen
          BY <2>2, <3>2 DEF ViewInv
        <5> QED
          BY <2>1, <5>1
      <4> QED
        BY <1>2, <3>2, <4>1 DEF Views!Notify, ViewInv
    <3> QED
      BY <3>1, <3>2
  <2>5. stale' \subseteq screen'
    BY <2>1 DEF ViewInv
  <2> QED
    BY <2>1, <2>3, <2>4, <2>5 DEF ViewInv, InCached
<1>3. CASE Views!Refresh
  BY <1>3 DEF Views!Refresh, ViewInv, InCached
<1>4. CASE UNCHANGED viewVars
  BY <1>4 DEF viewVars, ViewInv, InCached
<1> QED
  BY <1>1, <1>2, <1>3, <1>4 DEF Views!Next, Views!RequestFrame, Views!ForceRender

ViewSafe == part = "views" => ViewInv

(* However views are shown, cached, read and notified: a view on the screen that was notified
   between two frames makes the window dirty and is marked, so that the next frame renders it
   (AnyView of view.rs, invalidate_view and draw of window.rs). It needs that no view reads a
   cached view or one in it: what another view read before is missing from the state of the
   cached one, and run stale_view shows how it is lost. *)
THEOREM ChangedDrawn ==
  ASSUME \A v \in View : MayRead[v] \cap InCached = {}
  PROVE  Spec => []ChangedIsDrawn
<1>1. Init => ViewSafe
  BY ViewInit DEF Init, ViewSafe
<1>2. ViewSafe /\ [Next]_vars => ViewSafe'
  BY ViewStep, StepOfPart DEF ViewSafe
<1>3. ViewSafe => ChangedIsDrawn
  <2> SUFFICES ASSUME ViewInv, NEW v \in stale \ swallowed PROVE dirty /\ v \in Views!MarkedDirty
    BY DEF ViewSafe, ChangedIsDrawn, Views!ChangedIsDrawn
  <2>1. dirty /\ v \in dirtyViews \cap screen /\ v \in View
    BY DEF ViewInv
  <2> QED
    BY <2>1, PathFacts DEF Views!MarkedDirty
<1> QED
  BY <1>1, <1>2, <1>3, PTL DEF Spec
-----------------------------------------------------------------------------
(* The scene *)

SceneSafe == part = "scene" => SceneInv

(* Whatever is painted, in layers or not, inside of them or not, and whatever of it is in one
   batch: all is drawn, once, and what was painted before an area was opened -- a layer, or a
   primitive of its own -- is drawn before what is painted in it, where their areas meet (insert
   of bounds_tree.rs; insert_primitive, finish and batches of scene.rs). Of a primitive that
   leaves the bounds of its layer this gives nothing. *)
THEOREM OverlapsDrawnInOrder == Spec => []OverlapsInOrder
<1>1. Init => SceneSafe
  BY EmptyScene DEF Init, Scene!Init, SceneSafe
<1>2. SceneSafe /\ [Next]_vars => SceneSafe'
  BY SceneStep, StepOfPart DEF SceneSafe
<1>3. SceneSafe => OverlapsInOrder
  BY InFrontIsDrawn DEF SceneSafe, OverlapsInOrder
<1> QED
  BY <1>1, <1>2, <1>3, PTL DEF Spec
=============================================================================
