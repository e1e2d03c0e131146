-------------------------- MODULE WindowInputProofs -------------------------
(* The input of a window, for every keymap and every layout of its elements: keystrokes are
   given to the handlers in the order of typing, and clicks are whole. *)
EXTENDS WindowParts, SceneProofs

\* A step is one of the part that is exercised.
LEMMA StepOfPart ==
  [Next]_vars =>
    /\ part' = part
    /\ part = "keys" => [Keys!Next]_keyVars
    /\ part = "mouse" => [Mouse!Next]_mouseVars
BY DEF Next, InViews, InKeys, InMouse, InList, InScene, InSurface, vars

-----------------------------------------------------------------------------
(* Keystrokes *)

KeyTypes ==
  /\ focus \in Keys!FocusOrNone /\ parked \in Keys!FocusOrNone \cup {Active}
  /\ typed \in Seq(Keys!Keystroke)
  /\ done \in Seq(1..Len(typed)) /\ lost \subseteq 1..Len(typed)
  /\ pending # NoPending =>
       pending \in Keys!PendingInput /\ pending.ids \in Seq(1..Len(typed)) \ {<<>>}

\* Of the keystrokes 1..n, those given come in order, and the others are gone.
InOrder(given, gone, n) ==
  /\ \A i, j \in DOMAIN given : i < j => given[i] < given[j]
  /\ \A i \in DOMAIN given : given[i] \notin gone
  /\ gone \cup {given[i] : i \in DOMAIN given} = 1..n

KeyInv == KeyTypes /\ InOrder(done \o Keys!PendingIds, lost, Len(typed))
-----------------------------------------------------------------------------
LEMMA Rebracket ==
  ASSUME NEW T, NEW a \in Seq(T), NEW b \in Seq(T), NEW c \in Seq(T), NEW e \in T
  PROVE  (a \o b) \o c = a \o (b \o c) /\ a \o Append(b, e) = Append(a \o b, e)
<1>1. (a \o b) \o c = a \o (b \o c)
  BY ConcatAssociative, SMTT(40)
<1>2. Append(b, e) = b \o <<e>>
  OBVIOUS
<1>3. Append(a \o b, e) = (a \o b) \o <<e>>
  <2>1. a \o b \in Seq(T)
    BY ConcatProperties
  <2> QED
    BY <2>1
<1>4. <<e>> \in Seq(T)
  OBVIOUS
<1>5. (a \o b) \o <<e>> = a \o (b \o <<e>>)
  BY <1>4, ConcatAssociative
<1> QED
  BY <1>1, <1>2, <1>3, <1>5

LEMMA AppendApart ==
  ASSUME NEW T, NEW a \in Seq(T), NEW b \in Seq(T), NEW e \in T
  PROVE  a \o Append(b, e) = Append(a \o b, e)
BY Rebracket

\* Something is replayed of what waits.
LEMMA PrefixTyped ==
  ASSUME NEW str, NEW f, NEW S, NEW ids \in Seq(S), ids # <<>>
  PROVE  Keys!PrefixLength(str, f, ids) \in 1..Len(ids)
<1> DEFINE bound == {n \in DOMAIN ids :
                       Keys!Bindings(f, Keys!KeysOf(str, SubSeq(ids, 1, n))) # {}}
<1>1. DOMAIN ids = 1..Len(ids) /\ Len(ids) \in Nat /\ 1 \in 1..Len(ids)
  BY EmptySeq
<1>2. bound \in SUBSET (1..Len(ids)) /\ 1 \in Int /\ Len(ids) \in Int
  BY <1>1
<1>3. Keys!PrefixLength(str, f, ids) = IF bound = {} THEN 1 ELSE Keys!Max(bound)
  BY DEF Keys!PrefixLength
<1> HIDE DEF bound
<1>4. IsFiniteSet(bound) /\ bound \in SUBSET Int
  <2>1. 1 \in Int /\ Len(ids) \in Int
    BY <1>2
  <2>2. IsFiniteSet(bound)
    BY <1>2, <2>1, PlacesFinite, Zenon
  <2> QED
    BY <1>2, <2>2
<1>5. bound # {} => Max(bound) \in bound
  BY <1>4, MaxOf
<1>6. Keys!Max(bound) = Max(bound)
  BY DEF Keys!Max, Max
<1> QED
  BY <1>1, <1>2, <1>3, <1>5, <1>6

LEMMA SplitAt ==
  ASSUME NEW S, NEW ids \in Seq(S), NEW n \in 1..Len(ids)
  PROVE  /\ SubSeq(ids, 1, n) \in Seq(S) /\ Keys!From(ids, n + 1) \in Seq(S)
         /\ Len(Keys!From(ids, n + 1)) = Len(ids) - n
         /\ SubSeq(ids, 1, n) \o Keys!From(ids, n + 1) = ids
<1>1. Len(ids) \in Nat /\ n \in Int /\ n + 1 \in Int /\ \A i \in 1..Len(ids) : ids[i] \in S
  OBVIOUS
<1>2. /\ SubSeq(ids, 1, n) \in Seq(S) /\ Len(SubSeq(ids, 1, n)) = n
      /\ \A i \in 1..n : SubSeq(ids, 1, n)[i] = ids[i]
  BY <1>1, SubSeqProperties
<1>3. /\ Keys!From(ids, n + 1) \in Seq(S) /\ Len(Keys!From(ids, n + 1)) = Len(ids) - n
      /\ \A i \in 1..(Len(ids) - n) : Keys!From(ids, n + 1)[i] = ids[n + i]
  BY <1>1, SubSeqProperties DEF Keys!From
<1>4. SubSeq(ids, 1, n) \o SubSeq(ids, n + 1, Len(ids)) = SubSeq(ids, 1, Len(ids))
  <2>1. 1 \in 1..(Len(ids) + 1) /\ n \in (1 - 1)..Len(ids) /\ Len(ids) \in n..Len(ids)
    BY <1>1
  <2> QED
    BY <2>1, ConcatAdjacentSubSeq
<1> QED
  BY <1>2, <1>3, <1>4, SubSeqFull DEF Keys!From

\* A timeout gives what waits to the handlers as it was typed.
LEMMA FlushKeepsOrder ==
  ASSUME NEW str, NEW f, Len(str) \in Nat, NEW input \in Seq(1..Len(str))
  PROVE  Keys!FlushDispatch(str, f, input) = input
<1> DEFINE S == Seq(1..Len(str))
           n(ids) == Keys!PrefixLength(str, f, ids)
           Step(g) == [ids \in S |-> IF ids = <<>> THEN <<>>
                                     ELSE SubSeq(ids, 1, n(ids)) \o g[Keys!From(ids, n(ids) + 1)]]
           u == CHOOSE g : g = Step(g)
           all == [ids \in S |-> ids]
<1>1. \A ids \in S : ids # <<>> =>
        /\ n(ids) \in 1..Len(ids)
        /\ Keys!From(ids, n(ids) + 1) \in S
        /\ Len(Keys!From(ids, n(ids) + 1)) < Len(ids)
        /\ SubSeq(ids, 1, n(ids)) \o Keys!From(ids, n(ids) + 1) = ids
  <2> SUFFICES ASSUME NEW ids \in S, ids # <<>>
               PROVE  /\ n(ids) \in 1..Len(ids)
                      /\ Keys!From(ids, n(ids) + 1) \in S
                      /\ Len(Keys!From(ids, n(ids) + 1)) < Len(ids)
                      /\ SubSeq(ids, 1, n(ids)) \o Keys!From(ids, n(ids) + 1) = ids
    OBVIOUS
  <2>1. n(ids) \in 1..Len(ids) /\ Len(ids) \in Nat
    BY PrefixTyped
  <2> DEFINE k == n(ids)
  <2> HIDE DEF k
  <2>2. k \in 1..Len(ids)
    BY <2>1 DEF k
  <2>3. /\ Keys!From(ids, k + 1) \in S /\ Len(Keys!From(ids, k + 1)) = Len(ids) - k
        /\ SubSeq(ids, 1, k) \o Keys!From(ids, k + 1) = ids
    BY <2>2, SplitAt
  <2>4. Len(ids) - k < Len(ids)
    BY <2>1, <2>2
  <2> QED
    BY <2>2, <2>3, <2>4 DEF k
<1>2. all = Step(all)
  <2>1. \A ids \in S : all[ids] = Step(all)[ids]
    BY <1>1
  <2> QED
    BY <2>1, ZenonT(40)
<1>3. u = Step(u)
  <2> HIDE DEF Step, all
  <2> QED
    BY <1>2
<1> HIDE DEF u
<1>4. \A ids \in S : u[ids] = ids
  <2> DEFINE Bad == {k \in Nat : \E ids \in S : Len(ids) = k /\ u[ids] # ids}
  <2> SUFFICES ASSUME Bad # {} PROVE FALSE
    <3>1. \A ids \in S : Len(ids) \in Nat
      OBVIOUS
    <3> HIDE DEF S
    <3> QED
      BY <3>1
  <2>1. PICK k \in Bad : \A m \in Bad : k <= m
    <3>1. Bad \in SUBSET Nat
      OBVIOUS
    <3> HIDE DEF Bad
    <3> QED
      BY <3>1, LeastNat
  <2>2. PICK ids \in S : Len(ids) = k /\ u[ids] # ids
    OBVIOUS
  <2>3. ids # <<>>
    BY <1>3, <2>2
  <2> DEFINE suffix == Keys!From(ids, n(ids) + 1)
  <2>4. u[ids] = SubSeq(ids, 1, n(ids)) \o u[suffix]
    BY <1>3, <2>3
  <2>5. suffix \in S /\ Len(suffix) < k /\ SubSeq(ids, 1, n(ids)) \o suffix = ids
    BY <1>1, <2>2, <2>3
  <2>6. Len(suffix) \in Nat /\ Len(suffix) \notin Bad
    <3>1. k \in Nat
      OBVIOUS
    <3> HIDE DEF suffix, Bad
    <3>2. Len(suffix) \in Nat
      BY <2>5
    <3> QED
      BY <2>1, <2>5, <3>1, <3>2
  <2>7. u[suffix] = suffix
    BY <2>5, <2>6
  <2> QED
    BY <2>2, <2>4, <2>5, <2>7
<1>5. Keys!FlushDispatch(str, f, input) = u[input]
  BY DEF Keys!FlushDispatch, u
<1> QED
  BY <1>4, <1>5

\* What dispatching a keystroke replays and what it leaves are those that waited and the
\* new one, as they were typed.
LEMMA DispatchKeepsOrder ==
  ASSUME NEW str, NEW f, Len(str) \in Nat \ {0}, NEW waiting \in Seq(1..Len(str))
  PROVE  LET r == Keys!DispatchKey(str, f, waiting)
         IN  /\ r.replayed \in Seq(1..Len(str)) /\ r.rest \in Seq(1..Len(str)) \ {<<>>}
             /\ r.replayed \o r.rest = Append(waiting, Len(str))
<1> DEFINE S == Seq(1..Len(str))
           Outcome(ids) == CASE Keys!Partial(f, Keys!KeysOf(str, ids)) -> "pending"
                             [] Keys!Bindings(f, Keys!KeysOf(str, ids)) # {} -> "bound"
                             [] OTHER -> "free"
           V == [replayed : S, rest : S, outcome : {"pending", "bound", "free"}]
           in(ids) == Append(ids, Len(str))
           n(ids) == Keys!PrefixLength(str, f, ids)
           suffix(ids) == Keys!From(ids, n(ids) + 1)
           Ends(ids) == Outcome(in(ids)) # "free" \/ ids = <<>>
           Step(g) == [ids \in S |->
                         IF Ends(ids)
                         THEN [replayed |-> <<>>, rest |-> in(ids), outcome |-> Outcome(in(ids))]
                         ELSE [g[suffix(ids)] EXCEPT !.replayed = SubSeq(ids, 1, n(ids)) \o @]]
           u == CHOOSE g : g = Step(g)
           Fits(ids, r) == /\ r \in V /\ r.rest # <<>>
                           /\ r.replayed \o r.rest = in(ids)
<1>1. Keys!DispatchKey(str, f, waiting) = u[waiting]
  BY DEF Keys!DispatchKey
<1>2. \A ids \in S : Outcome(ids) \in {"pending", "bound", "free"}
  OBVIOUS
<1>3. \A ids \in S : in(ids) \in S /\ in(ids) # <<>>
  BY SMTT(40)
<1> HIDE DEF Outcome, u
<1>4. ASSUME NEW ids \in S, ids # <<>>
      PROVE  /\ SubSeq(ids, 1, n(ids)) \in S /\ suffix(ids) \in S
             /\ Len(suffix(ids)) \in Nat /\ Len(suffix(ids)) < Len(ids)
             /\ SubSeq(ids, 1, n(ids)) \o suffix(ids) = ids
  <2>1. n(ids) \in 1..Len(ids) /\ Len(ids) \in Nat
    BY <1>4, PrefixTyped
  <2> DEFINE k == n(ids)
  <2> HIDE DEF k
  <2>2. k \in 1..Len(ids)
    BY <2>1 DEF k
  <2>3. /\ SubSeq(ids, 1, k) \in S
        /\ Keys!From(ids, k + 1) \in S /\ Len(Keys!From(ids, k + 1)) = Len(ids) - k
        /\ SubSeq(ids, 1, k) \o Keys!From(ids, k + 1) = ids
    BY <2>2, SplitAt
  <2>4. Len(ids) - k < Len(ids) /\ Len(ids) - k \in Nat
    BY <2>1, <2>2
  <2> QED
    BY <2>2, <2>3, <2>4 DEF k
<1>5. ASSUME NEW ids \in S, ids # <<>>, NEW r \in V
      PROVE  /\ [r EXCEPT !.replayed = SubSeq(ids, 1, n(ids)) \o @] \in V
             /\ Fits(suffix(ids), r) =>
                  Fits(ids, [r EXCEPT !.replayed = SubSeq(ids, 1, n(ids)) \o @])
  <2> DEFINE front == SubSeq(ids, 1, n(ids))
             back == suffix(ids)
  <2>1. front \in S /\ back \in S /\ front \o back = ids
    BY <1>4, <1>5
  <2> HIDE DEF front, back
  <2>2. front \o r.replayed \in S /\ r.replayed \in S /\ r.rest \in S
    BY <2>1, ConcatProperties
  <2>3. [r EXCEPT !.replayed = front \o @] \in V
        /\ [r EXCEPT !.replayed = front \o @].replayed = front \o r.replayed
        /\ [r EXCEPT !.replayed = front \o @].rest = r.rest
    BY <2>2
  <2>4. Fits(back, r) => (front \o r.replayed) \o r.rest = in(ids)
    <3>0. PICK T : T = 1..Len(str)
      BY Zenon
    <3>1. PICK a \in Seq(T), b \in Seq(T), c \in Seq(T), d \in Seq(T), e \in T :
               a = front /\ b = back /\ c = r.replayed /\ d = r.rest /\ e = Len(str)
      <4>1. /\ front \in Seq(T) /\ back \in Seq(T) /\ r.replayed \in Seq(T) /\ r.rest \in Seq(T)
            /\ Len(str) \in T
        BY <2>1, <2>2, <3>0
      <4> QED
        BY <4>1, Zenon
    <3>2. Fits(back, r) => c \o d = Append(b, e)
      BY <3>1
    <3> HIDE DEF Fits, S, V
    <3>3. (a \o c) \o d = a \o (c \o d)
      BY ConcatAssociative, SMTT(40)
    <3>4. a \o Append(b, e) = Append(a \o b, e)
      BY AppendApart, SMTT(40)
    <3> QED
      BY <2>1, <3>1, <3>2, <3>3, <3>4
  <2> QED
    BY <2>3, <2>4 DEF front, back
<1>6. \E g : g = Step(g)
  <2> DEFINE len == [ids \in S |-> Len(ids)]
             stop == {ids \in S : Ends(ids)}
             base == [ids \in S |-> [replayed |-> <<>>, rest |-> in(ids),
                                     outcome |-> Outcome(in(ids))]]
             next == [ids \in S |-> IF ids = <<>> THEN ids ELSE suffix(ids)]
             longer(ids, r) == IF ids = <<>> THEN r
                               ELSE [r EXCEPT !.replayed = SubSeq(ids, 1, n(ids)) \o @]
             add == [ids \in S |-> [r \in V |-> longer(ids, r)]]
  <2>1. len \in [S -> Nat] /\ stop \in SUBSET S
    OBVIOUS
  <2>2. base \in [S -> V]
    <3>1. <<>> \in S
      OBVIOUS
    <3> QED
      BY <1>2, <1>3, <3>1
  <2>3. next \in [S -> S]
    BY <1>4
  <2>4. add \in [S -> [V -> V]]
    <3>1. \A ids \in S, r \in V : longer(ids, r) \in V
      BY <1>5
    <3> HIDE DEF longer, V, S
    <3> QED
      BY <3>1
  <2>5. \A ids \in S : ids \notin stop => len[next[ids]] < len[ids]
    BY <1>4
  <2> HIDE DEF len, stop, base, next, add
  <2>6. PICK g : Solves(g, S, V, stop, base, next, add)
    <3> HIDE DEF S, V
    <3>1. Recursion(S, V, len, stop, base, next, add)
      BY <2>1, <2>2, <2>3, <2>4, <2>5 DEF Recursion
    <3> QED
      BY <3>1, RecursionExists
  <2>7. \A ids \in S : g[ids] = Step(g)[ids]
    <3> SUFFICES ASSUME NEW ids \in S PROVE g[ids] = Step(g)[ids]
      OBVIOUS
    <3>1. CASE Ends(ids)
      <4>1. ids \in stop /\ g[ids] = base[ids]
        BY <2>6, <3>1 DEF stop, Solves
      <4> QED
        BY <3>1, <4>1 DEF base
    <3>2. CASE ~Ends(ids)
      <4>1. ids \notin stop /\ ids # <<>> /\ next[ids] = suffix(ids)
        BY <3>2 DEF stop, next
      <4>2. g[ids] = add[ids][g[suffix(ids)]] /\ suffix(ids) \in S /\ g[suffix(ids)] \in V
        BY <1>4, <2>6, <4>1 DEF Solves
      <4>3. \A r \in V : add[ids][r] = [r EXCEPT !.replayed = SubSeq(ids, 1, n(ids)) \o @]
        BY <4>1 DEF add
      <4> HIDE DEF V
      <4> QED
        BY <3>2, <4>2, <4>3
    <3> QED
      BY <3>1, <3>2
  <2>8. g = Step(g)
    <3> HIDE DEF Ends, suffix, in, n
    <3> QED
      BY <2>6, <2>7 DEF Solves
  <2> QED
    BY <2>8
<1>7. u = Step(u)
  <2> HIDE DEF Step
  <2> QED
    BY <1>6 DEF u
<1>8. \A ids \in S : Fits(ids, u[ids])
  <2> DEFINE Bad == {k \in Nat : \E ids \in S : Len(ids) = k /\ ~Fits(ids, u[ids])}
  <2> SUFFICES ASSUME Bad # {} PROVE FALSE
    <3>1. \A ids \in S : Len(ids) \in Nat
      OBVIOUS
    <3> HIDE DEF S, Fits
    <3> QED
      BY <3>1
  <2>1. PICK k \in Bad : \A m \in Bad : k <= m
    <3>1. Bad \in SUBSET Nat
      OBVIOUS
    <3> HIDE DEF Bad
    <3> QED
      BY <3>1, LeastNat
  <2>2. PICK ids \in S : Len(ids) = k /\ ~Fits(ids, u[ids])
    OBVIOUS
  <2>3. CASE Ends(ids)
    <3>0. in(ids) \in S /\ in(ids) # <<>> /\ Outcome(in(ids)) \in {"pending", "bound", "free"}
      BY <1>2, <1>3
    <3>1. u[ids] = [replayed |-> <<>>, rest |-> in(ids), outcome |-> Outcome(in(ids))]
      BY <1>7, <2>3
    <3>2. <<>> \in S /\ <<>> \o in(ids) = in(ids)
      BY <1>3
    <3>3. u[ids] \in V /\ u[ids].replayed = <<>> /\ u[ids].rest = in(ids)
      <4> HIDE DEF in
      <4> QED
        BY <3>0, <3>1, <3>2
    <3> QED
      BY <2>2, <3>0, <3>2, <3>3
  <2>4. CASE ~Ends(ids)
    <3> DEFINE r == u[suffix(ids)]
    <3>1. ids # <<>> /\ u[ids] = [r EXCEPT !.replayed = SubSeq(ids, 1, n(ids)) \o @]
      BY <1>7, <2>4, ZenonT(40)
    <3>2. suffix(ids) \in S /\ Len(suffix(ids)) \in Nat /\ Len(suffix(ids)) < k
      BY <1>4, <2>2, <3>1, Zenon
    <3>3. Len(suffix(ids)) \notin Bad
      <4>1. k \in Nat
        OBVIOUS
      <4> HIDE DEF Bad, suffix
      <4> QED
        BY <2>1, <3>2, <4>1
    <3>4. Fits(suffix(ids), r)
      <4> HIDE DEF Fits, suffix, S
      <4> QED
        BY <3>2, <3>3
    <3>5. r \in V
      BY <3>4, SMTT(40)
    <3> HIDE DEF r
    <3>6. Fits(ids, [r EXCEPT !.replayed = SubSeq(ids, 1, n(ids)) \o @])
      BY <1>5, <3>1, <3>4, <3>5
    <3> QED
      <4> HIDE DEF Fits
      <4> QED
        BY <2>2, <3>1, <3>6, SMTT(40)
  <2> QED
    BY <2>3, <2>4
<1> QED
  BY <1>1, <1>8
-----------------------------------------------------------------------------
LEMMA SeqsOfMore ==
  ASSUME NEW n \in Nat, NEW s \in Seq(1..n)
  PROVE  s \in Seq(1..(n + 1)) /\ s \in Seq(Nat)
<1>1. s \in [1..Len(s) -> 1..n] /\ Len(s) \in Nat
  OBVIOUS
<1>2. s \in [1..Len(s) -> 1..(n + 1)] /\ s \in [1..Len(s) -> Nat]
  BY <1>1
<1> QED
  BY <1>1, <1>2, SeqDef

\* What waits is lost.
LEMMA OrderWhenDropped ==
  ASSUME NEW n \in Nat, NEW d \in Seq(1..n), NEW p \in Seq(1..n), NEW gone, InOrder(d \o p, gone, n)
  PROVE  InOrder(d, gone \cup {p[i] : i \in DOMAIN p}, n)
<1> DEFINE all == d \o p
           l == Len(d)
           m == Len(p)
<1>1. /\ l \in Nat /\ m \in Nat /\ DOMAIN d = 1..l /\ DOMAIN p = 1..m
      /\ \A i \in 1..l : d[i] \in Nat
  OBVIOUS
<1>2. /\ DOMAIN all = 1..(l + m) /\ \A i \in 1..l : all[i] = d[i]
      /\ \A i \in 1..m : all[l + i] = p[i]
  <2>1. /\ all \in Seq(1..n) /\ Len(all) = Len(d) + Len(p)
        /\ \A i \in 1..(Len(d) + Len(p)) : all[i] = IF i <= Len(d) THEN d[i] ELSE p[i - Len(d)]
    BY ConcatProperties
  <2>2. /\ DOMAIN all = 1..Len(all) /\ Len(all) = l + m
        /\ \A i \in 1..(l + m) : all[i] = IF i <= l THEN d[i] ELSE p[i - l]
    BY <2>1
  <2> HIDE DEF all, l, m
  <2>3. \A i \in 1..l : i \in 1..(l + m) /\ i <= l
    BY <1>1
  <2>4. \A i \in 1..m : l + i \in 1..(l + m) /\ ~(l + i <= l) /\ (l + i) - l = i
    BY <1>1
  <2> QED
    BY <2>2, <2>3, <2>4
<1>3. /\ \A i, j \in DOMAIN all : i < j => all[i] < all[j]
      /\ \A i \in DOMAIN all : all[i] \notin gone
      /\ gone \cup {all[i] : i \in DOMAIN all} = 1..n
  BY DEF InOrder
<1> HIDE DEF all, l, m
<1>4. \A i, j \in 1..l : i < j => d[i] < d[j]
  <2>1. \A i \in 1..l : i \in DOMAIN all /\ all[i] = d[i]
    BY <1>1, <1>2
  <2> QED
    BY <1>3, <2>1
<1>5. ASSUME NEW i \in 1..l
      PROVE  d[i] \notin gone /\ \A j \in 1..m : p[j] # d[i]
  <2>1. i \in DOMAIN all /\ all[i] = d[i] /\ d[i] \in Nat
    BY <1>1, <1>2
  <2>2. ASSUME NEW j \in 1..m PROVE p[j] # d[i]
    <3>1. l + j \in DOMAIN all /\ i < l + j /\ all[l + j] = p[j]
      BY <1>1, <1>2
    <3>2. all[i] < all[l + j]
      BY <1>3, <2>1, <3>1
    <3> QED
      BY <2>1, <3>1, <3>2
  <2> QED
    BY <1>3, <2>1, <2>2
<1>6. \A x : x \in {all[i] : i \in DOMAIN all} <=>
             x \in {d[i] : i \in 1..l} \/ x \in {p[i] : i \in 1..m}
  <2>1. ASSUME NEW i \in DOMAIN all
        PROVE  all[i] \in {d[j] : j \in 1..l} \/ all[i] \in {p[j] : j \in 1..m}
    <3>1. CASE i <= l
      BY <1>1, <1>2, <3>1
    <3>2. CASE l < i
      <4>1. i - l \in 1..m /\ l + (i - l) = i
        BY <1>1, <1>2, <3>2
      <4> QED
        BY <1>2, <4>1
    <3> QED
      BY <1>1, <1>2, <3>1, <3>2
  <2>2. \A j \in 1..l : j \in DOMAIN all /\ all[j] = d[j]
    BY <1>1, <1>2
  <2>3. \A j \in 1..m : l + j \in DOMAIN all /\ all[l + j] = p[j]
    BY <1>1, <1>2
  <2> QED
    BY <2>1, <2>2, <2>3, ZenonT(40)
<1>7. (gone \cup {p[i] : i \in 1..m}) \cup {d[i] : i \in 1..l} = 1..n
  BY <1>3, <1>6
<1> QED
  BY <1>1, <1>4, <1>5, <1>7 DEF InOrder

\* The next keystroke comes behind all.
LEMMA OrderWhenTyped ==
  ASSUME NEW n \in Nat, NEW g \in Seq(1..n), NEW gone \in SUBSET (1..n), InOrder(g, gone, n)
  PROVE  InOrder(Append(g, n + 1), gone, n + 1) /\ InOrder(g, gone \cup {n + 1}, n + 1)
<1> DEFINE all == Append(g, n + 1)
           l == Len(g)
<1>1. /\ l \in Nat /\ DOMAIN g = 1..l /\ \A i \in 1..l : g[i] \in 1..n
      /\ DOMAIN all = 1..(l + 1) /\ all[l + 1] = n + 1 /\ \A i \in 1..l : all[i] = g[i]
  OBVIOUS
<1>2. /\ \A i, j \in 1..l : i < j => g[i] < g[j]
      /\ \A i \in 1..l : g[i] \notin gone
      /\ gone \cup {g[i] : i \in 1..l} = 1..n
  BY <1>1 DEF InOrder
<1> HIDE DEF all, l
<1>3. ASSUME NEW i \in DOMAIN all, NEW j \in DOMAIN all, i < j PROVE all[i] < all[j]
  <2>1. i \in 1..l
    BY <1>1, <1>3
  <2>2. CASE j = l + 1
    BY <1>1, <2>1, <2>2
  <2>3. CASE j \in 1..l
    BY <1>1, <1>2, <1>3, <2>1, <2>3
  <2> QED
    BY <1>1, <2>2, <2>3
<1>4. n + 1 \notin gone /\ \A i \in 1..l : g[i] # n + 1
  BY <1>1
<1>5. \A i \in DOMAIN all : all[i] \notin gone
  <2>1. \A i \in DOMAIN all : i = l + 1 \/ i \in 1..l
    BY <1>1
  <2> QED
    BY <1>1, <1>2, <1>4, <2>1
<1>6. {all[i] : i \in DOMAIN all} = {g[i] : i \in 1..l} \cup {n + 1}
  <2>1. \A i \in DOMAIN all : i = l + 1 \/ i \in 1..l
    BY <1>1
  <2>2. \A i \in 1..l : i \in DOMAIN all
    BY <1>1
  <2>3. l + 1 \in DOMAIN all
    BY <1>1
  <2> QED
    BY <1>1, <2>1, <2>2, <2>3
<1>7. 1..(n + 1) = (1..n) \cup {n + 1}
  OBVIOUS
<1>8. InOrder(all, gone, n + 1)
  BY <1>2, <1>3, <1>5, <1>6, <1>7 DEF InOrder
<1>9. InOrder(g, gone \cup {n + 1}, n + 1)
  BY <1>1, <1>2, <1>4, <1>7 DEF InOrder
<1> QED
  BY <1>8, <1>9 DEF all
-----------------------------------------------------------------------------
LEMMA OrderInvariant == KeyInv => Keys!InTypedOrder
<1> DEFINE given == done \o Keys!PendingIds
<1>1. DOMAIN typed = 1..Len(typed) \/ ~KeyInv
  BY DEF KeyInv, KeyTypes
<1>2. Keys!InTypedOrder <=>
        /\ \A m, n \in DOMAIN given : m < n => given[m] < given[n]
        /\ Keys!Range(given) \cap lost = {}
        /\ Keys!Range(given) \cup lost = DOMAIN typed
  BY DEF Keys!InTypedOrder
<1>3. Keys!Range(given) = {given[i] : i \in DOMAIN given}
  BY DEF Keys!Range
<1> HIDE DEF given
<1>4. InOrder(given, lost, Len(typed)) /\ DOMAIN typed = 1..Len(typed) =>
        /\ \A m, n \in DOMAIN given : m < n => given[m] < given[n]
        /\ Keys!Range(given) \cap lost = {}
        /\ Keys!Range(given) \cup lost = DOMAIN typed
  BY <1>3 DEF InOrder
<1> QED
  BY <1>1, <1>2, <1>4 DEF KeyInv, given

LEMMA PendingTyped ==
  ASSUME KeyTypes
  PROVE  /\ Len(typed) \in Nat /\ Keys!PendingIds \in Seq(1..Len(typed))
         /\ done \in Seq(1..Len(typed)) /\ lost \in SUBSET (1..Len(typed))
<1>1. Len(typed) \in Nat /\ done \in Seq(1..Len(typed)) /\ lost \in SUBSET (1..Len(typed))
  BY DEF KeyTypes
<1>2. CASE pending = NoPending
  BY <1>1, <1>2 DEF Keys!PendingIds
<1>3. CASE pending # NoPending
  BY <1>1, <1>3 DEF KeyTypes, Keys!PendingIds
<1> QED
  BY <1>2, <1>3

LEMMA KeyInit == Keys!Init => KeyInv
<1> SUFFICES ASSUME Keys!Init PROVE KeyInv
  OBVIOUS
<1>1. /\ focus = NoFocus /\ parked = Active /\ pending = NoPending
      /\ typed = <<>> /\ done = <<>> /\ lost = {}
  BY DEF Keys!Init
<1>2. Len(typed) = 0 /\ done \o Keys!PendingIds = <<>>
  BY <1>1 DEF Keys!PendingIds
<1>3. InOrder(<<>>, {}, 0)
  BY DEF InOrder
<1>4. KeyTypes
  BY <1>1, <1>2 DEF KeyTypes, Keys!FocusOrNone
<1> QED
  BY <1>1, <1>2, <1>3, <1>4 DEF KeyInv

\* What leaves the keystrokes alone, but may move the focus.
LEMMA FocusStep ==
  ASSUME KeyInv, focus' \in Keys!FocusOrNone, parked' \in Keys!FocusOrNone \cup {Active},
         UNCHANGED <<pending, typed, done, lost>>
  PROVE  KeyInv'
<1>1. KeyTypes'
  BY DEF KeyInv, KeyTypes
<1>2. Keys!PendingIds' = Keys!PendingIds
  BY DEF Keys!PendingIds
<1> QED
  BY <1>1, <1>2 DEF KeyInv, InOrder

\* What waits is dropped.
LEMMA DropStep ==
  ASSUME KeyInv, focus' \in Keys!FocusOrNone, parked' = parked, typed' = typed, done' = done,
         pending' = NoPending,
         lost' = IF pending = NoPending THEN lost ELSE lost \cup Keys!Range(pending.ids)
  PROVE  KeyInv'
<1>1. Keys!Range(Keys!PendingIds) = {Keys!PendingIds[i] : i \in DOMAIN Keys!PendingIds}
  BY DEF Keys!Range
<1>2. lost' = lost \cup {Keys!PendingIds[i] : i \in DOMAIN Keys!PendingIds}
  BY <1>1 DEF Keys!PendingIds, Keys!Range
<1>3. InOrder(done, lost', Len(typed))
  BY <1>2, PendingTyped, OrderWhenDropped DEF KeyInv
<1>4. KeyTypes'
  <2>1. lost' \subseteq 1..Len(typed)
    BY <1>2, PendingTyped DEF KeyInv
  <2> QED
    BY <2>1 DEF KeyInv, KeyTypes
<1>5. done' \o Keys!PendingIds' = done
  BY PendingTyped DEF KeyInv, Keys!PendingIds
<1> QED
  BY <1>3, <1>4, <1>5 DEF KeyInv

LEMMA TimerStep ==
  ASSUME KeyInv, Keys!TimerFires
  PROVE  KeyInv'
<1>1. /\ pending # NoPending /\ pending' = NoPending
      /\ parked' = parked /\ typed' = typed
  BY DEF Keys!TimerFires
<1>2. CASE pending.focus = focus
  <2>1. /\ done' = done \o Keys!FlushDispatch(typed, focus, pending.ids)
        /\ focus' \in Keys!FocusAfter(pending.ids) /\ lost' = lost
    BY <1>2 DEF Keys!TimerFires
  <2>2. Keys!PendingIds = pending.ids /\ Keys!PendingIds' = <<>>
    BY <1>1 DEF Keys!PendingIds
  <2>3. Keys!FlushDispatch(typed, focus, pending.ids) = pending.ids
    BY <2>2, PendingTyped, FlushKeepsOrder DEF KeyInv
  <2>4. done' = done \o Keys!PendingIds /\ done' \in Seq(1..Len(typed))
        /\ done' \o Keys!PendingIds' = done'
    <3>1. done' = done \o Keys!PendingIds
      BY <2>1, <2>2, <2>3
    <3>2. done' \in Seq(1..Len(typed))
      BY <3>1, PendingTyped, ConcatProperties DEF KeyInv
    <3> QED
      BY <2>2, <3>1, <3>2
  <2>5. focus' \in Keys!FocusOrNone
    BY <2>1 DEF Keys!FocusAfter, KeyInv, KeyTypes
  <2>6. KeyTypes'
    BY <1>1, <2>1, <2>4, <2>5 DEF KeyInv, KeyTypes
  <2> QED
    BY <1>1, <2>1, <2>4, <2>6 DEF KeyInv
<1>3. CASE pending.focus # focus
  BY <1>1, <1>3, DropStep DEF Keys!TimerFires, KeyInv, KeyTypes
<1> QED
  BY <1>2, <1>3
-----------------------------------------------------------------------------
\* What is left of the pending input when a key comes; the rest is lost.
LEMMA KeptTyped ==
  ASSUME KeyInv
  PROVE  /\ Keys!Kept.ids \in Seq(1..Len(typed))
         /\ Keys!Kept.needsTimeout \in BOOLEAN
         /\ lost \cup Keys!Dropped \in SUBSET (1..Len(typed))
         /\ InOrder(done \o Keys!Kept.ids, lost \cup Keys!Dropped, Len(typed))
<1>0. /\ Len(typed) \in Nat /\ Keys!PendingIds \in Seq(1..Len(typed))
      /\ done \in Seq(1..Len(typed)) /\ lost \in SUBSET (1..Len(typed))
  BY PendingTyped DEF KeyInv
<1>1. CASE pending = NoPending
  <2>1. /\ Keys!Kept.ids = <<>> /\ Keys!Kept.needsTimeout = FALSE /\ Keys!Dropped = {}
        /\ Keys!PendingIds = <<>>
    BY <1>1 DEF Keys!Kept, Keys!Dropped, Keys!PendingIds
  <2> QED
    BY <1>0, <2>1 DEF KeyInv
<1>2. CASE pending # NoPending /\ pending.focus # NoFocus /\ pending.focus # focus
  <2>1. /\ Keys!Kept.ids = <<>> /\ Keys!Kept.needsTimeout = FALSE
        /\ Keys!Dropped = {Keys!PendingIds[i] : i \in DOMAIN Keys!PendingIds}
    BY <1>2 DEF Keys!Kept, Keys!Dropped, Keys!PendingIds, Keys!Range
  <2>2. InOrder(done, lost \cup Keys!Dropped, Len(typed))
    BY <1>0, <2>1, OrderWhenDropped DEF KeyInv
  <2>3. done \o Keys!Kept.ids = done /\ <<>> \in Seq(1..Len(typed))
    BY <1>0, <2>1
  <2>4. Keys!Dropped \in SUBSET (1..Len(typed))
    BY <1>0, <2>1
  <2> QED
    BY <1>0, <2>1, <2>2, <2>3, <2>4
<1>3. CASE pending # NoPending /\ ~(pending.focus # NoFocus /\ pending.focus # focus)
  <2>1. Keys!Kept = pending /\ Keys!PendingIds = pending.ids
    BY <1>3 DEF Keys!Kept, Keys!PendingIds
  <2>2. pending \in Keys!PendingInput /\ pending.ids # <<>>
    BY <1>3 DEF KeyInv, KeyTypes
  <2>3. Keys!Dropped = {}
    BY <2>1, <2>2 DEF Keys!Dropped
  <2>4. pending.needsTimeout \in BOOLEAN
    BY <2>2 DEF Keys!PendingInput
  <2> QED
    BY <1>0, <2>1, <2>3, <2>4 DEF KeyInv
<1> QED
  BY <1>1, <1>2, <1>3

LEMMA DispatchStep ==
  ASSUME KeyInv, NEW k \in Keys!Keystroke, Keys!Dispatch(k)
  PROVE  KeyInv'
<1> DEFINE str == Append(typed, k)
           r == Keys!DispatchKey(str, focus, Keys!Kept.ids)
           n == Len(typed)
<1>1. /\ n \in Nat /\ done \in Seq(1..n) /\ typed \in Seq(Keys!Keystroke)
      /\ focus \in Keys!FocusOrNone /\ parked \in Keys!FocusOrNone \cup {Active}
  BY PendingTyped DEF KeyInv, KeyTypes
<1>2. str \in Seq(Keys!Keystroke) /\ Len(str) = n + 1
  BY <1>1
<1>3. PICK f \in Keys!FocusAfter(r.replayed) :
        /\ focus' = f
        /\ IF r.outcome = "pending"
           THEN /\ \E need \in BOOLEAN, bound \in SUBSET Keys!Range(r.rest) :
                     pending' = [ids |-> r.rest, focus |-> f, needsTimeout |-> need,
                                 timer |-> need, bound |-> bound]
                /\ done' = Keys!Given(r.replayed, <<>>)
           ELSE /\ pending' = NoPending
                /\ done' = Keys!Given(r.replayed, r.rest)
  <2> DEFINE need == Keys!NeedsTimeout(str, focus, r.rest, k \in TextKey /\ focus \in TextFocus)
             now == IF Keys!Bindings(focus, Keys!KeysOf(str, r.rest)) = {} THEN {} ELSE {Len(str)}
             bound == (Keys!Kept.bound \cup now) \cap Keys!Range(r.rest)
  <2>1. need \in BOOLEAN
    BY KeptTyped DEF Keys!NeedsTimeout
  <2>2. bound \in SUBSET Keys!Range(r.rest)
    OBVIOUS
  <2>3. \E f \in Keys!FocusAfter(r.replayed) :
          /\ focus' = f
          /\ IF r.outcome = "pending"
             THEN /\ pending' = [ids |-> r.rest, focus |-> f, needsTimeout |-> need,
                                 timer |-> need, bound |-> bound]
                  /\ done' = Keys!Given(r.replayed, <<>>)
             ELSE /\ pending' = NoPending
                  /\ done' = Keys!Given(r.replayed, r.rest)
    BY DEF Keys!Dispatch
  <2> HIDE DEF need, bound, r, str
  <2> QED
    BY <2>1, <2>2, <2>3
<1>4. /\ typed' = str /\ lost' = lost \cup Keys!Dropped /\ parked' = parked
  BY DEF Keys!Dispatch
<1>5. /\ Keys!Kept.ids \in Seq(1..n) /\ lost' \in SUBSET (1..n)
      /\ InOrder(done \o Keys!Kept.ids, lost', n)
  BY <1>4, KeptTyped
<1> HIDE DEF str
<1>6. /\ Keys!Kept.ids \in Seq(1..(n + 1)) /\ done \in Seq(1..(n + 1)) /\ n + 1 \in 1..(n + 1)
  BY <1>1, <1>5, SeqsOfMore
<1>7. /\ r.replayed \in Seq(1..(n + 1)) /\ r.rest \in Seq(1..(n + 1)) \ {<<>>}
      /\ r.replayed \o r.rest = Append(Keys!Kept.ids, n + 1)
  <2>1. Len(str) \in Nat \ {0} /\ Keys!Kept.ids \in Seq(1..Len(str))
    BY <1>1, <1>2, <1>6
  <2>2. /\ r.replayed \in Seq(1..Len(str)) /\ r.rest \in Seq(1..Len(str)) \ {<<>>}
        /\ r.replayed \o r.rest = Append(Keys!Kept.ids, Len(str))
    BY <2>1, DispatchKeepsOrder
  <2> HIDE DEF r
  <2> QED
    BY <1>2, <2>2
<1> HIDE DEF r, n
<1>8. done \o Append(Keys!Kept.ids, n + 1) = Append(done \o Keys!Kept.ids, n + 1)
  BY <1>6, AppendApart, SMTT(40)
<1>9. InOrder(Append(done \o Keys!Kept.ids, n + 1), lost', n + 1)
  <2>1. done \o Keys!Kept.ids \in Seq(1..n)
    BY <1>1, <1>5, ConcatProperties
  <2> QED
    BY <1>1, <1>5, <2>1, OrderWhenTyped
<1>10. /\ done \o r.replayed \in Seq(1..(n + 1))
       /\ (done \o r.replayed) \o r.rest = done \o (r.replayed \o r.rest)
       /\ (done \o r.replayed) \o <<>> = done \o r.replayed
  <2> DEFINE T == 1..(n + 1)
             before == r.replayed
             rest == r.rest
  <2>1. done \in Seq(T) /\ before \in Seq(T) /\ rest \in Seq(T)
    BY <1>6, <1>7
  <2> HIDE DEF T, before, rest
  <2>2. (done \o before) \o rest = done \o (before \o rest)
    BY <2>1, ConcatAssociative, SMTT(40)
  <2>3. done \o before \in Seq(T)
    BY <2>1, ConcatProperties
  <2>4. (done \o before) \o <<>> = done \o before
    BY <2>3, ConcatEmptySeq
  <2> QED
    BY <2>2, <2>3, <2>4 DEF T, before, rest
<1>11. InOrder((done \o r.replayed) \o r.rest, lost', n + 1)
  BY <1>7, <1>8, <1>9, <1>10
<1>12. focus' \in Keys!FocusOrNone
  BY <1>1, <1>3 DEF Keys!FocusAfter
<1>13. Len(typed') = n + 1 /\ typed' \in Seq(Keys!Keystroke) /\ lost' \subseteq 1..(n + 1)
  BY <1>1, <1>2, <1>4, <1>5
<1>14. CASE r.outcome = "pending"
  <2>1. PICK need \in BOOLEAN, bound \in SUBSET Keys!Range(r.rest) :
          pending' = [ids |-> r.rest, focus |-> focus', needsTimeout |-> need,
                      timer |-> need, bound |-> bound]
    BY <1>3, <1>14
  <2>2. bound \in SUBSET Nat /\ r.rest \in Seq(Nat)
    <3>1. r.rest \in Seq(1..(n + 1)) /\ \A i \in DOMAIN r.rest : r.rest[i] \in Nat
      BY <1>1, <1>7
    <3>2. \A x \in Keys!Range(r.rest) : x \in Nat
      BY <3>1 DEF Keys!Range
    <3>3. n + 1 \in Nat /\ r.rest \in Seq(Nat)
      BY <1>1, <3>1
    <3> QED
      BY <3>2, <3>3
  <2>3. pending' \in Keys!PendingInput /\ pending'.ids = r.rest
    BY <1>12, <2>1, <2>2 DEF Keys!PendingInput
  <2>4. pending' # NoPending
    BY <2>3, KeyAssumption DEF Keys!KeyAssumption
  <2>5. Keys!PendingIds' = r.rest
    BY <2>3, <2>4 DEF Keys!PendingIds
  <2>6. done' = done \o r.replayed
    BY <1>3, <1>10, <1>14 DEF Keys!Given
  <2>7. KeyTypes'
    BY <1>1, <1>4, <1>7, <1>10, <1>12, <1>13, <2>3, <2>6 DEF KeyTypes
  <2> QED
    BY <1>11, <1>13, <2>5, <2>6, <2>7 DEF KeyInv
<1>15. CASE r.outcome # "pending"
  <2>1. pending' = NoPending /\ done' = (done \o r.replayed) \o r.rest
    BY <1>3, <1>15 DEF Keys!Given
  <2>2. done' \in Seq(1..(n + 1)) /\ done' \o Keys!PendingIds' = done'
    <3>1. done' \in Seq(1..(n + 1))
      <4> DEFINE front == done \o r.replayed
                 rest == r.rest
      <4>1. front \in Seq(1..(n + 1)) /\ rest \in Seq(1..(n + 1))
        BY <1>7, <1>10
      <4> HIDE DEF front, rest
      <4>2. front \o rest \in Seq(1..(n + 1))
        BY <4>1, ConcatProperties
      <4> QED
        BY <2>1, <4>2 DEF front, rest
    <3>2. Keys!PendingIds' = <<>>
      BY <2>1 DEF Keys!PendingIds
    <3> QED
      BY <3>1, <3>2
  <2>3. KeyTypes'
    BY <1>1, <1>4, <1>12, <1>13, <2>1, <2>2 DEF KeyTypes
  <2> QED
    BY <1>11, <1>13, <2>1, <2>2, <2>3 DEF KeyInv
<1> QED
  BY <1>14, <1>15

LEMMA InterceptStep ==
  ASSUME KeyInv, NEW k \in Keys!Keystroke, Keys!Intercept(k)
  PROVE  KeyInv'
<1> DEFINE n == Len(typed)
<1>1. /\ n \in Nat /\ done \in Seq(1..n) /\ Keys!PendingIds \in Seq(1..n) /\ lost \in SUBSET (1..n)
  BY PendingTyped DEF KeyInv
<1>2. /\ typed' = Append(typed, k) /\ lost' = lost \cup {n + 1} /\ pending' = pending
      /\ focus' = focus /\ parked' = parked /\ done' = done
  BY DEF Keys!Intercept
<1>3. typed' \in Seq(Keys!Keystroke) /\ Len(typed') = n + 1
  BY <1>1, <1>2 DEF KeyInv, KeyTypes
<1>4. done \in Seq(1..(n + 1)) /\ \A s \in Seq(1..n) : s \in Seq(1..(n + 1))
  BY <1>1, SeqsOfMore
<1>5. InOrder(done \o Keys!PendingIds, lost', n + 1)
  <2>1. done \o Keys!PendingIds \in Seq(1..n)
    BY <1>1, ConcatProperties
  <2> QED
    BY <1>1, <1>2, <2>1, OrderWhenTyped DEF KeyInv
<1>6. Keys!PendingIds' = Keys!PendingIds
  BY <1>2 DEF Keys!PendingIds
<1> HIDE DEF n
<1>7. lost' \subseteq 1..(n + 1)
  <2>1. \A x \in 1..n : x \in 1..(n + 1)
    BY <1>1
  <2> QED
    BY <1>1, <1>2, <2>1
<1>8. pending # NoPending => pending.ids \in Seq(1..n) \ {<<>>}
  BY DEF KeyInv, KeyTypes, n
<1>9. KeyTypes'
  BY <1>2, <1>3, <1>4, <1>7, <1>8 DEF KeyInv, KeyTypes
<1> QED
  BY <1>2, <1>3, <1>5, <1>6, <1>9 DEF KeyInv

\* Every step of the keystrokes.
LEMMA KeyStep ==
  KeyInv /\ held \subseteq Modifier /\ [Keys!Next]_keyVars => KeyInv' /\ held' \subseteq Modifier
<1> SUFFICES ASSUME KeyInv, held \subseteq Modifier, [Keys!Next]_keyVars
             PROVE  KeyInv' /\ held' \subseteq Modifier
  OBVIOUS
<1>0. /\ focus \in Keys!FocusOrNone /\ parked \in Keys!FocusOrNone \cup {Active}
      /\ NoFocus \in Keys!FocusOrNone /\ Focus \subseteq Keys!FocusOrNone
  BY DEF KeyInv, KeyTypes, Keys!FocusOrNone
<1>1. ASSUME NEW k \in Key, Keys!KeyDown(k) PROVE KeyInv'
  <2>1. k \in Keys!Keystroke
    BY DEF Keys!Keystroke
  <2> QED
    BY <1>1, <2>1, DispatchStep, InterceptStep DEF Keys!KeyDown
<1>2. ASSUME NEW mods \in SUBSET Modifier, Keys!ModifiersChanged(mods) PROVE KeyInv'
  <2>1. CASE mods = {} /\ Keys!Cardinality(held) = 1 /\ ~sawKey
    <3>1. \E m \in held : Keys!Dispatch(m)
      BY <1>2, <2>1 DEF Keys!ModifiersChanged
    <3> QED
      BY <3>1, DispatchStep DEF Keys!Keystroke
  <2>2. CASE ~(mods = {} /\ Keys!Cardinality(held) = 1 /\ ~sawKey)
    <3>1. UNCHANGED <<focus, parked, keymap, pending, typed, done, lost>>
      BY <1>2, <2>2 DEF Keys!ModifiersChanged
    <3> QED
      BY <1>0, <3>1, FocusStep
  <2> QED
    BY <2>1, <2>2
<1>3. ASSUME Keys!TimerFires PROVE KeyInv'
  BY <1>3, TimerStep
<1>4. ASSUME NEW f \in Focus, Keys!FocusOn(f) PROVE KeyInv'
  BY <1>0, <1>4, DropStep DEF Keys!FocusOn, Keys!ClearPending
<1>5. ASSUME Keys!Blur PROVE KeyInv'
  BY <1>0, <1>5, FocusStep DEF Keys!Blur
<1>6. ASSUME Keys!Deactivate PROVE KeyInv'
  BY <1>0, <1>6, FocusStep DEF Keys!Deactivate
<1>7. ASSUME Keys!Activate PROVE KeyInv'
  <2>1. focus' \in Keys!FocusOrNone /\ parked' = Active
    BY <1>0, <1>7 DEF Keys!Activate
  <2> QED
    BY <1>7, <2>1, FocusStep DEF Keys!Activate
<1>8. ASSUME Keys!BindKeys PROVE KeyInv'
  BY <1>0, <1>8, FocusStep DEF Keys!BindKeys
<1>9. ASSUME Keys!OpenMenu PROVE KeyInv'
  BY <1>0, <1>9, DropStep DEF Keys!OpenMenu, Keys!ClearPending
<1>10. ASSUME UNCHANGED keyVars PROVE KeyInv'
  BY <1>0, <1>10, FocusStep DEF keyVars
<1>11. KeyInv'
  BY <1>1, <1>2, <1>3, <1>4, <1>5, <1>6, <1>7, <1>8, <1>9, <1>10 DEF Keys!Next
<1>12. held' = held \/ held' \in SUBSET Modifier
  BY DEF Keys!Next, Keys!KeyDown, Keys!ModifiersChanged, Keys!TimerFires, Keys!FocusOn, Keys!Blur,
         Keys!Deactivate, Keys!Activate, Keys!BindKeys, Keys!OpenMenu, keyVars
<1> QED
  BY <1>11, <1>12
-----------------------------------------------------------------------------
KeySafe == part = "keys" => KeyInv /\ held \subseteq Modifier

LEMMA KeysInductive == Spec => []KeySafe
<1>1. Init => KeySafe
  BY KeyInit DEF Init, KeySafe, Keys!Init
<1>2. KeySafe /\ [Next]_vars => KeySafe'
  BY KeyStep, StepOfPart DEF KeySafe
<1> QED
  BY <1>1, <1>2, PTL DEF Spec

(* Whatever waits, is replayed or times out, whatever interceptors, focus and activation do,
   and under every keymap: each keystroke is given once, behind all that was typed before, or
   was intercepted or dropped (dispatch_key_event of window.rs, dispatch_key and
   flush_dispatch of key_dispatch.rs). *)
THEOREM KeysInOrder == Spec => []InTypedOrder
<1>1. KeySafe => InTypedOrder
  BY OrderInvariant DEF KeySafe, InTypedOrder
<1> QED
  BY <1>1, KeysInductive, PTL
-----------------------------------------------------------------------------
(* The mouse *)

(* The mouse: what a press is worth to an element until it is told of a click. *)

Press == [button : Mouse!Button, at : Position, over : SUBSET Element,
          released : SUBSET Element, spoilt : SUBSET Element, dragged : SUBSET Element]

MouseTypes ==
  /\ presses \in Seq(Press)
  /\ pendingDown \in [Element -> {NoPress} \cup DOMAIN presses]
  /\ captured \in [Element -> {NoPress} \cup DOMAIN presses]
  /\ told \in [Element -> Seq(DOMAIN presses)]
  /\ mouseRefreshing \in BOOLEAN
  /\ \A layout \in Layouts : DOMAIN layout \subseteq Element
  /\ laidOut \in Layouts /\ dragListener \subseteq Element

\* Element e may be told a click of press n.
Whole(e, n) ==
  /\ \A k \in DOMAIN told[e] : told[e][k] # n
  /\ e \in presses[n].over /\ e \notin presses[n].spoilt /\ e \notin presses[n].dragged
  /\ presses[n].button = "right" => e \in AuxClickable

\* A press that a release has captured waits for a frame that is not reused, and is no
\* longer pending.
MouseInv ==
  /\ MouseTypes
  /\ \A e \in Element : pendingDown[e] # NoPress => Whole(e, pendingDown[e])
  /\ \A e \in Element : captured[e] # NoPress =>
       /\ Whole(e, captured[e])
       /\ e \in releasedOver /\ mouseRefreshing /\ captured[e] # pendingDown[e]
-----------------------------------------------------------------------------
LEMMA LayoutsOfElements ==
  /\ \A layout \in Layouts : DOMAIN layout \subseteq Element
  /\ NoPress \notin Nat /\ Draggable \subseteq Element
BY MouseAssumption DEF MouseAssumption, Mouse!MouseAssumption

LEMMA MouseInit == Mouse!Init => MouseInv
<1> SUFFICES ASSUME Mouse!Init PROVE MouseInv
  OBVIOUS
<1>1. presses \in Seq(Press) /\ <<>> \in Seq(DOMAIN presses)
  BY DEF Mouse!Init
<1>2. MouseTypes
  BY <1>1, LayoutsOfElements DEF Mouse!Init, MouseTypes
<1> QED
  BY <1>2 DEF Mouse!Init, MouseInv

LEMMA HoveredElements ==
  ASSUME MouseTypes, NEW position
  PROVE  Mouse!Hovered(position) \subseteq Element /\ Mouse!Hovered(position) \subseteq DOMAIN laidOut
BY DEF MouseTypes, Mouse!Hovered, Mouse!Under

LEMMA ForemostIsOne ==
  ASSUME NEW S \in SUBSET Element, S # {}
  PROVE  Mouse!Foremost(S) \in S
<1>0. IsFiniteSet(Element) /\ Index \in [Element -> Nat]
  BY MouseAssumption DEF MouseAssumption, Mouse!MouseAssumption, Mouse!IsFiniteSet, IsFiniteSet
<1>1. IsFiniteSet(Element) /\ \A e \in Element : Index[e] \in Int
  BY <1>0
<1>2. IsFiniteSet(S) /\ \A e \in S : Index[e] \in Int
  BY <1>1, FS_Subset
<1>3. \E e \in S : \A f \in S : Index[f] <= Index[e]
  BY <1>2, Heaviest
<1> QED
  BY <1>3 DEF Mouse!Foremost

\* Presses that only gain what e has no part in stay whole for e.
LEMMA StaysWhole ==
  ASSUME NEW e, NEW n, Whole(e, n), told'[e] = told[e],
         presses'[n].over = presses[n].over, presses'[n].button = presses[n].button,
         e \notin presses'[n].spoilt, e \notin presses'[n].dragged
  PROVE  Whole(e, n)'
BY DEF Whole

LEMMA DownStep ==
  ASSUME MouseInv, NEW button \in Mouse!Button, NEW position \in Position, NEW stop,
         Mouse!MouseDown(button, position, stop)
  PROVE  MouseInv'
<1> DEFINE over == Mouse!Hovered(position)
           hit == {e \in over \cap Mouse!Listening \cap Mouse!InBubble(stop) :
                     button = "left" \/ e \in AuxClickable}
           press == [button |-> button, at |-> position, over |-> over,
                     released |-> {}, spoilt |-> {}, dragged |-> {}]
<1>0. PICK n : n = Len(presses) + 1
  OBVIOUS
<1>1. /\ presses' = Append(presses, press) /\ Len(presses') = n
      /\ pendingDown' = [e \in Element |-> IF e \in hit THEN n ELSE pendingDown[e]]
      /\ mouseRefreshing' = (mouseRefreshing \/ hit # {})
      /\ laidOut' = laidOut /\ captured' = captured /\ dragListener' = dragListener
      /\ told' = told /\ releasedOver' = releasedOver
  BY <1>0 DEF Mouse!MouseDown, MouseInv, MouseTypes
<1>2. press \in Press /\ hit \subseteq over /\ over \subseteq Element
  BY HoveredElements DEF Press, MouseInv
<1>3. /\ presses' \in Seq(Press) /\ DOMAIN presses' = DOMAIN presses \cup {n} /\ n \notin DOMAIN presses
      /\ presses'[n] = press /\ \A k \in DOMAIN presses : presses'[k] = presses[k]
      /\ n \in Nat
  <2> HIDE DEF press
  <2> QED
    BY <1>0, <1>1, <1>2 DEF MouseInv, MouseTypes
<1>4. MouseTypes'
  <2>1. told' \in [Element -> Seq(DOMAIN presses')]
    BY <1>1, <1>3, SeqMonotonic DEF MouseInv, MouseTypes
  <2> HIDE DEF hit
  <2> QED
    BY <2>1, <1>1, <1>3 DEF MouseInv, MouseTypes
<1>5. \A e \in Element : \A k \in DOMAIN presses : Whole(e, k) => Whole(e, k)'
  BY <1>1, <1>3 DEF Whole
<1>6. \A e \in Element : e \in hit => Whole(e, n)'
  <2> TAKE e \in Element
  <2>1. \A k \in DOMAIN told[e] : told[e][k] # n
    BY <1>3 DEF MouseInv, MouseTypes
  <2> QED
    BY <2>1, <1>1, <1>2, <1>3 DEF Whole
<1>7. \A e \in Element : pendingDown'[e] # NoPress => Whole(e, pendingDown[e])'
  <2> TAKE e \in Element
  <2> HIDE DEF hit
  <2>1. CASE e \in hit
    BY <2>1, <1>1, <1>6
  <2>2. CASE e \notin hit
    BY <2>2, <1>1, <1>5 DEF MouseInv, MouseTypes
  <2> QED
    BY <2>1, <2>2
<1>8. \A e \in Element : captured'[e] # NoPress =>
        /\ Whole(e, captured[e])'
        /\ e \in releasedOver' /\ mouseRefreshing' /\ captured'[e] # pendingDown'[e]
  <2> HIDE DEF hit
  <2> QED
    BY <1>1, <1>3, <1>5 DEF MouseInv, MouseTypes
<1> QED
  BY <1>4, <1>7, <1>8 DEF MouseInv

\* The drag that begins with a press spoils it for the element that is dragged alone.
LEMMA MoveStep ==
  ASSUME MouseInv, NEW position \in Position, NEW stop, Mouse!MouseMove(position, stop)
  PROVE  MouseInv'
<1> DEFINE moved == {e \in Mouse!InBubble(stop) \cap dragListener :
                       pendingDown[e] # NoPress /\ presses[pendingDown[e]].at # position}
           startable == {e \in moved : presses[pendingDown[e]].button = "left"}
           s == Mouse!Foremost(startable)
           started == IF startable = {} THEN {} ELSE {s}
<1>1. /\ laidOut' = laidOut /\ captured' = captured /\ told' = told /\ releasedOver' = releasedOver
      /\ mouseRefreshing' = (mouseRefreshing \/ activeDrag' # NoDrag)
  BY Zenon DEF Mouse!MouseMove
<1>2. CASE pendingDown' = pendingDown /\ presses' = presses /\ dragListener' \subseteq dragListener
  <2>1. MouseTypes'
    BY <1>1, <1>2 DEF MouseInv, MouseTypes
  <2>2. \A e, k : Whole(e, k)' <=> Whole(e, k)
    BY <1>1, <1>2 DEF Whole
  <2> QED
    BY <1>1, <1>2, <2>1, <2>2 DEF MouseInv, MouseTypes
<1>3. CASE /\ startable # {}
           /\ dragListener' \subseteq dragListener
           /\ pendingDown' = [e \in Element |-> IF e = s THEN NoPress ELSE pendingDown[e]]
           /\ presses' = [presses EXCEPT ![pendingDown[s]].dragged = @ \cup {s}]
  <2> DEFINE n == pendingDown[s]
  <2>1. /\ s \in Element /\ n \in DOMAIN presses /\ n # NoPress
        /\ \A e \in Element : pendingDown[e] \in DOMAIN presses \/ pendingDown[e] = NoPress
    <3>1. startable \subseteq Element /\ s \in startable
      BY <1>3, ForemostIsOne, Zenon DEF MouseInv, MouseTypes
    <3> QED
      BY <3>1, SMTT(40) DEF MouseInv, MouseTypes
  <2> HIDE DEF s, startable, n
  <2>2. /\ presses' \in Seq(Press) /\ DOMAIN presses' = DOMAIN presses
        /\ presses'[n].dragged = presses[n].dragged \cup {s}
        /\ \A k \in DOMAIN presses :
             /\ presses'[k].over = presses[k].over /\ presses'[k].button = presses[k].button
             /\ presses'[k].spoilt = presses[k].spoilt
             /\ k # n => presses'[k] = presses[k]
    <3>1. presses[n] \in Press /\ presses' = [presses EXCEPT ![n].dragged = @ \cup {s}]
      BY <1>3, <2>1 DEF MouseInv, MouseTypes, n
    <3>2. [presses[n] EXCEPT !.dragged = @ \cup {s}] \in Press
      BY <2>1, <3>1 DEF Press
    <3>3. presses' \in Seq(Press) /\ DOMAIN presses' = DOMAIN presses
      BY <2>1, <3>1, <3>2 DEF MouseInv, MouseTypes
    <3>4. /\ presses'[n] = [presses[n] EXCEPT !.dragged = @ \cup {s}]
          /\ \A k \in DOMAIN presses : k # n => presses'[k] = presses[k]
      BY <2>1, <3>1
    <3> QED
      BY <2>1, <3>1, <3>3, <3>4 DEF Press
  <2>3. MouseTypes'
    BY <1>1, <1>3, <2>2 DEF MouseInv, MouseTypes
  <2>4. \A e \in Element, k \in DOMAIN presses : Whole(e, k) /\ (e # s \/ k # n) => Whole(e, k)'
    <3> SUFFICES ASSUME NEW e \in Element, NEW k \in DOMAIN presses, Whole(e, k), e # s \/ k # n
                 PROVE  Whole(e, k)'
      OBVIOUS
    <3>1. e \notin presses'[k].dragged
      BY <2>2 DEF Whole
    <3> QED
      BY <1>1, <2>2, <3>1 DEF Whole
  <2>5. \A e \in Element : pendingDown'[e] # NoPress =>
          e # s /\ pendingDown'[e] = pendingDown[e] /\ pendingDown[e] \in DOMAIN presses
    BY <1>3, <2>1
  <2>6. \A e \in Element : pendingDown'[e] # NoPress => Whole(e, pendingDown[e])'
    BY <2>4, <2>5 DEF MouseInv
  <2>7. ASSUME NEW e \in Element, captured'[e] # NoPress
        PROVE  /\ Whole(e, captured[e])'
               /\ e \in releasedOver' /\ mouseRefreshing' /\ captured'[e] # pendingDown'[e]
    <3>1. /\ captured[e] \in DOMAIN presses /\ Whole(e, captured[e]) /\ e \in releasedOver
          /\ mouseRefreshing /\ captured[e] # pendingDown[e] /\ captured'[e] = captured[e]
      BY <1>1, <2>7 DEF MouseInv, MouseTypes
    <3>2. e # s \/ captured[e] # n
      BY <3>1 DEF n
    <3> QED
      BY <1>1, <2>4, <2>5, <2>7, <3>1, <3>2
  <2> QED
    BY <2>3, <2>6, <2>7, SMTT(40) DEF MouseInv
<1>4. CASE startable = {} /\ activeDrag = NoDrag
  <2>1. /\ pendingDown' = [e \in Element |-> pendingDown[e]] /\ presses' = presses
        /\ dragListener' \subseteq dragListener
    BY <1>4, ZenonT(40) DEF Mouse!MouseMove
  <2> QED
    BY <1>2, <2>1, SMTT(40) DEF MouseInv, MouseTypes
<1>5. CASE startable # {} /\ activeDrag = NoDrag
  BY <1>3, <1>5, ZenonT(40) DEF Mouse!MouseMove
<1>6. CASE activeDrag # NoDrag
  BY <1>2, <1>6 DEF Mouse!MouseMove
<1> QED
  BY <1>4, <1>5, <1>6, SMTT(40)

\* What a release leaves: the presses that it comes to are captured by what is under it, and
\* spoilt for the others.
LEMMA UpStep ==
  ASSUME MouseInv, NEW position \in Position, NEW stop, NEW accepted \in BOOLEAN,
         Mouse!MouseUp(position, stop, accepted)
  PROVE  MouseInv' /\ Mouse!KeepsClicks
<1> DEFINE over == Mouse!Hovered(position)
           seen == {e \in Mouse!Listening \cap Mouse!InCapture(stop) : pendingDown[e] # NoPress}
           taken == Mouse!Captured(seen, over)
           targets == Mouse!Targets(over, stop)
           dropped == accepted /\ targets # {}
           clicked == {e \in Mouse!Listening \cap Mouse!InBubble(stop) :
                         /\ taken[e] # NoPress
                         /\ dropped => Index[e] >= Index[Mouse!Foremost(targets)]}
           first(n) == {e \in seen \ presses[n].released : pendingDown[e] = n}
<1>1. /\ pendingDown' = Mouse!Cleared(seen, over)
      /\ captured' = [e \in Element |-> IF e \in clicked THEN NoPress ELSE taken[e]]
      /\ told' = [e \in Element |-> IF e \in clicked THEN Append(told[e], taken[e]) ELSE told[e]]
      /\ mouseRefreshing' = (mouseRefreshing \/ seen # {} \/ dropped \/ (activeDrag # NoDrag /\ targets = {}))
      /\ releasedOver' = releasedOver \cup over
      /\ presses' = [n \in DOMAIN presses |->
                       [presses[n] EXCEPT !.released = @ \cup first(n), !.spoilt = @ \cup (first(n) \ over)]]
      /\ laidOut' = laidOut /\ dragListener' = dragListener
  BY Zenon DEF Mouse!MouseUp
<1>2. Mouse!Listening \subseteq Element /\ seen \subseteq Element /\ over \subseteq Element
      /\ clicked \subseteq Element /\ \A e \in clicked : taken[e] # NoPress
  BY HoveredElements, SMTT(40) DEF Mouse!Listening, MouseInv, MouseTypes
<1>3. /\ \A e \in Element : taken[e] = IF e \in seen \cap over THEN pendingDown[e] ELSE captured[e]
      /\ \A e \in Element : pendingDown'[e] = IF e \in seen THEN NoPress ELSE pendingDown[e]
      /\ pendingDown' \in [Element -> {NoPress} \cup DOMAIN presses]
      /\ taken \in [Element -> {NoPress} \cup DOMAIN presses]
      /\ \A e \in seen : pendingDown[e] # NoPress
      /\ \A n : \A e \in first(n) : e \in seen /\ pendingDown[e] = n
  <2> HIDE DEF over
  <2> QED
    BY <1>1, <1>2, Zenon DEF Mouse!Captured, Mouse!Cleared, MouseInv, MouseTypes
<1> HIDE DEF over, seen, taken, targets, dropped, clicked, first
<1>4. /\ DOMAIN presses' = DOMAIN presses
      /\ \A n \in DOMAIN presses :
           /\ presses'[n] \in Press
           /\ presses'[n].over = presses[n].over /\ presses'[n].button = presses[n].button
           /\ presses'[n].spoilt = presses[n].spoilt \cup (first(n) \ over)
           /\ presses'[n].dragged = presses[n].dragged
  <2>1. \A n : first(n) \subseteq Element
    BY <1>2, <1>3
  <2>2. \A n \in DOMAIN presses : presses[n] \in Press
    BY DEF MouseInv, MouseTypes
  <2> QED
    BY <1>1, <2>1, <2>2, Zenon DEF Press
<1>5. presses' \in Seq(Press)
  <2>1. Len(presses) \in Nat /\ DOMAIN presses = 1..Len(presses)
    BY SMTT(40) DEF MouseInv, MouseTypes
  <2>2. presses' \in [1..Len(presses) -> Press]
    BY <1>1, <1>4, <2>1, ZenonT(40)
  <2> QED
    BY <2>1, <2>2, IsASeq
<1>6. MouseTypes'
  <2>1. told' \in [Element -> Seq(DOMAIN presses')]
    <3>1. \A e \in Element : told[e] \in Seq(DOMAIN presses)
      BY DEF MouseInv, MouseTypes
    <3>2. \A e \in Element : e \in clicked => taken[e] \in DOMAIN presses
      BY <1>2, <1>3
    <3>3. \A e \in Element : e \in clicked => Append(told[e], taken[e]) \in Seq(DOMAIN presses)
      BY <3>1, <3>2, SMTT(40)
    <3> QED
      BY <1>1, <1>4, <3>1, <3>3, Zenon
  <2>2. captured' \in [Element -> {NoPress} \cup DOMAIN presses']
    BY <1>1, <1>3, <1>4, Zenon
  <2>3. mouseRefreshing' \in BOOLEAN
    BY <1>1, Zenon DEF MouseInv, MouseTypes
  <2> QED
    BY <1>1, <1>3, <1>4, <1>5, <2>1, <2>2, <2>3, ZenonT(40) DEF MouseInv, MouseTypes
\* What was pending or captured and is taken now was not spoilt, and not told of before.
<1>7. \A e \in Element : taken[e] # NoPress =>
        /\ taken[e] \in DOMAIN presses /\ Whole(e, taken[e]) /\ e \notin first(taken[e]) \ over
        /\ e \in releasedOver' /\ mouseRefreshing' /\ taken[e] # pendingDown'[e]
  <2> SUFFICES ASSUME NEW e \in Element, taken[e] # NoPress
               PROVE  /\ taken[e] \in DOMAIN presses /\ Whole(e, taken[e]) /\ e \notin first(taken[e]) \ over
                      /\ e \in releasedOver' /\ mouseRefreshing' /\ taken[e] # pendingDown'[e]
    OBVIOUS
  <2>1. CASE e \in seen \cap over
    BY <2>1, <1>1, <1>3, Zenon DEF MouseInv
  <2>2. CASE e \notin seen \cap over
    <3>1. /\ taken[e] = captured[e] /\ Whole(e, taken[e]) /\ e \in releasedOver /\ mouseRefreshing
          /\ taken[e] # pendingDown[e]
      BY <2>2, <1>3 DEF MouseInv
    <3>2. e \notin first(taken[e])
      BY <3>1, <1>3
    <3> QED
      BY <3>1, <3>2, <1>1, <1>3, Zenon
  <2> QED
    BY <2>1, <2>2
<1>8. ASSUME NEW e \in Element, NEW n \in DOMAIN presses, Whole(e, n), e \notin first(n) \ over,
             e \notin clicked \/ taken[e] # n
      PROVE  Whole(e, n)'
  <2>1. \A k \in DOMAIN told'[e] : told'[e][k] # n
    <3>1. CASE e \in clicked
      <4>1. told'[e] = Append(told[e], taken[e]) /\ told[e] \in Seq(DOMAIN presses)
        BY <3>1, <1>1, Zenon DEF MouseInv, MouseTypes
      <4> QED
        BY <4>1, <3>1, <1>8 DEF Whole
    <3>2. CASE e \notin clicked
      BY <3>2, <1>1, <1>8, Zenon DEF Whole
    <3> QED
      BY <3>1, <3>2
  <2> QED
    BY <2>1, <1>4, <1>8 DEF Whole
<1>9. ASSUME NEW e \in Element, pendingDown'[e] # NoPress
      PROVE  Whole(e, pendingDown[e])'
  <2>1. /\ e \notin seen /\ pendingDown'[e] = pendingDown[e] /\ pendingDown[e] \in DOMAIN presses
        /\ Whole(e, pendingDown[e])
    BY <1>3, <1>9 DEF MouseInv, MouseTypes
  <2>2. e \notin first(pendingDown[e]) /\ (e \notin clicked \/ taken[e] # pendingDown[e])
    BY <1>2, <1>3, <1>7, <2>1
  <2> QED
    BY <1>8, <2>1, <2>2
<1>10. ASSUME NEW e \in Element, captured'[e] # NoPress
       PROVE  /\ Whole(e, captured[e])'
              /\ e \in releasedOver' /\ mouseRefreshing' /\ captured'[e] # pendingDown'[e]
  <2>1. e \notin clicked /\ captured'[e] = taken[e]
    BY <1>1, <1>10, Zenon
  <2> QED
    BY <1>7, <1>8, <1>10, <2>1, SMTT(40)
<1>11. MouseInv'
  BY <1>6, <1>9, <1>10 DEF MouseInv
<1>12. Mouse!KeepsClicks
  <2> SUFFICES ASSUME NEW e \in Element, told'[e] # told[e] PROVE Mouse!TellsWhole(e)
    BY DEF Mouse!KeepsClicks
  <2>1. e \in clicked /\ told'[e] = Append(told[e], taken[e]) /\ told[e] \in Seq(DOMAIN presses)
    BY <1>1, Zenon DEF MouseInv, MouseTypes
  <2>2. Mouse!Last(told'[e]) = taken[e]
    BY <2>1, <1>3, <1>7, <1>2 DEF Mouse!Last
  <2>3. /\ Whole(e, taken[e]) /\ e \in releasedOver'
    BY <1>2, <1>7, <2>1
  <2> QED
    BY <2>1, <2>2, <2>3 DEF Mouse!TellsWhole, Whole, Mouse!Range
<1> QED
  BY <1>11, <1>12

\* A frame keeps captured presses in views that it reuses only: after a press was captured
\* there are none.
LEMMA FrameStep ==
  ASSUME MouseInv, NEW layout \in Layouts, NEW reused \in SUBSET Element, Mouse!Frame(layout, reused)
  PROVE  MouseInv'
<1>1. /\ mouseRefreshing => reused = {}
      /\ laidOut' = layout /\ mouseRefreshing' = FALSE
      /\ captured' = [e \in Element |-> IF e \in reused THEN captured[e] ELSE NoPress]
      /\ dragListener' \subseteq Element
      /\ presses' = presses /\ told' = told
  BY LayoutsOfElements DEF Mouse!Frame
<1>2. pendingDown' = [e \in Element |-> IF e \in DOMAIN layout THEN pendingDown[e] ELSE NoPress]
  BY DEF Mouse!Frame, Mouse!StateKept
<1>3. \A e \in Element : captured'[e] = NoPress
  BY <1>1 DEF MouseInv
<1>4. MouseTypes'
  <2>1. pendingDown' \in [Element -> {NoPress} \cup DOMAIN presses]
    BY <1>2 DEF MouseInv, MouseTypes
  <2>2. captured' \in [Element -> {NoPress} \cup DOMAIN presses]
    BY <1>1 DEF MouseInv, MouseTypes
  <2> QED
    BY <1>1, <2>1, <2>2 DEF MouseInv, MouseTypes
<1>5. \A e \in Element : pendingDown'[e] # NoPress => Whole(e, pendingDown[e])'
  <2> SUFFICES ASSUME NEW e \in Element, pendingDown'[e] # NoPress PROVE Whole(e, pendingDown[e])'
    OBVIOUS
  <2>1. pendingDown'[e] = pendingDown[e] /\ Whole(e, pendingDown[e])
    BY <1>2 DEF MouseInv
  <2> QED
    BY <1>1, <2>1 DEF Whole
<1> QED
  BY <1>3, <1>4, <1>5 DEF MouseInv

\* What only changes the drag, or asks for a refresh.
LEMMA DragStep ==
  ASSUME MouseInv, laidOut' = laidOut, pendingDown' = pendingDown, captured' = captured,
         dragListener' = dragListener, presses' = presses, told' = told, releasedOver' = releasedOver,
         mouseRefreshing' = mouseRefreshing \/ mouseRefreshing' = TRUE
  PROVE  MouseInv'
BY DEF MouseInv, MouseTypes, Whole

LEMMA MouseStep ==
  MouseInv /\ [Mouse!Next]_mouseVars => MouseInv' /\ (Mouse!KeepsClicks \/ told' = told)
<1> SUFFICES ASSUME MouseInv, [Mouse!Next]_mouseVars
             PROVE  MouseInv' /\ (Mouse!KeepsClicks \/ told' = told)
  OBVIOUS
<1>1. ASSUME NEW position \in Position, NEW stop \in Mouse!Stop, NEW button \in Mouse!Button,
             Mouse!MouseDown(button, position, stop)
      PROVE  MouseInv' /\ told' = told
  BY <1>1, DownStep, SMTT(40) DEF Mouse!MouseDown
<1>2. ASSUME NEW position \in Position, NEW stop \in Mouse!Stop, Mouse!MouseMove(position, stop)
      PROVE  MouseInv' /\ told' = told
  BY <1>2, MoveStep, Zenon DEF Mouse!MouseMove
<1>3. ASSUME NEW position \in Position, NEW stop \in Mouse!Stop, NEW accepted \in BOOLEAN,
             Mouse!MouseUp(position, stop, accepted)
      PROVE  MouseInv' /\ Mouse!KeepsClicks
  BY <1>3, UpStep
<1>4. CASE Mouse!FilesEntered
  BY <1>4, DragStep DEF Mouse!FilesEntered
<1>5. CASE Mouse!FilesExited
  BY <1>5, DragStep DEF Mouse!FilesExited
<1>6. CASE Mouse!StopActiveDrag
  BY <1>6, DragStep DEF Mouse!StopActiveDrag
<1>7. ASSUME NEW layout \in Layouts, NEW reused \in SUBSET Element, Mouse!Frame(layout, reused)
      PROVE  MouseInv' /\ told' = told
  BY <1>7, FrameStep DEF Mouse!Frame
<1>8. CASE UNCHANGED mouseVars
  BY <1>8, DragStep DEF mouseVars
<1> QED
  BY <1>1, <1>2, <1>3, <1>4, <1>5, <1>6, <1>7, <1>8
  DEF Mouse!Next, Mouse!FilesEntered, Mouse!FilesExited, Mouse!StopActiveDrag, mouseVars

MouseSafe == part = "mouse" => MouseInv

LEMMA MouseInductive == Spec => []MouseSafe
<1>1. Init => MouseSafe
  BY MouseInit DEF Init, MouseSafe
<1>2. MouseSafe /\ [Next]_vars => MouseSafe'
  BY MouseStep, StepOfPart DEF MouseSafe
<1> QED
  BY <1>1, <1>2, PTL DEF Spec

(* Whatever listeners stop the events, and whatever frames come between the press and the
   release: an element is told at most one click of a press that was over it, that began no
   drag and that no earlier release came to while it was not under it (the mouse listeners of
   div.rs). *)
THEOREM ClicksWhole == Spec => ClicksAreWhole
<1>1. MouseSafe /\ [Next]_vars => [part = "mouse" => Mouse!KeepsClicks]_vars
  <2> SUFFICES ASSUME MouseSafe, [Next]_vars, part = "mouse" PROVE Mouse!KeepsClicks
    OBVIOUS
  <2>1. Mouse!KeepsClicks \/ told' = told
    BY MouseStep, StepOfPart DEF MouseSafe
  <2> QED
    BY <2>1 DEF Mouse!KeepsClicks
<1> QED
  BY <1>1, MouseInductive, PTL DEF Spec, ClicksAreWhole
=============================================================================
