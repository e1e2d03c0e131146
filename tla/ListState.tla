----------------------------- MODULE ListState -----------------------------
(* The scroll position of a list and the items it has measured (list.rs).
   Pixels are whole numbers, and the client keeps its side: heights change only
   with remeasure or the width of the list. Left out: padding, lists that infer
   their size or measure all items, focused items, which are rendered off screen,
   too, and the height a scrollbar keeps while it is dragged. *)
EXTENDS Integers, FiniteSetsExt, SequencesExt

CONSTANTS
  Item,
  Metrics,         \* fonts and widths
  Heights,         \* of the items, by metrics
  View,            \* the height of the list
  Overdraw,
  Alignments,
  Deltas,          \* of scroll events
  NoTop, NoPending, NoFrame,
  MaxCalls,        \* bound: what happens to the list between two frames
  MaxOffset        \* bound: how far scroll_by and scroll_to leave an item behind

VARIABLES
  alignment, metrics,
  items,           \* [id, measured]
  top,             \* logical_scroll_top: [ix, off]
  reset,
  pending,         \* pending_scroll: [ix, num, den]
  painted,         \* what the last frame's scroll listener captured: [top, delta], and
                   \* history: the last item shown, and whether the list is still the same
  calls            \* since the last frame

listVars == <<alignment, metrics, items, top, reset, pending, painted, calls>>

ListAssumption ==
  /\ Heights \in [Metrics -> [Item -> Nat \ {0}]]
  /\ View \in Nat \ {0} /\ Overdraw \in Nat /\ MaxOffset \in Nat
  /\ Alignments \subseteq {"top", "bottom"} /\ Deltas \subseteq Int \ {0} /\ MaxCalls \in Nat

Offset == [ix : Nat, off : Int]

TypeOK ==
  /\ alignment \in Alignments /\ metrics \in Metrics
  /\ items \in Seq([id : Item, measured : BOOLEAN])
  /\ top \in Offset \cup {NoTop} /\ (top # NoTop => top.ix <= Len(items))
  /\ reset \in BOOLEAN
  /\ pending \in [ix : Nat, num : Nat, den : Nat \ {0}] \cup {NoPending}
  /\ painted = NoFrame \/ (painted.top \in Offset /\ painted.delta \in Int)
  /\ calls \in 0..MaxCalls

Fresh(ids) == [n \in DOMAIN ids |-> [id |-> ids[n], measured |-> FALSE]]
Unmeasured(seq) == [n \in DOMAIN seq |-> [seq[n] EXCEPT !.measured = FALSE]]

Init ==
  /\ alignment \in Alignments /\ metrics \in Metrics
  /\ items \in {Fresh(ids) : ids \in {s \in SeqOf(Item, Cardinality(Item)) : IsInjective(s)}}
  /\ top = NoTop /\ pending = NoPending /\ painted = NoFrame
  /\ reset = FALSE /\ calls = 0
-----------------------------------------------------------------------------
Count == Len(items)
Ids == [n \in DOMAIN items |-> items[n].id]
Height(m, n) == Heights[m][items[n].id]

\* The height of those of the first n items that are in some.
Sum(m, n, some) ==
  LET Upto[i \in 0..n] ==
        IF i = 0 THEN 0 ELSE IF i \in some THEN Upto[i - 1] + Height(m, i) ELSE Upto[i - 1]
  IN  Upto[n]

Total(m, first, last) == Sum(m, Max({0, last}), first..last)

\* The summaries of the first n items: those not measured have no height.
Before(n) == Sum(metrics, n, {i \in 1..n : items[i].measured})

\* Where a cursor stops that seeks a height: to the right of all that ends there,
\* or to the left of the item that does.
SeekRight(y) == Max({n \in 0..Count : Before(n) <= y})
SeekLeft(y) == Max({0} \cup {n \in 1..Count : Before(n) < y})

Clamp(y, high) == Max({0, Min({y, high})})
ScrollMax == Max({0, Before(Count) - View})
Start(ix) == [ix |-> ix, off |-> 0]

\* logical_scroll_top()
Logical(t) == IF t # NoTop THEN t ELSE Start(IF alignment = "top" THEN 0 ELSE Count)
LogicalTop == Logical(top)

PixelTop(t) == Before(Min({t.ix, Count})) + t.off
At(y) == [ix |-> SeekRight(y), off |-> y - Before(SeekRight(y))]

\* The end of scroll and of set_offset_from_scrollbar.
ScrollToPixel(y) ==
  top' = IF alignment = "bottom" /\ y = ScrollMax THEN NoTop ELSE At(y)

Stale == IF painted = NoFrame THEN NoFrame ELSE [painted EXCEPT !.last = 0, !.same = FALSE]
-----------------------------------------------------------------------------
(* What the owner of the list does between frames *)

\* Mutant: a scroll top right behind the replaced items stays.
SplicedTopLate(from, to, new) ==
  IF top = NoTop THEN top
  ELSE IF top.ix \in from..(to - 1) THEN Start(from)
  ELSE IF to < top.ix THEN [top EXCEPT !.ix = @ - (to - from) + Len(new)]
  ELSE top

SplicedTop(from, to, new) ==
  IF top = NoTop THEN top
  ELSE IF top.ix \in from..(to - 1) THEN Start(from)
  ELSE IF to <= top.ix THEN [top EXCEPT !.ix = @ - (to - from) + Len(new)]
  ELSE top

Splice(from, to, new) ==
  /\ items' = SubSeq(items, 1, from) \o Fresh(new) \o SubSeq(items, to + 1, Count)
  /\ top' = SplicedTop(from, to, new)
  /\ painted' = Stale
  /\ UNCHANGED <<alignment, metrics, reset, pending>>

\* reset: what is pending stays.
Reset(new) ==
  /\ reset' = TRUE /\ top' = NoTop
  /\ items' = Fresh(new)
  /\ painted' = Stale
  /\ UNCHANGED <<alignment, metrics, pending>>

Remeasure(m) ==
  /\ metrics' = m
  /\ items' = Unmeasured(items)
  /\ pending' = IF top # NoTop /\ top.ix < Count /\ items[top.ix + 1].measured
                THEN LET h == Height(metrics, top.ix + 1)
                     IN  [ix |-> top.ix, num |-> Clamp(top.off, h), den |-> h]
                ELSE pending
  /\ painted' = Stale
  /\ UNCHANGED <<alignment, top, reset>>

ScrollBy(distance) ==
  /\ LET y == Max({0, PixelTop(LogicalTop) + distance})
     IN  y <= Before(Count) + MaxOffset /\ top' = At(y)
  /\ UNCHANGED <<alignment, metrics, items, reset, pending, painted>>

ScrollTo(ix, off) ==
  /\ top' = IF ix >= Count THEN Start(Count) ELSE [ix |-> ix, off |-> off]
  /\ UNCHANGED <<alignment, metrics, items, reset, pending, painted>>

ScrollToRevealItem(ix) ==
  /\ LET t == LogicalTop
         goal == Max({0, Before(Min({ix + 1, Count})) - (IF painted = NoFrame THEN 0 ELSE View)})
         start == SeekLeft(goal)
     IN  top' = IF ix <= t.ix THEN Start(ix)
                ELSE IF start >= t.ix THEN [ix |-> start, off |-> goal - Before(start)]
                ELSE t
  /\ UNCHANGED <<alignment, metrics, items, reset, pending, painted>>

\* set_offset_from_scrollbar, clamped.
SetOffsetFromScrollbar(y) ==
  /\ painted # NoFrame
  /\ ScrollToPixel(y)
  /\ UNCHANGED <<alignment, metrics, items, reset, pending, painted>>

\* A scroll event goes to the listener of the last frame, which sums up what was
\* scrolled in one direction since, and starts from the top of that frame.
Scroll(delta) ==
  /\ painted # NoFrame
  /\ LET sum == IF painted.delta * delta > 0 THEN painted.delta + delta ELSE delta
     IN  /\ painted' = [painted EXCEPT !.delta = sum]
         /\ IF reset THEN UNCHANGED top
            ELSE ScrollToPixel(Clamp(PixelTop(painted.top) + sum, ScrollMax))
  /\ UNCHANGED <<alignment, metrics, items, reset, pending>>
-----------------------------------------------------------------------------
(* A frame *)

Below(m, t, n) == Total(m, t.ix + 1, n) - t.off

\* Downwards from t, items are laid out until the list and the overdraw are full.
LastDown(m, t) ==
  Min({Count} \cup {n \in (t.ix + 1)..Count : Below(m, t, n) >= View + Overdraw})

\* Mutant: no items above when those below do not fill the list.
FilledDownOnly(m, t, down) == t

\* The scroll top that fills the list when the items from t down to the last do not.
Filled(m, t, down) ==
  LET first == Max({1} \cup {n \in 1..(t.ix + 1) : Total(m, n, down) >= View})
      left == Total(m, first, down) - View
  IN  [ix |-> first - 1, off |-> IF alignment = "top" THEN Max({0, left}) ELSE left]

\* Mutant: the items above are not measured.
LeadOfTop(m, t) == t.ix + 1

\* The first item that is measured: the overdraw above the shown ones.
LeadOf(m, t) ==
  IF t.off >= Overdraw THEN t.ix + 1
  ELSE Max({1} \cup {n \in 1..(t.ix + 1) : t.off + Total(m, n, t.ix) >= Overdraw})

LastShown(m, t, down, end) ==
  Max({end.ix} \cup {n \in (end.ix + 1)..down : n <= t.ix + 1 \/ Below(m, t, n - 1) < View})

Arrange(m, t, down, gap, end, logical) ==
  [top |-> end, lead |-> LeadOf(m, end), down |-> down, last |-> LastShown(m, t, down, end),
   logical |-> IF ~gap THEN logical ELSE IF alignment = "top" THEN end ELSE NoTop]

Settle(m, t, down, logical) ==
  IF Below(m, t, down) < View
  THEN Arrange(m, t, down, TRUE, Filled(m, t, down), logical)
  ELSE Arrange(m, t, down, FALSE, t, logical)

\* layout_items from the scroll top was: the items behind top up to last are shown, those
\* from lead to down are measured. A pending fraction counts if it is of the first item.
LayoutItems(m, was, fraction) ==
  IF fraction # NoPending /\ fraction.ix = Logical(was).ix /\ fraction.ix < Count
  THEN LET t == [ix |-> fraction.ix, off |-> (fraction.num * Height(m, fraction.ix + 1)) \div fraction.den]
       IN  Settle(m, t, LastDown(m, t), t)
  ELSE Settle(m, Logical(was), LastDown(m, Logical(was)), was)

PendingAfter(was, fraction) == IF Logical(was).ix < Count THEN NoPending ELSE fraction

\* Where the list scrolls when row r of the shown item i asks to be seen; it is
\* at y.
Autoscrolled(m, i, r, y) ==
  LET room == View - (r + 1)
      start == Max({1} \cup {n \in 1..i : Total(m, n, i - 1) >= room})
  IN  IF y < 0 THEN [ix |-> i - 1, off |-> r]
      ELSE IF room <= 0 THEN [ix |-> i - 1, off |-> -room]
      ELSE [ix |-> start - 1, off |-> Max({0, Total(m, start, i - 1) - room})]

\* prepaint and paint; other metrics when the width has changed. What a layout
\* has measured that an autoscroll abandons stays so.
Paint(m, end, layouts, fraction) ==
  /\ items' = [n \in DOMAIN items |->
       [items[n] EXCEPT !.measured =
          \/ painted # NoFrame /\ m = metrics /\ @
          \/ \E k \in layouts : n \in k.lead..k.down]]
  /\ top' = end.logical /\ pending' = fraction
  /\ painted' = [top |-> end.top, delta |-> 0, last |-> end.last, same |-> TRUE]

RowTop(m, l, i, r) == Total(m, l.top.ix + 1, i - 1) - l.top.off + r

Frame(m) ==
  /\ metrics' = m /\ reset' = FALSE
  /\ \E l \in {LayoutItems(m, top, pending)} :
       \/ Paint(m, l, {l}, PendingAfter(top, pending))
       \/ \E i \in (l.top.ix + 1)..l.last : \E r \in 0..(Height(m, i) - 1) :
            /\ RowTop(m, l, i, r) \notin 0..(View - 1)
            /\ \E to \in {Autoscrolled(m, i, r, RowTop(m, l, i, r))},
                  left \in {PendingAfter(top, pending)} :
               \E again \in {LayoutItems(m, to, left)} :
                 Paint(m, again, {l, again}, PendingAfter(to, left))
  /\ UNCHANGED <<alignment>>

\* New items are others than those in the list.
News == SeqOf(Item \ Range(Ids), 1)

\* Something that happens between two frames.
Between == calls < MaxCalls /\ calls' = calls + 1

Call ==
  \/ \E from, to \in 0..Count : from <= to /\ \E new \in News : Splice(from, to, new)
  \/ \E new \in News : Reset(new)
  \/ \E m \in Metrics : Remeasure(m)
  \/ \E d \in Deltas : ScrollBy(d) \/ Scroll(d)
  \/ \E ix \in 0..(Count + 1), off \in 0..MaxOffset : ScrollTo(ix, off)
  \/ \E ix \in 0..Count : ScrollToRevealItem(ix)
  \/ \E y \in 0..ScrollMax : SetOffsetFromScrollbar(y)

Next ==
  \/ Between /\ Call
  \/ calls' = 0 /\ \E m \in Metrics : Frame(m)

Spec == Init /\ [][Next]_listVars
-----------------------------------------------------------------------------
AllShown == painted.top.ix = 0 /\ painted.last = Count
ShownEnd == Total(metrics, painted.top.ix + 1, painted.last) - painted.top.off

(* However the list was spliced, scrolled and measured before, a frame leaves no blank
   space in it, unless it shows all items. *)
FrameIsFilled ==
  painted # NoFrame /\ painted.same =>
    \/ painted.top.off >= 0 /\ ShownEnd >= View
    \/ AllShown /\ (alignment = "top" => painted.top.off = 0)

(* After a frame, a scroll event reaches whatever lies above or below what is shown, though
   the list knows the heights of few items only. Without overdraw it does not: what ends at an
   edge of the list hides that there is more. *)
CanScrollOn ==
  Overdraw > 0 /\ painted # NoFrame /\ painted.same =>
    /\ painted.last < Count \/ ShownEnd > View => PixelTop(painted.top) < ScrollMax
    /\ painted.top.ix > 0 \/ painted.top.off > 0 => PixelTop(painted.top) > 0

KeepsAnchor ==
  /\ Ids' # Ids
  /\ top # NoTop /\ top' # NoTop /\ top.ix < Count
  /\ Ids[top.ix + 1] \in Range(Ids')
  => top'.ix < Count' /\ Ids'[top'.ix + 1] = Ids[top.ix + 1] /\ top'.off = top.off

(* Items that come and go elsewhere do not move the item the list is scrolled to. *)
AnchorIsKept == [][KeepsAnchor]_listVars
=============================================================================
