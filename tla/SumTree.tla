------------------------------ MODULE SumTree ------------------------------
(* The sequence behind lists and tab stops: a B+ tree whose nodes sum up what is below
   them (sum_tree/mod.rs), and the cursors in it (cursor.rs). The summary is the most
   telling one, the sequence of the items that are summed up; counts, heights and keys
   are measured on it. *)
EXTENDS Integers, FiniteSetsExt, SequencesExt

CONSTANTS
  TreeBase,        \* TREE_BASE
  Item,            \* numbers, so that they can be sorted
  Height,          \* of the items, 0 as well
  Starts,          \* the contents to begin with
  MaxChanges       \* bound: changes of the tree

VARIABLES
  tree,
  content,         \* history: the sequence the tree stands for
  changes

treeVars == <<tree, content, changes>>

SumTreeAssumption ==
  /\ TreeBase \in Nat \ {0} /\ MaxChanges \in Nat
  /\ Item \subseteq Nat \ {0} /\ Height \in [Item -> Nat]
  /\ Starts \subseteq Seq(Item)

\* A node with the summary of each child and of all; the children of a leaf are items.
Node(height, summary, kids, sums) == [height |-> height, summary |-> summary, kids |-> kids, sums |-> sums]
Summed(height, kids, sums) == Node(height, FlattenSeq(sums), kids, sums)
Leaf(items) == Summed(0, items, [n \in DOMAIN items |-> <<items[n]>>])
Summaries(kids) == [n \in DOMAIN kids |-> kids[n].summary]
Parent(kids) == Summed(Head(kids).height + 1, kids, Summaries(kids))
EmptyTree == Leaf(<<>>)
IsLeaf(node) == node.height = 0
IsUnderflowing(node) == Len(node.kids) < TreeBase

\* from_iter: full nodes, but for the last of each level.
Chunks(s) == [n \in 1..((Len(s) + 2 * TreeBase - 1) \div (2 * TreeBase)) |->
                SubSeq(s, 2 * TreeBase * (n - 1) + 1, Min({2 * TreeBase * n, Len(s)}))]
RECURSIVE Rooted(_)
Rooted(nodes) ==
  IF Len(nodes) = 1 THEN Head(nodes)
  ELSE LET chunks == Chunks(nodes) IN Rooted([n \in DOMAIN chunks |-> Parent(chunks[n])])
FromIter(items) ==
  LET chunks == Chunks(items)
  IN  IF items = <<>> THEN EmptyTree ELSE Rooted([n \in DOMAIN chunks |-> Leaf(chunks[n])])
-----------------------------------------------------------------------------
(* append *)

\* One node, or two when there are too many children: then both are summed up again.
Parts(height, summary, kids, sums) ==
  LET n == Len(kids)
      mid == (n + (n % 2)) \div 2
  IN  IF n <= 2 * TreeBase THEN <<Node(height, summary, kids, sums)>>
      ELSE <<Summed(height, SubSeq(kids, 1, mid), SubSeq(sums, 1, mid)),
             Summed(height, SubSeq(kids, mid + 1, n), SubSeq(sums, mid + 1, n))>>

\* Mutant: the parent keeps the summary that the child had before.
PushedInto(node, other, parts) ==
  Parts(node.height, node.summary \o Last(parts).summary,
        Front(node.kids) \o parts, node.sums \o Tail(Summaries(parts)))

\* node, whose last child became parts when other was appended to it.
ReplacedLast(node, other, parts) ==
  Parts(node.height, node.summary \o other.summary,
        Front(node.kids) \o parts, Front(node.sums) \o Summaries(parts))

RECURSIVE PushTree(_, _)
PushTree(node, other) ==
  LET both == node.summary \o other.summary
  IN  CASE node.height = other.height ->
             Parts(node.height, both, node.kids \o other.kids, node.sums \o other.sums)
        [] node.height = other.height + 1 /\ ~IsUnderflowing(other) ->
             Parts(node.height, both, Append(node.kids, other), Append(node.sums, other.summary))
        [] OTHER -> ReplacedLast(node, other, PushTree(Last(node.kids), other))

\* append_large and merge_into_right: the large tree takes the small one in on its left
\* edge. Its two halves are the ones that a split would make.
RECURSIVE AppendLarge(_, _)
AppendLarge(small, large) ==
  LET both == small.summary \o large.summary
  IN  CASE small.height = large.height /\ ~IsUnderflowing(small) -> <<small, large>>
        [] small.height = large.height ->
             Parts(large.height, both, small.kids \o large.kids, small.sums \o large.sums)
        [] OTHER ->
             LET parts == AppendLarge(small, Head(large.kids))
             IN  Parts(large.height, both, parts \o Tail(large.kids), Summaries(parts) \o Tail(large.sums))

AppendTree(self, other) ==
  IF self = EmptyTree THEN other
  ELSE IF other = EmptyTree THEN self
  ELSE LET parts == IF self.height < other.height THEN AppendLarge(self, other) ELSE PushTree(self, other)
       IN  IF Len(parts) = 1 THEN Head(parts) ELSE Parent(parts)
-----------------------------------------------------------------------------
(* Cursors. A position is the summary of what is before it. A seek leaves the position of a
   leaf's entry behind; only those of its ancestors are ever read. *)

Enter(node, position) == [tree |-> node, index |-> 0, position |-> position]
NewCursor(root) ==
  [root |-> root, stack |-> <<>>, position |-> <<>>, didSeek |-> FALSE, atEnd |-> root = EmptyTree, passed |-> <<>>]

SumOfHeights(s) == FoldLeft(LAMBDA sum, i : sum + Height[i], 0, s)
Measure(by, s) ==
  CASE by = "count" -> Len(s)
    [] by = "height" -> SumOfHeights(s)
    [] by = "key" -> IF s = <<>> THEN 0 ELSE Last(s)

\* Seeking goes on behind what ends at this position.
GoesOn(target, position) ==
  \/ target.by = "end"
  \/ target.value > Measure(target.by, position)
  \/ target.value = Measure(target.by, position) /\ target.bias = "right"

Summary(sums, from, to) == FlattenSeq(SubSeq(sums, from, to))

\* The first child, from index on, that is not passed.
Stops(e, position, target) ==
  {n \in (e.index + 1)..Len(e.tree.sums) : ~GoesOn(target, position \o Summary(e.tree.sums, e.index + 1, n))}

\* Behind the child that was left.
Ascended(c) ==
  IF c.stack = <<>> THEN c
  ELSE [c EXCEPT !.stack[Len(c.stack)] = [@ EXCEPT !.index = @ + 1, !.position = c.position]]

\* seek_internal, with what it passes: whole subtrees, and the part of a leaf.
RECURSIVE SeekOn(_, _)
SeekOn(c, target) ==
  IF c.stack = <<>> THEN [c EXCEPT !.atEnd = TRUE]
  ELSE LET e == Last(c.stack)
           stops == Stops(e, c.position, target)
           n == IF stops = {} THEN Len(e.tree.kids) ELSE Min(stops) - 1
           position == c.position \o Summary(e.tree.sums, e.index + 1, n)
           gone == SubSeq(e.tree.kids, e.index + 1, n)
           here == [c EXCEPT !.stack = Front(@), !.position = position,
                             !.passed = @ \o (IF IsLeaf(e.tree) THEN <<Leaf(gone)>> ELSE gone)]
           at == Append(here.stack, [e EXCEPT !.index = n, !.position = position])
       IN  CASE stops = {} -> SeekOn(Ascended(here), target)
             [] IsLeaf(e.tree) ->
                  [here EXCEPT !.stack = Append(@, [e EXCEPT !.index = n]), !.atEnd = FALSE]
             [] OTHER -> SeekOn([here EXCEPT !.stack = Append(at, Enter(e.tree.kids[n + 1], position))], target)

SeekForward(c, target) ==
  SeekOn([c EXCEPT !.stack = IF c.didSeek THEN @ ELSE <<Enter(c.root, <<>>)>>,
                   !.didSeek = TRUE, !.passed = <<>>], target)
Seek(root, target) == SeekForward(NewCursor(root), target)
Sliced(c) == FoldLeft(AppendTree, EmptyTree, c.passed)

To(by, value, bias) == [by |-> by, value |-> value, bias |-> bias]
Suffix(c) == Sliced(SeekForward(c, [by |-> "end"]))

\* search_forward: to the next item that is sought, over what sums up none.
RECURSIVE Forward(_, _, _)
Forward(c, sought, descend) ==
  IF c.stack = <<>> THEN [c EXCEPT !.atEnd = TRUE]
  ELSE LET e == Last(c.stack)
           sums == e.tree.sums
           from == IF descend THEN e.index ELSE e.index + 1
           start == IF IsLeaf(e.tree) /\ ~descend THEN c.position \o sums[from] ELSE c.position
           hits == {n \in (from + 1)..Len(sums) : Range(sums[n]) \cap sought # {}}
           n == IF hits = {} THEN Len(sums) ELSE Min(hits) - 1
           position == start \o Summary(sums, from + 1, n)
           at == Append(Front(c.stack), [e EXCEPT !.index = n, !.position = position])
           here == [c EXCEPT !.stack = at, !.position = position]
       IN  CASE hits = {} -> Forward([here EXCEPT !.stack = Front(@)], sought, FALSE)
             [] IsLeaf(e.tree) -> here
             [] OTHER -> Forward([here EXCEPT !.stack = Append(@, Enter(e.tree.kids[n + 1], position))], sought, TRUE)

NextOf(c, sought) ==
  LET enters == c.stack = <<>> /\ ~c.atEnd
  IN  Forward([c EXCEPT !.stack = IF enters THEN <<Enter(c.root, <<>>)>> ELSE @, !.didSeek = TRUE], sought, enters)

\* Mutant: the position of the entry itself.
OfLast(stack) == Last(stack).position

\* Where the last entry's node begins.
Before(stack) == IF Len(stack) = 1 THEN <<>> ELSE Last(Front(stack)).position

RECURSIVE Backward(_, _)
Backward(c, descending) ==
  IF c.stack = <<>> THEN c
  ELSE LET e == Last(c.stack)
           before == Before(c.stack)
           n == IF descending THEN e.index ELSE e.index - 1
           position == before \o Summary(e.tree.sums, 1, n)
           at == Append(Front(c.stack), [e EXCEPT !.index = n, !.position = position])
           LastOf(node) == [Enter(node, <<>>) EXCEPT !.index = Len(node.kids) - 1]
       IN  CASE ~descending /\ e.index = 0 -> Backward([c EXCEPT !.stack = Front(@), !.position = before], FALSE)
             [] IsLeaf(e.tree) -> [c EXCEPT !.stack = at, !.position = position]
             [] OTHER -> Backward([c EXCEPT !.stack = Append(at, LastOf(e.tree.kids[n + 1])),
                                            !.position = position], TRUE)

\* search_backward, from the end of the tree when the cursor is there or was not used yet.
Prev(c) ==
  IF c.didSeek /\ ~c.atEnd THEN Backward(c, FALSE)
  ELSE LET root == [Enter(c.root, <<>>) EXCEPT !.index = Len(c.root.sums), !.position = c.root.summary]
       IN  Backward([c EXCEPT !.didSeek = TRUE, !.position = <<>>, !.atEnd = c.root = EmptyTree,
                              !.stack = IF c.root = EmptyTree THEN @ ELSE Append(@, root)], FALSE)

\* The items from the cursor's on: none, or one.
ItemAt(c) == IF c.stack = <<>> THEN <<>> ELSE <<Last(c.stack).tree.kids[Last(c.stack).index + 1]>>

\* find: where the item begins that seek would find.
RECURSIVE FindIn(_, _, _)
FindIn(node, position, target) ==
  LET stops == Stops(Enter(node, position), position, target)
      start == position \o Summary(node.sums, 1, Min(stops) - 1)
  IN  CASE stops = {} -> position \o node.summary
        [] IsLeaf(node) -> start
        [] OTHER -> FindIn(node.kids[Min(stops)], start, target)
-----------------------------------------------------------------------------
Init ==
  /\ content \in Starts
  /\ tree = FromIter(content)
  /\ changes = 0

Change(new, become) ==
  /\ changes < MaxChanges
  /\ changes' = changes + 1
  /\ content' = become
  /\ tree' = new

Push(item) == Change(AppendTree(tree, Leaf(<<item>>)), Append(content, item))

\* The splice of a list: slice, seek_forward, extend and suffix.
Splice(from, to, new) ==
  /\ from <= to /\ to <= Len(content)
  /\ LET left == Seek(tree, To("count", from, "right"))
         right == SeekForward(left, To("count", to, "right"))
     IN  Change(AppendTree(AppendTree(Sliced(left), FromIter(new)), Suffix(right)),
                SubSeq(content, 1, from) \o new \o SubSeq(content, to + 1, Len(content)))

\* A list that is reset begins with a new tree.
Reset(new) == new \in Starts /\ content' = new /\ tree' = FromIter(new) /\ changes' = 0

\* insert_or_replace keeps a sorted tree sorted.
InsertOrReplace(item) ==
  /\ \A m, n \in DOMAIN content : m < n => content[m] < content[n]
  /\ LET left == Seek(tree, To("key", item, "left"))
         right == IF ItemAt(left) = <<item>> THEN NextOf(left, Item) ELSE left
     IN  Change(AppendTree(AppendTree(Sliced(left), Leaf(<<item>>)), Suffix(right)),
                SelectSeq(content, LAMBDA i : i < item) \o <<item>> \o SelectSeq(content, LAMBDA i : i > item))
-----------------------------------------------------------------------------
TypeOK == content \in Seq(Item) /\ changes \in 0..MaxChanges /\ tree.height \in Nat

RECURSIVE Sound(_)
Sound(node) ==
  /\ Len(node.kids) \in 0..(2 * TreeBase)
  /\ IF IsLeaf(node) THEN node = Leaf(node.kids)
     ELSE /\ node = Parent(node.kids)
          /\ \A n \in DOMAIN node.kids : node.kids[n] # EmptyTree /\ Sound(node.kids[n])

(* However it came about by appending trees of different heights, and parts that are less
   than half full, the tree is balanced, no node is overfull or empty, every summary is
   up to date, and its items are those of the sequence it stands for, in order. *)
TreeIsWhole == Sound(tree) /\ tree.summary = content

StandsAt(c, n) ==
  /\ c.position = SubSeq(content, 1, n)
  /\ ItemAt(c) = SubSeq(content, n + 1, Min({n + 1, Len(content)}))

(* A cursor, and find, stop at the first item that reaches the target, whatever its height, and
   go on from there: to the neighbours, to the next item of those that are sought, and forward to
   another target, as one would in the sequence. *)
CursorsFind ==
  \A by \in {"count", "height"}, bias \in {"left", "right"}, sought \in {{i \in Item : Height[i] = 0}} :
    \A value \in {0, Measure(by, content) \div 2, Measure(by, content)} :
      LET target == To(by, value, bias)
          n == Max({m \in 0..Len(content) : m > 0 => GoesOn(target, SubSeq(content, 1, m))})
          after == {m \in (n + 2)..Len(content) : content[m] \in sought}
          more == Max({n, Min({Len(content), n + 3})})
      IN  \E c \in {Seek(tree, target)} :
            /\ StandsAt(c, n)
            /\ FindIn(tree, <<>>, target) = c.position
            /\ n < Len(content) => StandsAt(NextOf(c, Item), n + 1)
            /\ n > 0 => StandsAt(Prev(c), n - 1)
            /\ StandsAt(NextOf(c, sought), IF after = {} THEN Len(content) ELSE Min(after) - 1)
            /\ StandsAt(SeekForward(c, To("count", more, "right")), more)
            /\ Sliced(c).summary = c.position
=============================================================================
