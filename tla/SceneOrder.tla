----------------------------- MODULE SceneOrder -----------------------------
(* The order in which the primitives of a scene are drawn (scene.rs): an order from
   the tree of bounds (bounds_tree.rs), and batches of one kind. Bounds have one
   dimension here, which is all that intersections and unions need. *)
EXTENDS Integers, FiniteSetsExt, SequencesExt

CONSTANTS
  Kinds,           \* in the order of PrimitiveKind
  Tiles,           \* of sprites: [tile, texture]
  Sprite,
  NoTile,
  AllBounds,       \* [lo, hi], not empty
  MaxChildren,
  MaxPrimitives,   \* bound: primitives of a frame
  MaxLayers        \* bound: areas that get an order, more than primitives

VARIABLES
  nodes,           \* of the tree: [lo, hi, max, kids]; a leaf has no kids
  root, maxLeaf,   \* 0 if there is none
  layers,          \* layer_stack: [order], and history: the area it is the order of, and how
                   \* many primitives there were before
  prims            \* in the order of painting: [kind, tile, order], and the same history

sceneVars == <<nodes, root, maxLeaf, layers, prims>>

SceneAssumption ==
  /\ Kinds \in Seq(Range(Kinds)) /\ IsInjective(Kinds) /\ Sprite \subseteq Range(Kinds)
  /\ \A t \in Tiles : t.tile \in Int
  /\ AllBounds \subseteq [lo : Int, hi : Int] /\ \A b \in AllBounds : b.lo < b.hi
  /\ MaxChildren \in Nat \ {0, 1}

Leaf(n) == nodes[n].kids = <<>>
Areas == Quantify(DOMAIN nodes, Leaf)

TypeOK ==
  /\ \A n \in DOMAIN nodes :
       /\ nodes[n].max \in Nat \ {0} /\ nodes[n].lo < nodes[n].hi
       /\ ~Leaf(n) => /\ Len(nodes[n].kids) \in 2..MaxChildren
                      /\ nodes[Last(nodes[n].kids)].max = nodes[n].max
  /\ root \in 0..Len(nodes) /\ maxLeaf \in 0..Len(nodes)
  /\ Areas <= Len(prims) + MaxLayers
  /\ \A p \in Range(prims) : p.kind \in Range(Kinds) /\ p.order \in Nat \ {0}

Init ==
  /\ nodes = <<>> /\ root = 0 /\ maxLeaf = 0
  /\ layers = <<>> /\ prims = <<>>
-----------------------------------------------------------------------------
(* The tree *)

Intersects(a, b) == a.lo < b.hi /\ a.hi > b.lo
Union(a, b) == [lo |-> Min({a.lo, b.lo}), hi |-> Max({a.hi, b.hi})]
Cost(a, b) == Union(a, b).hi - Union(a, b).lo
Box(n) == [lo |-> nodes[n].lo, hi |-> nodes[n].hi]
Node(b, max, kids) == [lo |-> b.lo, hi |-> b.hi, max |-> max, kids |-> kids]

\* find_max_ordering: the stack of nodes to visit, and what was found. A child that is not
\* better is passed over when it is taken from the stack, and not when it is put there, too.
FindMaxOrdering(b) ==
  LET Search[at \in [stack : Seq(DOMAIN nodes), found : Nat]] ==
        IF at.stack = <<>> THEN at.found
        ELSE LET n == Last(at.stack)
                 rest == Front(at.stack)
             IN  IF nodes[n].max <= at.found \/ ~Intersects(b, Box(n)) THEN Search[[stack |-> rest, found |-> at.found]]
                 ELSE IF Leaf(n) THEN Search[[stack |-> rest, found |-> nodes[n].max]]
                 ELSE Search[[stack |-> rest \o nodes[n].kids, found |-> at.found]]
  IN  IF root = 0 THEN 0
      ELSE IF Intersects(b, Box(maxLeaf)) THEN nodes[maxLeaf].max
      ELSE Search[[stack |-> <<root>>, found |-> 0]]

\* The child that grows least by b.
Best(n, b) ==
  CHOOSE i \in DOMAIN nodes[n].kids :
    \A j \in DOMAIN nodes[n].kids :
      LET ci == Cost(b, Box(nodes[n].kids[i]))
          cj == Cost(b, Box(nodes[n].kids[j]))
      IN  ci < cj \/ (ci = cj /\ i <= j)

Pair(tree, old, new) == IF tree[new].max > tree[old].max THEN <<old, new>> ELSE <<new, old>>
SwapLast(kids, i) == [kids EXCEPT ![i] = Last(kids), ![Len(kids)] = kids[i]]

\* insert_leaf: down to the node above the best leaf, where the new leaf is added or
\* paired with it; all nodes on the path then hold b, and a child whose order is now the
\* highest goes last.
InsertLeaf(b, order) ==
  LET new == Len(nodes) + 1
      tree == Append(nodes, Node(b, order, <<>>))
      Down[n \in {m \in DOMAIN nodes : ~Leaf(m)}] ==
        LET child == nodes[n].kids[Best(n, b)]
        IN  IF Leaf(child) THEN <<n>> ELSE <<n>> \o Down[child]
      Raised(n) == nodes[n].max < order
      Above(n, kids) == Node(Union(Box(n), b), Max({nodes[n].max, order}), kids)
      Joined(old) == Append(tree, Node(Union(Box(old), b), Max({nodes[old].max, order}), Pair(tree, old, new)))
      bottom == Last(Down[root])
      kids == nodes[bottom].kids
      best == Best(bottom, b)
      pair == [kids EXCEPT ![best] = new + 1]
      Climbed(grown, bottomKids) ==
        [n \in DOMAIN grown |->
          IF n = bottom THEN Above(n, bottomKids)
          ELSE IF n \in Range(Down[root])
          THEN Above(n, IF Raised(n) THEN SwapLast(nodes[n].kids, Best(n, b)) ELSE nodes[n].kids)
          ELSE grown[n]]
  IN  IF root = 0 THEN nodes' = tree /\ root' = new
      ELSE IF Leaf(root) THEN nodes' = Joined(root) /\ root' = new + 1
      ELSE /\ root' = root
           /\ nodes' = IF Len(kids) < MaxChildren
                       THEN Climbed(tree, IF Raised(bottom) THEN Append(kids, new) ELSE InsertAt(kids, Len(kids), new))
                       ELSE Climbed(Joined(kids[best]),
                                    IF Raised(bottom) THEN SwapLast(pair, best) ELSE pair)

\* insert
Insert(b, order) ==
  /\ order = FindMaxOrdering(b) + 1
  /\ InsertLeaf(b, order)
  /\ maxLeaf' = IF maxLeaf = 0 \/ nodes[maxLeaf].max < order THEN Len(nodes) + 1 ELSE maxLeaf
-----------------------------------------------------------------------------
(* The scene *)

Bounded == Len(prims) < MaxPrimitives
Orders == 1..(Len(nodes) + 1)
Layer(order, area) == [order |-> order, area |-> area, before |-> Len(prims)]
Primitive(kind, tile, l) == [kind |-> kind, tile |-> tile, order |-> l.order, area |-> l.area, before |-> l.before]

\* What is painted in a layer takes its order, wherever it is itself.
InsertPrimitive(kind, tile, b) ==
  /\ Bounded
  /\ IF layers # <<>>
     THEN /\ prims' = Append(prims, Primitive(kind, tile, Last(layers)))
          /\ UNCHANGED <<nodes, root, maxLeaf>>
     ELSE \E order \in Orders :
            /\ Insert(b, order)
            /\ prims' = Append(prims, Primitive(kind, tile, Layer(order, b)))
  /\ UNCHANGED layers

PushLayer(b) ==
  /\ Bounded /\ Areas < Len(prims) + MaxLayers
  /\ \E order \in Orders :
       /\ Insert(b, order)
       /\ layers' = Append(layers, Layer(order, b))
  /\ UNCHANGED prims

PopLayer ==
  /\ layers # <<>>
  /\ layers' = Front(layers)
  /\ UNCHANGED <<nodes, root, maxLeaf, prims>>

\* clear, for the next frame
Clear ==
  /\ nodes # <<>> /\ layers = <<>>
  /\ nodes' = <<>> /\ root' = 0 /\ maxLeaf' = 0
  /\ prims' = <<>>
  /\ UNCHANGED layers

Next ==
  \/ \E kind \in Range(Kinds), b \in AllBounds :
       \E tile \in IF kind \in Sprite THEN Tiles ELSE {NoTile} : InsertPrimitive(kind, tile, b)
  \/ \E b \in AllBounds : PushLayer(b)
  \/ PopLayer \/ Clear

Spec == Init /\ [][Next]_sceneVars
-----------------------------------------------------------------------------
(* finish and batches *)

KindIndex(kind) == CHOOSE n \in DOMAIN Kinds : Kinds[n] = kind

\* The primitives of a kind as finish sorts them: stable, sprites by tile, too.
Sorted(kind) ==
  LET tile(i) == IF kind \in Sprite THEN prims[i].tile.tile ELSE 0
      Before(i, j) ==
        \/ prims[i].order < prims[j].order
        \/ prims[i].order = prims[j].order /\ tile(i) < tile(j)
        \/ prims[i].order = prims[j].order /\ tile(i) = tile(j) /\ i < j
      all == {i \in DOMAIN prims : prims[i].kind = kind}
  IN  CHOOSE s \in [1..Cardinality(all) -> all] : \A m, n \in DOMAIN s : m < n => Before(s[m], s[n])

DrawnBefore(order1, kind1, order2, kind2) ==
  order1 < order2 \/ (order1 = order2 /\ KindIndex(kind1) < KindIndex(kind2))

\* Mutant: a batch goes on until the texture changes.
BatchLengthAll(list, kind, others) ==
  Max({n \in DOMAIN list : \A m \in 2..n : prims[list[m]].tile = prims[list[1]].tile})

\* BatchIterator::next: how much of list the next batch takes, when the others begin
\* with these primitives.
BatchLength(list, kind, others) ==
  Max({n \in DOMAIN list :
    \A m \in 2..n :
      /\ \A o \in others : DrawnBefore(prims[list[m]].order, kind, prims[o].order, prims[o].kind)
      /\ kind \in Sprite => prims[list[m]].tile.texture = prims[list[1]].tile.texture})

\* All batches, one behind the other.
Drawn ==
  LET Go[rest \in [Range(Kinds) -> Seq(DOMAIN prims)]] ==
        LET left == {k \in Range(Kinds) : rest[k] # <<>>}
            first == CHOOSE k \in left : \A l \in left \ {k} :
                       DrawnBefore(prims[rest[k][1]].order, k, prims[rest[l][1]].order, l)
            n == BatchLength(rest[first], first, {rest[l][1] : l \in left \ {first}})
        IN  IF left = {} THEN <<>>
            ELSE SubSeq(rest[first], 1, n) \o Go[[rest EXCEPT ![first] = SubSeq(@, n + 1, Len(@))]]
  IN  Go[[k \in Range(Kinds) |-> Sorted(k)]]

(* The area of a primitive is its own bounds, or those of the layer it is painted in. What was
   painted before an area was opened is drawn before all that is painted in it, where the two
   areas meet, however the layers lie or are nested and whatever batches the two are in. So one
   that is painted over another is drawn over it where both are inside of their areas. Nothing
   is said of what leaves its layer, which may be drawn under what it was painted over, nor of
   what is painted in one layer. All primitives are drawn, once. *)
OverlapsInOrder ==
  LET drawn == Drawn
      At(i) == CHOOSE n \in DOMAIN drawn : drawn[n] = i
  IN  /\ Len(drawn) = Len(prims) /\ Range(drawn) = DOMAIN prims
      /\ \A i, j \in DOMAIN prims :
           i <= prims[j].before /\ Intersects(prims[i].area, prims[j].area) => At(i) < At(j)
=============================================================================
