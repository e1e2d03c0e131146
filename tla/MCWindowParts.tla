--------------------------- MODULE MCWindowParts ---------------------------
(* The parts of one window on small instances: those of WindowParts and, beside them, the
   reuse of its frames and the tree of items behind a list. A behaviour exercises
   one of them, the variables of the others stay Nothing. *)
EXTENDS WindowParts

VARIABLES
  shownElements, frame, ranges, tabFocus, frameRefreshing,
  tree, content, changes

frameVars == <<shownElements, frame, ranges, tabFocus, frameRefreshing>>
treeVars == <<tree, content, changes>>
otherVars == <<frameVars, treeVars>>
-----------------------------------------------------------------------------
\* A binding of a prefix of another, one that is reached after a replay only, one in a
\* deeper context, and one that is taken back.
Bind(ks, context) == [keys |-> ks, context |-> context, action |-> "run", user |-> TRUE]
Unbind(ks, context, user) == [keys |-> ks, context |-> context, action |-> "none", user |-> user]
Overlapping ==
  <<Bind(<<"a">>, "any"), Bind(<<"a", "b">>, "pane"), Bind(<<"a", "b", "a">>, "any"), Bind(<<"b">>, "editor"),
    Bind(<<"b", "a", "b">>, "any"), Bind(<<"shift", "a">>, "list"), Unbind(<<"a">>, "list", TRUE)>>
TakenBack == <<Bind(<<"a", "b">>, "any"), Unbind(<<"a", "b">>, "pane", FALSE), Bind(<<"a">>, "editor")>>
SmallKeymaps == {Overlapping, TakenBack}
Stacks ==
  [f \in {"editor", "list", NoFocus} |-> IF f = NoFocus THEN <<"pane">> ELSE <<"pane", f>>]

\* A card with a button in it, a menu that covers the button, and a frame without the card.
MouseLayouts ==
  {[e \in {"card", "button"} |-> IF e = "card" THEN {"left", "right"} ELSE {"right"}],
   [e \in {"button", "menu"} |-> IF e = "menu" THEN {"left"} ELSE {"left", "right"}]}
PaintOrder == [e \in Element |-> CASE e = "card" -> 1 [] e = "button" -> 2 [] e = "menu" -> 3]

\* Two items; together they are a little higher than the list, or much.
HeightsOf ==
  [m \in {"small", "large"} |->
     [i \in {"one", "two"} |-> (IF i = "one" THEN 1 ELSE 2) * (IF m = "small" THEN 1 ELSE 2)]]
OneUpOrDown == {-1, 1}

\* A root with two cached views; the left one shows a plain view with a cached view in it.
ViewPaths ==
  [v \in View |-> {"root", v} \cup (CASE v = "plain" -> {"left"} [] v = "inner" -> {"left", "plain"} [] OTHER -> {})]
ViewOrder ==
  [v \in View |-> CASE v = "root" -> 1 [] v = "left" -> 2 [] v = "plain" -> 3 [] v = "inner" -> 4 [] v = "right" -> 5]
Reads == [v \in View |-> IF v \in {"left", "inner"} THEN {"model"} ELSE {}]

\* Two cached views; the left one shows a tab group with two handles and a deferred menu.
ElementTree ==
  [e \in {"root", "left", "right", "group", "popover", "menu", "h1", "h2", "h3", "h4"} |->
     CASE e = "root" -> <<"right", "left">> [] e = "left" -> <<"group", "popover">>
       [] e = "group" -> <<"h1", "h2">> [] e = "popover" -> <<"menu">>
       [] e = "menu" -> <<"h3">> [] e = "right" -> <<"h4">> [] OTHER -> <<>>]
Handles == {"h1", "h2", "h3", "h4"}
Indexes ==
  [e \in {"group"} \cup Handles |-> CASE e = "h2" -> 0 [] e \in {"h1", "h3"} -> 1 [] OTHER -> 2]

Frames == INSTANCE FrameReuse WITH
  Element <- DOMAIN ElementTree, Root <- "root", Kids <- ElementTree,
  CachedView <- {"left", "right"}, Deferred <- {"popover"}, Priority <- [popover |-> 1],
  Optional <- {"h4", "h1", "popover"}, Handle <- Handles, TabIndex <- Indexes,
  TabStop <- {"h1", "h3", "h4"}, TabGroup <- {"group"},
  shown <- shownElements, focus <- tabFocus, refreshing <- frameRefreshing

\* Trees that are empty, of one leaf, of two and of three levels, full and with parts that are not.
TreeItems == 1..40
TreeStarts == {[i \in 1..n |-> 2 * i] : n \in {0, 4, 9, 17}}
Cuts == {n \in {0, 1, Len(content) \div 2, Len(content) - 1, Len(content)} : n >= 0}

Tree == INSTANCE SumTree WITH
  TreeBase <- 2, Item <- TreeItems, Height <- [i \in TreeItems |-> i % 3],
  Starts <- TreeStarts, MaxChanges <- 2

\* A quad and a sprite, side by side or over both.
QuadsAndSprites == <<"quad", "sprite">>
SceneBounds == {[lo |-> 0, hi |-> 1], [lo |-> 1, hi |-> 2], [lo |-> 0, hi |-> 2]}
SceneTiles == {[tile |-> 1, texture |-> 1], [tile |-> 2, texture |-> 2]}

ASSUME Parameters ==
  /\ Frames!ElementAssumption /\ Frames!DeferredAssumption
  /\ Tree!SumTreeAssumption
-----------------------------------------------------------------------------
NoFrames ==
  /\ shownElements = Nothing /\ frame = Nothing /\ ranges = Nothing
  /\ tabFocus = Nothing /\ frameRefreshing = Nothing
NoTree == tree = Nothing /\ content = Nothing /\ changes = Nothing

NoOthers == NoFrames /\ NoTree
NoParts == NoViews /\ NoKeys /\ NoMouse /\ NoList /\ NoScene /\ NoSurface

MCInit ==
  \/ Init /\ NoOthers
  \/ part = "frames" /\ Frames!Init /\ NoParts /\ NoTree
  \/ part = "tree" /\ Tree!Init /\ NoParts /\ NoFrames

InFrames == part = "frames" /\ UNCHANGED <<vars, treeVars>>
InTree == part = "tree" /\ UNCHANGED <<vars, frameVars>>

MCNext ==
  \/ Next /\ UNCHANGED otherVars
  \/ InFrames /\ Frames!Draw
  \/ InFrames /\ Frames!FocusNext
  \/ InFrames /\ Frames!FocusPrev
  \/ InFrames /\ \E h \in Handles : Frames!FocusOn(h)
  \/ InTree /\ \E from, to \in Cuts, new \in {<<>>, <<1>>, <<7, 3, 3, 5, 9, 2>>} : Tree!Splice(from, to, new)
  \/ InTree /\ Tree!Push(40)
  \/ InTree /\ \E new \in TreeStarts : Tree!Reset(new)
  \/ InTree /\ \E i \in {1, 8, 9, 39} : Tree!InsertOrReplace(i)

MCVars == <<vars, otherVars>>
MCSpec == MCInit /\ [][MCNext]_MCVars
MCFairSpec ==
  /\ MCSpec
  /\ WF_MCVars(InKeys /\ Keys!TimerFires /\ UNCHANGED otherVars)
  /\ WF_MCVars(InSurface /\ Surface!Answer /\ UNCHANGED otherVars)
  /\ WF_MCVars(InSurface /\ Surface!HandleDone /\ UNCHANGED otherVars)
  /\ WF_MCVars(InSurface /\ Surface!HandleConfigure /\ UNCHANGED otherVars)
-----------------------------------------------------------------------------
\* The properties of the parts, in the behaviours that exercise them.
TypeOK ==
  CASE part = "keys" -> Keys!TypeOK
    [] part = "mouse" -> Mouse!TypeOK
    [] part = "views" -> Views!TypeOK
    [] part = "frames" -> Frames!TypeOK
    [] part = "list" -> List!TypeOK
    [] part = "tree" -> Tree!TypeOK
    [] part = "scene" -> Scene!TypeOK
    [] part = "surface" -> Surface!TypeOK

FrameIsWhole == part = "frames" => Frames!FrameIsWhole
TabsCycle == part = "frames" => Frames!TabsCycle
TreeIsWhole == part = "tree" => Tree!TreeIsWhole
CursorsFind == part = "tree" => Tree!CursorsFind
BoundKeysRun ==
  \A n \in 1..3 : (part = "keys" /\ Keys!BoundWaits(n)) ~> ~(part = "keys" /\ Keys!BoundWaits(n))
DirtyIsDrawn == (part = "surface" /\ Surface!Due) ~> (part = "surface" /\ Surface!Presented)
=============================================================================
