---------------------------- MODULE MCViewFrames ----------------------------
(* Model values for ViewFrames: a root with two cached views, one of which shows
   a plain view with another cached view in it. *)
EXTENDS ViewFrames, TLC

CONSTANTS root, side, plain, inner, other, model

Paths == root :> {root} @@ side :> {root, side} @@ plain :> {root, side, plain}
         @@ inner :> {root, side, plain, inner} @@ other :> {root, other}
InOrder == root :> 1 @@ side :> 2 @@ plain :> 3 @@ inner :> 4 @@ other :> 5
FiveViews == {root, side, plain, inner, other}
ThreeCached == {side, inner, other}
Hideable == {side, plain, inner, other}
OneModel == {model}
ASibling == [v \in FiveViews |-> IF v = side THEN {other} ELSE {}]
=============================================================================
