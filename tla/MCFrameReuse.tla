---------------------------- MODULE MCFrameReuse ----------------------------
(* Model values for FrameReuse: two cached views side by side; the left one shows a
   tab group with two handles and a deferred element, whose content is a handle or
   another cached view. *)
EXTENDS FrameReuse

CONSTANTS root, left, right, group, popover, menu, h1, h2, h3, h4

Tree == [e \in {root, left, right, group, popover, menu, h1, h2, h3, h4} |->
           CASE e = root -> <<right, left>>
             [] e = left -> <<group, popover>>
             [] e = group -> <<h1, h2>>
             [] e = popover -> <<menu>>
             [] e = menu -> <<h3>>
             [] e = right -> <<h4>>
             [] OTHER -> <<>>]
AllElements == DOMAIN Tree
TwoViews == {left, right}
ThreeViews == {left, right, menu}
OnePopover == {popover}
OneGroup == {group}
Optionals == {h4, h1, popover}
Handles == {h1, h2, h3, h4}
SomeStops == {h1, h3, h4}
Indexes == [e \in {group} \cup Handles |-> IF e \in {h1, h3} THEN 1 ELSE IF e = h2 THEN 0 ELSE 2]
OnePriority == [e \in {popover} |-> 1]
=============================================================================
