--------------------------- MODULE MCDisplaySetup ---------------------------
(* DisplaySetup for TLC: a tablet of the size of the screen, and a smaller. *)
EXTENDS DisplaySetup

Large == [w |-> 2, h |-> 1]
Small == [w |-> 1, h |-> 1]
BothSizes == {Large, Small}
OneSize == {Small}
Aside == {[col |-> 1, row |-> 2]}
=============================================================================
