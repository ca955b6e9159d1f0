------------------------------ MODULE MCTouch ------------------------------
(* Touch for TLC: three pointers, so that one is over a budget of two       *)
(* slots and a pen can meet two fingers.                                    *)
EXTENDS Touch
ThreePointers == 0 .. 2
============================================================================
