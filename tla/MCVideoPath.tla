---------------------------- MODULE MCVideoPath ----------------------------
(* VideoPath for TLC: two bitrates on the two sides of the floor, with GOPs *)
(* of two and of four.                                                      *)
EXTENDS VideoPath

\* A slow link at the floor of the backlog limit, and a quick one.
Slow  == [fps |-> 1, kbps |-> 2000]
Quick == [fps |-> 2, kbps |-> 6000]
Both  == {Slow, Quick}
Still == {Quick}
============================================================================
