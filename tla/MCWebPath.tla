----------------------------- MODULE MCWebPath -----------------------------
(* WebPath for TLC: what a page, and a streamer that may end, do.           *)
EXTENDS WebPath

CONSTANTS p1, p2
=============================================================================
