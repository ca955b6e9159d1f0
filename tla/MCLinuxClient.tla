--------------------------- MODULE MCLinuxClient ---------------------------
(* LinuxClient for TLC: certificates, shapes and looks are interchangeable, *)
(* so the first of each stands for what is stored and presented at first,   *)
(* and for what the decoder begins with.                                    *)
EXTENDS LinuxClient

CONSTANTS old, small, plain

MCInit ==
    /\ Init
    /\ settings = [shape |-> small, look |-> plain]
    /\ host.cert = old
    /\ look = plain

MCSpec == MCInit /\ [][Next]_vars /\ Fairness
============================================================================
