--------------------------- MODULE MCStreamServer ---------------------------
(* Small instances of StreamServer for TLC. *)
EXTENDS StreamServer

CONSTANTS d1

\* One phone, which reports portrait dimensions.
PhoneDims == [d \in Device |-> "portrait"]

\* Bytes out of step are taken for a HELLO of a new client that lies down.
Misreadings == {[type |-> "hello", conn |-> 0, val |-> 0]}
GarbledHellos == {[v4 |-> TRUE, dims |-> "landscape", rate |-> 2]}

\* In chunks that hold whole messages nothing is out of step.
Nothing == {}

=============================================================================
