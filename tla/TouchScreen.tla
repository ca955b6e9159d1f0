---------------------------- MODULE TouchScreen ----------------------------
(***************************************************************************)
(* What the injected touch screen promises the desktop, without slots,     *)
(* messages or a tablet: a set of fingers is down; a report of the tablet  *)
(* lifts the fingers it no longer names, never one that it still names,    *)
(* and puts down the ones it adds until every slot is used; the device     *)
(* never vanishes under a finger (input_injector.cpp:240).                 *)
(***************************************************************************)
CONSTANTS
    Id,         \* fingers
    Slot,       \* multi-touch slots of the device
    NoFinger    \* the tracking id of a slot that is not in contact

VARIABLES
    present,    \* the device exists
    finger,     \* the finger in each slot
    pressed     \* BTN_TOUCH

screen == <<present, finger, pressed>>

Down == {finger[n] : n \in Slot} \ {NoFinger}
Lifted == [n \in Slot |-> NoFinger]

Init ==
    /\ present = FALSE
    /\ finger = Lifted
    /\ pressed = FALSE

Appear ==
    /\ ~present
    /\ present' = TRUE
    /\ finger' = Lifted
    /\ pressed' = FALSE

\* The tablet names all the fingers it sees. A finger that stays keeps its
\* slot, a finger is in one slot, and none is left out while a slot is free.
Report(fingers) ==
    /\ present
    /\ finger' \in [Slot -> fingers \cup {NoFinger}]
    /\ \A n \in Slot : finger[n] \in fingers => finger'[n] = finger[n]
    /\ \A n, m \in Slot : finger'[n] = finger'[m] => n = m \/ finger'[n] = NoFinger
    /\ \/ \A f \in fingers : \E n \in Slot : finger'[n] = f
       \/ \A n \in Slot : finger'[n] # NoFinger
    /\ pressed' = (fingers # {})
    /\ UNCHANGED present

Vanish ==
    /\ present
    /\ present' = FALSE
    /\ finger' = Lifted
    /\ pressed' = FALSE

Next == Appear \/ Vanish \/ \E fingers \in SUBSET Id : Report(fingers)

Spec == Init /\ [][Next]_screen
============================================================================
