------------------------------- MODULE AoaLink -------------------------------
(***************************************************************************)
(* Tablets on USB accessory links: one streamer process for each tablet,   *)
(* started for its serial, makes the accessory handshake over and over     *)
(* (host/src/aoa_connect.cpp, stream_main.cpp), and the GUI's scan of the  *)
(* USB tree tells which are attached (aoa_scan.cpp). The tablets share the *)
(* bus: a device in accessory mode has lost its serial's vendor and        *)
(* product, and libusb opens the first one of the bus.                     *)
(***************************************************************************)
EXTENDS Integers, FiniteSets

CONSTANTS
    Tablet,
    Place,      \* where each tablet is on the bus: lower comes first
    Nobody,
    Tries,      \* times that step 3 looks for the accessory
    MaxWorld    \* bound: cables that move, claims that go wrong

\* What is assumed of them, where the module is instantiated (UsbHost).
AoaAssumption ==
    /\ Place \in [Tablet -> Nat]
    /\ \A s, t \in Tablet : Place[s] = Place[t] => s = t
    /\ Nobody \notin Tablet
    /\ Tries \in Nat \ {0} /\ MaxWorld \in Nat

VARIABLES
    dev,        \* the tablets, as the bus has them
    wedged,     \* tablets whose interface cannot be claimed until they are reset
    pc,         \* the streamer of each tablet: where aoa_connect is
    handle,     \* the device it holds open: acc, a, or the one of its channel
    tries,      \* step 3
    world       \* bound

vars == <<dev, wedged, pc, handle, tries, world>>

Mode == {"off", "normal", "switching", "accessory", "resetting"}
At == {"connect", "adopt", "stuck", "seek", "handshake", "await", "claim", "session", "pause", "exit"}

TypeOK ==
    /\ dev \in [Tablet -> Mode]
    /\ wedged \subseteq Tablet
    /\ pc \in [Tablet -> At]
    /\ handle \in [Tablet -> Tablet \cup {Nobody}]
    /\ \A s \in Tablet : pc[s] \in {"adopt", "claim", "session"} <=> handle[s] # Nobody
    /\ tries \in [Tablet -> 0 .. Tries - 1]
    /\ world \in 0 .. MaxWorld

\* The streamers are started; a tablet may be in accessory mode from before.
Init ==
    /\ dev \in [Tablet -> {"off", "normal", "accessory"}]
    /\ wedged = {}
    /\ pc = [s \in Tablet |-> "connect"]
    /\ handle = [s \in Tablet |-> Nobody]
    /\ tries = [s \in Tablet |-> 0]
    /\ world = 0

-----------------------------------------------------------------------------
Accessory == {t \in Tablet : dev[t] = "accessory"}

\* open_accessory: the first on the bus, whoever it belongs to.
Opened == IF Accessory = {} THEN Nobody
          ELSE CHOOSE t \in Accessory : \A u \in Accessory : Place[t] <= Place[u]

\* A channel of a streamer keeps the interface of its device claimed.
Claimed(t) == \E s \in Tablet : pc[s] = "session" /\ handle[s] = t
\* claim_accessory: the interface and the endpoints.
CanClaim(t) == dev[t] = "accessory" /\ t \notin wedged /\ ~Claimed(t)

Go(s, where, with) ==
    /\ pc' = [pc EXCEPT ![s] = where]
    /\ handle' = [handle EXCEPT ![s] = with]

\* parse_usb_sysfs: Android devices with a serial, in accessory mode or not.
Scanned == {t \in Tablet : dev[t] \in {"normal", "accessory"}}

-----------------------------------------------------------------------------
(* aoa_connect.                                                            *)

\* Step 0: the accessory of another session is left alone.
OpenAccessory(s) ==
    /\ pc[s] = "connect"
    /\ IF Opened = s THEN Go(s, "adopt", s) ELSE Go(s, "seek", Nobody)
    /\ UNCHANGED <<dev, wedged, tries, world>>

Adopt(s) ==
    /\ pc[s] = "adopt"
    /\ IF CanClaim(s) THEN Go(s, "session", s) ELSE Go(s, "stuck", Nobody)
    /\ UNCHANGED <<dev, wedged, tries, world>>

Bug_Reset(s) ==
    /\ pc[s] = "stuck"
    /\ Go(s, "seek", Nobody)
    /\ UNCHANGED <<dev, wedged, tries, world>>
\* The claim failed: what open_accessory finds now is reset. It comes back in
\* its normal mode, and its channel is dead.
Reset(s) ==
    /\ pc[s] = "stuck"
    /\ dev' = IF Opened = Nobody THEN dev ELSE [dev EXCEPT ![Opened] = "resetting"]
    /\ wedged' = wedged \ {Opened}
    /\ Go(s, "seek", Nobody)
    /\ UNCHANGED <<tries, world>>

\* Step 1: only a device that is not in accessory mode is looked at.
Seek(s) ==
    /\ pc[s] = "seek"
    /\ Go(s, IF dev[s] = "normal" THEN "handshake" ELSE "pause", Nobody)
    /\ UNCHANGED <<dev, wedged, tries, world>>

\* Step 2: a device that is gone answers no protocol.
Handshake(s) ==
    /\ pc[s] = "handshake"
    /\ IF dev[s] = "normal"
       THEN /\ dev' = [dev EXCEPT ![s] = "switching"]
            /\ Go(s, "await", Nobody)
       ELSE /\ Go(s, "pause", Nobody)
            /\ UNCHANGED dev
    /\ tries' = [tries EXCEPT ![s] = 0]
    /\ UNCHANGED <<wedged, world>>

\* Step 3: the first accessory that shows up is taken for the own one.
Await(s) ==
    /\ pc[s] = "await"
    /\ IF Opened # Nobody
       THEN Go(s, "claim", Opened) /\ UNCHANGED tries
       ELSE IF tries[s] + 1 < Tries
       THEN tries' = [tries EXCEPT ![s] = @ + 1] /\ UNCHANGED <<pc, handle>>
       ELSE Go(s, "pause", Nobody) /\ UNCHANGED tries
    /\ UNCHANGED <<dev, wedged, world>>

Claim(s) ==
    /\ pc[s] = "claim"
    /\ IF CanClaim(handle[s]) THEN Go(s, "session", handle[s]) ELSE Go(s, "pause", Nobody)
    /\ UNCHANGED <<dev, wedged, tries, world>>

\* main: a second later the loop begins again.
Retry(s) ==
    /\ pc[s] = "pause"
    /\ Go(s, "connect", Nobody)
    /\ UNCHANGED <<dev, wedged, tries, world>>

-----------------------------------------------------------------------------
(* The session on the channel.                                             *)

\* A transfer fails, since the device is gone: the channel closes.
LinkLost(s) ==
    /\ pc[s] = "session"
    /\ dev[handle[s]] # "accessory"
    /\ Go(s, "connect", Nobody)
    /\ UNCHANGED <<dev, wedged, tries, world>>

\* The session ends with the cable in: a turn of the tablet, a client that does
\* not read for 5 s. The device stays in accessory mode, and may be wedged.
SessionEnds(s) ==
    /\ pc[s] = "session"
    /\ world < MaxWorld /\ world' = world + 1
    /\ \E bad \in BOOLEAN : wedged' = IF bad THEN wedged \cup {handle[s]} ELSE wedged
    /\ Go(s, "connect", Nobody)
    /\ UNCHANGED <<dev, tries>>

\* BYE: the process ends.
Bye(s) ==
    /\ pc[s] = "session"
    /\ Go(s, "exit", Nobody)
    /\ UNCHANGED <<dev, wedged, tries, world>>

-----------------------------------------------------------------------------
(* The bus.                                                                *)

\* A device that was told to switch, or was reset, comes back.
Enumerates(t) ==
    /\ dev[t] \in {"switching", "resetting"}
    /\ dev' = [dev EXCEPT ![t] = IF dev[t] = "switching" THEN "accessory" ELSE "normal"]
    /\ UNCHANGED <<wedged, pc, handle, tries, world>>

Unplug(t) ==
    /\ dev[t] # "off"
    /\ world < MaxWorld /\ world' = world + 1
    /\ dev' = [dev EXCEPT ![t] = "off"]
    /\ wedged' = wedged \ {t}
    /\ UNCHANGED <<pc, handle, tries>>

Plug(t) ==
    /\ dev[t] = "off"
    /\ dev' = [dev EXCEPT ![t] = "normal"]
    /\ UNCHANGED <<wedged, pc, handle, tries, world>>

-----------------------------------------------------------------------------
Step(s) ==
    \/ OpenAccessory(s) \/ Adopt(s) \/ Reset(s) \/ Seek(s) \/ Handshake(s)
    \/ Await(s) \/ Claim(s) \/ Retry(s) \/ LinkLost(s)

Next ==
    \/ \E s \in Tablet : Step(s)
    \/ \E s \in Tablet : SessionEnds(s) \/ Bye(s)
    \/ \E t \in Tablet : Enumerates(t) \/ Unplug(t) \/ Plug(t)

Spec == Init /\ [][Next]_vars

-----------------------------------------------------------------------------
(* Properties.                                                             *)

Served(t) == pc[t] = "session" /\ handle[t] = t

\* "another session's accessory (multi-monitor): leave it alone"
\* (aoa_connect.cpp:92): a streamer streams to its own tablet. The code does not
\* keep it: step 3 does not ask for the serial.
OwnTablet == \A s \in Tablet : pc[s] = "session" => handle[s] = s
=============================================================================
