------------------------------- MODULE UsbHost -------------------------------
(***************************************************************************)
(* The GUI and the streamers of its cable sessions together: Discovery     *)
(* starts and stops the processes whose accessory handshakes AoaLink is,   *)
(* and its scans see what the handshakes do to the bus.                    *)
(***************************************************************************)
EXTENDS Discovery

CONSTANTS Place, Nobody, Tries, MaxBus

VARIABLES dev, wedged, pc, handle, tries, bus

Link == INSTANCE AoaLink WITH MaxWorld <- MaxBus, world <- bus

usbVars == <<dev, wedged, pc, handle, tries, bus>>
hostVars == <<vars, usbVars>>

ASSUME UsbAssumption == Link!AoaAssumption

Cable(t) == [via |-> "aoa", of |-> t]

HostTypeOK ==
    /\ TypeOK
    /\ Link!TypeOK
    /\ near \cap By("aoa") = {Cable(t) : t \in Link!Scanned}
    /\ \A t \in Tablet : pc[t] = "exit" <=> session[Cable(t)] = "none"

HostInit ==
    /\ Init
    /\ dev = [t \in Tablet |-> "off"]
    /\ wedged = {}
    /\ pc = [t \in Tablet |-> "exit"]
    /\ handle = [t \in Tablet |-> Nobody]
    /\ tries = [t \in Tablet |-> 0]
    /\ bus = 0

-----------------------------------------------------------------------------
\* A step of the GUI: a session that starts, or starts again, is a process at the top
\* of main's loop, one that is gone has none.
Gui(action) ==
    /\ action
    /\ pc' = [t \in Tablet |-> IF session'[Cable(t)] = "none" THEN "exit"
                               ELSE IF session'[Cable(t)] = "up" /\ session[Cable(t)] # "up" THEN "connect"
                               ELSE pc[t]]
    /\ handle' = [t \in Tablet |-> IF pc'[t] = pc[t] THEN handle[t] ELSE Nobody]
    /\ UNCHANGED <<dev, wedged, tries, bus>>

\* A step of a streamer or of the bus: the scans see another tree.
Usb(action) ==
    /\ action
    /\ near' = (near \ By("aoa")) \cup {Cable(t) : t \in Link!Scanned'}
    /\ UNCHANGED <<switches, seen, rows, armed, polls, session, turning, stores, misses, bounds>>

\* The client said BYE: the process ends, and runningChanged(false) its session.
Bye(t) ==
    /\ Link!Bye(t)
    /\ session[Cable(t)] = "up"
    /\ session' = [session EXCEPT ![Cable(t)] = "none"]
    /\ UNCHANGED <<near, switches, seen, rows, armed, polls, turning, stores, misses, bounds>>

\* statsReceived comes from a streamer that has a client.
Streaming(d) == (d.via = "aoa" => Link!Served(d.of)) /\ Streams(d)

HostNext ==
    \/ Gui(AoaScan) \/ Gui(TetherReport) \/ Gui(Browsed) \/ Gui(AdbPoll)
    \/ \E i \in DOMAIN polls : Gui(AdbResult(i))
    \/ Gui(Evaluate)
    \/ \E d \in Offers : Gui(Streaming(d)) \/ Gui(Approve(d)) \/ Gui(Ended(d))
    \/ Gui(ToggleLan) \/ Gui(ToggleUsb) \/ Gui(ToggleAuto)
    \/ \E d \in Offers : Gui(Connect(d)) \/ Gui(StopMonitor(d)) \/ Gui(ToggleMirror(d))
    \/ \E d \in Offers \ By("aoa") : Gui(Goes(d)) \/ Gui(Comes(d))
    \/ \E t \in Tablet : Usb(Link!Step(t)) \/ Usb(Link!SessionEnds(t)) \/ Bye(t)
    \/ \E t \in Tablet : Usb(Link!Enumerates(t)) \/ Usb(Link!Unplug(t)) \/ Usb(Link!Plug(t))

HostSpec == HostInit /\ [][HostNext]_hostVars

\* Timers fire, killed processes end, streamers run, and a device that switches
\* comes back on the bus.
HostFairSpec ==
    /\ HostSpec
    /\ WF_hostVars(Gui(AoaScan))
    /\ WF_hostVars(Gui(Evaluate))
    /\ WF_hostVars(\E d \in Offers : Gui(Ended(d)))
    /\ \A t \in Tablet : WF_hostVars(Usb(Link!Step(t)))
    /\ \A t \in Tablet : WF_hostVars(Usb(Link!Enumerates(t)))

-----------------------------------------------------------------------------
(* Properties of the two together.                                         *)

\* A tablet whose cable is out for good loses its monitor, although its streamer
\* retries for ever (main_window.cpp:603).
UnplugRemoves ==
    \A t \in Tablet :
        (Has(Cable(t)) /\ usb /\ dev[t] = "off") ~> (~Has(Cable(t)) \/ ~usb \/ dev[t] # "off")

\* With auto-connect on, a tablet that streamed over its cable before streams again when
\* it is plugged in: over lists, evaluations, takeovers, switches, lost links, resets and
\* claims that fail, unless every port is taken (main_window.cpp:755,
\* stream_main.cpp:226).
KnownStreamsAgain ==
    \A t \in Tablet :
        (auto /\ usb /\ t \in known /\ dev[t] # "off")
            ~> (Link!Served(t) \/ ~auto \/ ~usb \/ dev[t] = "off" \/ Cardinality(Active) >= Limit)
=============================================================================
