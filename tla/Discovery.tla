------------------------------ MODULE Discovery ------------------------------
(***************************************************************************)
(* Which tablets the GUI lists, and which it connects by itself: the four  *)
(* scanners, the switches of the two transports, the debounced evaluation  *)
(* of the auto-connect, and the unplug of a cable (host/gui: main_window,  *)
(* auto_connect, aoa_presence, adb_transport and the scanners). One thread *)
(* runs all of it; a poll of adb is a process whose result comes later.    *)
(***************************************************************************)
EXTENDS Integers, Sequences, FiniteSets

CONSTANTS
    Tablet,
    Offers,     \* the ways in which the tablets can be reached
    Limit,      \* allocate_port's cap: sessions at a time
    Stored,     \* what the files of the last run may hold: switches and stores
    Misses,     \* AoaPresence: scans without a tablet before it counts as gone
    MaxPolls,   \* bound: polls of adb at a time
    MaxWorld,   \* bound: cables, Wi-Fi and accessory switches that come or go
    MaxClicks   \* bound: what the user does, streamers that end by themselves

\* The ways to a tablet, each with a scanner: "tether" and "wifi" are addresses of it.
Via == {"aoa", "tether", "adb", "wifi"}
\* A row of the list, and the session made from it: transport and ident.
Device == [via : Via, of : Tablet]

ASSUME DiscoveryAssumption ==
    /\ Offers \subseteq Device
    /\ Stored \subseteq [lan : BOOLEAN, usb : BOOLEAN, auto : BOOLEAN,
                        known : SUBSET Tablet, approved : SUBSET Tablet]
    /\ Limit \in Nat \ {0} /\ Misses \in Nat \ {0} /\ MaxPolls \in Nat \ {0}
    /\ MaxWorld \in Nat /\ MaxClicks \in Nat

VARIABLES
    near,       \* what a scan would find now
    lan, usb,   \* lanEnabled_, usbEnabled_
    auto,       \* the setting autoConnect
    seen,       \* aoaClients_, tetherClients_, adbClients_, netDevices_
    rows,       \* devicesList_
    armed,      \* autoConnectTimer_ runs
    polls,      \* `adb devices` processes: what each will report
    session,    \* sessions_: the state of the streamer of each entry
    turning,    \* entries that start again, mirrored or not, when they have ended
    known,      \* knownAoa_: serials of tablets that streamed over the accessory
    approved,   \* approved_: ids of the app that the user accepted
    misses,     \* AoaPresence::misses_
    world, clicks   \* bounds

switches == <<lan, usb, auto>>
stores == <<known, approved>>
bounds == <<world, clicks>>
vars == <<near, switches, seen, rows, armed, polls, session, turning, stores, misses, bounds>>

\* The four lists together.
Found(lists) == UNION {lists[via] : via \in Via}

TypeOK ==
    /\ near \subseteq Offers
    /\ {lan, usb, auto, armed} \subseteq BOOLEAN
    /\ seen \in [Via -> SUBSET Offers]
    /\ rows \subseteq Found(seen)
    /\ polls \in Seq(SUBSET Tablet)
    /\ session \in [Device -> {"none", "up", "stopping"}]
    /\ turning \subseteq {d \in Device : session[d] = "stopping"}
    /\ known \subseteq Tablet /\ approved \subseteq Tablet
    /\ misses \in [Tablet -> 0 .. Misses - 1]
    /\ world \in 0 .. MaxWorld /\ clicks \in 0 .. MaxClicks

\* Nothing is plugged in yet; the stores and the switches come from files.
Init ==
    /\ near = {}
    /\ \E f \in Stored : /\ lan = f.lan /\ usb = f.usb /\ auto = f.auto
                         /\ known = f.known /\ approved = f.approved
    /\ seen = [via \in Via |-> {}] /\ rows = {}
    /\ armed = FALSE
    /\ polls = <<>>
    /\ session = [d \in Device |-> "none"]
    /\ turning = {}
    /\ misses = [t \in Tablet |-> 0]
    /\ world = 0 /\ clicks = 0

-----------------------------------------------------------------------------
(* The list.                                                               *)

By(via) == {d \in Offers : d.via = via}
Has(d) == session[d] # "none"
Active == {d \in Offers : Has(d)}

\* The id of a row: the serial of the hardware for the accessory and for adb,
\* the id that the app made for itself for the other two.
Id(d) == <<IF d.via \in {"aoa", "adb"} THEN "serial" ELSE "app", d.of>>

\* rebuildClientList: a tablet that streams over the accessory or adb has no row.
Listed(found) == {d \in found : d.via \in {"aoa", "adb"} => ~Has(d)}

\* Every list that changes rebuilds the rows and arms the evaluation.
Discovered(via, now) ==
    /\ seen' = [seen EXCEPT ![via] = now]
    /\ rows' = Listed(Found(seen'))
    /\ armed' = TRUE

-----------------------------------------------------------------------------
(* Sessions.                                                               *)

\* StreamController::stop waits 3 s for the process, then kills it: the entry is
\* gone when it returns or some time later.
Stopped(ds) ==
    \E late \in SUBSET ds :
        session' = [d \in Device |-> IF d \in late THEN "stopping" ELSE IF d \in ds THEN "none" ELSE session[d]]

\* connectDevice refuses a key and an id that have a session, and a session too many.
Refused(d, running) ==
    \/ \E e \in running : e = d \/ Id(e) = Id(d)
    \/ Cardinality(running) >= Limit

-----------------------------------------------------------------------------
(* AoaPresence and the scan of the USB tree.                               *)

Bug_One(attached, t) ==
    IF ~Has([via |-> "aoa", of |-> t]) \/ t \in attached THEN 0 ELSE 1
\* What a scan makes of the count of a tablet: cleared when there is no session
\* or the tablet is there.
Missed(attached, t) ==
    IF ~Has([via |-> "aoa", of |-> t]) \/ t \in attached THEN 0 ELSE misses[t] + 1

Attached == {d.of : d \in near \cap By("aoa")}

Gone(attached) == {t \in Tablet : Missed(attached, t) >= Misses}

\* AoaScanner::tick, onAoaClientsChanged, dropUnpluggedUsbMonitors
AoaScan ==
    /\ usb
    /\ LET gone == Gone(Attached) IN
       /\ misses' = [t \in Tablet |-> IF t \in gone THEN 0 ELSE Missed(Attached, t)]
       /\ Stopped({[via |-> "aoa", of |-> t] : t \in gone})
    /\ seen' = [seen EXCEPT !["aoa"] = near \cap By("aoa")]
    /\ rows' = {d \in Found(seen') : d.via \in {"aoa", "adb"} => session'[d] = "none"}
    /\ armed' = TRUE
    /\ UNCHANGED <<near, switches, polls, turning, stores, bounds>>

-----------------------------------------------------------------------------
(* The other scanners.                                                     *)

\* What a search of the network may find: tablets at any of their addresses, since it
\* goes out on every interface and the app answers on all of them, each tablet once,
\* and a reply can be lost.
Answers ==
    {now \in SUBSET {d \in near : d.via \in {"tether", "wifi"}} :
        \A d, e \in now : d.of = e.of => d = e}

\* The window of TetherScanner closes.
TetherReport ==
    /\ usb
    /\ \E now \in Answers : Discovered("tether", now)
    /\ UNCHANGED <<near, switches, polls, session, turning, stores, misses, bounds>>

\* avahi-browse ended.
Browsed ==
    /\ lan
    /\ \E now \in Answers : Discovered("wifi", now)
    /\ UNCHANGED <<near, switches, polls, session, turning, stores, misses, bounds>>

\* AdbTransport::poll: each tick starts a process, whether or not one runs.
AdbPoll ==
    /\ usb
    /\ Len(polls) < MaxPolls
    /\ polls' = Append(polls, {d.of : d \in near \cap By("adb")})
    /\ UNCHANGED <<near, switches, seen, rows, armed, session, turning, stores, misses, bounds>>

\* A process ended; the list is emitted when it differs from the last one. The
\* slot does not ask whether USB is on.
AdbResult(i) ==
    /\ LET now == {[via |-> "adb", of |-> t] : t \in polls[i]} IN
       IF now = seen["adb"]
       THEN UNCHANGED <<seen, rows, armed>>
       ELSE Discovered("adb", now)
    /\ polls' = SubSeq(polls, 1, i - 1) \o SubSeq(polls, i + 1, Len(polls))
    /\ UNCHANGED <<near, switches, session, turning, stores, misses, bounds>>

-----------------------------------------------------------------------------
(* Auto-connect.                                                           *)

\* A tablet on the accessory must have streamed over it; any other row needs an
\* id that was approved, and only ids of the app ever are.
Eligible(d) ==
    IF d.via = "aoa" THEN d.of \in known ELSE Id(d)[1] = "app" /\ d.of \in approved

\* is_usb_key knows the accessory; adb and the tether are the network to it.
OnCable(id) == \E d \in Active : d.via = "aoa" /\ Id(d) = id
OnNet(id) == \E d \in Active : d.via # "aoa" /\ Id(d) = id
\* The accessory first, the others as the rows go.
Rank(d) == CASE d.via = "aoa" -> 1 [] d \in seen["tether"] -> 2 [] d.via = "adb" -> 3 [] OTHER -> 4
Candidate == {d \in rows : Eligible(d) /\ ~Has(d) /\ ~OnCable(Id(d))}

\* devicesToConnect: sessions to stop for the accessory, and rows to connect,
\* one for an id.
PlanDisconnect == {e \in Active : e.via # "aoa" /\ \E d \in Candidate : d.via = "aoa" /\ Id(d) = Id(e)}
PlanConnect ==
    {d \in Candidate : ~OnNet(Id(d)) /\ \A e \in Candidate : Id(e) = Id(d) => Rank(e) >= Rank(d)}

\* The rows of the plan that connectDevice takes, in the order of the plan.
Taken(plan, running) ==
    {new \in SUBSET plan :
        /\ \A d \in new : ~Refused(d, running \cup {e \in new : Rank(e) < Rank(d)})
        /\ Cardinality(running \cup new) <= Limit
        /\ \A d \in plan \ new : Refused(d, running \cup {e \in new : Rank(e) <= Rank(d)})}

\* evaluateAutoConnect: what it stops is connected by the evaluation it arms.
Evaluate ==
    /\ armed
    /\ armed' = (auto /\ PlanDisconnect # {})
    /\ IF auto
       THEN \E late \in SUBSET PlanDisconnect :
              \E new \in Taken(PlanConnect, (Active \ PlanDisconnect) \cup late) :
                 session' = [d \in Device |-> IF d \in new THEN "up"
                                              ELSE IF d \in late THEN "stopping"
                                              ELSE IF d \in PlanDisconnect THEN "none" ELSE session[d]]
       ELSE UNCHANGED session
    /\ UNCHANGED <<near, switches, seen, rows, polls, turning, stores, misses, bounds>>

-----------------------------------------------------------------------------
(* The streamers.                                                          *)

\* statsReceived with a client
Streams(d) ==
    /\ session[d] = "up" /\ d \in near
    /\ known' = IF d.via = "aoa" THEN known \cup {d.of} ELSE known
    /\ UNCHANGED <<near, switches, seen, rows, armed, polls, session, turning, approved, misses, bounds>>

\* approvalRequested of a session of the network: woken just now, or accepted.
Approve(d) ==
    /\ session[d] = "up" /\ d \in near
    /\ d.via \in {"tether", "wifi"}
    /\ approved' = approved \cup {d.of}
    /\ UNCHANGED <<near, switches, seen, rows, armed, polls, session, turning, known, misses, bounds>>

\* runningChanged(false) of a process that was told to end: its slots remove the
\* session, and start it again when the mirror was toggled.
Ended(d) ==
    /\ session[d] = "stopping"
    /\ session' = [session EXCEPT ![d] = IF d \in turning THEN "up" ELSE "none"]
    /\ turning' = turning \ {d}
    /\ UNCHANGED <<near, switches, seen, rows, armed, polls, stores, misses, bounds>>

-----------------------------------------------------------------------------
(* The user, and streamers that end by themselves.                         *)

Click == clicks < MaxClicks /\ clicks' = clicks + 1

\* onConnectToSelectedDevice
Connect(d) ==
    /\ Click
    /\ d \in rows /\ ~Refused(d, Active)
    /\ session' = [session EXCEPT ![d] = "up"]
    /\ UNCHANGED <<near, switches, seen, rows, armed, polls, turning, stores, misses, world>>

\* stopSelectedMonitor; also a client that said bye
StopMonitor(d) ==
    /\ Click
    /\ session[d] = "up"
    /\ Stopped({d})
    /\ UNCHANGED <<near, switches, seen, rows, armed, polls, turning, stores, misses, world>>

\* toggleSelectedMonitorMirror. The process may end at once, or be killed; it may have
\* been told to end before. (A second toggle meanwhile: see GuiSessions.)
ToggleMirror(d) ==
    /\ Click
    /\ Has(d) /\ d \notin turning
    /\ session' = [session EXCEPT ![d] = "stopping"]
    /\ turning' = turning \cup {d}
    /\ UNCHANGED <<near, switches, seen, rows, armed, polls, stores, misses, world>>

\* The setting is read by the next evaluation.
ToggleAuto ==
    /\ Click
    /\ auto' = ~auto
    /\ UNCHANGED <<near, lan, usb, seen, rows, armed, polls, session, turning, stores, misses, world>>

\* onLanToggled
ToggleLan ==
    /\ Click
    /\ lan' = ~lan
    /\ IF lan THEN /\ seen' = [seen EXCEPT !["wifi"] = {}]
                   /\ rows' = Listed(Found(seen'))
       ELSE UNCHANGED <<seen, rows>>
    /\ UNCHANGED <<near, usb, auto, armed, polls, session, turning, stores, misses, world>>

Bug_ToggleUsb ==
    /\ Click
    /\ usb' = ~usb
    /\ seen' = IF usb THEN [seen EXCEPT !["adb"] = {}] ELSE seen
    /\ rows' = Listed(Found(seen'))
    /\ armed' = (armed \/ usb)
    /\ UNCHANGED <<near, lan, auto, polls, session, turning, stores, misses, world>>
\* onUsbToggled: AdbTransport::stop empties its list and says so, the window
\* empties the two others. Polls that run are not stopped.
ToggleUsb ==
    /\ Click
    /\ usb' = ~usb
    /\ IF usb THEN /\ seen' = [via \in Via |-> IF via = "wifi" THEN seen[via] ELSE {}]
                   /\ rows' = Listed(Found(seen'))
                   /\ armed' = (armed \/ seen["adb"] # {})
       ELSE UNCHANGED <<seen, rows, armed>>
    /\ UNCHANGED <<near, lan, auto, polls, session, turning, stores, misses, world>>

-----------------------------------------------------------------------------
(* The world: a cable, a network, or a re-enumeration into accessory mode. *)

Comes(d) ==
    /\ world < MaxWorld
    /\ world' = world + 1
    /\ near' = near \cup {d}
    /\ UNCHANGED <<switches, seen, rows, armed, polls, session, turning, stores, misses, clicks>>

Goes(d) ==
    /\ world < MaxWorld
    /\ world' = world + 1
    /\ near' = near \ {d}
    /\ UNCHANGED <<switches, seen, rows, armed, polls, session, turning, stores, misses, clicks>>

-----------------------------------------------------------------------------
User ==
    \/ ToggleLan \/ ToggleUsb \/ ToggleAuto
    \/ \E d \in Offers : Connect(d) \/ StopMonitor(d) \/ ToggleMirror(d)

Next ==
    \/ AoaScan \/ TetherReport \/ Browsed \/ AdbPoll
    \/ \E i \in DOMAIN polls : AdbResult(i)
    \/ Evaluate
    \/ \E d \in Offers : Streams(d) \/ Approve(d) \/ Ended(d)
    \/ User
    \/ \E d \in near : Goes(d)
    \/ \E d \in Offers \ near : Comes(d)

Spec == Init /\ [][Next]_vars

-----------------------------------------------------------------------------
(* Properties.                                                             *)

Accessory(t) == [via |-> "aoa", of |-> t]

\* With auto-connect off nothing is started, with USB off nothing over the accessory
\* or adb, and with both transports off nothing at all, although an evaluation may be
\* armed, rows are a snapshot of the lists and an adb process may still report
\* (main_window.cpp:747, 1184). With one of them on, see SkipsNet.
OffMeansOff ==
    [][\A d \in Offers :
         (Evaluate /\ session[d] = "none" /\ session'[d] = "up") =>
            auto /\ (usb \/ (lan /\ d.via \in {"tether", "wifi"}))]_vars

\* "Stop tracking serials whose session has ended, so a later reconnect starts
\* clean" (aoa_presence.h:33), although sessions end and start between two scans.
\* A toggle of the mirror is no such reconnect: see RestartIsClean.
ReconnectIsClean ==
    [][\A t \in Tablet :
         session[Accessory(t)] # "up" /\ session'[Accessory(t)] = "up" /\ Accessory(t) \notin turning
            => misses'[t] = 0]_vars

\* The auto-connect starts nothing that is switched off, and a monitor that is connected
\* starts with its misses at zero.
StartsClean == OffMeansOff /\ ReconnectIsClean

\* "LAN toggle off: skip net auto-connect" (2026-07-21-comm-interfaces-design.md:68).
\* The code does not keep it: the search for tethered tablets finds those on the Wi-Fi
\* too, whatever the switch of the network says.
SkipsNet ==
    [][\A d \in Offers :
         (Evaluate /\ session[d] = "none" /\ session'[d] = "up" /\ d.via = "wifi") => lan]_vars

\* aoa_presence.h:33 for every start. The code does not keep it: a toggle of the mirror
\* ends and starts the session between two scans, and the misses of the old one count
\* for the new one.
RestartIsClean ==
    [][\A t \in Tablet :
         session[Accessory(t)] # "up" /\ session'[Accessory(t)] = "up" => misses'[t] = 0]_vars

\* "for a tablet visible on both transports, the cable wins" (auto_connect.cpp:27):
\* an evaluation leaves no tablet with two monitors. The code does not keep it:
\* the serial of the cable and the id of the app are never the same id.
CableWins ==
    [][Evaluate => \A d, e \in Offers :
         session'[d] = "up" /\ session'[e] = "up" /\ d.of = e.of => d = e]_vars
=============================================================================
