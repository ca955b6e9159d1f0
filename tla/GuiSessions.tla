---------------------------- MODULE GuiSessions ----------------------------
(***************************************************************************)
(* The sessions of the GUI: one streamer process per monitor, the list of  *)
(* them, the Server switch with its listener, and the restarts that wait   *)
(* for a process to end (host/gui/main_window.cpp, session_manager.cpp,    *)
(* stream_controller.cpp). The GUI is one thread; `emitting` holds the     *)
(* slots of runningChanged(false) that have yet to run, and nothing else   *)
(* runs before they have.                                                  *)
(***************************************************************************)
EXTENDS Integers, Sequences, FiniteSets

CONSTANTS
    Tablet,     \* the devices that can be picked: "<transport>:<ident>"
    NoKey,      \* serverKey_ when it is cleared
    Cap,        \* allocate_port's cap: ports base .. base + Cap - 1
    MaxClicks,  \* bound: what the user does
    MaxEnds     \* bound: streamers that end by themselves or fail to start

ASSUME GuiAssumption ==
    /\ Cap \in Nat \ {0}
    /\ Tablet \cap Nat = {}
    /\ NoKey \notin Tablet /\ NoKey \notin Nat
    /\ MaxClicks \in Nat
    /\ MaxEnds \in Nat

Port == 0 .. Cap - 1
\* A listener of the switch has the key "server:<port>".
Key == Tablet \cup Port

VARIABLES
    ctl,        \* the StreamControllers, in the order they were made
    sessions,   \* sessions_: their controllers; the list is in this order
    rows,       \* monitorsList_: the keys that have a row
    enabled,    \* serverEnabled_
    serverKey,  \* serverKey_
    refreshing, \* serverRefreshing_
    everConnected,  \* serverEverConnected_
    rearms,     \* singleShot(0) calls of startServerSession that are due
    dueRefresh, \* serverRefreshTimer_ runs
    emitting,   \* slots of runningChanged(false) still to run
    clicks, ends,   \* bounds
    hasty,      \* history: a restart was asked of a streamer that another
                \* request was stopping already, or that was still starting,
                \* or the switch was moved before a restart was over
    turned      \* history: the mirror toggle has started a listener again

server == <<enabled, serverKey, refreshing, everConnected, rearms>>
vars == <<ctl, sessions, rows, server, dueRefresh, emitting, clicks, ends, hasty, turned>>

\* The one-shot slots of a restart, with what they captured.
Respawn(key, port, mirror) == [slot |-> "mirror", key |-> key, port |-> port, mirror |-> mirror]
Restart == [slot |-> "refresh"]
Shot == [slot : {"mirror"}, key : Key, port : Port, mirror : BOOLEAN] \cup {Restart}
Teardown(key) == [slot |-> "teardown", key |-> key]
Slot == Shot \cup [slot : {"teardown"}, key : Key]

Origin == {"server", "device", "mirror"}
Process == {"starting", "running", "stopping", "gone", "failed"}
Controller ==
    [key : Key, port : Port, mirror : BOOLEAN, origin : Origin, proc : Process, shots : Seq(Shot)]

TypeOK ==
    /\ ctl \in Seq(Controller)
    /\ sessions \subseteq 1 .. Len(ctl)
    /\ rows \subseteq Key
    /\ enabled \in BOOLEAN
    /\ serverKey \in Port \cup {NoKey}
    /\ refreshing \in BOOLEAN
    /\ everConnected \in BOOLEAN
    /\ rearms \in Nat
    /\ dueRefresh \in BOOLEAN
    /\ emitting \in Seq(Slot)
    /\ clicks \in Nat /\ ends \in Nat
    /\ hasty \in BOOLEAN
    /\ turned \in BOOLEAN

Init ==
    /\ ctl = <<>>
    /\ sessions = {}
    /\ rows = {}
    /\ enabled = FALSE
    /\ serverKey = NoKey
    /\ refreshing = FALSE
    /\ everConnected = FALSE
    /\ rearms = 0
    /\ dueRefresh = FALSE
    /\ emitting = <<>>
    /\ clicks = 0 /\ ends = 0
    /\ hasty = FALSE
    /\ turned = FALSE

-----------------------------------------------------------------------------
(* SessionManager.                                                         *)

Has(key) == \E c \in sessions : ctl[c].key = key
\* find and remove take the first entry with the key.
Find(key) == CHOOSE c \in sessions : ctl[c].key = key /\ \A d \in sessions : ctl[d].key = key => c <= d
FreePorts == Port \ {ctl[c].port : c \in sessions}
Bug_AllocatePort == CHOOSE p \in Port : \A q \in Port : p <= q
AllocatePort == CHOOSE p \in FreePorts : \A q \in FreePorts : p <= q

Live(c) == ctl[c].proc \in {"starting", "running", "stopping"}

-----------------------------------------------------------------------------
(* Starting and stopping.                                                  *)

StartSession(key, port, mirror, origin) ==
    /\ ctl' = Append(ctl, [key |-> key, port |-> port, mirror |-> mirror, origin |-> origin,
                           proc |-> "starting", shots |-> <<>>])
    /\ sessions' = sessions \cup {Len(ctl) + 1}
    /\ rows' = IF origin = "server" THEN rows ELSE rows \cup {key}

\* With every port taken the switch goes to off.
StartServerSession(on) ==
    IF FreePorts = {}
    THEN /\ enabled' = FALSE
         /\ UNCHANGED <<ctl, sessions, rows, serverKey, everConnected>>
    ELSE /\ serverKey' = AllocatePort
         /\ everConnected' = FALSE
         /\ StartSession(AllocatePort, AllocatePort, FALSE, "server")
         /\ enabled' = on

\* What stop() does to the one-shot slots that wait: if the process was still
\* starting, its runningChanged(true) comes first and uses them up.
Waiting(c, new) == IF ctl[c].proc = "starting" THEN <<>> ELSE ctl[c].shots \o new

\* The process ends, and runningChanged(false) calls its slots in the order in
\* which they were connected.
Ends(c, shots) ==
    /\ ctl' = [ctl EXCEPT ![c].proc = "gone", ![c].shots = <<>>]
    /\ emitting' = <<Teardown(ctl[c].key)>> \o shots

\* stop, after the slots `new` were connected: the process ends within 3 s, or
\* it is killed and ends later. Nothing happens when none runs.
Stop(c, new) ==
    \/ /\ Live(c)
       /\ Ends(c, Waiting(c, new))
    \/ /\ Live(c)
       /\ ctl' = [ctl EXCEPT ![c].proc = "stopping", ![c].shots = Waiting(c, new)]
       /\ UNCHANGED emitting
    \/ /\ ~Live(c)
       /\ ctl' = [ctl EXCEPT ![c].shots = @ \o new]
       /\ UNCHANGED emitting

\* A restart that the code does not expect: see `hasty`.
Hasty(c) == Live(c) /\ (ctl[c].proc = "starting" \/ ctl[c].shots # <<>>)

-----------------------------------------------------------------------------
(* The user.                                                               *)

Click ==
    /\ emitting = <<>>
    /\ clicks < MaxClicks
    /\ clicks' = clicks + 1

\* onServerToggled(true)
SwitchOn ==
    /\ Click
    /\ ~enabled
    /\ StartServerSession(TRUE)
    /\ hasty' = (hasty \/ refreshing \/ rearms > 0)
    /\ UNCHANGED <<refreshing, rearms, dueRefresh, emitting, ends, turned>>

\* onServerToggled(false), stopServerSession
SwitchOff ==
    /\ Click
    /\ enabled
    /\ enabled' = FALSE
    /\ IF serverKey # NoKey /\ Has(serverKey)
       THEN Stop(Find(serverKey), <<>>)
       ELSE UNCHANGED <<ctl, emitting>>
    /\ hasty' = (hasty \/ refreshing \/ rearms > 0)
    /\ UNCHANGED <<sessions, rows, serverKey, refreshing, everConnected, rearms, dueRefresh, ends,
                   turned>>

\* onConnectToSelectedDevice or the auto-connect: connectDevice. A device that
\* has a session, or a fifth session, is refused.
ConnectDevice(t) ==
    /\ Click
    /\ ~Has(t)
    /\ FreePorts # {}
    /\ StartSession(t, AllocatePort, FALSE, "device")
    /\ UNCHANGED <<server, dueRefresh, emitting, ends, hasty, turned>>

StopSelectedMonitor(key) ==
    /\ Click
    /\ key \in rows /\ Has(key)
    /\ Stop(Find(key), <<>>)
    /\ UNCHANGED <<sessions, rows, server, dueRefresh, ends, hasty, turned>>

\* toggleSelectedMonitorMirror. A listener that was approved has a row as well: its
\* teardown clears serverKey_, the restart keeps its key and port, and nothing
\* gives it back to the switch.
ToggleMirror(key) ==
    /\ Click
    /\ key \in rows /\ Has(key)
    /\ LET c == Find(key) IN
       /\ Stop(c, <<Respawn(key, ctl[c].port, ~ctl[c].mirror)>>)
       /\ hasty' = (hasty \/ Hasty(c))
    /\ UNCHANGED <<sessions, rows, server, dueRefresh, ends, turned>>

\* settingsChanged: scheduleServerRefresh
EditSettings ==
    /\ Click
    /\ dueRefresh' = TRUE
    /\ UNCHANGED <<ctl, sessions, rows, server, emitting, ends, hasty, turned>>

\* approvalRequested on a listener, answered with yes: its row appears.
Approve(c) ==
    /\ Click
    /\ ctl[c].proc = "running"
    /\ Has(ctl[c].key)
    /\ rows' = rows \cup {ctl[c].key}
    /\ UNCHANGED <<ctl, sessions, server, dueRefresh, emitting, ends, hasty, turned>>

-----------------------------------------------------------------------------
(* Timers.                                                                 *)

\* The debounce of the settings is over.
RefreshServer ==
    /\ emitting = <<>>
    /\ dueRefresh
    /\ dueRefresh' = FALSE
    /\ IF enabled /\ serverKey # NoKey /\ Has(serverKey)
       THEN LET c == Find(serverKey) IN
            /\ refreshing' = TRUE
            /\ Stop(c, <<Restart>>)
            /\ hasty' = (hasty \/ Hasty(c))
       ELSE UNCHANGED <<refreshing, ctl, emitting, hasty>>
    /\ UNCHANGED <<sessions, rows, enabled, serverKey, everConnected, rearms, clicks, ends, turned>>

\* singleShot(0) after a listener ended.
Rearm ==
    /\ emitting = <<>>
    /\ rearms > 0
    /\ rearms' = rearms - 1
    /\ IF enabled
       THEN StartServerSession(TRUE)
       ELSE UNCHANGED <<ctl, sessions, rows, enabled, serverKey, everConnected>>
    /\ UNCHANGED <<refreshing, dueRefresh, emitting, clicks, ends, hasty, turned>>

-----------------------------------------------------------------------------
(* The streamer processes.                                                 *)

\* started: runningChanged(true), which also uses up the one-shot slots.
Started(c) ==
    /\ emitting = <<>>
    /\ ctl[c].proc = "starting"
    /\ ctl' = [ctl EXCEPT ![c].proc = "running", ![c].shots = <<>>]
    /\ UNCHANGED <<sessions, rows, server, dueRefresh, emitting, clicks, ends, hasty, turned>>

\* The program cannot be run: QProcess reports an error that nobody listens to.
FailToStart(c) ==
    /\ emitting = <<>>
    /\ ctl[c].proc = "starting"
    /\ ends < MaxEnds
    /\ ends' = ends + 1
    /\ ctl' = [ctl EXCEPT ![c].proc = "failed"]
    /\ UNCHANGED <<sessions, rows, server, dueRefresh, emitting, clicks, hasty, turned>>

\* The streamer ends by itself: a client that said bye, an error.
Exit(c) ==
    /\ emitting = <<>>
    /\ ctl[c].proc = "running"
    /\ ends < MaxEnds
    /\ ends' = ends + 1
    /\ Ends(c, ctl[c].shots)
    /\ UNCHANGED <<sessions, rows, server, dueRefresh, clicks, hasty, turned>>

\* The streamer that stop() did not wait for is gone.
Stopped(c) ==
    /\ emitting = <<>>
    /\ ctl[c].proc = "stopping"
    /\ Ends(c, ctl[c].shots)
    /\ UNCHANGED <<sessions, rows, server, dueRefresh, clicks, ends, hasty, turned>>

\* statsReceived with a client
Stats(c) ==
    /\ emitting = <<>>
    /\ ctl[c].proc = "running"
    /\ ctl[c].key = serverKey
    /\ everConnected' = TRUE
    /\ UNCHANGED <<ctl, sessions, rows, enabled, serverKey, refreshing, rearms,
                   dueRefresh, emitting, clicks, ends, hasty, turned>>

-----------------------------------------------------------------------------
(* The slots of runningChanged(false), one at a time.                      *)

Slots(kind) == emitting # <<>> /\ Head(emitting).slot = kind /\ emitting' = Tail(emitting)

\* deleteLater ends the process of the controller, if that is another one.
Delete(key) ==
    ctl' = IF Has(key) /\ Live(Find(key)) THEN [ctl EXCEPT ![Find(key)].proc = "stopping"] ELSE ctl

\* shouldRearm(serverEnabled_, elapsed, serverEverConnected_)
ShouldRearm(longEnough) == enabled /\ (everConnected \/ longEnough)

Bug_ServerEnded(longEnough) ==
    /\ serverKey' = NoKey
    /\ rearms' = IF ShouldRearm(longEnough) THEN rearms + 1 ELSE rearms
    /\ enabled' = ShouldRearm(longEnough)
\* What becomes of the switch when a listener ended: the refresh restarts it, it
\* is armed again, or it failed at once and the switch goes to off.
ServerEnded(longEnough) ==
    /\ serverKey' = NoKey
    /\ rearms' = IF ~refreshing /\ ShouldRearm(longEnough) THEN rearms + 1 ELSE rearms
    /\ enabled' = (enabled /\ (refreshing \/ ShouldRearm(longEnough)))

Bug_TearDown ==
    /\ Slots("teardown")
    /\ LET key == Head(emitting).key IN
       IF key = serverKey
       THEN /\ \E longEnough \in BOOLEAN : ServerEnded(longEnough)
            /\ UNCHANGED <<ctl, sessions, rows>>
       ELSE /\ Delete(key)
            /\ sessions' = IF Has(key) THEN sessions \ {Find(key)} ELSE sessions
            /\ rows' = rows \ {key}
            /\ UNCHANGED <<serverKey, rearms, enabled>>
    /\ UNCHANGED <<refreshing, everConnected, dueRefresh, clicks, ends, hasty, turned>>
TearDown ==
    /\ Slots("teardown")
    /\ LET key == Head(emitting).key IN
       /\ Delete(key)
       /\ sessions' = IF Has(key) THEN sessions \ {Find(key)} ELSE sessions
       /\ rows' = rows \ {key}
       /\ IF key = serverKey
          THEN \E longEnough \in BOOLEAN : ServerEnded(longEnough)
          ELSE UNCHANGED <<serverKey, rearms, enabled>>
    /\ UNCHANGED <<refreshing, everConnected, dueRefresh, clicks, ends, hasty, turned>>

RespawnMirror ==
    /\ Slots("mirror")
    /\ LET e == Head(emitting) IN
       /\ StartSession(e.key, e.port, e.mirror, "mirror")
       /\ turned' = (turned \/ e.key \in Port)
    /\ UNCHANGED <<server, dueRefresh, clicks, ends, hasty>>

Bug_RestartServer ==
    /\ Slots("refresh")
    /\ StartServerSession(enabled)
    /\ UNCHANGED <<refreshing, rearms, dueRefresh, clicks, ends, hasty, turned>>
RestartServer ==
    /\ Slots("refresh")
    /\ refreshing' = FALSE
    /\ StartServerSession(enabled)
    /\ UNCHANGED <<rearms, dueRefresh, clicks, ends, hasty, turned>>

-----------------------------------------------------------------------------
User ==
    \/ SwitchOn
    \/ SwitchOff
    \/ EditSettings
    \/ \E t \in Tablet : ConnectDevice(t)
    \/ \E key \in rows : StopSelectedMonitor(key) \/ ToggleMirror(key)
    \/ \E c \in DOMAIN ctl : Approve(c)

Run ==
    \/ RefreshServer \/ Rearm
    \/ TearDown \/ RespawnMirror \/ RestartServer
    \/ \E c \in DOMAIN ctl : Started(c) \/ FailToStart(c) \/ Exit(c) \/ Stopped(c) \/ Stats(c)

Next == User \/ Run
Spec == Init /\ [][Next]_vars

\* Slots run before the event loop goes on; a due timer fires; a killed streamer
\* ends. Nothing makes a user click or a streamer end by itself.
FairSpec ==
    /\ Spec
    /\ WF_vars(TearDown \/ RespawnMirror \/ RestartServer)
    /\ WF_vars(Rearm)
    /\ WF_vars(\E c \in DOMAIN ctl : Stopped(c))

-----------------------------------------------------------------------------
(* Properties. `hasty` excepts the restarts that the code loses or doubles. *)
(* `turned` does for the switch: a listener that the mirror toggle has     *)
(* started again is another session to it (main_window.cpp:1264, 1369).    *)

Settled == emitting = <<>> /\ ~hasty
OfSwitch(c) == ctl[c].key \in Port /\ (turned => ctl[c].origin = "server")
Listener(c) == OfSwitch(c) /\ ctl[c].proc \in {"starting", "running"}

\* No streamer runs that the GUI cannot stop: every live process is the
\* controller of an entry of the list, however its predecessor ended
\* (main_window.cpp:1349), and no entry outlives its process.
Governed ==
    Settled =>
        /\ \A c \in DOMAIN ctl : Live(c) => c \in sessions
        /\ \A c \in sessions : ctl[c].proc # "gone"

\* Two sessions never share a key or a port, with restarts that take the port of
\* the session they replace and allocations that take the lowest free one
\* (session_manager.h:15).
OnePerKey ==
    Settled => \A c, d \in sessions :
        ctl[c].key = ctl[d].key \/ ctl[c].port = ctl[d].port => c = d

\* At most one streamer with the key of a listener is kept, it is the one that the
\* switch stops, and there is none while the switch is off (main_window.cpp:1001).
\* Once the toggle has started one again this is said of those the switch started.
SingleListener ==
    Settled => \A c \in DOMAIN ctl : Listener(c) =>
        /\ enabled
        /\ serverKey = ctl[c].key
        /\ \A d \in DOMAIN ctl : Listener(d) => d = c

\* A row stands for a session, and only a listener that has approved nobody has
\* no row (main_window.cpp:966).
RowsMatch ==
    Settled =>
        /\ \A key \in rows : Has(key)
        /\ \A c \in sessions : ctl[c].origin # "server" => ctl[c].key \in rows

\* While the switch is on, a listener that ended or was refreshed is replaced,
\* or the switch goes to off; when it is off, the listener ends.
SwitchObeyed ==
    /\ enabled ~> \/ ~enabled \/ hasty
                  \/ \E c \in DOMAIN ctl : Listener(c) \/ ctl[c].proc = "failed"
    /\ ~enabled ~> enabled \/ hasty \/ \A c \in DOMAIN ctl : OfSwitch(c) => ~Live(c)

\* "so this is the SINGLE restart (no duplicate/orphaned session)"
\* (main_window.cpp:1000): whatever the user does while a listener is being
\* stopped, there are never two. The code does not keep it: each refresh
\* connects a restart of its own, and the switch cancels none.
SingleRestart ==
    emitting = <<>> => \A c, d \in DOMAIN ctl : Listener(c) /\ Listener(d) => c = d
============================================================================
