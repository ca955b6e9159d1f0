---------------------------- MODULE DisplaySetup ----------------------------
(***************************************************************************)
(* How a streamer gets its monitor (host/src/virtual_display.cpp,          *)
(* evdi_frame_source.cpp, capturer.cpp, desktop_backend.cpp,               *)
(* monitor_geometry.cpp and the parts of stream_daemon.cpp that use them): *)
(* it claims an evdi node, connects it, waits for the desktop to give it a *)
(* mode, and must then tell which of the outputs of the desktop is its own *)
(* before it places it, maps its touch to it and claims the audio sink.    *)
(* Several streamers do this at once, each in a process of its own, and    *)
(* the desktop is the state that they share.                               *)
(***************************************************************************)
EXTENDS Integers, FiniteSets, FiniteSetsExt

CONSTANTS
    Proc,       \* the streamers; each has an EDID serial of its own
    None,
    Nodes,      \* bound: evdi nodes that can be added, 0 .. Nodes - 1; the code scans 16
    Screens,    \* the physical screens, -Screens .. -1
    ScreenSize, \* their size
    Size,       \* sizes of tablets: records w, h
    Cell,       \* wall cells of HELLO: records col, row
    Mirroring,  \* the streamers with --mirror
    MaxTries,   \* bound: the retries of the identification, 10 in the code
    MaxFaults,  \* bound: timeouts, failures, crashes and new screens
    MaxEnds     \* bound: streams that end

ASSUME SetupAssumption ==
    /\ Nodes \in Nat /\ Screens \in Nat \ {0} /\ MaxTries \in Nat
    /\ MaxFaults \in Nat /\ MaxEnds \in Nat
    /\ Size \cup {ScreenSize} \subseteq [w : Nat \ {0}, h : Nat \ {0}]
    /\ Cell \subseteq [col : Nat, row : Nat]
    /\ IsFiniteSet(Proc) /\ Mirroring \subseteq Proc
    /\ None \notin Proc \cup Int

Node == 0 .. Nodes - 1
Screen == -Screens .. -1
\* Outputs are listed in this order: the first card, then the evdi cards.
Name == Screen \cup Node
First(S) == Min(S)

VARIABLES
    backend,    \* the desktop: "KWin" or "X11"
    \* The desktop.
    desk,       \* per evdi node: what the desktop makes of its connector
    at,         \* the place of every output
    prim,       \* the primary output
    plugged,    \* the physical screens that are connected
    linked,     \* X11: the evdi cards that are linked to the first one
    \* evdi and the lock files.
    dev,        \* evdi devices that exist: 0 .. dev - 1
    owner,      \* evdi-node-<n>.lock
    select,     \* select.lock
    claim,      \* droppix-audio.lock, as the streamers hold it
    rec,        \* the streamers whose parec runs and holds the lock too
    loose,      \* the streamers whose parec runs without it
    \* The streamers.
    s,
    faults, ends,   \* bounds
    unsure      \* history: a streamer chose its output without a sound snapshot

world == <<desk, at, prim, plugged, linked>>
locks == <<dev, owner, select>>
sound == <<claim, rec, loose>>
vars == <<backend, world, locks, sound, s, faults, ends, unsure>>

Point == [x : Int, y : Int]
\* `lag`: the streamer is gone, and the desktop has not noticed.
Connector == [mode : {"off", "plugged", "on", "lag"}, size : Size \cup {ScreenSize}]
Stage == {"idle", "wait", "claim", "pick", "open", "mode", "ask", "adopt", "adopted",
          "layout", "laid", "place", "placed", "start", "stream", "closing"}
Session ==
    [stage : Stage,
     node : Node \cup {None},
     before : [names : SUBSET Name, on : SUBSET Name],   \* before_outputs, as long as it is read
     size : Size \cup {ScreenSize},
     cell : Cell,
     bound : Name \cup {None},  \* droppix.name, if have_output
     sees : BOOLEAN,            \* after_outputs is not empty
     geom : Point,              \* droppix.geom
     touch : Name \cup {None},  \* the output that the desktop maps the touch and pen devices to
     tries : 0 .. MaxTries,
     blind : BOOLEAN]           \* history: a call to the desktop of this session timed out

TypeOK ==
    /\ backend \in {"KWin", "X11"}
    /\ desk \in [Node -> Connector]
    /\ at \in [Name -> Point]
    /\ prim \in Name
    /\ plugged \subseteq Screen
    /\ linked \subseteq Node
    /\ dev \in 0 .. Nodes
    /\ owner \in [Node -> Proc \cup {None}]
    /\ select \in Proc \cup {None}
    /\ claim \in Proc \cup {None}
    /\ rec \subseteq Proc /\ loose \subseteq Proc
    /\ s \in [Proc -> Session]
    /\ faults \in 0 .. MaxFaults /\ ends \in 0 .. MaxEnds
    /\ unsure \in BOOLEAN

Nothing == [names |-> {}, on |-> {}]
Origin == [x |-> 0, y |-> 0]
Off == [mode |-> "off", size |-> ScreenSize]
Idle ==
    [stage |-> "idle", node |-> None, before |-> Nothing, size |-> ScreenSize,
     cell |-> CHOOSE c \in Cell : TRUE, bound |-> None, sees |-> FALSE, geom |-> Origin,
     touch |-> None, tries |-> 0, blind |-> FALSE]

Init ==
    /\ backend \in {"KWin", "X11"}
    /\ desk = [n \in Node |-> Off]
    /\ at = [n \in Name |-> IF n \in Screen THEN [x |-> (n + Screens) * ScreenSize.w, y |-> 0]
                                            ELSE Origin]
    /\ prim = -Screens
    /\ plugged = {-Screens}
    /\ linked = {}
    /\ dev = 0
    /\ owner = [n \in Node |-> None]
    /\ select = None
    /\ claim = None
    /\ rec = {} /\ loose = {}
    /\ s = [p \in Proc |-> Idle]
    /\ faults = 0 /\ ends = 0
    /\ unsure = FALSE

-----------------------------------------------------------------------------
(* What the desktop shows.                                                 *)

SizeOf(n) == IF n \in Screen THEN ScreenSize ELSE desk[n].size

\* The enabled outputs.
On == plugged \cup {n \in Node : desk[n].mode \in {"on", "lag"}}

\* The outputs that a query lists: xrandr also names the connectors without a
\* monitor of every linked card.
Listed ==
    IF backend = "X11"
    THEN Screen \cup linked
    ELSE plugged \cup {n \in Node : desk[n].mode # "off"}

\* A query returns the layout, or nothing when its timeout kills it.
Reply == [names |-> Listed, on |-> On \cap Listed]
Outputs(p, reply) ==
    \/ reply = Reply /\ UNCHANGED faults
    \/ reply = Nothing /\ faults < MaxFaults /\ faults' = faults + 1

\* run_layout and the placement: the primary, or the first other that is on.
Anchor(b, on) == IF prim \in on \ {b} THEN prim ELSE First(on \ {b})

RightOf(a) == [x |-> at[a].x + SizeOf(a).w, y |-> at[a].y]

GridPosition(cell, size, anchor) ==
    [x |-> anchor.x + cell.col * size.w, y |-> anchor.y + cell.row * size.h]

-----------------------------------------------------------------------------
(* Which output is the new one.                                            *)

SelectNewOutput(before, after) == after.on \ before.names

Bug_SelectDroppix(before, after, size) == {n \in after.on : SizeOf(n) = size}
\* An evdi output of the size, by its name; else any output of the size that was
\* not on before.
SelectDroppix(before, after, size) ==
    LET sized == {n \in after.on : SizeOf(n) = size} IN
    IF sized \cap Node # {} THEN sized \cap Node ELSE sized \ before.on

Candidates(before, after, size) ==
    IF SelectNewOutput(before, after) # {}
    THEN SelectNewOutput(before, after)
    ELSE SelectDroppix(before, after, size)

\* The snapshot tells the own output from all others: no other has appeared since,
\* and none of the same size is up when the own name is not new.
Sound(p) ==
    /\ s[p].before # Nothing
    /\ \A n \in On \ {s[p].node} :
          /\ n \in s[p].before.names
          /\ n \in Node /\ SizeOf(n) = s[p].size => s[p].node \notin s[p].before.names

-----------------------------------------------------------------------------
(* The end of a session: the node and its lock go with the source, and the *)
(* streamer goes on to its next snapshot.                                  *)

Bug_Unlocked(p) == owner
Unlocked(p) == [n \in Node |-> IF owner[n] = p THEN None ELSE owner[n]]

\* The node is disconnected, for the desktop to notice.
Unplug(p) ==
    IF s[p].node = None \/ s[p].stage = "open" THEN UNCHANGED desk
    ELSE desk' = [desk EXCEPT ![s[p].node] = IF @.mode = "on" THEN [@ EXCEPT !.mode = "lag"] ELSE Off]

\* ~VirtualDisplay, when the session fails or the daemon is destroyed.
TearDown(p) ==
    /\ Unplug(p)
    /\ owner' = Unlocked(p)
    /\ select' = IF select = p THEN None ELSE select
    /\ s' = [s EXCEPT ![p] = Idle]
    /\ UNCHANGED <<at, prim, plugged, linked, dev>>

Fail(p) ==
    /\ faults < MaxFaults
    /\ faults' = faults + 1
    /\ TearDown(p)
    /\ UNCHANGED <<backend, sound, ends, unsure>>

Goto(p, stage) == s' = [s EXCEPT ![p].stage = stage]

-----------------------------------------------------------------------------
(* A session, up to its monitor.                                           *)

\* run_until begins with the snapshot, and waits for a client after it.
Snapshot(p) ==
    /\ s[p].stage = "idle"
    /\ \E reply \in {Reply, Nothing} :
          /\ Outputs(p, reply)
          /\ s' = [s EXCEPT ![p].stage = "wait", ![p].before = reply, ![p].blind = (reply = Nothing)]
    /\ UNCHANGED <<backend, world, locks, sound, ends, unsure>>

NoClient(p) ==
    /\ s[p].stage = "wait"
    /\ s' = [s EXCEPT ![p] = Idle]
    /\ UNCHANGED <<backend, world, locks, sound, faults, ends, unsure>>

\* A mirror takes the size of the primary that the snapshot shows.
Hello(p) ==
    /\ s[p].stage = "wait"
    /\ \E size \in Size, cell \in Cell :
          s' = [s EXCEPT ![p].stage = "claim", ![p].cell = cell,
                         ![p].size = IF p \in Mirroring /\ s[p].before # Nothing
                                     THEN ScreenSize ELSE size]
    /\ UNCHANGED <<backend, world, locks, sound, faults, ends, unsure>>

TakeSelect(p) ==
    /\ s[p].stage = "claim"
    /\ select = None
    /\ select' = p
    /\ Goto(p, "pick")
    /\ UNCHANGED <<backend, world, dev, owner, sound, faults, ends, unsure>>

Claimable == {n \in 0 .. dev - 1 : owner[n] = None}

\* The first node that nobody has locked, or a new one.
ClaimNode(p) ==
    /\ s[p].stage = "pick"
    /\ Claimable # {} \/ dev < Nodes
    /\ LET n == IF Claimable # {} THEN First(Claimable) ELSE dev IN
       /\ dev' = IF n = dev THEN dev + 1 ELSE dev
       /\ owner' = [owner EXCEPT ![n] = p]
       /\ s' = [s EXCEPT ![p].stage = "open", ![p].node = n]
    /\ select' = None
    /\ UNCHANGED <<backend, world, sound, faults, ends, unsure>>

\* A device that was added, and whose file does not come within the retries.
Unsettled(p) ==
    /\ s[p].stage = "pick"
    /\ Claimable = {} /\ dev < Nodes
    /\ faults < MaxFaults
    /\ faults' = faults + 1
    /\ dev' = dev + 1
    /\ select' = None
    /\ s' = [s EXCEPT ![p] = Idle]
    /\ UNCHANGED <<backend, world, owner, sound, ends, unsure>>

Connect(p) ==
    /\ s[p].stage = "open"
    /\ desk' = [desk EXCEPT ![s[p].node] = [mode |-> "plugged", size |-> s[p].size]]
    /\ at' = [at EXCEPT ![s[p].node] = Origin]
    /\ Goto(p, "mode")
    /\ UNCHANGED <<backend, prim, plugged, linked, locks, sound, faults, ends, unsure>>

\* wait_for_mode returns.
ModeSet(p) ==
    /\ s[p].stage = "mode"
    /\ desk[s[p].node].mode = "on"
    /\ Goto(p, "ask")
    /\ UNCHANGED <<backend, world, locks, sound, faults, ends, unsure>>

-----------------------------------------------------------------------------
(* Identification.                                                         *)

Identify(p) ==
    /\ s[p].stage = "ask"
    /\ \E reply \in {Reply, Nothing} :
          LET c == Candidates(s[p].before, reply, s[p].size) IN
          /\ Outputs(p, reply)
          /\ \/ /\ c # {}
                /\ s' = [s EXCEPT ![p].stage = "adopt", ![p].bound = First(c), ![p].sees = TRUE,
                                  ![p].before = Nothing, ![p].tries = 0,
                                  ![p].geom = at[First(c)]]
                /\ unsure' = (unsure \/ ~Sound(p))
             \/ /\ c = {} /\ s[p].before # Nothing /\ s[p].tries < MaxTries
                /\ s' = [s EXCEPT ![p].tries = @ + 1, ![p].blind = @ \/ reply = Nothing]
                /\ UNCHANGED unsure
             \/ /\ c = {} /\ (s[p].before = Nothing \/ s[p].tries = MaxTries)
                /\ s' = [s EXCEPT ![p].stage = "start", ![p].before = Nothing, ![p].tries = 0,
                                  ![p].blind = @ \/ reply = Nothing]
                /\ UNCHANGED unsure
    /\ UNCHANGED <<backend, world, locks, sound, ends>>

\* after_outputs is read again, and the rectangle of the output with it.
Requery(p) ==
    /\ s[p].stage \in {"adopted", "laid", "placed"}
    /\ \E reply \in {Reply, Nothing} :
          /\ Outputs(p, reply)
          /\ s' = [s EXCEPT ![p].stage = CASE @ = "adopted" -> "layout"
                                           [] @ = "laid" -> "place"
                                           [] @ = "placed" -> "start",
                            ![p].sees = (reply # Nothing),
                            ![p].blind = @ \/ reply = Nothing,
                            ![p].geom = IF s[p].bound \in reply.names THEN at[s[p].bound] ELSE @]
    /\ UNCHANGED <<backend, world, locks, sound, ends, unsure>>

\* A command for the desktop does its work, or its timeout kills it before.
Command(p, work, stage) ==
    \/ /\ work
       /\ Goto(p, stage)
       /\ UNCHANGED faults
    \/ /\ faults < MaxFaults
       /\ faults' = faults + 1
       /\ s' = [s EXCEPT ![p].stage = stage, ![p].blind = TRUE]
       /\ UNCHANGED <<at, prim>>

\* X11: every card is linked, the output put right of the primary, and the primary
\* made that again. If the output is the primary, another becomes the primary.
AdoptOutput(p) ==
    /\ s[p].stage = "adopt"
    /\ LET b == s[p].bound
           others == On \ {b}
       IN  IF backend = "X11"
           THEN /\ linked' \in {linked, 0 .. dev - 1}
                /\ Command(p, /\ linked' = 0 .. dev - 1
                              /\ IF others = {} THEN UNCHANGED <<at, prim>>
                                 ELSE /\ at' = [at EXCEPT ![b] = RightOf(Anchor(b, On))]
                                      /\ prim' = Anchor(b, On), "adopted")
           ELSE Goto(p, "layout") /\ UNCHANGED <<at, prim, faults, linked>>
    /\ UNCHANGED <<backend, desk, plugged, locks, sound, ends, unsure>>

\* The mode of the session against the output that apply_layout finds to be the
\* primary.
ApplyLayout(p) ==
    /\ s[p].stage = "layout"
    /\ LET b == s[p].bound
           to == IF p \in Mirroring THEN at[Anchor(b, On)]
                 ELSE IF backend = "X11" THEN RightOf(Anchor(b, On)) ELSE at[b]
       IN  Command(p, IF On \ {b} = {} THEN UNCHANGED <<at, prim>>
                      ELSE at' = [at EXCEPT ![b] = to] /\ UNCHANGED prim, "laid")
    /\ UNCHANGED <<backend, desk, plugged, linked, locks, sound, ends, unsure>>

Bug_PlaceOutput(p) ==
    /\ s[p].stage = "place"
    /\ LET b == s[p].bound IN
       IF s[p].sees /\ On \ {b} # {}
       THEN Command(p, at' = [at EXCEPT ![b] = GridPosition(s[p].cell, SizeOf(b), RightOf(Anchor(b, On)))]
                       /\ UNCHANGED prim, "placed")
       ELSE Goto(p, "start") /\ UNCHANGED <<at, prim, faults>>
    /\ UNCHANGED <<backend, desk, plugged, linked, locks, sound, ends, unsure>>
\* The wall cell, from the top right corner of the primary; never for a mirror.
PlaceOutput(p) ==
    /\ s[p].stage = "place"
    /\ LET b == s[p].bound IN
       IF s[p].sees /\ p \notin Mirroring /\ On \ {b} # {}
       THEN Command(p, at' = [at EXCEPT ![b] = GridPosition(s[p].cell, SizeOf(b), RightOf(Anchor(b, On)))]
                       /\ UNCHANGED prim, "placed")
       ELSE Goto(p, "start") /\ UNCHANGED <<at, prim, faults>>
    /\ UNCHANGED <<backend, desk, plugged, linked, locks, sound, ends, unsure>>

-----------------------------------------------------------------------------
(* The stream.                                                             *)

Bug_AudioFree == claim = None
\* The descriptor of the lock is inherited by parec, and holds the lock too.
AudioFree == claim = None /\ rec = {}

\* The audio sink is claimed by the first session. parec may be missing.
StartStream(p) ==
    /\ s[p].stage = "start"
    /\ Goto(p, "stream")
    /\ \/ AudioFree /\ claim' = p /\ rec' = rec \cup {p} /\ UNCHANGED loose
       \/ UNCHANGED sound
    /\ UNCHANGED <<backend, world, locks, faults, ends, unsure>>

\* do_audio
Records(p) == p \in loose \/ (p \in rec /\ claim = p)

\* Live StreamParams start and stop parec, and neither take nor give back the lock:
\* what a session without it starts holds no lock.
LiveAudio(p) ==
    /\ s[p].stage = "stream"
    /\ IF Records(p) THEN rec' = rec \ {p} /\ loose' = loose \ {p}
       ELSE IF claim = p THEN rec' = rec \cup {p} /\ UNCHANGED loose
       ELSE loose' = loose \cup {p} /\ UNCHANGED rec
    /\ UNCHANGED <<backend, world, locks, claim, s, faults, ends, unsure>>

\* The detached threads of map_touch and map_pen bind the devices by the name of
\* the output, once the desktop knows them; there are none when no output was
\* found. (A thread that outlives its session is left out: it ends as soon as the
\* device is known.)
Bind(p) ==
    /\ s[p].stage = "stream"
    /\ s[p].bound # None /\ s[p].touch = None
    /\ s' = [s EXCEPT ![p].touch = s[p].bound]
    /\ UNCHANGED <<backend, world, locks, sound, faults, ends, unsure>>
MapTouchKWin(p) == backend = "KWin" /\ Bind(p)
MapDeviceX11(p) == backend = "X11" /\ Bind(p)

\* The end of run_until: the lock is closed before ~AudioStreamer stops parec.
EndStream(p) ==
    /\ s[p].stage = "stream"
    /\ ends < MaxEnds
    /\ ends' = ends + 1
    /\ claim' = IF claim = p THEN None ELSE claim
    /\ Goto(p, "closing")
    /\ UNCHANGED <<backend, world, locks, rec, loose, faults, unsure>>

Close(p) ==
    /\ s[p].stage = "closing"
    /\ rec' = rec \ {p} /\ loose' = loose \ {p}
    /\ TearDown(p)
    /\ UNCHANGED <<backend, claim, faults, ends, unsure>>

\* The process is killed, or leaves by _Exit: its parec lives until it writes. (One
\* without the lock is not followed any longer: nothing depends on it.)
Crash(p) ==
    /\ s[p].stage # "idle"
    /\ faults < MaxFaults
    /\ faults' = faults + 1
    /\ claim' = IF claim = p THEN None ELSE claim
    /\ loose' = loose \ {p}
    /\ TearDown(p)
    /\ UNCHANGED <<backend, rec, ends, unsure>>

ParecDies(p) ==
    /\ p \in rec
    /\ claim # p
    /\ s[p].stage # "closing"
    /\ rec' = rec \ {p}
    /\ UNCHANGED <<backend, world, locks, claim, loose, s, faults, ends, unsure>>

-----------------------------------------------------------------------------
(* The desktop by itself.                                                  *)

\* KWin gives a new output a mode, right of all others. On X11 it is the server that
\* links the card, and the desktop that gives its output a mode, at the origin. (The
\* script of link_providers, which is there to do both, does neither: the quotes of
\* its awk program end the quoted script early, and no shell parses what is left.)
Enable(n) ==
    /\ desk[n].mode = "plugged"
    /\ desk' = [desk EXCEPT ![n].mode = "on"]
    /\ linked' = IF backend = "X11" THEN linked \cup {n} ELSE linked
    /\ at' = [at EXCEPT ![n] = IF backend = "X11" THEN Origin
                               ELSE [x |-> Max({RightOf(m).x : m \in On}), y |-> 0]]
    /\ UNCHANGED <<backend, prim, plugged, locks, sound, s, faults, ends, unsure>>

\* It notices that a monitor is gone.
Vanish(n) ==
    /\ desk[n].mode = "lag"
    /\ desk' = [desk EXCEPT ![n] = Off]
    /\ at' = [at EXCEPT ![n] = Origin]
    /\ prim' = IF prim = n THEN First(plugged) ELSE prim
    /\ UNCHANGED <<backend, plugged, linked, locks, sound, s, faults, ends, unsure>>

\* A screen is connected.
Hotplug(n) ==
    /\ n \notin plugged
    /\ faults < MaxFaults
    /\ faults' = faults + 1
    /\ plugged' = plugged \cup {n}
    /\ UNCHANGED <<backend, desk, at, prim, linked, locks, sound, s, ends, unsure>>

Streamer(p) ==
    \/ Snapshot(p) \/ NoClient(p) \/ Hello(p) \/ TakeSelect(p) \/ ClaimNode(p) \/ Unsettled(p)
    \/ (s[p].stage \in {"pick", "open", "mode"} /\ Fail(p))
    \/ Connect(p) \/ ModeSet(p)
    \/ Identify(p) \/ Requery(p) \/ AdoptOutput(p) \/ ApplyLayout(p) \/ PlaceOutput(p)
    \/ StartStream(p) \/ MapTouchKWin(p) \/ MapDeviceX11(p) \/ LiveAudio(p) \/ EndStream(p)
    \/ Close(p) \/ Crash(p) \/ ParecDies(p)

Next ==
    \/ \E p \in Proc : Streamer(p)
    \/ \E n \in Node : Enable(n) \/ Vanish(n)
    \/ \E n \in Screen : Hotplug(n)

Spec == Init /\ [][Next]_vars

-----------------------------------------------------------------------------
(* Properties.                                                             *)

Streaming(p) == s[p].stage = "stream"

\* A streamer takes no output for its own that is not, whatever the others do,
\* as long as its snapshot was sound; and it finds its own unless a call to the
\* desktop timed out. (select_new_output, select_droppix and the retries.)
OwnOutput ==
    /\ ~unsure => \A p \in Proc : s[p].bound \in {None, s[p].node}
    /\ \A p \in Proc : Streaming(p) /\ s[p].bound = None => s[p].blind

\* While no streamer mistook an output, each one that streams is where its wall
\* cell is, or over the primary when it mirrors it, and its touch has that
\* rectangle: no step of another setup has moved it since.
AtItsPlace ==
    ~unsure =>
        \A p \in Proc : Streaming(p) /\ ~s[p].blind =>
            LET n == s[p].node IN
            /\ at[n] = IF p \in Mirroring THEN at[prim]
                       ELSE GridPosition(s[p].cell, s[p].size, RightOf(prim))
            /\ s[p].geom = at[n]

\* Nodes are used again ("no unbounded growth"): there are never more devices
\* than streamers, however often sessions fail, end or crash.
NoGrowth == dev <= Cardinality(Proc)

\* Of the sessions that record under the lock of the sink there is one at a time,
\* and it is the one that has claimed it, across the hand-over at the end of a
\* session, after a crash, and when a live change stops and starts the recorder
\* (stream_daemon.cpp:294, 456). A live change that starts one without the lock is
\* not held up by it: see SinkShared.
OneCapture ==
    /\ Cardinality(rec) <= 1
    /\ claim # None => rec \subseteq {claim}

\* "Only one session may capture the shared droppix-audio sink at a time"
\* (stream_daemon.cpp:285). The code does not keep it: a session that was refused
\* the lock starts its recorder when its client changes the stream live.
SinkShared == Cardinality(rec \cup loose) <= 1

\* "touch on each lands on its own": what docs promise of two tablets.
TouchOnOwn == \A p \in Proc : s[p].touch \in {None, s[p].node}
=============================================================================
