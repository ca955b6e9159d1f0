------------------------- MODULE DisplaySetup_proofs -------------------------
(***************************************************************************)
(* Proofs about DisplaySetup, for any streamers, sizes, screens and bounds:*)
(* evdi nodes do not pile up, one session captures the sound, and with a   *)
(* sound snapshot a streamer takes its own output and no other, and keeps  *)
(* it in its place.                                                       *)
(***************************************************************************)
EXTENDS DisplaySetup, FiniteSetTheorems, WellFoundedInduction, TLAPS

-----------------------------------------------------------------------------
(* The least of a set.                                                     *)

LessNat == {ss \in Nat \X Nat : ss[1] < ss[2]}

LEMMA LessNatWellFounded == IsWellFoundedOn(LessNat, Nat)
  BY NatLessThanWellFounded DEF OpToRel, LessNat

LEMMA LeastNat ==
    ASSUME NEW S \in SUBSET Nat, S # {}
    PROVE  \E x \in S : \A y \in S : x <= y
<1>1. PICK x \in S : \A y \in S : ~(<<y, x>> \in LessNat)
  <2>1. IsWellFoundedOn(LessNat, Nat)
    BY LessNatWellFounded
  <2> QED
    BY <2>1, WFMin
<1>2. ASSUME NEW y \in S PROVE x <= y
  <2>1. <<y, x>> \in Nat \X Nat /\ <<y, x>>[1] = y /\ <<y, x>>[2] = x
    OBVIOUS
  <2>2. ~(y < x)
    BY <1>1, <2>1 DEF LessNat
  <2> QED
    BY <2>2
<1> QED
  BY <1>2

LEMMA FirstOfNats ==
    ASSUME NEW S \in SUBSET Nat, S # {}
    PROVE  First(S) \in S
  BY LeastNat DEF First, Min

LEMMA FirstOfNames ==
    ASSUME NEW S \in SUBSET Name, S # {}
    PROVE  First(S) \in S
<1>1. Screens \in Nat /\ \A n \in S : n \in Int /\ n + Screens \in Nat
  BY SetupAssumption DEF Name, Screen, Node
<1> DEFINE T == {n + Screens : n \in S}
<1>2. T \in SUBSET Nat /\ T # {}
  BY <1>1
<1>3. PICK x \in T : \A y \in T : x <= y
  BY <1>2, LeastNat
<1>4. PICK n \in S : x = n + Screens
  OBVIOUS
<1>5. \A m \in S : n <= m
  <2>1. ASSUME NEW m \in S PROVE n <= m
    <3>1. m + Screens \in T
      OBVIOUS
    <3>2. n + Screens <= m + Screens
      BY <1>3, <1>4, <3>1
    <3> QED
      BY <1>1, <3>2
  <2> QED
    BY <2>1
<1> QED
  BY <1>5 DEF First, Min

LEMMA FirstOfOne ==
    ASSUME NEW n \in Int
    PROVE  First({n}) = n
  BY DEF First, Min

LEMMA Nones == None \notin Proc /\ None \notin Node /\ None \notin Name
  BY SetupAssumption DEF Node, Name, Screen

-----------------------------------------------------------------------------
(* One capture of the sound.                                               *)

RecInv ==
    /\ rec = {} \/ \E p \in Proc : rec = {p}
    /\ claim # None => rec \subseteq {claim}

LEMMA RecStep == RecInv /\ [Next]_vars => RecInv'
<1> SUFFICES ASSUME RecInv, [Next]_vars PROVE RecInv'
  OBVIOUS
<1>1. ASSUME NEW p \in Proc, StartStream(p) \/ LiveAudio(p)
      PROVE  RecInv'
  <2>1. CASE StartStream(p)
    BY <1>1, <2>1 DEF StartStream, AudioFree, sound, RecInv
  <2>2. CASE rec' = rec \/ rec' = rec \ {p}
    <3>1. CASE LiveAudio(p)
      BY <2>2, <3>1 DEF LiveAudio, RecInv
    <3> QED
      BY <1>1, <2>1, <3>1
  <2>3. CASE LiveAudio(p) /\ claim = p /\ rec' = rec \cup {p}
    <3>1. claim' = p /\ rec' \subseteq {p} /\ p \in rec'
      BY <2>3, Nones DEF LiveAudio, RecInv
    <3>2. rec' = {p}
      BY <3>1
    <3> QED
      BY <3>1, <3>2 DEF RecInv
  <2> QED
    BY <1>1, <2>1, <2>2, <2>3 DEF LiveAudio
<1>2. ASSUME NEW p \in Proc, Close(p) \/ ParecDies(p) \/ EndStream(p) \/ Crash(p)
      PROVE  RecInv'
  BY <1>2 DEF Close, ParecDies, EndStream, Crash, RecInv
<1>3. ASSUME NEW p \in Proc,
             \/ Snapshot(p) \/ NoClient(p) \/ Hello(p) \/ TakeSelect(p) \/ ClaimNode(p) \/ Unsettled(p)
             \/ Fail(p) \/ Connect(p) \/ ModeSet(p)
             \/ Identify(p) \/ Requery(p) \/ AdoptOutput(p) \/ ApplyLayout(p) \/ PlaceOutput(p)
             \/ MapTouchKWin(p) \/ MapDeviceX11(p)
      PROVE  rec' = rec /\ claim' = claim
  BY <1>3 DEF Snapshot, NoClient, Hello, TakeSelect, ClaimNode, Unsettled, Fail, Connect,
              ModeSet, Identify, Requery, AdoptOutput, ApplyLayout, PlaceOutput, MapTouchKWin,
              MapDeviceX11, Bind, sound
<1>4. ASSUME NEW n, Enable(n) \/ Vanish(n) \/ Hotplug(n)
      PROVE  rec' = rec /\ claim' = claim
  BY <1>4 DEF Enable, Vanish, Hotplug, sound
<1>5. UNCHANGED vars => rec' = rec /\ claim' = claim
  BY DEF vars, sound
<1> QED
  BY <1>1, <1>2, <1>3, <1>4, <1>5 DEF Next, Streamer, RecInv

\* Under the lock of the sink one session records, the one that has claimed it, and
\* the lock passes on only when the recorder of the last one is gone: also after a
\* crash, and when a live change stops and starts recorders with and without it.
THEOREM OneRecorder == Spec => []OneCapture
<1>1. Init => RecInv
  BY DEF Init, RecInv
<1>2. RecInv => OneCapture
  BY FS_EmptySet, FS_Singleton DEF RecInv, OneCapture
<1> QED
  BY <1>1, <1>2, RecStep, PTL DEF Spec

-----------------------------------------------------------------------------
(* A streamer and its node.                                                *)

\* The stages with no node, with a node that is not connected, with no output
\* chosen, and those that place the chosen output.
Early == {"idle", "wait", "claim", "pick"}
Dark == Early \cup {"open"}
Unnamed == Dark \cup {"mode", "ask"}
Placing == {"adopt", "adopted", "layout", "laid", "place", "placed"}

\* What a session has, of each streamer.
ShapeOK ==
    /\ DOMAIN s = Proc
    /\ \A p \in Proc : DOMAIN s[p] = DOMAIN Idle /\ s[p].size \in Size \cup {ScreenSize}

NodesOK ==
    /\ dev \in 0 .. Nodes
    /\ owner \in [Node -> Proc \cup {None}]
    /\ desk \in [Node -> Connector]
    /\ linked \subseteq 0 .. dev - 1
    /\ \A n \in Node : owner[n] # None => s[owner[n]].node = n

\* X11 lights an output only of a card that it has linked.
LitIsLinked == \A n \in Node : backend = "X11" /\ desk[n].mode \in {"on", "lag"} => n \in linked

\* The node of a streamer is locked by it, and once connected shows its size.
HasNode(p) ==
    /\ s[p].stage \in Early => s[p].node = None
    /\ s[p].stage \notin Early => s[p].node \in Node /\ owner[s[p].node] = p
    /\ s[p].stage \notin Dark => /\ desk[s[p].node].mode \in {"plugged", "on"}
                                 /\ desk[s[p].node].size = s[p].size
    /\ s[p].stage \notin Dark \cup {"mode"} => desk[s[p].node].mode = "on"

NodeInv ==
    /\ ShapeOK /\ NodesOK /\ LitIsLinked
    /\ \A p \in Proc : HasNode(p)

\* A step of one streamer leaves the sessions of all others alone.
Alone(p) == \A q \in Proc \ {p} : s'[q] = s[q]

LEMMA InitNodes == Init => NodeInv
<1> SUFFICES ASSUME Init PROVE NodeInv
  OBVIOUS
<1>1. ShapeOK
  BY DEF Init, ShapeOK, Idle
<1>2. NodesOK
  <2>1. dev \in 0 .. Nodes /\ linked \subseteq 0 .. dev - 1
    BY SetupAssumption DEF Init
  <2>2. desk \in [Node -> Connector]
    BY DEF Init, Off, Connector
  <2>3. owner \in [Node -> Proc \cup {None}] /\ \A n \in Node : owner[n] = None
    BY DEF Init
  <2> QED
    BY <2>1, <2>2, <2>3 DEF NodesOK
<1>3. LitIsLinked
  BY DEF Init, Off, LitIsLinked
<1>4. \A p \in Proc : HasNode(p)
  BY DEF Init, Idle, HasNode, Early, Dark
<1> QED
  BY <1>1, <1>2, <1>3, <1>4 DEF NodeInv

\* A node has one streamer: what p does to its own node, another does not see.
LEMMA OthersKept ==
    ASSUME NodeInv, NEW p \in Proc, Alone(p),
           \A n \in Node : owner[n] \notin {p, None} =>
               /\ owner'[n] = owner[n]
               /\ desk'[n].size = desk[n].size
               /\ desk[n].mode \in {"plugged", "on"} =>
                      desk'[n].mode = desk[n].mode \/ desk'[n].mode = "on"
    PROVE  \A q \in Proc \ {p} : HasNode(q)'
<1> SUFFICES ASSUME NEW q \in Proc, q # p PROVE HasNode(q)'
  OBVIOUS
<1>1. HasNode(q) /\ s'[q] = s[q]
  BY DEF NodeInv, Alone
<1>2. CASE s[q].stage \in Early
  BY <1>1, <1>2 DEF HasNode, Dark
<1>3. CASE s[q].stage \notin Early
  <2>1. s[q].node \in Node /\ owner[s[q].node] = q /\ q \notin {p, None}
    BY <1>1, <1>3, Nones DEF HasNode
  <2>2. /\ owner'[s[q].node] = q
        /\ desk'[s[q].node].size = desk[s[q].node].size
        /\ desk[s[q].node].mode \in {"plugged", "on"} =>
               desk'[s[q].node].mode = desk[s[q].node].mode \/ desk'[s[q].node].mode = "on"
    BY <2>1
  <2> QED
    BY <1>1, <1>3, <2>1, <2>2 DEF HasNode
<1> QED
  BY <1>2, <1>3

\* A streamer links no card but all that exist.
Linking == linked' = linked \/ linked' = 0 .. dev - 1

\* Steps of p that touch no node.
LEMMA QuietNodes ==
    ASSUME NodeInv, NEW p \in Proc, Alone(p), ShapeOK',
           UNCHANGED <<desk, owner, dev, backend>>, Linking,
           s'[p].node = s[p].node,
           s'[p].stage \in Early <=> s[p].stage \in Early,
           s'[p].stage \notin Dark => s[p].stage \notin Dark /\ s'[p].size = s[p].size,
           s'[p].stage \notin Dark \cup {"mode"} =>
               s[p].stage \notin Dark \cup {"mode"} \/ desk[s[p].node].mode = "on"
    PROVE  NodeInv'
<1>1. \A q \in Proc \ {p} : HasNode(q)'
  BY OthersKept
<1>2. HasNode(p)'
  BY DEF NodeInv, HasNode
<1>3. NodesOK' /\ linked \subseteq linked'
  BY DEF NodeInv, NodesOK, Alone, Linking
<1>4. LitIsLinked'
  BY <1>3 DEF NodeInv, LitIsLinked
<1> QED
  BY <1>1, <1>2, <1>3, <1>4 DEF NodeInv

\* What the quiet steps have in common, and where each takes a session.
Quiet(p) ==
    /\ Alone(p) /\ ShapeOK'
    /\ UNCHANGED <<desk, owner, dev, backend>> /\ Linking
    /\ s'[p].node = s[p].node

From(p, here, there) == s[p].stage = here /\ s'[p].stage = there

LEMMA StageSet ==
    ASSUME ShapeOK, NEW p \in Proc, NEW there, Goto(p, there)
    PROVE  /\ Alone(p) /\ ShapeOK' /\ s'[p].stage = there
           /\ UNCHANGED <<s[p].node, s[p].size, s[p].bound, s[p].blind, s[p].before>>
  BY DEF Goto, ShapeOK, Alone, Idle

LEMMA SnapshotMoves ==
    ASSUME ShapeOK, NEW p \in Proc, Snapshot(p)
    PROVE  Quiet(p) /\ From(p, "idle", "wait") /\ s'[p].bound = s[p].bound
<1>1. PICK reply \in {Reply, Nothing} :
          s' = [s EXCEPT ![p].stage = "wait", ![p].before = reply, ![p].blind = (reply = Nothing)]
  BY DEF Snapshot
<1> QED
  BY <1>1 DEF Snapshot, Quiet, Linking, From, Alone, ShapeOK, Idle, world, locks

LEMMA NoClientMoves ==
    ASSUME NodeInv, NEW p \in Proc, NoClient(p)
    PROVE  Quiet(p) /\ From(p, "wait", "idle") /\ s'[p].bound = None
<1>1. s[p].node = None
  BY DEF NoClient, NodeInv, HasNode, Early
<1> QED
  BY <1>1 DEF NoClient, NodeInv, Quiet, Linking, From, Alone, ShapeOK, Idle, world, locks

LEMMA HelloMoves ==
    ASSUME ShapeOK, NEW p \in Proc, Hello(p)
    PROVE  Quiet(p) /\ From(p, "wait", "claim") /\ s'[p].bound = s[p].bound
<1>1. PICK size \in Size, cell \in Cell :
          s' = [s EXCEPT ![p].stage = "claim", ![p].cell = cell,
                         ![p].size = IF p \in Mirroring /\ s[p].before # Nothing
                                     THEN ScreenSize ELSE size]
  BY DEF Hello
<1> QED
  BY <1>1 DEF Hello, Quiet, Linking, From, Alone, ShapeOK, Idle, world, locks

LEMMA TakeSelectMoves ==
    ASSUME ShapeOK, NEW p \in Proc, TakeSelect(p)
    PROVE  Quiet(p) /\ From(p, "claim", "pick") /\ s'[p].bound = s[p].bound
  BY StageSet DEF TakeSelect, Quiet, Linking, From, world

LEMMA ModeSetMoves ==
    ASSUME ShapeOK, NEW p \in Proc, ModeSet(p)
    PROVE  /\ Quiet(p) /\ From(p, "mode", "ask") /\ s'[p].size = s[p].size /\ s'[p].bound = s[p].bound
           /\ desk[s[p].node].mode = "on"
  BY StageSet DEF ModeSet, Quiet, Linking, From, world, locks

\* After the mode a session goes on among the placing stages and the stream.
LEMMA CommandMoves ==
    ASSUME ShapeOK, NEW p \in Proc, NEW work, NEW there, Command(p, work, there)
    PROVE  /\ Alone(p) /\ ShapeOK' /\ s'[p].stage = there
           /\ UNCHANGED <<s[p].node, s[p].size, s[p].bound>>
           /\ s'[p].blind = s[p].blind \/ s'[p].blind = TRUE
<1>1. Goto(p, there) \/ s' = [s EXCEPT ![p].stage = there, ![p].blind = TRUE]
  BY DEF Command
<1>2. CASE Goto(p, there)
  BY <1>2, StageSet
<1>3. CASE s' = [s EXCEPT ![p].stage = there, ![p].blind = TRUE]
  BY <1>3 DEF ShapeOK, Alone, Idle
<1> QED
  BY <1>1, <1>2, <1>3

LEMMA PlaceMoves ==
    ASSUME ShapeOK, NEW p \in Proc, AdoptOutput(p) \/ ApplyLayout(p) \/ PlaceOutput(p)
    PROVE  /\ Quiet(p) /\ s[p].stage \in Placing /\ s'[p].stage \in Placing \cup {"start"}
           /\ s'[p].size = s[p].size /\ s'[p].bound = s[p].bound
           /\ s'[p].blind = s[p].blind \/ s'[p].blind = TRUE
<1> DEFINE Moved == /\ Alone(p) /\ ShapeOK' /\ s'[p].stage \in Placing \cup {"start"}
                    /\ UNCHANGED <<s[p].node, s[p].size, s[p].bound>>
                    /\ s'[p].blind = s[p].blind \/ s'[p].blind = TRUE
<1>1. ASSUME NEW work, NEW there \in Placing, Command(p, work, there) PROVE Moved
  BY <1>1, CommandMoves
<1>2. ASSUME NEW there \in Placing \cup {"start"}, Goto(p, there) PROVE Moved
  BY <1>2, StageSet
<1>3. "adopted" \in Placing /\ "layout" \in Placing /\ "laid" \in Placing /\ "placed" \in Placing
  BY DEF Placing
<1> HIDE DEF Moved
<1>4. CASE AdoptOutput(p)
  <2>1. Moved
    BY <1>1, <1>2, <1>3, <1>4 DEF AdoptOutput
  <2> QED
    BY <1>4, <2>1 DEF AdoptOutput, Moved, Quiet, Linking, Placing, locks
<1>5. CASE ApplyLayout(p)
  <2>1. Moved
    BY <1>1, <1>3, <1>5 DEF ApplyLayout
  <2> QED
    BY <1>5, <2>1 DEF ApplyLayout, Moved, Quiet, Linking, Placing, locks
<1>6. CASE PlaceOutput(p)
  <2>1. Moved
    BY <1>1, <1>2, <1>3, <1>6 DEF PlaceOutput
  <2> QED
    BY <1>6, <2>1 DEF PlaceOutput, Moved, Quiet, Linking, Placing, locks
<1> QED
  BY <1>4, <1>5, <1>6

LEMMA RequeryMoves ==
    ASSUME ShapeOK, NEW p \in Proc, Requery(p)
    PROVE  /\ Quiet(p) /\ s[p].stage \in Placing /\ s'[p].stage \in Placing \cup {"start"}
           /\ s'[p].size = s[p].size /\ s'[p].bound = s[p].bound
<1>1. PICK reply \in {Reply, Nothing} :
          s' = [s EXCEPT ![p].stage = CASE @ = "adopted" -> "layout"
                                        [] @ = "laid" -> "place"
                                        [] @ = "placed" -> "start",
                         ![p].sees = (reply # Nothing),
                         ![p].blind = @ \/ reply = Nothing,
                         ![p].geom = IF s[p].bound \in reply.names THEN at[s[p].bound] ELSE @]
  BY DEF Requery
<1>2. s[p].stage \in {"adopted", "laid", "placed"}
  BY DEF Requery
<1>3. Alone(p) /\ ShapeOK' /\ s'[p].size = s[p].size /\ s'[p].bound = s[p].bound /\ s'[p].node = s[p].node
  BY <1>1 DEF ShapeOK, Alone, Idle
<1>4. s'[p].stage \in {"layout", "place", "start"}
  BY <1>1, <1>2 DEF ShapeOK, Idle
<1> QED
  BY <1>2, <1>3, <1>4 DEF Requery, Quiet, Linking, Placing, world, locks

LEMMA StreamMoves ==
    ASSUME ShapeOK, NEW p \in Proc,
           StartStream(p) \/ MapTouchKWin(p) \/ MapDeviceX11(p) \/ EndStream(p)
    PROVE  /\ Quiet(p)
           /\ s[p].stage \in {"start", "stream"} /\ s'[p].stage \in {"stream", "closing"}
           /\ UNCHANGED <<s[p].size, s[p].bound, s[p].blind>>
<1>1. CASE StartStream(p) \/ EndStream(p)
  BY <1>1, StageSet DEF StartStream, EndStream, Quiet, Linking, world, locks
<1>2. CASE Bind(p)
  <2>1. s' = [s EXCEPT ![p].touch = s[p].bound] /\ s[p].stage = "stream"
    BY <1>2 DEF Bind
  <2> QED
    BY <1>2, <2>1 DEF Bind, Quiet, Linking, Alone, ShapeOK, Idle, world, locks
<1> QED
  BY <1>1, <1>2 DEF MapTouchKWin, MapDeviceX11

LEMMA IdentifyMoves ==
    ASSUME ShapeOK, NEW p \in Proc, Identify(p)
    PROVE  /\ Quiet(p) /\ s[p].stage = "ask" /\ s'[p].stage \in {"ask", "adopt", "start"}
           /\ s'[p].size = s[p].size
<1>1. PICK reply \in {Reply, Nothing} :
          LET c == Candidates(s[p].before, reply, s[p].size) IN
          \/ s' = [s EXCEPT ![p].stage = "adopt", ![p].bound = First(c), ![p].sees = TRUE,
                            ![p].before = Nothing, ![p].tries = 0, ![p].geom = at[First(c)]]
          \/ s' = [s EXCEPT ![p].tries = @ + 1, ![p].blind = @ \/ reply = Nothing]
          \/ s' = [s EXCEPT ![p].stage = "start", ![p].before = Nothing, ![p].tries = 0,
                            ![p].blind = @ \/ reply = Nothing]
  BY DEF Identify
<1>2. s[p].stage = "ask" /\ UNCHANGED <<desk, owner, dev, linked, backend>>
  BY DEF Identify, world, locks
<1>3. /\ Alone(p) /\ ShapeOK' /\ s'[p].size = s[p].size /\ s'[p].node = s[p].node
      /\ s'[p].stage \in {"ask", "adopt", "start"}
  BY <1>1, <1>2 DEF ShapeOK, Alone, Idle
<1> QED
  BY <1>2, <1>3 DEF Quiet, Linking

-----------------------------------------------------------------------------
(* The steps that take, light and give back nodes.                         *)

LEMMA TearDownNodes ==
    ASSUME NodeInv, NEW p \in Proc, TearDown(p), backend' = backend
    PROVE  NodeInv'
<1>0. ShapeOK /\ NodesOK /\ LitIsLinked /\ HasNode(p)
  BY DEF NodeInv
<1>1. /\ Alone(p) /\ ShapeOK' /\ s'[p].stage = "idle" /\ s'[p].node = None
      /\ dev' = dev /\ linked' = linked
  BY <1>0 DEF TearDown, ShapeOK, Alone, Idle
<1>2. /\ owner' \in [Node -> Proc \cup {None}]
      /\ \A n \in Node : owner'[n] = IF owner[n] = p THEN None ELSE owner[n]
  BY <1>0 DEF TearDown, Unlocked, NodesOK
<1>3. /\ desk' \in [Node -> Connector]
      /\ \A n \in Node : owner[n] # p => desk'[n] = desk[n]
      /\ \A n \in Node : desk'[n].mode \in {"on", "lag"} => desk[n].mode \in {"on", "lag"}
  <2>1. CASE UNCHANGED desk
    BY <1>0, <2>1 DEF NodesOK
  <2>2. CASE s[p].node \in Node /\ owner[s[p].node] = p /\
             desk' = [desk EXCEPT ![s[p].node] = IF @.mode = "on" THEN [@ EXCEPT !.mode = "lag"] ELSE Off]
    <3>1. [desk[s[p].node] EXCEPT !.mode = "lag"] \in Connector /\ Off \in Connector
      BY <1>0, <2>2 DEF NodesOK, Connector, Off
    <3>2. desk' \in [Node -> Connector]
      BY <1>0, <2>2, <3>1 DEF NodesOK
    <3>3. \A n \in Node : n # s[p].node => desk'[n] = desk[n]
      BY <1>0, <2>2 DEF NodesOK
    <3>4. desk'[s[p].node].mode \in {"on", "lag"} => desk[s[p].node].mode \in {"on", "lag"}
      BY <1>0, <2>2 DEF NodesOK, Off
    <3> QED
      BY <2>2, <3>2, <3>3, <3>4
  <2>3. s[p].node # None => s[p].node \in Node /\ owner[s[p].node] = p
    BY <1>0 DEF HasNode
  <2> QED
    BY <2>1, <2>2, <2>3 DEF TearDown, Unplug
<1>4. NodesOK'
  <2>1. \A n \in Node : owner'[n] # None => s'[owner'[n]].node = n
    BY <1>0, <1>1, <1>2 DEF NodesOK, Alone
  <2> QED
    BY <1>0, <1>1, <1>2, <1>3, <2>1 DEF NodesOK
<1>5. LitIsLinked'
  BY <1>0, <1>1, <1>3 DEF LitIsLinked
<1>6. HasNode(p)'
  BY <1>1 DEF HasNode, Early, Dark
<1>7. \A q \in Proc \ {p} : HasNode(q)'
  BY <1>1, <1>2, <1>3, OthersKept
<1> QED
  BY <1>1, <1>4, <1>5, <1>6, <1>7 DEF NodeInv

LEMMA ClaimsFree ==
    ASSUME NodesOK
    PROVE  /\ Claimable \in SUBSET Node /\ Claimable \in SUBSET Nat
           /\ Claimable # {} => First(Claimable) \in Claimable
           /\ \A n \in Claimable : n < dev /\ owner[n] = None
<1>1. Claimable \in SUBSET Nat /\ Claimable \in SUBSET Node
  BY SetupAssumption DEF NodesOK, Claimable, Node
<1>2. Claimable # {} => First(Claimable) \in Claimable
  BY <1>1, FirstOfNats
<1>3. \A n \in Claimable : n < dev /\ owner[n] = None
  BY SetupAssumption DEF Claimable, NodesOK
<1> QED
  BY <1>1, <1>2, <1>3

LEMMA ClaimMoves ==
    ASSUME NodeInv, NEW p \in Proc, ClaimNode(p)
    PROVE  \E n \in Node :
              /\ n < dev \/ (n = dev /\ Claimable = {})
              /\ dev' = IF n = dev THEN dev + 1 ELSE dev
              /\ owner[n] = None \/ n = dev
              /\ owner' = [owner EXCEPT ![n] = p]
              /\ s' = [s EXCEPT ![p].stage = "open", ![p].node = n]
<1> DEFINE n == IF Claimable # {} THEN First(Claimable) ELSE dev
<1>1. NodesOK /\ Nodes \in Nat
  BY SetupAssumption DEF NodeInv
<1>2. n \in Node /\ (n < dev \/ (n = dev /\ Claimable = {})) /\ (owner[n] = None \/ n = dev)
  <2>1. CASE Claimable # {}
    BY <1>1, <2>1, ClaimsFree
  <2>2. CASE Claimable = {}
    <3>1. dev < Nodes /\ dev \in 0 .. Nodes
      BY <1>1, <2>2 DEF ClaimNode, NodesOK
    <3> QED
      BY <1>1, <2>2, <3>1 DEF Node
  <2> QED
    BY <2>1, <2>2
<1>3. /\ dev' = IF n = dev THEN dev + 1 ELSE dev
      /\ owner' = [owner EXCEPT ![n] = p]
      /\ s' = [s EXCEPT ![p].stage = "open", ![p].node = n]
  BY DEF ClaimNode
<1> HIDE DEF n
<1> QED
  BY <1>2, <1>3

\* A node has an owner, or a monitor, only if it exists.
OwnedExist == \A n \in Node : owner[n] # None \/ desk[n].mode # "off" => n < dev

LEMMA Wider ==
    ASSUME NEW a \in Int, NEW b \in Int, a <= b
    PROVE  0 .. a - 1 \subseteq 0 .. b - 1
  OBVIOUS

LEMMA ClaimNodes ==
    ASSUME NodeInv, OwnedExist, NEW p \in Proc, ClaimNode(p)
    PROVE  NodeInv'
<1>0. ShapeOK /\ NodesOK /\ LitIsLinked /\ HasNode(p) /\ dev \in Int
  BY SetupAssumption DEF NodeInv, NodesOK
<1>1. PICK n \in Node :
         /\ n < dev \/ (n = dev /\ Claimable = {})
         /\ dev' = IF n = dev THEN dev + 1 ELSE dev
         /\ owner[n] = None \/ n = dev
         /\ owner' = [owner EXCEPT ![n] = p]
         /\ s' = [s EXCEPT ![p].stage = "open", ![p].node = n]
  BY ClaimMoves
<1>2. UNCHANGED <<backend, desk, linked>>
  BY DEF ClaimNode, world
<1>3. owner[n] = None
  BY <1>0, <1>1 DEF OwnedExist
<1>4. Alone(p) /\ ShapeOK' /\ s'[p].stage = "open" /\ s'[p].node = n
  BY <1>0, <1>1 DEF Alone, ShapeOK, Idle
<1>5. s[p].node = None /\ \A m \in Node : owner[m] # p
  <2>1. s[p].node = None
    BY <1>0 DEF ClaimNode, HasNode, Early
  <2> QED
    BY <1>0, <2>1, Nones DEF NodesOK
<1>6. owner' \in [Node -> Proc \cup {None}] /\ owner'[n] = p /\ \A m \in Node \ {n} : owner'[m] = owner[m]
  BY <1>0, <1>1 DEF NodesOK
<1>7. dev' \in 0 .. Nodes /\ linked' \subseteq 0 .. dev' - 1
  <2>1. dev' \in 0 .. Nodes /\ dev <= dev' /\ dev' \in Int
    BY <1>0, <1>1, SetupAssumption DEF NodesOK, Node
  <2>2. linked' \subseteq 0 .. dev - 1
    BY <1>0, <1>2 DEF NodesOK
  <2>3. 0 .. dev - 1 \subseteq 0 .. dev' - 1
    BY <1>0, <2>1, Wider
  <2> QED
    BY <2>1, <2>2, <2>3
<1>8. NodesOK'
  <2>1. \A m \in Node : owner'[m] # None => s'[owner'[m]].node = m
    BY <1>0, <1>4, <1>5, <1>6 DEF NodesOK, Alone
  <2> QED
    BY <1>0, <1>2, <1>6, <1>7, <2>1 DEF NodesOK
<1>9. LitIsLinked'
  BY <1>0, <1>2 DEF LitIsLinked
<1>10. HasNode(p)'
  BY <1>4, <1>6 DEF HasNode, Early, Dark
<1>11. \A q \in Proc \ {p} : HasNode(q)'
  BY <1>2, <1>3, <1>4, <1>6, OthersKept
<1> QED
  BY <1>4, <1>8, <1>9, <1>10, <1>11 DEF NodeInv

LEMMA UnsettledNodes ==
    ASSUME NodeInv, NEW p \in Proc, Unsettled(p)
    PROVE  NodeInv'
<1>0. ShapeOK /\ NodesOK /\ LitIsLinked /\ HasNode(p) /\ dev \in Int /\ Nodes \in Int
  BY SetupAssumption DEF NodeInv, NodesOK
<1>1. s[p].node = None /\ s' = [s EXCEPT ![p] = Idle] /\ dev' = dev + 1 /\ dev < Nodes
  BY <1>0 DEF Unsettled, HasNode, Early
<1>2. UNCHANGED <<backend, desk, linked, owner>>
  BY DEF Unsettled, world
<1>3. Alone(p) /\ ShapeOK' /\ s'[p].stage = "idle" /\ s'[p].node = None
  BY <1>0, <1>1 DEF Alone, ShapeOK, Idle
<1>4. dev' \in 0 .. Nodes /\ linked' \subseteq 0 .. dev' - 1
  BY <1>0, <1>1, <1>2 DEF NodesOK
<1>5. NodesOK'
  <2>1. \A m \in Node : owner[m] # p
    BY <1>0, <1>1, Nones DEF NodesOK
  <2> QED
    BY <1>0, <1>2, <1>3, <1>4, <2>1 DEF NodesOK, Alone
<1>6. LitIsLinked'
  BY <1>0, <1>2 DEF LitIsLinked
<1>7. HasNode(p)'
  BY <1>3 DEF HasNode, Early, Dark
<1>8. \A q \in Proc \ {p} : HasNode(q)'
  BY <1>2, <1>3, OthersKept
<1> QED
  BY <1>3, <1>5, <1>6, <1>7, <1>8 DEF NodeInv

LEMMA ConnectNodes ==
    ASSUME NodeInv, NEW p \in Proc, Connect(p)
    PROVE  NodeInv'
<1>0. ShapeOK /\ NodesOK /\ LitIsLinked /\ HasNode(p)
  BY DEF NodeInv
<1>1. s[p].stage = "open" /\ s[p].node \in Node /\ owner[s[p].node] = p
  BY <1>0 DEF Connect, HasNode, Early
<1>2. UNCHANGED <<backend, linked, dev, owner>>
  BY DEF Connect, locks
<1>3. /\ Alone(p) /\ ShapeOK' /\ s'[p].stage = "mode" /\ s'[p].node = s[p].node
      /\ s'[p].size = s[p].size
  BY <1>0, StageSet DEF Connect
<1>4. desk' = [desk EXCEPT ![s[p].node] = [mode |-> "plugged", size |-> s[p].size]]
  BY DEF Connect
<1>5. /\ desk' \in [Node -> Connector]
      /\ desk'[s[p].node].mode = "plugged" /\ desk'[s[p].node].size = s[p].size
      /\ \A n \in Node \ {s[p].node} : desk'[n] = desk[n]
  BY <1>0, <1>1, <1>4 DEF NodesOK, Connector, ShapeOK
<1>6. NodesOK'
  BY <1>0, <1>2, <1>3, <1>5 DEF NodesOK, Alone
<1>7. LitIsLinked'
  BY <1>0, <1>2, <1>5 DEF LitIsLinked
<1>8. HasNode(p)'
  BY <1>1, <1>2, <1>3, <1>5 DEF HasNode, Early, Dark
<1>9. \A q \in Proc \ {p} : HasNode(q)'
  BY <1>1, <1>2, <1>3, <1>5, OthersKept
<1> QED
  BY <1>3, <1>6, <1>7, <1>8, <1>9 DEF NodeInv

\* The desktop lights outputs and notices that they are gone.
LEMMA DesktopNodes ==
    ASSUME NodeInv, UNCHANGED <<backend, s, owner, dev>>, linked' \subseteq 0 .. dev - 1,
           desk' \in [Node -> Connector],
           \A n \in Node : \/ desk'[n] = desk[n]
                           \/ desk[n].mode = "plugged" /\ desk'[n].mode = "on" /\ desk'[n].size = desk[n].size
                           \/ desk[n].mode = "lag" /\ desk'[n].mode = "off",
           LitIsLinked'
    PROVE  NodeInv'
<1>1. ShapeOK' /\ NodesOK'
  BY DEF NodeInv, ShapeOK, NodesOK
<1>2. ASSUME NEW p \in Proc PROVE HasNode(p)'
  BY DEF NodeInv, HasNode, Early, Dark
<1> QED
  BY <1>1, <1>2 DEF NodeInv

LEMMA EnableNodes ==
    ASSUME NodeInv, OwnedExist, NEW n \in Node, Enable(n)
    PROVE  NodeInv'
<1>0. NodesOK /\ LitIsLinked /\ dev \in Int /\ n \in Int /\ 0 <= n /\ Nodes \in Int
  BY SetupAssumption DEF NodeInv, NodesOK, Node
<1>1. /\ desk[n].mode = "plugged" /\ desk' = [desk EXCEPT ![n].mode = "on"]
      /\ linked' = IF backend = "X11" THEN linked \cup {n} ELSE linked
      /\ UNCHANGED <<backend, s, owner, dev>>
  BY DEF Enable, locks
<1>2. /\ desk' \in [Node -> Connector]
      /\ desk'[n].mode = "on" /\ desk'[n].size = desk[n].size
      /\ \A m \in Node \ {n} : desk'[m] = desk[m]
  BY <1>0, <1>1 DEF NodesOK, Connector
<1>3. LitIsLinked'
  BY <1>0, <1>1, <1>2 DEF LitIsLinked
<1>4. linked' \subseteq 0 .. dev - 1
  <2>1. n < dev
    BY <1>1 DEF OwnedExist
  <2>2. n \in 0 .. dev - 1
    BY <1>0, <2>1
  <2> QED
    BY <1>0, <1>1, <2>2 DEF NodesOK
<1> QED
  BY <1>1, <1>2, <1>3, <1>4, DesktopNodes

LEMMA VanishNodes ==
    ASSUME NodeInv, NEW n \in Node, Vanish(n)
    PROVE  NodeInv'
<1>0. NodesOK /\ LitIsLinked
  BY DEF NodeInv
<1>1. /\ desk[n].mode = "lag" /\ desk' = [desk EXCEPT ![n] = Off]
      /\ UNCHANGED <<backend, s, owner, dev, linked>>
  BY DEF Vanish, locks
<1>2. /\ desk' \in [Node -> Connector] /\ desk'[n].mode = "off"
      /\ \A m \in Node \ {n} : desk'[m] = desk[m]
  BY <1>0, <1>1 DEF NodesOK, Connector, Off
<1>3. LitIsLinked'
  BY <1>0, <1>1, <1>2 DEF LitIsLinked
<1> QED
  BY <1>0, <1>1, <1>2, <1>3, DesktopNodes DEF NodesOK

\* A step of a streamer that takes, lights or gives back no node.
QuietStep(p) ==
    \/ Snapshot(p) \/ NoClient(p) \/ Hello(p) \/ TakeSelect(p) \/ ModeSet(p) \/ Identify(p)
    \/ Requery(p) \/ AdoptOutput(p) \/ ApplyLayout(p) \/ PlaceOutput(p)
    \/ StartStream(p) \/ MapTouchKWin(p) \/ MapDeviceX11(p) \/ EndStream(p)

LEMMA QuietStepNodes ==
    ASSUME NodeInv, NEW p \in Proc, QuietStep(p)
    PROVE  Quiet(p) /\ NodeInv'
<1>0. ShapeOK
  BY DEF NodeInv
<1> DEFINE Fits ==
        /\ s'[p].stage \in Early <=> s[p].stage \in Early
        /\ s'[p].stage \notin Dark => s[p].stage \notin Dark /\ s'[p].size = s[p].size
        /\ s'[p].stage \notin Dark \cup {"mode"} =>
               s[p].stage \notin Dark \cup {"mode"} \/ desk[s[p].node].mode = "on"
<1>1. CASE Snapshot(p) \/ NoClient(p) \/ Hello(p) \/ TakeSelect(p)
  <2>1. Quiet(p) /\ s[p].stage \in Early /\ s'[p].stage \in Early
    BY <1>0, <1>1, SnapshotMoves, NoClientMoves, HelloMoves, TakeSelectMoves DEF From, Early
  <2>2. Fits
    BY <2>1 DEF Dark
  <2> QED
    BY <2>1, <2>2, QuietNodes DEF Quiet
<1>2. CASE ModeSet(p)
  <2>1. Quiet(p) /\ Fits
    BY <1>0, <1>2, ModeSetMoves DEF From, Early, Dark
  <2> QED
    BY <2>1, QuietNodes DEF Quiet
<1>3. CASE Identify(p)
  <2>1. Quiet(p) /\ Fits
    BY <1>0, <1>3, IdentifyMoves DEF Early, Dark
  <2> QED
    BY <2>1, QuietNodes DEF Quiet
<1>4. CASE Requery(p) \/ AdoptOutput(p) \/ ApplyLayout(p) \/ PlaceOutput(p)
  <2>1. Quiet(p) /\ Fits
    BY <1>0, <1>4, RequeryMoves, PlaceMoves DEF Placing, Early, Dark
  <2> QED
    BY <2>1, QuietNodes DEF Quiet
<1>5. CASE StartStream(p) \/ MapTouchKWin(p) \/ MapDeviceX11(p) \/ EndStream(p)
  <2>1. Quiet(p) /\ Fits
    BY <1>0, <1>5, StreamMoves DEF Early, Dark
  <2> QED
    BY <2>1, QuietNodes DEF Quiet
<1> QED
  BY <1>1, <1>2, <1>3, <1>4, <1>5 DEF QuietStep

LEMMA NodeStep == NodeInv /\ OwnedExist /\ [Next]_vars => NodeInv'
<1> SUFFICES ASSUME NodeInv, OwnedExist, [Next]_vars PROVE NodeInv'
  OBVIOUS
<1>1. ASSUME NEW p \in Proc, Fail(p) \/ Close(p) \/ Crash(p)
      PROVE  NodeInv'
  BY <1>1, TearDownNodes DEF Fail, Close, Crash
<1>2. ASSUME UNCHANGED <<s, owner, desk, dev, linked, backend>>
      PROVE  NodeInv'
  BY <1>2 DEF NodeInv, ShapeOK, NodesOK, LitIsLinked, HasNode
<1>3. ASSUME NEW p \in Proc, ParecDies(p) \/ LiveAudio(p)
      PROVE  NodeInv'
  BY <1>2, <1>3 DEF ParecDies, LiveAudio, world, locks
<1>4. ASSUME NEW n, Hotplug(n)
      PROVE  NodeInv'
  BY <1>2, <1>4 DEF Hotplug, locks
<1>5. CASE UNCHANGED vars
  BY <1>2, <1>5 DEF vars, world, locks
<1> QED
  BY <1>1, <1>3, <1>4, <1>5, QuietStepNodes, ClaimNodes, UnsettledNodes, ConnectNodes,
     EnableNodes, VanishNodes DEF Next, Streamer, QuietStep

-----------------------------------------------------------------------------
(* Nodes are used again.                                                   *)

\* Besides p, which has no node yet, every node that exists has an owner.
LEMMA RoomForOne ==
    ASSUME NodeInv, NEW p \in Proc, s[p].stage = "pick", Claimable = {}, dev < Nodes
    PROVE  dev + 1 <= Cardinality(Proc)
<1>0. NodesOK /\ HasNode(p) /\ IsFiniteSet(Proc) /\ dev \in Nat /\ Nodes \in Nat
  BY SetupAssumption DEF NodeInv, NodesOK
<1>1. \A n \in Node : owner[n] # p
  BY <1>0, Nones DEF NodesOK, HasNode, Early
<1>2. \A n \in 0 .. dev - 1 : n \in Node /\ owner[n] \in Proc \ {p} /\ s[owner[n]].node = n
  <2>1. \A n \in 0 .. dev - 1 : n \in Node /\ owner[n] # None
    BY <1>0 DEF Claimable, Node
  <2> QED
    BY <1>0, <1>1, <2>1 DEF NodesOK
<1> DEFINE f == [n \in 0 .. dev - 1 |-> owner[n]]
<1>3. f \in Injection(0 .. dev - 1, Proc \ {p})
  <2>1. f \in [0 .. dev - 1 -> Proc \ {p}]
    BY <1>2
  <2>2. \A m, n \in 0 .. dev - 1 : f[m] = f[n] => m = n
    BY <1>2
  <2> HIDE DEF f
  <2> QED
    BY <2>1, <2>2 DEF Injection, IsInjective
<1>4. IsFiniteSet(Proc \ {p}) /\ Cardinality(Proc \ {p}) = Cardinality(Proc) - 1 /\ Cardinality(Proc) \in Nat
  BY <1>0, FS_RemoveElement, FS_CardinalityType
<1>5. Cardinality(0 .. dev - 1) <= Cardinality(Proc \ {p})
  BY <1>3, <1>4, FS_Injection
<1>6. Cardinality(0 .. dev - 1) = dev
  <2>1. 0 \in Int /\ dev - 1 \in Int
    BY <1>0
  <2>2. Cardinality(0 .. dev - 1) = IF 0 > dev - 1 THEN 0 ELSE (dev - 1) - 0 + 1
    BY <2>1, FS_Interval
  <2> QED
    BY <1>0, <2>2
<1> QED
  BY <1>0, <1>4, <1>5, <1>6

GrowthInv == NodeInv /\ OwnedExist /\ NoGrowth

\* A new node is added by a streamer that finds all others taken.
LEMMA DevMoves ==
    ASSUME NodeInv, [Next]_vars
    PROVE  \/ dev' = dev
           \/ dev' = dev + 1 /\ \E p \in Proc : s[p].stage = "pick" /\ Claimable = {} /\ dev < Nodes
<1>1. ASSUME NEW p \in Proc, ClaimNode(p)
      PROVE  \/ dev' = dev
             \/ dev' = dev + 1 /\ s[p].stage = "pick" /\ Claimable = {} /\ dev < Nodes
  <2>1. CASE Claimable # {}
    <3>1. First(Claimable) < dev
      BY <2>1, ClaimsFree DEF NodeInv
    <3>2. First(Claimable) # dev
      BY <3>1, SetupAssumption DEF NodeInv, NodesOK
    <3> QED
      BY <1>1, <2>1, <3>2 DEF ClaimNode
  <2>2. CASE Claimable = {}
    BY <1>1, <2>2 DEF ClaimNode
  <2> QED
    BY <2>1, <2>2
<1>2. ASSUME NEW p \in Proc, Unsettled(p)
      PROVE  dev' = dev + 1 /\ s[p].stage = "pick" /\ Claimable = {} /\ dev < Nodes
  BY <1>2 DEF Unsettled
<1>3. ASSUME NEW p \in Proc, QuietStep(p)
      PROVE  dev' = dev
  BY <1>3, QuietStepNodes DEF Quiet
<1>4. ASSUME NEW p \in Proc, Fail(p) \/ Close(p) \/ Crash(p) \/ Connect(p) \/ LiveAudio(p) \/ ParecDies(p)
      PROVE  dev' = dev
  BY <1>4 DEF Fail, Close, Crash, TearDown, Connect, LiveAudio, ParecDies, world, locks
<1>5. ASSUME NEW n, Enable(n) \/ Vanish(n) \/ Hotplug(n)
      PROVE  dev' = dev
  BY <1>5 DEF Enable, Vanish, Hotplug, locks
<1>6. UNCHANGED vars => dev' = dev
  BY DEF vars, locks
<1> QED
  BY <1>1, <1>2, <1>3, <1>4, <1>5, <1>6 DEF Next, Streamer, QuietStep

LEMMA OwnedStep ==
    ASSUME NodeInv, OwnedExist, [Next]_vars
    PROVE  OwnedExist'
<1>0. NodesOK /\ dev \in Int /\ dev' \in Int /\ dev <= dev'
  BY DevMoves, SetupAssumption DEF NodeInv, NodesOK
<1>1. ASSUME \A n \in Node : owner'[n] # None => owner[n] = owner'[n],
             \A n \in Node : desk'[n].mode # "off" => desk[n].mode # "off" \/ owner[n] # None
      PROVE  OwnedExist'
  BY <1>0, <1>1, SetupAssumption DEF OwnedExist, Node
<1>2. ASSUME NEW p \in Proc, ClaimNode(p)
      PROVE  OwnedExist'
  <2>1. PICK n \in Node :
           /\ n < dev \/ (n = dev /\ Claimable = {})
           /\ dev' = IF n = dev THEN dev + 1 ELSE dev
           /\ owner[n] = None \/ n = dev
           /\ owner' = [owner EXCEPT ![n] = p]
           /\ s' = [s EXCEPT ![p].stage = "open", ![p].node = n]
    BY <1>2, ClaimMoves
  <2>2. n \in Int /\ n < dev'
    BY <1>0, <2>1, SetupAssumption DEF Node
  <2>3. /\ \A m \in Node : m # n => owner'[m] = owner[m]
        /\ desk' = desk
    BY <1>0, <1>2, <2>1 DEF NodesOK, ClaimNode, world
  <2>4. \A m \in Node : m < dev => m < dev'
    BY <1>0, SetupAssumption DEF Node
  <2> QED
    BY <2>2, <2>3, <2>4 DEF OwnedExist
<1>3. ASSUME NEW p \in Proc, Fail(p) \/ Close(p) \/ Crash(p)
      PROVE  OwnedExist'
  <2>1. owner' = Unlocked(p) /\ Unplug(p)
    BY <1>3 DEF Fail, Close, Crash, TearDown
  <2>2. \A n \in Node : owner'[n] # None => owner[n] = owner'[n]
    BY <1>0, <2>1 DEF Unlocked, NodesOK
  <2>3. \A n \in Node : desk'[n].mode # "off" => desk[n].mode # "off"
    BY <1>0, <2>1 DEF Unplug, NodesOK, Connector, Off
  <2> QED
    BY <1>1, <2>2, <2>3
<1>4. ASSUME NEW p \in Proc, QuietStep(p)
      PROVE  OwnedExist'
  BY <1>1, <1>4, QuietStepNodes DEF Quiet
<1>5. ASSUME NEW p \in Proc, Unsettled(p) \/ LiveAudio(p) \/ ParecDies(p)
      PROVE  OwnedExist'
  BY <1>1, <1>5 DEF Unsettled, LiveAudio, ParecDies, world, locks
<1>6. ASSUME NEW p \in Proc, Connect(p)
      PROVE  OwnedExist'
  <2>1. s[p].node \in Node /\ owner[s[p].node] = p /\ p # None
    BY <1>6, Nones DEF Connect, NodeInv, HasNode, Early
  <2>2. /\ desk' = [desk EXCEPT ![s[p].node] = [mode |-> "plugged", size |-> s[p].size]]
        /\ owner' = owner
    BY <1>6 DEF Connect, locks
  <2>3. \A n \in Node : desk'[n].mode # "off" => desk[n].mode # "off" \/ owner[n] # None
    BY <1>0, <2>1, <2>2 DEF NodesOK
  <2> QED
    BY <1>1, <2>2, <2>3
<1>7. ASSUME NEW n, Enable(n) \/ Vanish(n) \/ Hotplug(n)
      PROVE  OwnedExist'
  <2>1. owner' = owner
    BY <1>7 DEF Enable, Vanish, Hotplug, locks
  <2>2. \A m \in Node : desk'[m].mode # "off" => desk[m].mode # "off"
    BY <1>0, <1>7 DEF Enable, Vanish, Hotplug, NodesOK, Connector, Off
  <2> QED
    BY <1>1, <2>1, <2>2
<1>8. CASE UNCHANGED vars
  BY <1>1, <1>8 DEF vars, world, locks
<1> QED
  BY <1>2, <1>3, <1>4, <1>5, <1>6, <1>7, <1>8 DEF Next, Streamer, QuietStep

LEMMA InitGrowth == Init => GrowthInv
<1> SUFFICES ASSUME Init PROVE GrowthInv
  OBVIOUS
<1>1. OwnedExist
  BY DEF Init, OwnedExist, Off
<1>2. NoGrowth
  <2>1. Cardinality(Proc) \in Nat
    BY SetupAssumption, FS_CardinalityType
  <2> QED
    BY <2>1 DEF Init, NoGrowth
<1> QED
  BY <1>1, <1>2, InitNodes DEF GrowthInv

LEMMA GrowthStep == GrowthInv /\ [Next]_vars => GrowthInv'
<1> SUFFICES ASSUME GrowthInv, [Next]_vars PROVE GrowthInv'
  OBVIOUS
<1>1. NodeInv' /\ OwnedExist'
  BY NodeStep, OwnedStep DEF GrowthInv
<1>2. NoGrowth'
  <2>1. dev' = dev \/ (dev' = dev + 1 /\ dev + 1 <= Cardinality(Proc))
    BY DevMoves, RoomForOne DEF GrowthInv
  <2> QED
    BY <2>1 DEF GrowthInv, NoGrowth
<1> QED
  BY <1>1, <1>2 DEF GrowthInv

\* However often sessions fail, end or crash, there are never more nodes than
\* streamers: one is added only when every other is taken by another streamer.
THEOREM NodesAreUsedAgain == Spec => []NoGrowth
<1>1. GrowthInv => NoGrowth
  BY DEF GrowthInv
<1> QED
  BY <1>1, InitGrowth, GrowthStep, PTL DEF Spec

-----------------------------------------------------------------------------
(* Its own output.                                                         *)

ScreensOK == plugged \subseteq Screen

\* No output is chosen before the identification; a session that then goes on
\* without one has missed an answer of the desktop.
Chosen(p) ==
    /\ s[p].stage \in Unnamed => s[p].bound = None
    /\ s[p].stage \in Placing => s[p].bound # None
    /\ s[p].stage \notin Unnamed => s[p].bound # None \/ s[p].blind

Sure == ~unsure => \A p \in Proc : s[p].bound \in {None, s[p].node}

ChoiceInv == ScreensOK /\ Sure /\ \A p \in Proc : Chosen(p)

\* A streamer that asks has its output on, in sight of a query, in its size.
LEMMA OwnInSight ==
    ASSUME NodeInv, NEW p \in Proc, s[p].stage = "ask"
    PROVE  /\ s[p].node \in Node /\ s[p].node \in On \cap Listed
           /\ SizeOf(s[p].node) = s[p].size
<1>1. HasNode(p) /\ LitIsLinked
  BY DEF NodeInv
<1>2. /\ s[p].node \in Node /\ desk[s[p].node].mode = "on"
      /\ desk[s[p].node].size = s[p].size
  BY <1>1 DEF HasNode, Early, Dark
<1>3. \A n \in Node : n \notin Screen
  BY SetupAssumption DEF Node, Screen
<1>4. s[p].node \in Listed
  BY <1>1, <1>2 DEF LitIsLinked, Listed
<1> QED
  BY <1>2, <1>3, <1>4 DEF On, SizeOf

LEMMA NoReplyNoOutput ==
    ASSUME NEW before, NEW size
    PROVE  Candidates(before, Nothing, size) = {}
  BY DEF Candidates, SelectNewOutput, SelectDroppix, Nothing

LEMMA ReplyHasOutput ==
    ASSUME NodeInv, ScreensOK, NEW p \in Proc, s[p].stage = "ask"
    PROVE  /\ Candidates(s[p].before, Reply, s[p].size) # {}
           /\ Candidates(s[p].before, Reply, s[p].size) \in SUBSET Name
<1>1. s[p].node \in Reply.on /\ s[p].node \in Node /\ SizeOf(s[p].node) = s[p].size
  BY OwnInSight DEF Reply
<1>2. s[p].node \in SelectDroppix(s[p].before, Reply, s[p].size)
  BY <1>1 DEF SelectDroppix
<1>3. Reply.on \subseteq Name
  BY DEF Reply, On, Name, ScreensOK
<1>4. /\ SelectNewOutput(s[p].before, Reply) \subseteq Reply.on
      /\ SelectDroppix(s[p].before, Reply, s[p].size) \subseteq Reply.on
  BY DEF SelectNewOutput, SelectDroppix
<1> QED
  BY <1>2, <1>3, <1>4 DEF Candidates

\* With a sound snapshot there is one candidate.
LEMMA SoundIsOwn ==
    ASSUME NodeInv, NEW p \in Proc, s[p].stage = "ask", Sound(p)
    PROVE  Candidates(s[p].before, Reply, s[p].size) = {s[p].node}
<1> DEFINE n == s[p].node
<1>1. n \in Reply.on /\ n \in Node /\ SizeOf(n) = s[p].size /\ Reply.on \subseteq On
  BY OwnInSight DEF Reply
<1>2. \A m \in On \ {n} : /\ m \in s[p].before.names
                          /\ m \in Node /\ SizeOf(m) = s[p].size => n \notin s[p].before.names
  BY DEF Sound
<1>3. CASE n \notin s[p].before.names
  <2>1. SelectNewOutput(s[p].before, Reply) = {n}
    BY <1>1, <1>2, <1>3 DEF SelectNewOutput
  <2> QED
    BY <2>1 DEF Candidates
<1>4. CASE n \in s[p].before.names
  <2>1. SelectNewOutput(s[p].before, Reply) = {}
    BY <1>1, <1>2, <1>4 DEF SelectNewOutput
  <2>2. {m \in Reply.on : SizeOf(m) = s[p].size} \cap Node = {n}
    BY <1>1, <1>2, <1>4
  <2>3. SelectDroppix(s[p].before, Reply, s[p].size) = {n}
    BY <2>2 DEF SelectDroppix
  <2> QED
    BY <2>1, <2>3 DEF Candidates
<1> QED
  BY <1>3, <1>4

LEMMA IdentifyChoice ==
    ASSUME NodeInv, ScreensOK, NEW p \in Proc, Chosen(p), Identify(p)
    PROVE  /\ Chosen(p)'
           /\ unsure => unsure'
           /\ ~unsure' => s'[p].bound \in {None, s'[p].node}
<1>0. ShapeOK /\ s[p].stage = "ask" /\ s[p].bound = None /\ s'[p].node = s[p].node
  BY IdentifyMoves DEF NodeInv, Identify, Chosen, Unnamed, Quiet
<1>1. PICK reply \in {Reply, Nothing} :
          LET c == Candidates(s[p].before, reply, s[p].size) IN
          \/ /\ c # {}
             /\ s' = [s EXCEPT ![p].stage = "adopt", ![p].bound = First(c), ![p].sees = TRUE,
                               ![p].before = Nothing, ![p].tries = 0, ![p].geom = at[First(c)]]
             /\ unsure' = (unsure \/ ~Sound(p))
          \/ /\ c = {}
             /\ s' = [s EXCEPT ![p].tries = @ + 1, ![p].blind = @ \/ reply = Nothing]
             /\ UNCHANGED unsure
          \/ /\ c = {}
             /\ s' = [s EXCEPT ![p].stage = "start", ![p].before = Nothing, ![p].tries = 0,
                               ![p].blind = @ \/ reply = Nothing]
             /\ UNCHANGED unsure
  BY DEF Identify
<1> DEFINE c == Candidates(s[p].before, reply, s[p].size)
<1>2. CASE c # {}
  <2>1. reply = Reply
    BY <1>2, NoReplyNoOutput
  <2>2. First(c) \in c /\ First(c) # None
    BY <1>0, <1>2, <2>1, ReplyHasOutput, FirstOfNames, Nones
  <2>3. s'[p].stage = "adopt" /\ s'[p].bound = First(c) /\ unsure' = (unsure \/ ~Sound(p))
    BY <1>0, <1>1, <1>2 DEF ShapeOK, Idle
  <2>4. Sound(p) => First(c) = s[p].node
    BY <1>0, <2>1, <2>2, SoundIsOwn
  <2> QED
    BY <1>0, <2>2, <2>3, <2>4 DEF Chosen, Unnamed, Dark, Early, Placing
<1>3. CASE c = {}
  <2>1. reply = Nothing
    BY <1>0, <1>3, ReplyHasOutput
  <2>2. /\ s'[p].bound = None /\ s'[p].stage \in {"ask", "start"} /\ s'[p].blind
        /\ unsure' = unsure
    <3> DEFINE missed == s[p].blind \/ reply = Nothing
    <3>1. \/ s' = [s EXCEPT ![p].tries = @ + 1, ![p].blind = missed]
          \/ s' = [s EXCEPT ![p].stage = "start", ![p].before = Nothing, ![p].tries = 0,
                           ![p].blind = missed]
      BY <1>1, <1>3
    <3>2. missed = TRUE
      BY <2>1
    <3> HIDE DEF missed
    <3>3. ASSUME s' = [s EXCEPT ![p].tries = @ + 1, ![p].blind = missed]
          PROVE  s'[p].bound = None /\ s'[p].stage = "ask" /\ s'[p].blind = TRUE
      BY <1>0, <3>2, <3>3 DEF ShapeOK, Idle
    <3>4. ASSUME s' = [s EXCEPT ![p].stage = "start", ![p].before = Nothing, ![p].tries = 0,
                                ![p].blind = missed]
          PROVE  s'[p].bound = None /\ s'[p].stage = "start" /\ s'[p].blind = TRUE
      BY <1>0, <3>2, <3>4 DEF ShapeOK, Idle
    <3> QED
      BY <1>1, <1>3, <3>1, <3>3, <3>4
  <2> QED
    BY <2>2 DEF Chosen, Unnamed, Dark, Early, Placing
<1> QED
  BY <1>2, <1>3

\* The other steps of a streamer keep its choice, or begin anew.
LEMMA QuietChoice ==
    ASSUME NodeInv, NEW p \in Proc, Chosen(p), QuietStep(p), ~Identify(p)
    PROVE  /\ Chosen(p)' /\ unsure' = unsure
           /\ s'[p].bound \in {None, s[p].bound}
<1>0. ShapeOK
  BY DEF NodeInv
<1>1. unsure' = unsure
  BY DEF QuietStep, Snapshot, NoClient, Hello, TakeSelect, ModeSet, Requery, AdoptOutput, ApplyLayout,
         PlaceOutput, StartStream, MapTouchKWin, MapDeviceX11, Bind, EndStream
<1>2. CASE Snapshot(p) \/ NoClient(p) \/ Hello(p) \/ TakeSelect(p) \/ ModeSet(p)
  <2>1. /\ s[p].stage \in Unnamed /\ s'[p].stage \in Unnamed
        /\ s'[p].bound = s[p].bound \/ s'[p].bound = None
    BY <1>0, <1>2, SnapshotMoves, NoClientMoves, HelloMoves, TakeSelectMoves, ModeSetMoves
       DEF From, Unnamed, Dark, Early
  <2>2. s[p].stage \notin Placing /\ s'[p].stage \notin Placing
    BY <2>1 DEF Unnamed, Dark, Early, Placing
  <2> QED
    BY <1>1, <2>1, <2>2 DEF Chosen
<1>3. CASE Requery(p) \/ AdoptOutput(p) \/ ApplyLayout(p) \/ PlaceOutput(p)
  <2>1. s[p].stage \in Placing /\ s'[p].stage \in Placing \cup {"start"} /\ s'[p].bound = s[p].bound
    BY <1>0, <1>3, RequeryMoves, PlaceMoves
  <2>2. s'[p].stage \notin Unnamed
    BY <2>1 DEF Unnamed, Dark, Early, Placing
  <2> QED
    BY <1>1, <2>1, <2>2 DEF Chosen
<1>4. CASE StartStream(p) \/ MapTouchKWin(p) \/ MapDeviceX11(p) \/ EndStream(p)
  <2>1. /\ s[p].stage \in {"start", "stream"} /\ s'[p].stage \in {"stream", "closing"}
        /\ s'[p].bound = s[p].bound /\ s'[p].blind = s[p].blind
    BY <1>0, <1>4, StreamMoves
  <2> QED
    BY <1>1, <2>1 DEF Chosen, Unnamed, Dark, Early, Placing
<1> QED
  BY <1>2, <1>3, <1>4 DEF QuietStep

LEMMA OtherChoice ==
    ASSUME NodeInv, NEW p \in Proc, Chosen(p),
           Fail(p) \/ Close(p) \/ Crash(p) \/ ClaimNode(p) \/ Unsettled(p) \/ Connect(p)
    PROVE  /\ Alone(p) /\ Chosen(p)' /\ unsure' = unsure
           /\ s'[p].bound = None
<1>0. ShapeOK
  BY DEF NodeInv
<1>1. unsure' = unsure
  BY DEF Fail, Close, Crash, ClaimNode, Unsettled, Connect
<1>2. CASE Fail(p) \/ Close(p) \/ Crash(p) \/ Unsettled(p)
  <2>1. s' = [s EXCEPT ![p] = Idle]
    BY <1>2 DEF Fail, Close, Crash, TearDown, Unsettled
  <2>2. Alone(p) /\ s'[p].stage = "idle" /\ s'[p].bound = None
    BY <1>0, <2>1 DEF ShapeOK, Alone, Idle
  <2> QED
    BY <1>1, <2>2 DEF Chosen, Unnamed, Dark, Early, Placing
<1>3. CASE ClaimNode(p)
  <2>1. PICK n \in Node : s' = [s EXCEPT ![p].stage = "open", ![p].node = n]
    BY <1>3, ClaimMoves
  <2>2. Alone(p) /\ s[p].stage = "pick" /\ s'[p].stage = "open" /\ s'[p].bound = s[p].bound
    BY <1>0, <1>3, <2>1 DEF ClaimNode, ShapeOK, Alone, Idle
  <2> QED
    BY <1>1, <2>2 DEF Chosen, Unnamed, Dark, Early, Placing
<1>4. CASE Connect(p)
  <2>1. Alone(p) /\ s[p].stage = "open" /\ s'[p].stage = "mode" /\ s'[p].bound = s[p].bound
    BY <1>0, <1>4, StageSet DEF Connect
  <2> QED
    BY <1>1, <2>1 DEF Chosen, Unnamed, Dark, Early, Placing
<1> QED
  BY <1>2, <1>3, <1>4

LEMMA ScreensStep == ScreensOK /\ [Next]_vars => ScreensOK'
<1> SUFFICES ASSUME ScreensOK, [Next]_vars PROVE ScreensOK'
  OBVIOUS
<1>1. ASSUME NEW n \in Screen, Hotplug(n)
      PROVE  ScreensOK'
  BY <1>1 DEF Hotplug, ScreensOK
<1>2. ASSUME NEW p \in Proc, Streamer(p)
      PROVE  plugged' = plugged
  <2>1. ASSUME Snapshot(p) \/ NoClient(p) \/ Hello(p) \/ TakeSelect(p) \/ ClaimNode(p) \/ Unsettled(p)
        PROVE  plugged' = plugged
    BY <2>1 DEF Snapshot, NoClient, Hello, TakeSelect, ClaimNode, Unsettled, world
  <2>2. ASSUME Fail(p) \/ Close(p) \/ Crash(p)
        PROVE  plugged' = plugged
    BY <2>2 DEF Fail, Close, Crash, TearDown
  <2>3. ASSUME Connect(p) \/ ModeSet(p) \/ Identify(p) \/ Requery(p)
        PROVE  plugged' = plugged
    BY <2>3 DEF Connect, ModeSet, Identify, Requery, world
  <2>4. ASSUME AdoptOutput(p) \/ ApplyLayout(p) \/ PlaceOutput(p)
        PROVE  plugged' = plugged
    BY <2>4 DEF AdoptOutput, ApplyLayout, PlaceOutput
  <2>5. ASSUME StartStream(p) \/ MapTouchKWin(p) \/ MapDeviceX11(p) \/ EndStream(p) \/ LiveAudio(p) \/ ParecDies(p)
        PROVE  plugged' = plugged
    BY <2>5 DEF StartStream, MapTouchKWin, MapDeviceX11, Bind, EndStream, LiveAudio, ParecDies, world
  <2> QED
    BY <1>2, <2>1, <2>2, <2>3, <2>4, <2>5 DEF Streamer
<1>3. ASSUME NEW n, Enable(n) \/ Vanish(n)
      PROVE  plugged' = plugged
  BY <1>3 DEF Enable, Vanish
<1>4. UNCHANGED vars => plugged' = plugged
  BY DEF vars, world
<1> QED
  BY <1>1, <1>2, <1>3, <1>4 DEF Next, ScreensOK

LEMMA ChoiceKept ==
    ASSUME ChoiceInv, ScreensOK', NEW p \in Proc, Alone(p), Chosen(p)', unsure => unsure',
           ~unsure' => s'[p].bound \in {None, s'[p].node}
    PROVE  ChoiceInv'
<1>1. \A q \in Proc \ {p} : Chosen(q)'
  BY DEF ChoiceInv, Chosen, Alone
<1>2. Sure'
  BY DEF ChoiceInv, Sure, Alone
<1> QED
  BY <1>1, <1>2 DEF ChoiceInv

LEMMA ChoiceStep == NodeInv /\ ChoiceInv /\ [Next]_vars => ChoiceInv'
<1> SUFFICES ASSUME NodeInv, ChoiceInv, [Next]_vars PROVE ChoiceInv'
  OBVIOUS
<1>0. ScreensOK /\ ScreensOK' /\ Sure /\ \A p \in Proc : Chosen(p)
  BY ScreensStep DEF ChoiceInv
<1>1. ASSUME NEW p \in Proc, Identify(p)
      PROVE  ChoiceInv'
  <2>1. Alone(p)
    BY <1>1, IdentifyMoves DEF NodeInv, Quiet
  <2> QED
    BY <1>0, <1>1, <2>1, IdentifyChoice, ChoiceKept
<1>2. ASSUME NEW p \in Proc, QuietStep(p), ~Identify(p)
      PROVE  ChoiceInv'
  <2>1. Alone(p) /\ s'[p].node = s[p].node
    BY <1>2, QuietStepNodes DEF Quiet
  <2>2. /\ Chosen(p)' /\ unsure' = unsure
        /\ s'[p].bound \in {None, s[p].bound}
    BY <1>0, <1>2, QuietChoice
  <2>3. ~unsure' => s'[p].bound \in {None, s'[p].node}
    BY <1>0, <2>1, <2>2 DEF Sure
  <2> QED
    BY <1>0, <2>1, <2>2, <2>3, ChoiceKept
<1>3. ASSUME NEW p \in Proc,
             Fail(p) \/ Close(p) \/ Crash(p) \/ ClaimNode(p) \/ Unsettled(p) \/ Connect(p)
      PROVE  ChoiceInv'
  <2>1. /\ Alone(p) /\ Chosen(p)' /\ unsure' = unsure
        /\ s'[p].bound = None
    BY <1>0, <1>3, OtherChoice
  <2> QED
    BY <1>0, <2>1, ChoiceKept
<1>4. ASSUME UNCHANGED <<s, unsure>>
      PROVE  ChoiceInv'
  BY <1>0, <1>4 DEF ChoiceInv, Sure, Chosen
<1>5. ASSUME NEW p \in Proc, LiveAudio(p) \/ ParecDies(p)
      PROVE  ChoiceInv'
  BY <1>4, <1>5 DEF LiveAudio, ParecDies
<1>6. ASSUME NEW n, Enable(n) \/ Vanish(n) \/ Hotplug(n)
      PROVE  ChoiceInv'
  BY <1>4, <1>6 DEF Enable, Vanish, Hotplug
<1>7. CASE UNCHANGED vars
  BY <1>4, <1>7 DEF vars
<1> QED
  BY <1>1, <1>2, <1>3, <1>5, <1>6, <1>7 DEF Next, Streamer, QuietStep

\* The choice of an output holds from the start.
LEMMA InitChoice == Init => ChoiceInv
<1> SUFFICES ASSUME Init PROVE ChoiceInv
  OBVIOUS
<1>1. ScreensOK
  BY SetupAssumption DEF Init, ScreensOK, Screen
<1>2. \A p \in Proc : s[p].stage = "idle" /\ s[p].bound = None
  BY DEF Init, Idle
<1> QED
  BY <1>1, <1>2 DEF ChoiceInv, Sure, Chosen, Unnamed, Dark, Early, Placing

\* With a sound snapshot a streamer binds to its own output and to no other,
\* whatever the other streamers and the screens do; and it streams without one
\* only when a call to the desktop timed out.
THEOREM TakesItsOwn == Spec => []OwnOutput
<1>1. ChoiceInv => OwnOutput
  BY DEF ChoiceInv, Sure, Chosen, OwnOutput, Streaming, Unnamed, Dark, Early
<1>2. GrowthInv => NodeInv
  BY DEF GrowthInv
<1> QED
  BY <1>1, <1>2, InitChoice, InitGrowth, GrowthStep, ChoiceStep, PTL DEF Spec

-----------------------------------------------------------------------------
(* Its place.                                                              *)

\* Where the output of a streamer belongs.
PlaceOf(p) ==
    IF p \in Mirroring THEN at[prim]
    ELSE GridPosition(s[p].cell, s[p].size, RightOf(prim))

\* What a setup that missed no answer has done: a mirror lies over the primary
\* once apply_layout is through, any other output in its wall cell once it is
\* placed, and the rectangle for the touch is read after the last move.
Settled(p) ==
    LET n == s[p].node IN
    /\ s[p].stage = "laid" /\ p \in Mirroring => at[n] = PlaceOf(p)
    /\ s[p].stage = "place" =>
           /\ s[p].sees
           /\ p \in Mirroring => at[n] = PlaceOf(p) /\ s[p].geom = at[n]
    /\ s[p].stage = "placed" => p \notin Mirroring /\ at[n] = PlaceOf(p)
    /\ s[p].stage \in {"start", "stream"} => at[n] = PlaceOf(p) /\ s[p].geom = at[n]

\* The primary is a screen, and no streamer takes that from it.
PrimaryStays == prim \in plugged

PlacedInv ==
    /\ DOMAIN at = Name
    /\ ~unsure => PrimaryStays /\ \A p \in Proc : ~s[p].blind => Settled(p)

Late == {"laid", "place", "placed", "start", "stream"}

LEMMA ScreensAreNoNodes == \A n \in Node : n \notin Screen
  BY SetupAssumption DEF Node, Screen

\* The primary is on, so no streamer places against another output.
LEMMA AnchorIsPrimary ==
    ASSUME ScreensOK, PrimaryStays, NEW n \in Node
    PROVE  prim \in Screen /\ On \ {n} # {} /\ Anchor(n, On) = prim
<1>1. prim \in Screen /\ prim \in On /\ prim # n
  BY ScreensAreNoNodes DEF ScreensOK, PrimaryStays, On
<1> QED
  BY <1>1 DEF Anchor

\* A setup that does not step stays settled when nothing moves but outputs of
\* other streamers and outputs that are not on.
LEMMA StaysSettled ==
    ASSUME NodeInv, ScreensOK, PrimaryStays, NEW q \in Proc, Settled(q), s'[q] = s[q], prim' = prim,
           \A n \in Name : \/ at'[n] = at[n]
                           \/ n \in Node /\ (owner[n] # q \/ desk[n].mode # "on")
    PROVE  Settled(q)'
<1>1. prim \in Screen /\ at'[prim] = at[prim]
  BY ScreensAreNoNodes DEF ScreensOK, PrimaryStays, Name
<1>2. PlaceOf(q)' = PlaceOf(q)
  BY <1>1 DEF PlaceOf, GridPosition, RightOf, SizeOf
<1>3. s[q].stage \in Late => at'[s[q].node] = at[s[q].node]
  <2> SUFFICES ASSUME s[q].stage \in Late PROVE at'[s[q].node] = at[s[q].node]
    OBVIOUS
  <2>1. /\ s[q].stage \notin Early /\ s[q].stage \notin Dark \cup {"mode"}
    BY DEF Late, Early, Dark
  <2>2. s[q].node \in Node /\ owner[s[q].node] = q /\ desk[s[q].node].mode = "on"
    BY <2>1 DEF NodeInv, HasNode
  <2> QED
    BY <2>2 DEF Name
<1> QED
  BY <1>2, <1>3 DEF Settled, Late

\* The steps of the others keep every setup settled, and the primary where it is.
LEMMA OthersSettled ==
    ASSUME NodeInv, ScreensOK, PrimaryStays, plugged \subseteq plugged', NEW Q \in SUBSET Proc,
           \A q \in Q : s'[q] = s[q] /\ (~s[q].blind => Settled(q)),
           prim' = prim,
           \A n \in Name : \/ at'[n] = at[n]
                           \/ n \in Node /\ (owner[n] \notin Q \/ desk[n].mode # "on")
    PROVE  PrimaryStays' /\ \A q \in Q : ~s'[q].blind => Settled(q)'
<1>1. PrimaryStays'
  BY DEF PrimaryStays
<1>2. ASSUME NEW q \in Q, ~s'[q].blind PROVE Settled(q)'
  BY <1>2, StaysSettled
<1> QED
  BY <1>1, <1>2

\* The commands of a setup move its own output alone.
LEMMA PlacingMoves ==
    ASSUME ScreensOK, PrimaryStays, DOMAIN at = Name, NEW p \in Proc, s[p].bound \in Node,
           AdoptOutput(p) \/ ApplyLayout(p) \/ PlaceOutput(p)
    PROVE  prim' = prim /\ \A n \in Name \ {s[p].bound} : at'[n] = at[n]
<1>1. On \ {s[p].bound} # {} /\ Anchor(s[p].bound, On) = prim
  BY AnchorIsPrimary
<1>2. CASE AdoptOutput(p)
  BY <1>1, <1>2 DEF AdoptOutput, Command
<1>3. CASE ApplyLayout(p)
  BY <1>1, <1>3 DEF ApplyLayout, Command
<1>4. CASE PlaceOutput(p)
  BY <1>1, <1>4 DEF PlaceOutput, Command
<1> QED
  BY <1>2, <1>3, <1>4

\* What a command keeps of its session.
LEMMA GotoKeeps ==
    ASSUME ShapeOK, NEW p \in Proc, NEW there, Goto(p, there)
    PROVE  s'[p].stage = there
           /\ UNCHANGED <<s[p].node, s[p].size, s[p].bound, s[p].blind, s[p].cell, s[p].geom, s[p].sees>>
  BY DEF Goto, ShapeOK, Idle

LEMMA BlindStays ==
    ASSUME ShapeOK, NEW p \in Proc, NEW there, s' = [s EXCEPT ![p].stage = there, ![p].blind = TRUE]
    PROVE  s'[p].blind
  BY DEF ShapeOK, Idle

\* The setup that steps, when its own output is bound: one case for each stage.
LEMMA LayoutSettles ==
    ASSUME ShapeOK, ScreensOK, PrimaryStays, DOMAIN at = Name, NEW p \in Proc,
           s[p].bound = s[p].node, s[p].node \in Node, ApplyLayout(p), ~s'[p].blind
    PROVE  Settled(p)'
<1> DEFINE n == s[p].node
<1>1. prim \in Screen /\ On \ {n} # {} /\ Anchor(n, On) = prim /\ prim # n
  BY AnchorIsPrimary, ScreensAreNoNodes
<1>2. ~(s' = [s EXCEPT ![p].stage = "laid", ![p].blind = TRUE])
  BY BlindStays
<1>3. /\ Goto(p, "laid") /\ prim' = prim
      /\ p \in Mirroring => at' = [at EXCEPT ![n] = at[prim]]
  BY <1>1, <1>2 DEF ApplyLayout, Command
<1>4. s'[p].stage = "laid" /\ s'[p].node = n
  BY <1>3, GotoKeeps
<1>5. n \in DOMAIN at /\ prim \in DOMAIN at
  BY <1>1 DEF Name
<1>6. p \in Mirroring => at'[n] = at'[prim']
  BY <1>1, <1>3, <1>5
<1> QED
  BY <1>4, <1>6 DEF Settled, PlaceOf

LEMMA PlaceSettles ==
    ASSUME ShapeOK, ScreensOK, PrimaryStays, DOMAIN at = Name, NEW p \in Proc,
           s[p].bound = s[p].node, s[p].node \in Node, SizeOf(s[p].node) = s[p].size,
           PlaceOutput(p), ~s'[p].blind, ~s[p].blind => Settled(p)
    PROVE  Settled(p)'
<1> DEFINE n == s[p].node
<1>1. prim \in Screen /\ On \ {n} # {} /\ Anchor(n, On) = prim /\ prim # n
  BY AnchorIsPrimary, ScreensAreNoNodes
<1>2. ~(s' = [s EXCEPT ![p].stage = "placed", ![p].blind = TRUE])
  BY BlindStays
<1>3. prim' = prim /\ s[p].stage = "place"
      /\ \/ /\ s[p].sees /\ p \notin Mirroring
            /\ Goto(p, "placed")
            /\ at' = [at EXCEPT ![n] = GridPosition(s[p].cell, SizeOf(n), RightOf(prim))]
         \/ /\ ~s[p].sees \/ p \in Mirroring
            /\ Goto(p, "start") /\ at' = at
  BY <1>1, <1>2 DEF PlaceOutput, Command
<1>4. n \in DOMAIN at /\ prim \in DOMAIN at
  BY <1>1 DEF Name
<1>5. UNCHANGED <<s[p].node, s[p].size, s[p].blind, s[p].cell, s[p].geom>>
  BY <1>3, GotoKeeps
<1>6. Settled(p)
  BY <1>5
<1>7. CASE /\ p \notin Mirroring /\ Goto(p, "placed")
           /\ at' = [at EXCEPT ![n] = GridPosition(s[p].cell, SizeOf(n), RightOf(prim))]
  <2>1. at'[n] = GridPosition(s[p].cell, s[p].size, RightOf(prim)) /\ at'[prim] = at[prim]
    BY <1>1, <1>4, <1>7
  <2>2. GridPosition(s[p].cell, s[p].size, RightOf(prim))'
          = GridPosition(s[p].cell, s[p].size, RightOf(prim))
    BY <1>1, <1>3, <1>5, <2>1 DEF GridPosition, RightOf, SizeOf
  <2>3. s'[p].stage = "placed"
    BY <1>7, GotoKeeps
  <2> QED
    BY <1>5, <1>7, <2>1, <2>2, <2>3 DEF Settled, PlaceOf
<1>8. CASE p \in Mirroring /\ Goto(p, "start") /\ at' = at
  <2>1. s'[p].stage = "start"
    BY <1>8, GotoKeeps
  <2>2. at[n] = at[prim] /\ s[p].geom = at[n]
    BY <1>3, <1>6, <1>8 DEF Settled, PlaceOf
  <2> QED
    BY <1>3, <1>5, <1>8, <2>1, <2>2 DEF Settled, PlaceOf
<1>9. s[p].sees
  BY <1>3, <1>6 DEF Settled
<1> QED
  BY <1>3, <1>7, <1>8, <1>9

LEMMA RequerySettles ==
    ASSUME ShapeOK, PrimaryStays, NEW p \in Proc, s[p].bound = s[p].node, s[p].node \in Listed,
           Requery(p), ~s'[p].blind, ~s[p].blind => Settled(p)
    PROVE  Settled(p)'
<1>1. PICK reply \in {Reply, Nothing} :
          s' = [s EXCEPT ![p].stage = CASE @ = "adopted" -> "layout"
                                        [] @ = "laid" -> "place"
                                        [] @ = "placed" -> "start",
                         ![p].sees = (reply # Nothing),
                         ![p].blind = @ \/ reply = Nothing,
                         ![p].geom = IF s[p].bound \in reply.names THEN at[s[p].bound] ELSE @]
  BY DEF Requery
<1>2. s'[p].blind = (s[p].blind \/ reply = Nothing)
  BY <1>1 DEF ShapeOK, Idle
<1>3. reply = Reply /\ reply # Nothing /\ Settled(p)
  BY <1>2
<1>4. /\ s'[p].sees = TRUE /\ s'[p].geom = at[s[p].node]
      /\ UNCHANGED <<s[p].node, s[p].size, s[p].cell>>
  BY <1>1, <1>3 DEF ShapeOK, Idle, Reply
<1>5. /\ s[p].stage \in {"adopted", "laid", "placed"}
      /\ s'[p].stage = CASE s[p].stage = "adopted" -> "layout"
                         [] s[p].stage = "laid" -> "place"
                         [] s[p].stage = "placed" -> "start"
  BY <1>1 DEF Requery, ShapeOK, Idle
<1>6. at' = at /\ prim' = prim /\ desk' = desk
  BY DEF Requery, world
<1>7. PlaceOf(p)' = PlaceOf(p)
  BY <1>4, <1>6 DEF PlaceOf, GridPosition, RightOf, SizeOf
<1>8. CASE s[p].stage = "adopted" /\ s'[p].stage = "layout"
  BY <1>8 DEF Settled
<1>9. CASE s[p].stage = "laid" /\ s'[p].stage = "place"
  BY <1>3, <1>4, <1>6, <1>7, <1>9 DEF Settled
<1>10. CASE s[p].stage = "placed" /\ s'[p].stage = "start"
  BY <1>3, <1>4, <1>6, <1>7, <1>10 DEF Settled
<1> QED
  BY <1>5, <1>8, <1>9, <1>10

LEMMA StreamSettles ==
    ASSUME ShapeOK, NEW p \in Proc, ~s'[p].blind, ~s[p].blind => Settled(p),
           StartStream(p) \/ MapTouchKWin(p) \/ MapDeviceX11(p) \/ EndStream(p)
    PROVE  Settled(p)'
<1>1. at' = at /\ prim' = prim /\ desk' = desk
  BY DEF StartStream, MapTouchKWin, MapDeviceX11, Bind, EndStream, world
<1>2. CASE StartStream(p)
  <2>1. s[p].stage = "start" /\ Goto(p, "stream")
    BY <1>2 DEF StartStream
  <2>2. s'[p].stage = "stream" /\ UNCHANGED <<s[p].node, s[p].size, s[p].blind, s[p].cell, s[p].geom>>
    BY <2>1, GotoKeeps
  <2>3. PlaceOf(p)' = PlaceOf(p)
    BY <1>1, <2>2 DEF PlaceOf, GridPosition, RightOf, SizeOf
  <2> QED
    BY <1>1, <2>1, <2>2, <2>3 DEF Settled
<1>3. CASE Bind(p)
  <2>1. s[p].stage = "stream" /\ s' = [s EXCEPT ![p].touch = s[p].bound]
    BY <1>3 DEF Bind
  <2>2. UNCHANGED <<s[p].stage, s[p].node, s[p].size, s[p].blind, s[p].cell, s[p].geom>>
    BY <2>1 DEF ShapeOK, Idle
  <2>3. PlaceOf(p)' = PlaceOf(p)
    BY <1>1, <2>2 DEF PlaceOf, GridPosition, RightOf, SizeOf
  <2> QED
    BY <1>1, <2>1, <2>2, <2>3 DEF Settled
<1>4. CASE EndStream(p)
  <2>1. s'[p].stage = "closing"
    BY <1>4, GotoKeeps DEF EndStream
  <2> QED
    BY <2>1 DEF Settled
<1> QED
  BY <1>2, <1>3, <1>4 DEF MapTouchKWin, MapDeviceX11

\* A session that goes on without an output has missed an answer.
LEMMA IdentifySettles ==
    ASSUME NodeInv, ScreensOK, NEW p \in Proc, Chosen(p), Identify(p), ~s'[p].blind
    PROVE  Settled(p)'
<1>1. s'[p].stage \in {"ask", "adopt", "start"} /\ s[p].stage = "ask" /\ s[p].bound = None
  BY IdentifyMoves DEF NodeInv, Chosen, Unnamed
<1>2. Chosen(p)'
  BY IdentifyChoice
<1>3. s'[p].stage = "start" => s'[p].bound = None
  <2>1. PICK reply \in {Reply, Nothing} :
          LET c == Candidates(s[p].before, reply, s[p].size) IN
          \/ s' = [s EXCEPT ![p].stage = "adopt", ![p].bound = First(c), ![p].sees = TRUE,
                            ![p].before = Nothing, ![p].tries = 0, ![p].geom = at[First(c)]]
          \/ s' = [s EXCEPT ![p].tries = @ + 1, ![p].blind = @ \/ reply = Nothing]
          \/ s' = [s EXCEPT ![p].stage = "start", ![p].before = Nothing, ![p].tries = 0,
                            ![p].blind = @ \/ reply = Nothing]
    BY DEF Identify
  <2> QED
    BY <1>1, <2>1 DEF NodeInv, ShapeOK, Idle
<1>4. s'[p].stage # "start"
  BY <1>2, <1>3 DEF Chosen, Unnamed, Dark, Early
<1> QED
  BY <1>1, <1>4 DEF Settled

\* One step of the setup itself.
LEMMA OwnStepSettles ==
    ASSUME NodeInv, NodeInv', ScreensOK, PrimaryStays, DOMAIN at = Name, NEW p \in Proc, Chosen(p),
           s[p].bound \in {None, s[p].node}, ~s[p].blind => Settled(p), QuietStep(p), ~s'[p].blind
    PROVE  Settled(p)'
<1>0. ShapeOK /\ HasNode(p)
  BY DEF NodeInv
<1>1. CASE Snapshot(p) \/ NoClient(p) \/ Hello(p) \/ TakeSelect(p) \/ ModeSet(p)
  <2>1. s'[p].stage \in {"wait", "idle", "claim", "pick", "ask"}
    BY <1>0, <1>1, SnapshotMoves, NoClientMoves, HelloMoves, TakeSelectMoves, ModeSetMoves DEF From
  <2> QED
    BY <2>1 DEF Settled
<1>2. CASE Identify(p)
  BY <1>2, IdentifySettles
<1>3. CASE StartStream(p) \/ MapTouchKWin(p) \/ MapDeviceX11(p) \/ EndStream(p)
  BY <1>0, <1>3, StreamSettles
<1>4. CASE Requery(p) \/ AdoptOutput(p) \/ ApplyLayout(p) \/ PlaceOutput(p)
  <2>1. s[p].stage \in Placing
    BY <1>0, <1>4, RequeryMoves, PlaceMoves
  <2>2. s[p].stage \notin Early /\ s[p].stage \notin Dark \cup {"mode"}
    BY <2>1 DEF Placing, Early, Dark
  <2>3. /\ s[p].bound = s[p].node /\ s[p].node \in Node
        /\ desk[s[p].node].mode = "on" /\ desk[s[p].node].size = s[p].size
    BY <1>0, <2>1, <2>2 DEF Chosen, HasNode
  <2>4. SizeOf(s[p].node) = s[p].size /\ s[p].node \in Listed
    BY <2>3, ScreensAreNoNodes DEF SizeOf, Listed, LitIsLinked, NodeInv
  <2>5. CASE Requery(p)
    BY <1>0, <2>3, <2>4, <2>5, RequerySettles
  <2>6. CASE ApplyLayout(p)
    BY <1>0, <2>3, <2>6, LayoutSettles
  <2>7. CASE PlaceOutput(p)
    BY <1>0, <2>3, <2>4, <2>7, PlaceSettles
  <2>8. CASE AdoptOutput(p)
    <3>1. s'[p].stage \in {"adopted", "layout"}
      <4>1. \/ Goto(p, "adopted") \/ Goto(p, "layout")
            \/ s' = [s EXCEPT ![p].stage = "adopted", ![p].blind = TRUE]
        BY <2>8 DEF AdoptOutput, Command
      <4> QED
        BY <1>0, <4>1, GotoKeeps, BlindStays
    <3> QED
      BY <3>1 DEF Settled
  <2> QED
    BY <1>4, <2>5, <2>6, <2>7, <2>8
<1> QED
  BY <1>1, <1>2, <1>3, <1>4 DEF QuietStep

\* What each step does to the places, as far as the others can tell.
LEMMA PlacesKept ==
    ASSUME NodeInv, ScreensOK, PrimaryStays, DOMAIN at = Name, Sure, ~unsure, \A p \in Proc : Chosen(p),
           NEW p \in Proc, Streamer(p)
    PROVE  /\ prim' = prim
           /\ \A n \in Name : \/ at'[n] = at[n]
                              \/ n \in Node /\ (owner[n] = p \/ desk[n].mode # "on")
<1>0. ShapeOK /\ HasNode(p)
  BY DEF NodeInv
<1>1. ASSUME AdoptOutput(p) \/ ApplyLayout(p) \/ PlaceOutput(p)
      PROVE  /\ prim' = prim
             /\ \A n \in Name : at'[n] = at[n] \/ (n \in Node /\ owner[n] = p)
  <2>1. s[p].stage \in Placing
    BY <1>0, <1>1, PlaceMoves
  <2>2. s[p].bound = s[p].node /\ s[p].node \in Node /\ owner[s[p].node] = p
    BY <1>0, <2>1 DEF Sure, Chosen, HasNode, Placing, Early
  <2> QED
    BY <1>1, <2>2, PlacingMoves
<1>2. ASSUME Connect(p)
      PROVE  /\ prim' = prim
             /\ \A n \in Name : at'[n] = at[n] \/ (n \in Node /\ owner[n] = p)
  <2>1. s[p].node \in Node /\ owner[s[p].node] = p
    BY <1>0, <1>2 DEF Connect, HasNode, Early
  <2> QED
    BY <1>2, <2>1 DEF Connect
<1>3. ASSUME \/ Snapshot(p) \/ NoClient(p) \/ Hello(p) \/ TakeSelect(p) \/ ClaimNode(p) \/ Unsettled(p)
             \/ ModeSet(p) \/ Identify(p) \/ Requery(p)
             \/ StartStream(p) \/ MapTouchKWin(p) \/ MapDeviceX11(p) \/ EndStream(p) \/ LiveAudio(p) \/ ParecDies(p)
      PROVE  prim' = prim /\ at' = at
  BY <1>3 DEF Snapshot, NoClient, Hello, TakeSelect, ClaimNode, Unsettled, ModeSet, Identify, Requery,
              StartStream, MapTouchKWin, MapDeviceX11, Bind, EndStream, LiveAudio, ParecDies, world
<1>4. ASSUME Fail(p) \/ Close(p) \/ Crash(p)
      PROVE  prim' = prim /\ at' = at
  BY <1>4 DEF Fail, Close, Crash, TearDown
<1> QED
  BY <1>1, <1>2, <1>3, <1>4 DEF Streamer

\* Every output keeps a place.
LEMMA PlacesDomain == DOMAIN at = Name /\ [Next]_vars => DOMAIN at' = Name
<1> SUFFICES ASSUME DOMAIN at = Name, [Next]_vars PROVE DOMAIN at' = Name
  OBVIOUS
<1>1. ASSUME NEW p \in Proc, AdoptOutput(p) \/ ApplyLayout(p) \/ PlaceOutput(p)
      PROVE  DOMAIN at' = Name
  BY <1>1 DEF AdoptOutput, ApplyLayout, PlaceOutput, Command
<1>2. ASSUME NEW p \in Proc, Connect(p)
      PROVE  DOMAIN at' = Name
  BY <1>2 DEF Connect
<1>3. ASSUME NEW p \in Proc,
             \/ Snapshot(p) \/ NoClient(p) \/ Hello(p) \/ TakeSelect(p) \/ ClaimNode(p) \/ Unsettled(p)
             \/ ModeSet(p) \/ Identify(p) \/ Requery(p)
             \/ StartStream(p) \/ MapTouchKWin(p) \/ MapDeviceX11(p) \/ EndStream(p) \/ LiveAudio(p) \/ ParecDies(p)
      PROVE  at' = at
  BY <1>3 DEF Snapshot, NoClient, Hello, TakeSelect, ClaimNode, Unsettled, ModeSet, Identify, Requery,
              StartStream, MapTouchKWin, MapDeviceX11, Bind, EndStream, LiveAudio, ParecDies, world
<1>4. ASSUME NEW p \in Proc, Fail(p) \/ Close(p) \/ Crash(p)
      PROVE  at' = at
  BY <1>4 DEF Fail, Close, Crash, TearDown
<1>5. ASSUME NEW n, Enable(n) \/ Vanish(n) \/ Hotplug(n)
      PROVE  DOMAIN at' = Name
  BY <1>5 DEF Enable, Vanish, Hotplug
<1>6. UNCHANGED vars => at' = at
  BY DEF vars, world
<1> QED
  BY <1>1, <1>2, <1>3, <1>4, <1>5, <1>6 DEF Next, Streamer

\* Screens are only ever added.
LEMMA PluggedGrows == [Next]_vars => plugged \subseteq plugged'
<1> SUFFICES ASSUME [Next]_vars PROVE plugged \subseteq plugged'
  OBVIOUS
<1>1. ASSUME NEW p \in Proc, Streamer(p)
      PROVE  plugged' = plugged
  <2>1. ASSUME \/ Snapshot(p) \/ NoClient(p) \/ Hello(p) \/ TakeSelect(p) \/ ClaimNode(p) \/ Unsettled(p)
               \/ ModeSet(p) \/ Identify(p) \/ Requery(p) \/ Connect(p)
        PROVE  plugged' = plugged
    BY <2>1 DEF Snapshot, NoClient, Hello, TakeSelect, ClaimNode, Unsettled, ModeSet, Identify, Requery,
                Connect, world
  <2>2. ASSUME \/ AdoptOutput(p) \/ ApplyLayout(p) \/ PlaceOutput(p)
               \/ StartStream(p) \/ MapTouchKWin(p) \/ MapDeviceX11(p) \/ EndStream(p) \/ LiveAudio(p) \/ ParecDies(p)
        PROVE  plugged' = plugged
    BY <2>2 DEF AdoptOutput, ApplyLayout, PlaceOutput, StartStream, MapTouchKWin, MapDeviceX11, Bind,
                EndStream, LiveAudio, ParecDies, world
  <2>3. ASSUME Fail(p) \/ Close(p) \/ Crash(p)
        PROVE  plugged' = plugged
    BY <2>3 DEF Fail, Close, Crash, TearDown
  <2> QED
    BY <1>1, <2>1, <2>2, <2>3 DEF Streamer
<1>2. ASSUME NEW n, Enable(n) \/ Vanish(n) \/ Hotplug(n)
      PROVE  plugged \subseteq plugged'
  BY <1>2 DEF Enable, Vanish, Hotplug
<1>3. UNCHANGED vars => plugged' = plugged
  BY DEF vars, world
<1> QED
  BY <1>1, <1>2, <1>3 DEF Next

\* A streamer never takes back that it was unsure.
LEMMA UnsureStays == [Next]_vars /\ ~unsure' => ~unsure
<1> SUFFICES ASSUME [Next]_vars, ~unsure' PROVE ~unsure
  OBVIOUS
<1>1. ASSUME NEW p \in Proc, Identify(p)
      PROVE  ~unsure
  BY <1>1 DEF Identify
<1>2. ASSUME NEW p \in Proc,
             \/ Snapshot(p) \/ NoClient(p) \/ Hello(p) \/ TakeSelect(p) \/ ClaimNode(p) \/ Unsettled(p)
             \/ ModeSet(p) \/ Requery(p) \/ AdoptOutput(p) \/ ApplyLayout(p) \/ PlaceOutput(p)
             \/ Connect(p) \/ Fail(p) \/ Close(p) \/ Crash(p)
             \/ StartStream(p) \/ MapTouchKWin(p) \/ MapDeviceX11(p) \/ EndStream(p) \/ LiveAudio(p) \/ ParecDies(p)
      PROVE  unsure' = unsure
  BY <1>2 DEF Snapshot, NoClient, Hello, TakeSelect, ClaimNode, Unsettled, ModeSet, Requery, AdoptOutput,
              ApplyLayout, PlaceOutput, Connect, Fail, Close, Crash, StartStream,
              MapTouchKWin, MapDeviceX11, Bind, EndStream, LiveAudio, ParecDies
<1>3. ASSUME NEW n, Enable(n) \/ Vanish(n) \/ Hotplug(n)
      PROVE  unsure' = unsure
  BY <1>3 DEF Enable, Vanish, Hotplug
<1>4. UNCHANGED vars => unsure' = unsure
  BY DEF vars
<1> QED
  BY <1>1, <1>2, <1>3, <1>4 DEF Next, Streamer

\* Every step keeps the setups settled.
LEMMA PlacedStep == GrowthInv /\ ChoiceInv /\ PlacedInv /\ [Next]_vars => PlacedInv'
<1> SUFFICES ASSUME GrowthInv, ChoiceInv, PlacedInv, [Next]_vars PROVE PlacedInv'
  OBVIOUS
<1>1. DOMAIN at = Name /\ DOMAIN at' = Name
  BY PlacesDomain DEF PlacedInv
<1> SUFFICES ASSUME ~unsure' PROVE PrimaryStays' /\ \A p \in Proc : ~s'[p].blind => Settled(p)'
  BY <1>1 DEF PlacedInv
<1>2. /\ ~unsure /\ PrimaryStays /\ plugged \subseteq plugged'
      /\ \A p \in Proc : ~s[p].blind => Settled(p)
  BY UnsureStays, PluggedGrows DEF PlacedInv
<1>3. /\ NodeInv /\ NodeInv' /\ OwnedExist /\ ScreensOK /\ Sure
      /\ \A p \in Proc : Chosen(p) /\ s[p].bound \in {None, s[p].node}
  BY <1>2, NodeStep DEF GrowthInv, ChoiceInv, Sure
<1>4. ASSUME UNCHANGED s, prim' = prim,
             \A n \in Name : at'[n] = at[n] \/ (n \in Node /\ desk[n].mode # "on")
      PROVE  PrimaryStays' /\ \A p \in Proc : ~s'[p].blind => Settled(p)'
  BY <1>2, <1>3, <1>4, OthersSettled
<1>5. ASSUME NEW p \in Proc, Streamer(p), Alone(p), ~s'[p].blind => Settled(p)'
      PROVE  PrimaryStays' /\ \A q \in Proc : ~s'[q].blind => Settled(q)'
  <2>1. /\ prim' = prim
        /\ \A n \in Name : \/ at'[n] = at[n]
                           \/ n \in Node /\ (owner[n] = p \/ desk[n].mode # "on")
    BY <1>1, <1>2, <1>3, <1>5, PlacesKept
  <2>2. PICK Q \in SUBSET Proc : Q = Proc \ {p}
    OBVIOUS
  <2>3. \A q \in Q : s'[q] = s[q] /\ (~s[q].blind => Settled(q))
    BY <1>2, <1>5, <2>2 DEF Alone
  <2>4. \A n \in Name : \/ at'[n] = at[n]
                        \/ n \in Node /\ (owner[n] \notin Q \/ desk[n].mode # "on")
    BY <2>1, <2>2
  <2>5. PrimaryStays' /\ \A q \in Q : ~s'[q].blind => Settled(q)'
    BY <1>2, <1>3, <2>1, <2>3, <2>4, OthersSettled
  <2> QED
    BY <1>5, <2>2, <2>5
<1>6. ASSUME NEW p \in Proc, QuietStep(p)
      PROVE  PrimaryStays' /\ \A q \in Proc : ~s'[q].blind => Settled(q)'
  <2>1. Streamer(p)
    BY <1>6 DEF QuietStep, Streamer
  <2>2. Alone(p)
    BY <1>3, <1>6, QuietStepNodes DEF Quiet
  <2>3. ~s'[p].blind => Settled(p)'
    BY <1>1, <1>2, <1>3, <1>6, OwnStepSettles
  <2> QED
    BY <1>5, <2>1, <2>2, <2>3
<1>7. ASSUME NEW p \in Proc, Streamer(p),
             Fail(p) \/ Close(p) \/ Crash(p) \/ ClaimNode(p) \/ Unsettled(p) \/ Connect(p)
      PROVE  PrimaryStays' /\ \A q \in Proc : ~s'[q].blind => Settled(q)'
  <2>1. Alone(p)
    BY <1>3, <1>7, OtherChoice
  <2>2. s'[p].stage \in {"idle", "open", "mode"}
    <3>1. CASE Fail(p) \/ Close(p) \/ Crash(p) \/ Unsettled(p)
      <4>1. s' = [s EXCEPT ![p] = Idle]
        BY <3>1 DEF Fail, Close, Crash, TearDown, Unsettled
      <4> QED
        BY <1>3, <4>1 DEF NodeInv, ShapeOK, Idle
    <3>2. CASE ClaimNode(p)
      <4>1. PICK n \in Node : s' = [s EXCEPT ![p].stage = "open", ![p].node = n]
        BY <1>3, <3>2, ClaimMoves
      <4> QED
        BY <1>3, <4>1 DEF NodeInv, ShapeOK, Idle
    <3>3. CASE Connect(p)
      BY <1>3, <3>3, GotoKeeps DEF Connect, NodeInv
    <3> QED
      BY <1>7, <3>1, <3>2, <3>3
  <2>3. Settled(p)'
    BY <2>2 DEF Settled
  <2> QED
    BY <1>5, <1>7, <2>1, <2>3
<1>8. ASSUME NEW p \in Proc, LiveAudio(p) \/ ParecDies(p)
      PROVE  PrimaryStays' /\ \A q \in Proc : ~s'[q].blind => Settled(q)'
  <2>1. Streamer(p) /\ UNCHANGED s
    BY <1>8 DEF Streamer, LiveAudio, ParecDies
  <2>2. Alone(p)
    BY <2>1 DEF Alone
  <2>3. /\ prim' = prim
        /\ \A n \in Name : at'[n] = at[n] \/ (n \in Node /\ desk[n].mode # "on")
    BY <1>8 DEF ParecDies, LiveAudio, world
  <2> QED
    BY <1>4, <2>1, <2>3
<1>9. ASSUME NEW n \in Node, Enable(n) \/ Vanish(n)
      PROVE  PrimaryStays' /\ \A q \in Proc : ~s'[q].blind => Settled(q)'
  <2>1. prim # n
    BY <1>2, <1>3, ScreensAreNoNodes DEF PrimaryStays, ScreensOK
  <2>2. UNCHANGED s /\ prim' = prim
    BY <1>9, <2>1 DEF Enable, Vanish
  <2>3. \A m \in Name : at'[m] = at[m] \/ (m \in Node /\ desk[m].mode # "on")
    BY <1>1, <1>9 DEF Enable, Vanish
  <2> QED
    BY <1>4, <2>2, <2>3
<1>10. ASSUME NEW n, Hotplug(n)
       PROVE  PrimaryStays' /\ \A q \in Proc : ~s'[q].blind => Settled(q)'
  BY <1>4, <1>10 DEF Hotplug
<1>11. CASE UNCHANGED vars
  BY <1>4, <1>11 DEF vars, world
<1>12. ASSUME NEW p \in Proc, Streamer(p)
       PROVE  PrimaryStays' /\ \A q \in Proc : ~s'[q].blind => Settled(q)'
  BY <1>6, <1>7, <1>8, <1>12 DEF Streamer, QuietStep
<1> QED
  BY <1>9, <1>10, <1>11, <1>12 DEF Next

LEMMA InitPlaced == Init => PlacedInv
<1> SUFFICES ASSUME Init PROVE PlacedInv
  OBVIOUS
<1>1. DOMAIN at = Name
  BY DEF Init
<1>2. PrimaryStays
  BY DEF Init, PrimaryStays
<1>3. \A p \in Proc : s[p].stage = "idle"
  BY DEF Init, Idle
<1> QED
  BY <1>1, <1>2, <1>3 DEF PlacedInv, Settled

\* While no streamer mistook an output, each one that streams and missed no
\* answer of the desktop is in its wall cell, or over the primary when it
\* mirrors it, with the touch on that rectangle, however many others set up,
\* move, end or crash beside it.
THEOREM StaysAtItsPlace == Spec => []AtItsPlace
<1>1. GrowthInv => NodeInv
  BY DEF GrowthInv
<1>2. PlacedInv => AtItsPlace
  BY DEF PlacedInv, AtItsPlace, Settled, Streaming, PlaceOf
<1> QED
  BY <1>1, <1>2, InitGrowth, GrowthStep, InitChoice, ChoiceStep, InitPlaced, PlacedStep, PTL DEF Spec
=============================================================================
