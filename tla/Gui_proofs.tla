----------------------------- MODULE Gui_proofs -----------------------------
(***************************************************************************)
(* Proofs about the GUI, for any values of the constants. GuiSessions: the *)
(* invariant says, for as long as no restart was asked for in haste, what  *)
(* waits for the end of which process, and what the list holds while the   *)
(* slots of an end are running. Approval: the types, and that a device     *)
(* which is not on the list gets one late session of a streamer at most.   *)
(* The two share nothing.                                                  *)
(***************************************************************************)
EXTENDS GuiSessions, Approval, SequenceTheorems, WellFoundedInduction, TLAPS

-----------------------------------------------------------------------------
(* GuiSessions. The invariant.                                             *)

\* Entries have different keys and different ports.
Distinct ==
    \A c, d \in sessions :
        ctl[c].key = ctl[d].key \/ ctl[c].port = ctl[d].port => c = d

\* A listener's key is its port.
KeyOfPort == \A c \in DOMAIN ctl : ctl[c].key \in Port => ctl[c].key = ctl[c].port

\* A live process is in the list. Its restart, if it has one, is for its own key
\* and port, or it is the listener being refreshed.
RestartOf(c) ==
    {<<>>, <<Restart>>} \cup {<<Respawn(ctl[c].key, ctl[c].port, m)>> : m \in BOOLEAN}
Waits ==
    \A c \in DOMAIN ctl : Live(c) =>
        /\ c \in sessions
        /\ ctl[c].shots \in RestartOf(c)
        /\ ctl[c].proc = "starting" => ctl[c].shots = <<>>

\* The end of the process of c is being told.
Telling(c) ==
    /\ ctl[c].proc = "gone"
    /\ emitting # <<>>
    /\ Head(emitting) = Teardown(ctl[c].key)
    /\ Tail(emitting) \in RestartOf(c)

\* What is still to be called, and an entry whose process is gone only while its
\* teardown is.
Emission ==
    \/ emitting = <<>>
    \/ emitting = <<Restart>>
    \/ \E c \in sessions : Telling(c)
    \/ \E key \in Key, port \in Port, m \in BOOLEAN :
          /\ emitting = <<Respawn(key, port, m)>>
          /\ key \in Port => key = port
          /\ \A c \in sessions : ctl[c].key # key /\ ctl[c].port # port
Present == \A c \in sessions : ctl[c].proc = "gone" => Telling(c)

\* Rows stand for entries, and all but listeners have one.
Rowed ==
    /\ \A key \in rows : Has(key)
    /\ \A c \in sessions : ctl[c].origin # "server" => ctl[c].key \in rows

\* A listener that the switch has started.
Served(c) == ctl[c].origin = "server" /\ ctl[c].proc \in {"starting", "running"}

\* It is the one the switch knows, and nothing is due that would make
\* another.
OneKept ==
    \A c \in DOMAIN ctl : Served(c) => enabled /\ serverKey = ctl[c].key /\ rearms = 0
Due ==
    /\ rearms \in {0, 1}
    /\ rearms = 1 => enabled /\ serverKey = NoKey /\ ~refreshing
    /\ \A c \in DOMAIN ctl : Live(c) /\ ctl[c].shots = <<Restart>> =>
          enabled /\ refreshing /\ serverKey = ctl[c].key
    /\ emitting = <<Restart>> => enabled /\ refreshing /\ serverKey = NoKey
    /\ \A c \in sessions : Telling(c) /\ Tail(emitting) = <<Restart>> =>
          enabled /\ refreshing /\ serverKey = ctl[c].key

Orderly ==
    /\ Distinct /\ KeyOfPort /\ Waits /\ Emission /\ Present /\ Rowed
    /\ OneKept /\ Due
Inv == TypeOK /\ (~hasty => Orderly)

-----------------------------------------------------------------------------
(* The list and the ports.                                                  *)

\* Natural numbers have a least one.
LEMMA Least ==
  ASSUME NEW S \in SUBSET Nat, S # {}
  PROVE  \E x \in S : \A y \in S : x <= y
<1>1. PICK x \in S : \A y \in S : ~(<<y, x>> \in OpToRel(<, Nat))
  BY NatLessThanWellFounded, WFMin
<1>2. ASSUME NEW y \in S
      PROVE  x <= y
  <2>1. x \in Nat /\ y \in Nat
    OBVIOUS
  <2>2. ~(y < x)
    BY <1>1, <2>1 DEF OpToRel
  <2> QED
    BY <2>1, <2>2
<1> QED
  BY <1>2

\* find returns the first entry with the key.
LEMMA FindFirst ==
  ASSUME TypeOK, NEW key, Has(key)
  PROVE  /\ Find(key) \in sessions
         /\ Find(key) \in DOMAIN ctl
         /\ ctl[Find(key)].key = key
<1> DEFINE S == {c \in sessions : ctl[c].key = key}
<1>1. S \in SUBSET Nat /\ S # {}
  <2>1. sessions \subseteq Nat
    BY LenProperties DEF TypeOK
  <2> QED
    BY <2>1 DEF Has
<1>2. PICK c \in S : \A d \in S : c <= d
  BY <1>1, Least
<1>3. c \in sessions /\ ctl[c].key = key /\ \A d \in sessions : ctl[d].key = key => c <= d
  BY <1>2
<1>4. Find(key) \in sessions /\ ctl[Find(key)].key = key
  BY <1>3 DEF Find
<1>5. sessions \subseteq DOMAIN ctl
  BY DEF TypeOK
<1> QED
  BY <1>4, <1>5

\* With different keys there is one to find.
LEMMA FindOnly ==
  ASSUME TypeOK, Distinct, NEW c \in sessions
  PROVE  Has(ctl[c].key) /\ Find(ctl[c].key) = c
<1>1. Has(ctl[c].key)
  BY DEF Has
<1> QED
  BY <1>1, FindFirst DEF Distinct

\* allocate_port returns a port of no entry.
LEMMA AllocateFree ==
  ASSUME FreePorts # {}
  PROVE  AllocatePort \in Port /\ \A c \in sessions : ctl[c].port # AllocatePort
<1>1. FreePorts \in SUBSET Nat
  BY GuiAssumption DEF FreePorts, Port
<1>2. PICK p \in FreePorts : \A q \in FreePorts : p <= q
  BY <1>1, Least
<1>3. AllocatePort \in FreePorts
  BY <1>2 DEF AllocatePort
<1> QED
  BY <1>3 DEF FreePorts

\* Ports are keys, devices are none, and neither is a cleared key.
LEMMA Keys == Port \subseteq Key /\ Tablet \subseteq Key /\ Tablet \cap Port = {} /\ NoKey \notin Key
  BY GuiAssumption DEF Port, Key

-----------------------------------------------------------------------------
(* What starting and stopping do to the controllers.                        *)

NewController(key, port, mirror, origin) ==
    [key |-> key, port |-> port, mirror |-> mirror, origin |-> origin,
     proc |-> "starting", shots |-> <<>>]

\* A session that starts is appended to both lists, and changes nothing else.
LEMMA StartFacts ==
  ASSUME TypeOK, NEW key \in Key, NEW port \in Port, NEW mirror \in BOOLEAN,
         NEW origin \in Origin, StartSession(key, port, mirror, origin)
  PROVE  /\ ctl' \in Seq(Controller)
         /\ Len(ctl') = Len(ctl) + 1
         /\ DOMAIN ctl' = DOMAIN ctl \cup {Len(ctl) + 1}
         /\ Len(ctl) + 1 \notin DOMAIN ctl
         /\ ctl'[Len(ctl) + 1] = NewController(key, port, mirror, origin)
         /\ \A c \in DOMAIN ctl : ctl'[c] = ctl[c]
         /\ sessions' = sessions \cup {Len(ctl) + 1}
         /\ sessions \subseteq DOMAIN ctl
         /\ sessions' \subseteq 1 .. Len(ctl')
         /\ rows' = IF origin = "server" THEN rows ELSE rows \cup {key}
         /\ rows' \subseteq Key
<1> DEFINE new == NewController(key, port, mirror, origin)
<1>1. ctl \in Seq(Controller) /\ sessions \subseteq 1 .. Len(ctl) /\ rows \subseteq Key
  BY DEF TypeOK
<1>2. new \in Controller
  <2>1. <<>> \in Seq(Shot)
    BY EmptySeq
  <2> QED
    BY <2>1 DEF NewController, Controller, Process
<1>3. ctl' = Append(ctl, new)
  BY DEF StartSession, NewController
<1>4. /\ ctl' \in Seq(Controller)
      /\ Len(ctl') = Len(ctl) + 1
      /\ \A i \in 1 .. Len(ctl) : ctl'[i] = ctl[i]
      /\ ctl'[Len(ctl) + 1] = new
  BY <1>1, <1>2, <1>3, AppendProperties
<1>5. DOMAIN ctl = 1 .. Len(ctl) /\ DOMAIN ctl' = 1 .. Len(ctl') /\ Len(ctl) \in Nat
  BY <1>1, <1>4, LenProperties
<1>6. /\ sessions' = sessions \cup {Len(ctl) + 1}
      /\ rows' = IF origin = "server" THEN rows ELSE rows \cup {key}
  BY DEF StartSession
<1> HIDE DEF new
<1>7. DOMAIN ctl' = DOMAIN ctl \cup {Len(ctl) + 1} /\ Len(ctl) + 1 \notin DOMAIN ctl
  BY <1>4, <1>5
<1>8. sessions' \subseteq 1 .. Len(ctl')
  <2>1. Len(ctl) + 1 \in 1 .. Len(ctl') /\ 1 .. Len(ctl) \subseteq 1 .. Len(ctl')
    BY <1>4, <1>5
  <2> QED
    BY <1>1, <1>6, <2>1
<1> QED
  BY <1>1, <1>4, <1>5, <1>6, <1>7, <1>8 DEF new

\* The slots of an end: the teardown first, then the restart.
LEMMA EndSlots ==
  ASSUME NEW key \in Key, NEW shots \in Seq(Shot)
  PROVE  LET s == <<Teardown(key)>> \o shots
         IN  s \in Seq(Slot) /\ s # <<>> /\ Head(s) = Teardown(key) /\ Tail(s) = shots
<1> DEFINE t == <<Teardown(key)>>
           s == t \o shots
<1>1. Teardown(key) \in Slot /\ Shot \subseteq Slot
  BY DEF Slot, Teardown
<1>2. t \in Seq(Slot) /\ shots \in Seq(Slot) /\ Len(t) = 1 /\ t[1] = Teardown(key)
  BY <1>1, SeqMonotonic
<1>3. /\ s \in Seq(Slot)
      /\ Len(s) = 1 + Len(shots)
      /\ \A i \in 1 .. Len(s) : s[i] = IF i <= 1 THEN t[i] ELSE shots[i - 1]
  BY <1>2, ConcatProperties
<1>4. Len(shots) \in Nat
  BY <1>2, LenProperties
<1>5. s # <<>> /\ s[1] = t[1]
  BY <1>3, <1>4
<1>6. Head(s) = Teardown(key)
  BY <1>2, <1>3, <1>5, HeadTailProperties
<1>7. /\ Tail(s) \in Seq(Slot)
      /\ Len(Tail(s)) = Len(shots)
      /\ \A i \in 1 .. Len(Tail(s)) : Tail(s)[i] = s[i + 1]
  BY <1>3, <1>4, <1>5, HeadTailProperties
<1>8. \A i \in 1 .. Len(shots) : Tail(s)[i] = shots[i]
  BY <1>3, <1>4, <1>7
<1>9. Tail(s) = shots
  BY <1>2, <1>7, <1>8, SeqEqual
<1> QED
  BY <1>3, <1>5, <1>6, <1>9

\* All but the process and the slots of controller c is as it was.
Kept(c) ==
    /\ ctl' \in Seq(Controller)
    /\ Len(ctl') = Len(ctl) /\ DOMAIN ctl' = DOMAIN ctl
    /\ \A d \in DOMAIN ctl : d # c => ctl'[d] = ctl[d]
    /\ ctl'[c].key = ctl[c].key /\ ctl'[c].port = ctl[c].port
    /\ ctl'[c].origin = ctl[c].origin

\* An update of a process and its slots does that and nothing else.
LEMMA Changed ==
  ASSUME TypeOK, NEW c \in DOMAIN ctl, NEW p \in Process, NEW s \in Seq(Shot),
         ctl' = [ctl EXCEPT ![c].proc = p, ![c].shots = s]
  PROVE  Kept(c) /\ ctl'[c].proc = p /\ ctl'[c].shots = s
<1>1. ctl \in Seq(Controller) /\ DOMAIN ctl = 1 .. Len(ctl) /\ Len(ctl) \in Nat
  BY LenProperties DEF TypeOK
<1>2. ctl \in [1 .. Len(ctl) -> Controller]
  BY <1>1, LenProperties
<1>3. [ctl[c] EXCEPT !.proc = p, !.shots = s] \in Controller
  <2>1. ctl[c] \in Controller
    BY <1>1, <1>2
  <2> QED
    BY <2>1 DEF Controller
<1>4. ctl' = [ctl EXCEPT ![c] = [ctl[c] EXCEPT !.proc = p, !.shots = s]]
  BY <1>1, <1>2
<1>5. c \in 1 .. Len(ctl)
  BY <1>1
<1>6. ctl' \in Seq(Controller) /\ Len(ctl') = Len(ctl) /\ DOMAIN ctl' = DOMAIN ctl
  <2> DEFINE e == [ctl[c] EXCEPT !.proc = p, !.shots = s]
  <2>1. ctl' = [ctl EXCEPT ![c] = e] /\ e \in Controller
    BY <1>3, <1>4
  <2> HIDE DEF e
  <2>2. /\ [ctl EXCEPT ![c] = e] \in Seq(Controller)
        /\ Len([ctl EXCEPT ![c] = e]) = Len(ctl)
    BY <1>1, <1>5, <2>1, ExceptSeq
  <2> QED
    BY <1>1, <2>1, <2>2, LenProperties
<1>7. ctl'[c] = [ctl[c] EXCEPT !.proc = p, !.shots = s]
  BY <1>1, <1>2, <1>4
<1>8. ctl[c] \in Controller
  BY <1>1, <1>2
<1>9. \A d \in DOMAIN ctl : d # c => ctl'[d] = ctl[d]
  BY <1>1, <1>2, <1>4
<1>10. /\ ctl'[c].key = ctl[c].key /\ ctl'[c].port = ctl[c].port
       /\ ctl'[c].origin = ctl[c].origin
       /\ ctl'[c].proc = p /\ ctl'[c].shots = s
  BY <1>7, <1>8 DEF Controller
<1> QED
  BY <1>6, <1>9, <1>10 DEF Kept

\* An update of a process alone keeps its slots.
LEMMA ChangedProcess ==
  ASSUME TypeOK, NEW c \in DOMAIN ctl, NEW p \in Process,
         ctl' = [ctl EXCEPT ![c].proc = p]
  PROVE  Kept(c) /\ ctl'[c].proc = p /\ ctl'[c].shots = ctl[c].shots
<1>1. ctl \in Seq(Controller) /\ ctl \in [1 .. Len(ctl) -> Controller] /\ c \in 1 .. Len(ctl)
  BY LenProperties DEF TypeOK
<1>2. ctl[c] \in Controller
  BY <1>1
<1>3. [ctl[c] EXCEPT !.proc = p] = [ctl[c] EXCEPT !.proc = p, !.shots = ctl[c].shots]
  BY <1>2 DEF Controller
<1>4. ctl' = [ctl EXCEPT ![c].proc = p, ![c].shots = ctl[c].shots]
  BY <1>1, <1>3
<1>5. ctl[c].shots \in Seq(Shot)
  BY <1>2 DEF Controller
<1> QED
  BY <1>4, <1>5, Changed, ZenonT(30)

\* An update of the slots alone keeps the process.
LEMMA ChangedShots ==
  ASSUME TypeOK, NEW c \in DOMAIN ctl, NEW new \in Seq(Shot),
         ctl' = [ctl EXCEPT ![c].shots = @ \o new]
  PROVE  Kept(c) /\ ctl'[c].proc = ctl[c].proc
<1>1. ctl \in Seq(Controller) /\ ctl \in [1 .. Len(ctl) -> Controller] /\ c \in 1 .. Len(ctl)
  BY LenProperties DEF TypeOK
<1>2. ctl[c] \in Controller
  BY <1>1
<1> DEFINE s == ctl[c].shots \o new
<1>3. ctl[c].shots \in Seq(Shot) /\ ctl[c].proc \in Process
  BY <1>2 DEF Controller
<1>4. s \in Seq(Shot)
  BY <1>3, ConcatProperties
<1>5. ctl' = [ctl EXCEPT ![c].shots = s]
  BY <1>1
<1> HIDE DEF s
<1>6. [ctl[c] EXCEPT !.shots = s] = [ctl[c] EXCEPT !.proc = ctl[c].proc, !.shots = s]
  BY <1>2 DEF Controller
<1>7. ctl' = [ctl EXCEPT ![c].proc = ctl[c].proc, ![c].shots = s]
  BY <1>1, <1>5, <1>6
<1> QED
  BY <1>3, <1>4, <1>7, Changed

\* The process has ended, and its teardown and its slots are to be called.
Ended(c, shots) ==
    /\ ctl'[c].proc = "gone"
    /\ emitting' \in Seq(Slot) /\ emitting' # <<>>
    /\ Head(emitting') = Teardown(ctl[c].key)
    /\ Tail(emitting') = shots

\* What an end does.
LEMMA EndFacts ==
  ASSUME TypeOK, NEW c \in DOMAIN ctl, NEW shots \in Seq(Shot), Ends(c, shots)
  PROVE  Kept(c) /\ Ended(c, shots)
<1>1. Kept(c) /\ ctl'[c].proc = "gone"
  <2>1. <<>> \in Seq(Shot) /\ "gone" \in Process
    BY EmptySeq DEF Process
  <2> QED
    BY <2>1, Changed DEF Ends
<1>2. ctl[c].key \in Key
  <2>1. ctl[c] \in Controller
    BY LenProperties DEF TypeOK
  <2> QED
    BY <2>1 DEF Controller
<1> QED
  BY <1>1, <1>2, EndSlots DEF Ends, Ended

\* What stop does: the process ends, or is being stopped, or none was running.
LEMMA StopFacts ==
  ASSUME TypeOK, NEW c \in DOMAIN ctl, NEW new \in Seq(Shot), Stop(c, new)
  PROVE  /\ Kept(c)
         /\ emitting' \in Seq(Slot)
         /\ Waiting(c, new) \in Seq(Shot)
         /\ \/ Live(c) /\ Ended(c, Waiting(c, new))
            \/ /\ Live(c) /\ UNCHANGED emitting
               /\ ctl'[c].proc = "stopping" /\ ctl'[c].shots = Waiting(c, new)
            \/ /\ ~Live(c) /\ UNCHANGED emitting
               /\ ctl'[c].proc = ctl[c].proc
<1>1. Waiting(c, new) \in Seq(Shot)
  <2>1. ctl[c] \in Controller
    BY LenProperties DEF TypeOK
  <2>2. ctl[c].shots \in Seq(Shot)
    BY <2>1 DEF Controller
  <2>3. ctl[c].shots \o new \in Seq(Shot)
    BY <2>2, ConcatProperties
  <2> QED
    BY <2>3, EmptySeq DEF Waiting
<1>2. emitting \in Seq(Slot)
  BY DEF TypeOK
<1>3. CASE Live(c) /\ Ends(c, Waiting(c, new))
  BY <1>1, <1>3, EndFacts DEF Ended
<1>4. CASE /\ Live(c) /\ UNCHANGED emitting
           /\ ctl' = [ctl EXCEPT ![c].proc = "stopping", ![c].shots = Waiting(c, new)]
  <2>1. "stopping" \in Process
    BY DEF Process
  <2>2. Kept(c) /\ ctl'[c].proc = "stopping" /\ ctl'[c].shots = Waiting(c, new)
    BY <1>1, <1>4, <2>1, Changed
  <2> QED
    BY <1>1, <1>2, <1>4, <2>2
<1>5. CASE /\ ~Live(c) /\ UNCHANGED emitting
           /\ ctl' = [ctl EXCEPT ![c].shots = @ \o new]
  <2>1. Kept(c) /\ ctl'[c].proc = ctl[c].proc
    BY <1>5, ChangedShots
  <2> QED
    BY <1>1, <1>2, <1>5, <2>1
<1> QED
  BY <1>3, <1>4, <1>5 DEF Stop

-----------------------------------------------------------------------------
(* Types.                                                                   *)

\* The controllers, the list and the rows have their types.
TypeLists == ctl \in Seq(Controller) /\ sessions \subseteq 1 .. Len(ctl) /\ rows \subseteq Key

\* Starting a listener, or finding no port for it.
LEMMA ServerTypes ==
  ASSUME TypeOK, NEW on \in BOOLEAN, StartServerSession(on)
  PROVE  /\ TypeLists'
         /\ enabled' \in BOOLEAN /\ serverKey' \in Port \cup {NoKey} /\ everConnected' \in BOOLEAN
<1>1. CASE FreePorts = {}
  BY <1>1 DEF StartServerSession, TypeOK, TypeLists
<1>2. CASE FreePorts # {}
  <2>1. AllocatePort \in Port /\ AllocatePort \in Key
    BY <1>2, AllocateFree, Keys
  <2>2. "server" \in Origin
    BY DEF Origin
  <2>3. /\ StartSession(AllocatePort, AllocatePort, FALSE, "server")
        /\ serverKey' = AllocatePort /\ everConnected' = FALSE /\ enabled' = on
    BY <1>2 DEF StartServerSession
  <2>4. TypeLists'
    BY <2>1, <2>2, <2>3, StartFacts DEF TypeLists
  <2> QED
    BY <2>1, <2>3, <2>4
<1> QED
  BY <1>1, <1>2

\* Keeping all but one controller's process keeps the types.
LEMMA KeptTypes ==
  ASSUME TypeOK, NEW c, Kept(c), UNCHANGED <<sessions, rows>>
  PROVE  TypeLists'
BY DEF Kept, TypeOK, TypeLists

\* The slots that restarts connect.
LEMMA ShotTypes ==
  /\ <<>> \in Seq(Shot)
  /\ <<Restart>> \in Seq(Shot)
  /\ \A key \in Key, port \in Port, m \in BOOLEAN :
        Respawn(key, port, m) \in Shot /\ <<Respawn(key, port, m)>> \in Seq(Shot)
<1>1. Restart \in Shot
  BY DEF Shot, Restart
<1>2. \A key \in Key, port \in Port, m \in BOOLEAN : Respawn(key, port, m) \in Shot
  BY DEF Shot, Respawn
<1> QED
  BY <1>1, <1>2, EmptySeq

\* The controllers have their types.
LEMMA OfController ==
  ASSUME TypeOK, NEW c \in DOMAIN ctl
  PROVE  /\ ctl[c].key \in Key /\ ctl[c].port \in Port /\ ctl[c].mirror \in BOOLEAN
         /\ ctl[c].proc \in Process /\ ctl[c].shots \in Seq(Shot) /\ ctl[c].origin \in Origin
<1>1. ctl[c] \in Controller
  BY LenProperties DEF TypeOK
<1> QED
  BY <1>1 DEF Controller

\* The slot that runs next, and the ones after it.
LEMMA SlotTypes ==
  ASSUME TypeOK, emitting # <<>>
  PROVE  Head(emitting) \in Slot /\ Tail(emitting) \in Seq(Slot)
BY HeadTailProperties DEF TypeOK

\* What find returns can be stopped, with the types kept.
LEMMA StopTypes ==
  ASSUME TypeOK, NEW c \in DOMAIN ctl, NEW new \in Seq(Shot), Stop(c, new),
         UNCHANGED <<sessions, rows>>
  PROVE  TypeLists' /\ emitting' \in Seq(Slot)
BY StopFacts, KeptTypes

\* Every step keeps the types.
LEMMA TypeStep == TypeOK /\ [Next]_vars => TypeOK'
<1> SUFFICES ASSUME TypeOK, [Next]_vars PROVE TypeOK'
  OBVIOUS
<1> DEFINE Rest == /\ enabled' \in BOOLEAN /\ serverKey' \in Port \cup {NoKey}
                   /\ refreshing' \in BOOLEAN /\ everConnected' \in BOOLEAN
                   /\ rearms' \in Nat /\ dueRefresh' \in BOOLEAN
                   /\ emitting' \in Seq(Slot)
                   /\ clicks' \in Nat /\ ends' \in Nat /\ hasty' \in BOOLEAN
                   /\ turned' \in BOOLEAN
<1>1. SUFFICES TypeLists' /\ Rest
  BY DEF TypeLists, TypeOK
<1>2. /\ TypeLists
      /\ enabled \in BOOLEAN /\ serverKey \in Port \cup {NoKey}
      /\ refreshing \in BOOLEAN /\ everConnected \in BOOLEAN
      /\ rearms \in Nat /\ dueRefresh \in BOOLEAN
      /\ emitting \in Seq(Slot)
      /\ clicks \in Nat /\ ends \in Nat /\ hasty \in BOOLEAN /\ turned \in BOOLEAN
  BY DEF TypeOK, TypeLists
<1>3. ASSUME Click PROVE clicks' \in Nat
  BY <1>2, <1>3 DEF Click
<1>4. CASE SwitchOn
  <2>1. TypeLists' /\ enabled' \in BOOLEAN /\ serverKey' \in Port \cup {NoKey}
                   /\ everConnected' \in BOOLEAN
    BY <1>4, ServerTypes DEF SwitchOn
  <2>2. Click
    BY <1>4 DEF SwitchOn
  <2> QED
    BY <1>2, <1>3, <1>4, <2>1, <2>2 DEF SwitchOn
<1>5. CASE SwitchOff
  <2>1. CASE serverKey # NoKey /\ Has(serverKey)
    <3>1. Find(serverKey) \in DOMAIN ctl
      BY <2>1, FindFirst
    <3>2. Stop(Find(serverKey), <<>>) /\ UNCHANGED <<sessions, rows>> /\ Click
      BY <1>5, <2>1 DEF SwitchOff
    <3>3. TypeLists' /\ emitting' \in Seq(Slot)
      BY <3>1, <3>2, ShotTypes, StopTypes
    <3> QED
      BY <1>2, <1>3, <1>5, <3>2, <3>3 DEF SwitchOff
  <2>2. CASE ~(serverKey # NoKey /\ Has(serverKey))
    <3>1. UNCHANGED <<ctl, emitting, sessions, rows>> /\ Click
      BY <1>5, <2>2 DEF SwitchOff
    <3> QED
      BY <1>2, <1>3, <1>5, <3>1 DEF SwitchOff, TypeLists
  <2> QED
    BY <2>1, <2>2
<1>6. CASE EditSettings
  BY <1>2, <1>3, <1>6 DEF EditSettings, server, TypeLists
<1>7. ASSUME NEW t \in Tablet, ConnectDevice(t) PROVE TypeLists' /\ Rest
  <2>1. AllocatePort \in Port /\ t \in Key /\ "device" \in Origin
    BY <1>7, AllocateFree, Keys DEF ConnectDevice, Origin
  <2>2. StartSession(t, AllocatePort, FALSE, "device") /\ Click
    BY <1>7 DEF ConnectDevice
  <2>3. TypeLists'
    BY <2>1, <2>2, StartFacts DEF TypeLists
  <2> QED
    BY <1>2, <1>3, <1>7, <2>2, <2>3 DEF ConnectDevice, server
<1>8. ASSUME NEW key \in rows, StopSelectedMonitor(key) PROVE TypeLists' /\ Rest
  <2>1. Find(key) \in DOMAIN ctl /\ Stop(Find(key), <<>>) /\ Click
    BY <1>8, FindFirst DEF StopSelectedMonitor
  <2>2. TypeLists' /\ emitting' \in Seq(Slot)
    BY <1>8, <2>1, ShotTypes, StopTypes DEF StopSelectedMonitor
  <2> QED
    BY <1>2, <1>3, <1>8, <2>1, <2>2 DEF StopSelectedMonitor, server
<1>9. ASSUME NEW key \in rows, ToggleMirror(key) PROVE TypeLists' /\ Rest
  <2> DEFINE c == Find(key)
             new == <<Respawn(key, ctl[c].port, ~ctl[c].mirror)>>
  <2>1. c \in DOMAIN ctl /\ Click /\ Stop(c, new)
    BY <1>9, FindFirst DEF ToggleMirror
  <2>2. key \in Key /\ ctl[c].port \in Port /\ ctl[c].mirror \in BOOLEAN
    BY <1>2, <2>1, OfController DEF TypeLists
  <2>3. new \in Seq(Shot)
    BY <2>2, ShotTypes
  <2> HIDE DEF new, c
  <2>4. TypeLists' /\ emitting' \in Seq(Slot)
    BY <1>9, <2>1, <2>3, StopTypes DEF ToggleMirror
  <2>5. UNCHANGED <<enabled, serverKey, refreshing, everConnected, rearms, dueRefresh, ends, turned>>
    BY <1>9 DEF ToggleMirror, server
  <2>6. hasty' \in BOOLEAN
    BY <1>2, <1>9 DEF ToggleMirror
  <2> QED
    BY <1>2, <1>3, <2>1, <2>4, <2>5, <2>6
<1>10. ASSUME NEW c \in DOMAIN ctl, Approve(c) PROVE TypeLists' /\ Rest
  <2>1. ctl[c].key \in Key
    BY OfController
  <2> QED
    BY <1>2, <1>3, <1>10, <2>1 DEF Approve, server, TypeLists
<1>11. CASE RefreshServer
  <2>1. CASE enabled /\ serverKey # NoKey /\ Has(serverKey)
    <3>1. Find(serverKey) \in DOMAIN ctl
      BY <2>1, FindFirst
    <3>2. Stop(Find(serverKey), <<Restart>>) /\ UNCHANGED <<sessions, rows>>
      BY <1>11, <2>1 DEF RefreshServer
    <3>3. TypeLists' /\ emitting' \in Seq(Slot)
      BY <3>1, <3>2, ShotTypes, StopTypes
    <3>4. refreshing' \in BOOLEAN /\ hasty' \in BOOLEAN
      BY <1>2, <1>11, <2>1 DEF RefreshServer
    <3> QED
      BY <1>2, <1>11, <3>3, <3>4 DEF RefreshServer
  <2>2. CASE ~(enabled /\ serverKey # NoKey /\ Has(serverKey))
    <3>1. UNCHANGED <<ctl, emitting, sessions, rows, refreshing, hasty>>
      BY <1>11, <2>2 DEF RefreshServer
    <3> QED
      BY <1>2, <1>11, <3>1 DEF RefreshServer, TypeLists
  <2> QED
    BY <2>1, <2>2
<1>12. CASE Rearm
  <2>1. CASE enabled
    <3>1. TypeLists' /\ enabled' \in BOOLEAN /\ serverKey' \in Port \cup {NoKey}
                     /\ everConnected' \in BOOLEAN
      BY <1>12, <2>1, ServerTypes DEF Rearm
    <3> QED
      BY <1>2, <1>12, <3>1 DEF Rearm
  <2>2. CASE ~enabled
    <3>1. UNCHANGED <<ctl, sessions, rows, enabled, serverKey, everConnected>>
      BY <1>12, <2>2 DEF Rearm
    <3>2. rearms' \in Nat
      BY <1>2, <1>12 DEF Rearm
    <3>3. UNCHANGED <<refreshing, dueRefresh, emitting, clicks, ends, hasty, turned>>
      BY <1>12 DEF Rearm
    <3>4. TypeLists'
      BY <1>2, <3>1 DEF TypeLists
    <3> QED
      BY <1>2, <3>1, <3>2, <3>3, <3>4
  <2> QED
    BY <2>1, <2>2
<1>13. CASE TearDown
  <2> DEFINE key == Head(emitting).key
  <2>1. emitting # <<>> /\ Tail(emitting) \in Seq(Slot) /\ emitting' = Tail(emitting)
    BY <1>13, SlotTypes DEF TearDown, Slots
  <2>2. ctl' \in Seq(Controller) /\ Len(ctl') = Len(ctl)
    <3>1. CASE Has(key) /\ Live(Find(key))
      <4>1. Find(key) \in DOMAIN ctl /\ "stopping" \in Process
        BY <3>1, FindFirst DEF Process
      <4>2. ctl' = [ctl EXCEPT ![Find(key)].proc = "stopping"]
        BY <1>13, <3>1 DEF TearDown, Delete
      <4> QED
        BY <4>1, <4>2, ChangedProcess DEF Kept
    <3>2. CASE ~(Has(key) /\ Live(Find(key)))
      BY <1>2, <1>13, <3>2 DEF TearDown, Delete, TypeLists
    <3> QED
      BY <3>1, <3>2
  <2>3. sessions' \subseteq sessions /\ rows' \subseteq rows
    BY <1>13 DEF TearDown
  <2>4. serverKey' \in Port \cup {NoKey} /\ rearms' \in Nat /\ enabled' \in BOOLEAN
    BY <1>2, <1>13 DEF TearDown, ServerEnded, ShouldRearm
  <2>5. TypeLists'
    BY <1>2, <2>2, <2>3 DEF TypeLists
  <2> QED
    BY <1>2, <1>13, <2>1, <2>4, <2>5 DEF TearDown
<1>14. CASE RespawnMirror
  <2> DEFINE e == Head(emitting)
  <2>1. /\ emitting # <<>> /\ Tail(emitting) \in Seq(Slot) /\ emitting' = Tail(emitting)
        /\ e \in Slot /\ e.slot = "mirror"
    BY <1>14, SlotTypes DEF RespawnMirror, Slots
  <2>2. e.key \in Key /\ e.port \in Port /\ e.mirror \in BOOLEAN /\ "mirror" \in Origin
    BY <2>1 DEF Slot, Shot, Restart, Origin
  <2>3. StartSession(e.key, e.port, e.mirror, "mirror")
    BY <1>14 DEF RespawnMirror
  <2>4. TypeLists'
    BY <2>2, <2>3, StartFacts DEF TypeLists
  <2> QED
    BY <1>2, <1>14, <2>1, <2>4 DEF RespawnMirror, server
<1>15. CASE RestartServer
  <2>1. emitting # <<>> /\ Tail(emitting) \in Seq(Slot) /\ emitting' = Tail(emitting)
    BY <1>15, SlotTypes DEF RestartServer, Slots
  <2>2. TypeLists' /\ enabled' \in BOOLEAN /\ serverKey' \in Port \cup {NoKey}
                   /\ everConnected' \in BOOLEAN
    BY <1>2, <1>15, ServerTypes DEF RestartServer
  <2> QED
    BY <1>2, <1>15, <2>1, <2>2 DEF RestartServer
<1>16. ASSUME NEW c \in DOMAIN ctl, Started(c) PROVE TypeLists' /\ Rest
  <2>1. "running" \in Process
    BY DEF Process
  <2>2. Kept(c) /\ UNCHANGED <<sessions, rows>>
    BY <1>16, <2>1, ShotTypes, Changed DEF Started
  <2> QED
    BY <1>2, <1>16, <2>2, KeptTypes DEF Started, server
<1>17. ASSUME NEW c \in DOMAIN ctl, FailToStart(c) PROVE TypeLists' /\ Rest
  <2>1. "failed" \in Process
    BY DEF Process
  <2>2. Kept(c) /\ UNCHANGED <<sessions, rows>>
    BY <1>17, <2>1, ChangedProcess DEF FailToStart
  <2> QED
    BY <1>2, <1>17, <2>2, KeptTypes DEF FailToStart, server
<1>18. ASSUME NEW c \in DOMAIN ctl, Exit(c) \/ Stopped(c) PROVE TypeLists' /\ Rest
  <2>1. Ends(c, ctl[c].shots) /\ UNCHANGED <<sessions, rows, server, dueRefresh, clicks, hasty, turned>>
    BY <1>18 DEF Exit, Stopped
  <2>2. ends' \in Nat
    BY <1>2, <1>18 DEF Exit, Stopped
  <2>3. Kept(c) /\ emitting' \in Seq(Slot)
    BY <2>1, OfController, EndFacts DEF Ended
  <2> QED
    BY <1>2, <2>1, <2>2, <2>3, KeptTypes DEF server
<1>19. ASSUME NEW c \in DOMAIN ctl, Stats(c) PROVE TypeLists' /\ Rest
  BY <1>2, <1>19 DEF Stats, TypeLists
<1>20. CASE UNCHANGED vars
  BY <1>2, <1>20 DEF vars, server, TypeLists
<1> QED
  BY <1>4, <1>5, <1>6, <1>7, <1>8, <1>9, <1>10, <1>11, <1>12, <1>13, <1>14, <1>15,
     <1>16, <1>17, <1>18, <1>19, <1>20 DEF Next, User, Run

\* The types hold initially.
LEMMA TypeInit == Init => TypeOK
<1>1. <<>> \in Seq(Controller) /\ <<>> \in Seq(Slot)
  BY EmptySeq
<1> SUFFICES ASSUME Init PROVE TypeOK
  OBVIOUS
<1>2. sessions \subseteq 1 .. Len(ctl) /\ rows \subseteq Key
  BY DEF Init
<1>3. ctl \in Seq(Controller) /\ emitting \in Seq(Slot)
  BY <1>1 DEF Init
<1>4. /\ enabled \in BOOLEAN /\ refreshing \in BOOLEAN /\ everConnected \in BOOLEAN
      /\ dueRefresh \in BOOLEAN /\ hasty \in BOOLEAN /\ turned \in BOOLEAN
  BY DEF Init
<1>5. /\ serverKey \in Port \cup {NoKey}
      /\ rearms \in Nat /\ clicks \in Nat /\ ends \in Nat
  BY DEF Init
<1> QED
  BY <1>2, <1>3, <1>4, <1>5 DEF TypeOK

\* The controllers, the list, the rows, the switch and the slots that wait have
\* their types in every reachable state.
THEOREM TypeCorrect == Spec => []TypeOK
<1>1. Init => TypeOK
  BY TypeInit
<1>2. TypeOK /\ [Next]_vars => TypeOK'
  BY TypeStep
<1> QED
  BY <1>1, <1>2, PTL DEF Spec

-----------------------------------------------------------------------------
(* The invariant: what the list and the slots are.                          *)

Lists == Distinct /\ KeyOfPort /\ Waits /\ Emission /\ Present /\ Rowed

\* The three shapes of a restart can be told apart.
LEMMA Shapes ==
  /\ <<Restart>> # <<>>
  /\ \A key, port, m : <<Respawn(key, port, m)>> # <<>> /\ <<Respawn(key, port, m)>> # <<Restart>>
BY DEF Restart, Respawn

\* What can become of a process, with the restart w that waits for its end.
Turn(c, w) ==
    \/ Live(c) /\ Ended(c, w)
    \/ /\ Live(c) /\ UNCHANGED emitting
       /\ ctl'[c].proc \in {"running", "stopping"} /\ ctl'[c].shots = w
    \/ Live(c) /\ UNCHANGED emitting /\ ctl'[c].proc = "failed"
    \/ ~Live(c) /\ UNCHANGED emitting /\ ctl'[c].proc = ctl[c].proc

\* Whatever it is, the list stays in order.
LEMMA TurnLists ==
  ASSUME TypeOK, Lists, emitting = <<>>, NEW c \in sessions, NEW w \in RestartOf(c),
         Kept(c), Turn(c, w), UNCHANGED <<sessions, rows>>
  PROVE  Lists'
<1>1. sessions \subseteq DOMAIN ctl /\ DOMAIN ctl' = DOMAIN ctl /\ sessions' = sessions /\ rows' = rows
  BY LenProperties DEF TypeOK, Kept
<1>2. \A d \in DOMAIN ctl : /\ ctl'[d].key = ctl[d].key
                            /\ ctl'[d].port = ctl[d].port
                            /\ ctl'[d].origin = ctl[d].origin
  BY DEF Kept
<1>3. \A d \in DOMAIN ctl : d # c => ctl'[d] = ctl[d]
  BY DEF Kept
<1>4. \A d \in DOMAIN ctl : RestartOf(d)' = RestartOf(d)
  BY <1>2 DEF RestartOf
<1>5. Distinct' /\ KeyOfPort'
  BY <1>1, <1>2 DEF Lists, Distinct, KeyOfPort
<1>6. Rowed'
  BY <1>1, <1>2 DEF Lists, Rowed, Has
<1>7. Waits'
  <2> SUFFICES ASSUME NEW d \in DOMAIN ctl, Live(d)'
               PROVE  d \in sessions /\ ctl'[d].shots \in RestartOf(d)
                      /\ (ctl'[d].proc = "starting" => ctl'[d].shots = <<>>)
    BY <1>1, <1>4 DEF Waits
  <2>1. CASE d # c
    BY <1>3, <2>1 DEF Lists, Waits, Live
  <2>2. CASE d = c
    <3>1. ctl'[c].proc \in {"running", "stopping"} /\ ctl'[c].shots = w
      BY <2>2 DEF Turn, Live, Ended
    <3> QED
      BY <2>2, <3>1
  <2> QED
    BY <2>1, <2>2
<1>8. Emission' /\ Present'
  <2>1. \A d \in sessions : d # c => ctl'[d].proc # "gone"
    BY <1>1, <1>3 DEF Lists, Present, Telling
  <2>2. ctl[c].proc # "gone"
    BY DEF Lists, Present, Telling
  <2>3. CASE Ended(c, w)
    <3>1. Telling(c)'
      BY <1>1, <1>2, <1>4, <2>3 DEF Telling, Ended
    <3> QED
      BY <1>1, <2>1, <3>1 DEF Emission, Present
  <2>4. CASE ~Ended(c, w)
    <3>1. emitting' = <<>> /\ ctl'[c].proc # "gone"
      BY <2>2, <2>4 DEF Turn
    <3> QED
      BY <1>1, <2>1, <3>1 DEF Emission, Present
  <2> QED
    BY <2>3, <2>4
<1> QED
  BY <1>5, <1>6, <1>7, <1>8 DEF Lists

\* And it makes no listener, nor a restart other than the one that waits.
LEMMA TurnListener ==
  ASSUME TypeOK, Lists, emitting = <<>>, NEW c \in sessions, NEW w \in RestartOf(c),
         Kept(c), Turn(c, w), UNCHANGED <<sessions, rows>>
  PROVE  /\ \A d \in DOMAIN ctl : ctl'[d].key = ctl[d].key
         /\ DOMAIN ctl' = DOMAIN ctl
         /\ \A d \in DOMAIN ctl : Served(d)' =>
               Served(d) \/ (d = c /\ Live(c) /\ ctl'[c].proc = "running")
         /\ emitting' # <<Restart>>
         /\ \A d \in DOMAIN ctl : Live(d)' /\ ctl'[d].shots = <<Restart>> =>
               Live(d) /\ (ctl[d].shots = <<Restart>> \/ (d = c /\ w = <<Restart>>))
         /\ \A d \in sessions : Telling(d)' /\ Tail(emitting') = <<Restart>> =>
               d = c /\ w = <<Restart>> /\ Live(c)
<1>1. sessions \subseteq DOMAIN ctl
  BY LenProperties DEF TypeOK
<1>2. \A d \in DOMAIN ctl : d # c => ctl'[d] = ctl[d]
  BY DEF Kept
<1>3. \A d \in DOMAIN ctl : ctl'[d].key = ctl[d].key /\ ctl'[d].origin = ctl[d].origin
  BY DEF Kept
<1>4. ASSUME NEW d \in DOMAIN ctl, Served(d)'
      PROVE  Served(d) \/ (d = c /\ Live(c) /\ ctl'[c].proc = "running")
  <2>1. CASE d # c
    BY <1>2, <1>4, <2>1 DEF Served
  <2>2. CASE d = c
    <3>1. ctl'[c].proc \in {"starting", "running"} /\ ctl[c].origin = "server"
      BY <1>3, <1>4, <2>2 DEF Served
    <3> QED
      BY <2>2, <3>1 DEF Turn, Ended, Live, Served
  <2> QED
    BY <2>1, <2>2
<1>5. emitting' # <<Restart>>
  <2>1. CASE Ended(c, w)
    <3>1. Head(<<Restart>>) = Restart
      OBVIOUS
    <3> QED
      BY <2>1, <3>1 DEF Ended, Teardown, Restart
  <2>2. CASE ~Ended(c, w)
    BY <2>2, Shapes DEF Turn
  <2> QED
    BY <2>1, <2>2
<1>6. ASSUME NEW d \in DOMAIN ctl, Live(d)', ctl'[d].shots = <<Restart>>
      PROVE  Live(d) /\ (ctl[d].shots = <<Restart>> \/ (d = c /\ w = <<Restart>>))
  <2>1. CASE d # c
    BY <1>2, <1>6, <2>1 DEF Live
  <2>2. CASE d = c
    BY <1>6, <2>2 DEF Turn, Ended, Live
  <2> QED
    BY <2>1, <2>2
<1>7. ASSUME NEW d \in sessions, Telling(d)', Tail(emitting') = <<Restart>>
      PROVE  d = c /\ w = <<Restart>> /\ Live(c)
  <2>1. Ended(c, w) /\ Live(c)
    BY <1>7 DEF Telling, Turn
  <2>2. ctl'[d].proc = "gone" /\ (d # c => ctl[d].proc = "gone")
    BY <1>1, <1>2, <1>7 DEF Telling
  <2>3. d = c
    BY <2>2 DEF Lists, Present, Telling
  <2> QED
    BY <1>7, <2>1, <2>3 DEF Ended
<1> QED
  BY <1>3, <1>4, <1>5, <1>6, <1>7 DEF Kept

\* What stop makes of a process is a turn, with the restart that waits.
LEMMA StopTurn ==
  ASSUME TypeOK, Lists, NEW c \in sessions, NEW new \in RestartOf(c),
         Stop(c, new), new = <<>> \/ ~Hasty(c)
  PROVE  /\ Kept(c) /\ emitting' \in Seq(Slot)
         /\ \E w \in RestartOf(c) : /\ Turn(c, w)
                                    /\ ctl'[c].proc \notin {"starting", "running"}
                                    /\ w = new \/ w = ctl[c].shots
<1>1. c \in DOMAIN ctl
  BY LenProperties DEF TypeOK
<1>2. new \in Seq(Shot)
  <2>1. ctl[c].key \in Key /\ ctl[c].port \in Port
    BY <1>1, OfController
  <2> QED
    BY <2>1, ShotTypes DEF RestartOf
<1>3. /\ Kept(c) /\ emitting' \in Seq(Slot)
      /\ \/ Live(c) /\ Ended(c, Waiting(c, new))
         \/ /\ Live(c) /\ UNCHANGED emitting
            /\ ctl'[c].proc = "stopping" /\ ctl'[c].shots = Waiting(c, new)
         \/ /\ ~Live(c) /\ UNCHANGED emitting
            /\ ctl'[c].proc = ctl[c].proc
  BY <1>1, <1>2, StopFacts
<1>4. ASSUME Live(c) PROVE Waiting(c, new) \in RestartOf(c)
                           /\ (Waiting(c, new) = new \/ Waiting(c, new) = ctl[c].shots)
  <2>1. ctl[c].shots \in RestartOf(c) /\ (ctl[c].proc = "starting" => ctl[c].shots = <<>>)
    BY <1>1, <1>4 DEF Lists, Waits
  <2>2. ctl[c].shots \in Seq(Shot)
    BY <1>1, OfController
  <2>3. CASE ctl[c].proc = "starting"
    BY <2>1, <2>3 DEF Waiting
  <2>4. CASE ctl[c].proc # "starting" /\ new = <<>>
    <3>1. ctl[c].shots \o <<>> = ctl[c].shots
      BY <2>2, ConcatEmptySeq
    <3> QED
      BY <2>1, <2>4, <3>1 DEF Waiting
  <2>5. CASE ctl[c].proc # "starting" /\ ~Hasty(c)
    <3>1. ctl[c].shots = <<>>
      BY <1>4, <2>5 DEF Hasty
    <3>2. <<>> \o new = new
      BY <1>2, ConcatEmptySeq
    <3> QED
      BY <2>5, <3>1, <3>2 DEF Waiting
  <2> QED
    BY <2>3, <2>4, <2>5
<1>5. CASE Live(c)
  <2>1. Turn(c, Waiting(c, new)) /\ ctl'[c].proc \notin {"starting", "running"}
    BY <1>3, <1>5 DEF Turn, Ended
  <2> QED
    BY <1>3, <1>4, <1>5, <2>1
<1>6. CASE ~Live(c)
  <2>1. Turn(c, new) /\ ctl'[c].proc \notin {"starting", "running"}
    BY <1>3, <1>6 DEF Turn, Live
  <2> QED
    BY <1>3, <2>1
<1> QED
  BY <1>5, <1>6

\* A stop keeps the list in order, ends the listener that it stops, and makes no
\* restart of a listener but the one it was given.
LEMMA StopLists ==
  ASSUME TypeOK, Lists, emitting = <<>>, NEW c \in sessions, NEW new \in RestartOf(c),
         Stop(c, new), new = <<>> \/ ~Hasty(c), UNCHANGED <<sessions, rows>>
  PROVE  /\ Lists'
         /\ \A d \in DOMAIN ctl : ctl'[d].key = ctl[d].key
         /\ DOMAIN ctl' = DOMAIN ctl
         /\ \A d \in DOMAIN ctl : Served(d)' => Served(d) /\ d # c
         /\ emitting' # <<Restart>>
         /\ \A d \in DOMAIN ctl : Live(d)' /\ ctl'[d].shots = <<Restart>> =>
               Live(d) /\ (ctl[d].shots = <<Restart>> \/ (d = c /\ new = <<Restart>>))
         /\ \A d \in sessions : Telling(d)' /\ Tail(emitting') = <<Restart>> =>
               Live(d) /\ (ctl[d].shots = <<Restart>> \/ (d = c /\ new = <<Restart>>))
<1>1. Kept(c)
  BY StopTurn
<1>2. PICK w \in RestartOf(c) : /\ Turn(c, w)
                                /\ ctl'[c].proc \notin {"starting", "running"}
                                /\ w = new \/ w = ctl[c].shots
  BY StopTurn
<1>3. Lists'
  BY <1>1, <1>2, TurnLists
<1>4. /\ \A d \in DOMAIN ctl : ctl'[d].key = ctl[d].key
      /\ DOMAIN ctl' = DOMAIN ctl
      /\ \A d \in DOMAIN ctl : Served(d)' =>
            Served(d) \/ (d = c /\ Live(c) /\ ctl'[c].proc = "running")
      /\ emitting' # <<Restart>>
      /\ \A d \in DOMAIN ctl : Live(d)' /\ ctl'[d].shots = <<Restart>> =>
            Live(d) /\ (ctl[d].shots = <<Restart>> \/ (d = c /\ w = <<Restart>>))
      /\ \A d \in sessions : Telling(d)' /\ Tail(emitting') = <<Restart>> =>
            d = c /\ w = <<Restart>> /\ Live(c)
  BY <1>1, <1>2, TurnListener
<1>5. \A d \in DOMAIN ctl : Served(d)' => Served(d) /\ d # c
  BY <1>2, <1>4 DEF Served
<1> QED
  BY <1>2, <1>3, <1>4, <1>5

\* A new session keeps the list in order, when it takes a key and a port that are
\* free and no end is being told.
LEMMA StartLists ==
  ASSUME TypeOK, Lists, NEW key \in Key, NEW port \in Port, NEW mirror \in BOOLEAN,
         NEW origin \in Origin, StartSession(key, port, mirror, origin),
         key \in Port => key = port,
         \A c \in sessions : ctl[c].key # key /\ ctl[c].port # port,
         \A c \in sessions : ctl[c].proc # "gone",
         emitting' = <<>>
  PROVE  /\ Lists'
         /\ \A d \in DOMAIN ctl' : Served(d)' =>
               \/ d \in DOMAIN ctl /\ Served(d) /\ ctl'[d].key = ctl[d].key
               \/ origin = "server" /\ ctl'[d].key = key
         /\ \A d \in DOMAIN ctl' : Live(d)' /\ ctl'[d].shots = <<Restart>> =>
               d \in DOMAIN ctl /\ Live(d) /\ ctl[d].shots = <<Restart>> /\ ctl'[d].key = ctl[d].key
<1> DEFINE n == Len(ctl) + 1
<1>1. /\ DOMAIN ctl' = DOMAIN ctl \cup {Len(ctl) + 1} /\ Len(ctl) + 1 \notin DOMAIN ctl
      /\ ctl'[Len(ctl) + 1] = NewController(key, port, mirror, origin)
      /\ \A c \in DOMAIN ctl : ctl'[c] = ctl[c]
      /\ sessions' = sessions \cup {Len(ctl) + 1}
      /\ sessions \subseteq DOMAIN ctl
  BY StartFacts, ZenonT(30)
<1>2. rows' = IF origin = "server" THEN rows ELSE rows \cup {key}
  BY StartFacts
<1>3. /\ DOMAIN ctl' = DOMAIN ctl \cup {n} /\ n \notin DOMAIN ctl
      /\ ctl'[n] = NewController(key, port, mirror, origin)
      /\ \A c \in DOMAIN ctl : ctl'[c] = ctl[c]
      /\ sessions' = sessions \cup {n}
      /\ sessions \subseteq DOMAIN ctl
      /\ rows' = IF origin = "server" THEN rows ELSE rows \cup {key}
  BY <1>1, <1>2
<1> HIDE DEF n
<1>4. /\ ctl'[n].key = key /\ ctl'[n].port = port /\ ctl'[n].origin = origin
      /\ ctl'[n].proc = "starting" /\ ctl'[n].shots = <<>>
  BY <1>3 DEF NewController
<1>5. Distinct' /\ KeyOfPort'
  BY <1>3, <1>4 DEF Lists, Distinct, KeyOfPort
<1>6. Waits'
  BY <1>3, <1>4 DEF Lists, Waits, Live, RestartOf
<1>7. Emission' /\ Present'
  BY <1>3, <1>4 DEF Emission, Present
<1>8. Rowed'
  BY <1>3, <1>4 DEF Lists, Rowed, Has
<1>9. \A d \in DOMAIN ctl' : Served(d)' =>
               \/ d \in DOMAIN ctl /\ Served(d) /\ ctl'[d].key = ctl[d].key
               \/ origin = "server" /\ ctl'[d].key = key
  BY <1>3, <1>4 DEF Served
<1>10. \A d \in DOMAIN ctl' : Live(d)' /\ ctl'[d].shots = <<Restart>> =>
               d \in DOMAIN ctl /\ Live(d) /\ ctl[d].shots = <<Restart>> /\ ctl'[d].key = ctl[d].key
  BY <1>3, <1>4, Shapes DEF Live
<1> QED
  BY <1>5, <1>6, <1>7, <1>8, <1>9, <1>10 DEF Lists

\* A listener that starts is the only one, when no other is kept and nothing else
\* is due: the key and the port it takes are free.
LEMMA ServerOrderly ==
  ASSUME TypeOK, Lists, StartServerSession(TRUE),
         \A c \in sessions : ctl[c].proc # "gone",
         \A c \in DOMAIN ctl : ~Served(c),
         \A c \in DOMAIN ctl : Live(c) => ctl[c].shots # <<Restart>>,
         emitting' = <<>>, rearms' = 0
  PROVE  Orderly'
<1>1. CASE FreePorts = {}
  <2>1. UNCHANGED <<ctl, sessions, rows>>
    BY <1>1 DEF StartServerSession
  <2>2. Lists'
    BY <2>1 DEF Lists, Distinct, KeyOfPort, Waits, RestartOf, Live, Emission, Present, Rowed, Has
  <2>3. OneKept'
    BY <2>1 DEF OneKept, Served
  <2>4. Due'
    BY <2>1, Shapes DEF Due, Live, Telling
  <2> QED
    BY <2>2, <2>3, <2>4 DEF Lists, Orderly
<1>2. CASE FreePorts # {}
  <2> DEFINE p == AllocatePort
  <2>1. /\ StartSession(p, p, FALSE, "server")
        /\ serverKey' = p /\ enabled' = TRUE
    BY <1>2 DEF StartServerSession
  <2>2. p \in Port /\ p \in Key /\ "server" \in Origin /\ \A c \in sessions : ctl[c].port # p
    BY <1>2, AllocateFree, Keys DEF Origin
  <2> HIDE DEF p
  <2>3. \A c \in sessions : ctl[c].key # p
    <3>1. sessions \subseteq DOMAIN ctl
      BY LenProperties DEF TypeOK
    <3> QED
      BY <2>2, <3>1 DEF Lists, KeyOfPort
  <2>4. /\ Lists'
        /\ \A d \in DOMAIN ctl' : Served(d)' =>
               \/ d \in DOMAIN ctl /\ Served(d) /\ ctl'[d].key = ctl[d].key
               \/ "server" = "server" /\ ctl'[d].key = p
        /\ \A d \in DOMAIN ctl' : Live(d)' /\ ctl'[d].shots = <<Restart>> =>
               d \in DOMAIN ctl /\ Live(d) /\ ctl[d].shots = <<Restart>> /\ ctl'[d].key = ctl[d].key
    BY <2>1, <2>2, <2>3, StartLists, ZenonT(30)
  <2>5. OneKept'
    BY <2>1, <2>4 DEF OneKept
  <2>6. Due'
    BY <2>4, Shapes DEF Due, Telling
  <2> QED
    BY <2>4, <2>5, <2>6 DEF Lists, Orderly
<1> QED
  BY <1>1, <1>2

\* Nothing is gone in the list while no slot waits.
LEMMA NoneGone ==
  ASSUME Lists, emitting = <<>>
  PROVE  \A c \in sessions : ctl[c].proc # "gone"
BY DEF Lists, Present, Telling

\* While the switch is off no listener is kept; while none is being refreshed no
\* restart of one waits.
LEMMA SwitchFacts ==
  ASSUME TypeOK, Orderly
  PROVE  /\ ~enabled => \A c \in DOMAIN ctl : ~Served(c)
         /\ serverKey = NoKey => \A c \in DOMAIN ctl : ~Served(c)
         /\ ~refreshing => \A c \in DOMAIN ctl : Live(c) => ctl[c].shots # <<Restart>>
         /\ serverKey = NoKey => \A c \in DOMAIN ctl : Live(c) => ctl[c].shots # <<Restart>>
<1>1. \A c \in DOMAIN ctl : ctl[c].key # NoKey
  BY OfController, Keys
<1> QED
  BY <1>1 DEF Orderly, OneKept, Due

-----------------------------------------------------------------------------
(* The invariant: each action keeps it.                                     *)

\* A switch moved to on, when no restart is due, starts the only listener.
LEMMA SwitchOnOrderly == ASSUME TypeOK, Orderly, SwitchOn, ~hasty' PROVE Orderly'
<1>1. /\ emitting = <<>> /\ ~enabled /\ StartServerSession(TRUE)
      /\ ~refreshing /\ ~(rearms > 0) /\ UNCHANGED <<rearms, emitting>>
  BY DEF SwitchOn, Click
<1>2. rearms' = 0
  BY <1>1 DEF TypeOK
<1> QED
  BY <1>1, <1>2, NoneGone, SwitchFacts, ServerOrderly DEF Orderly, Lists

\* A switch moved to off, when no restart is due, ends the only listener.
LEMMA SwitchOffOrderly == ASSUME TypeOK, Orderly, SwitchOff, ~hasty' PROVE Orderly'
<1>1. /\ emitting = <<>> /\ enabled' = FALSE /\ ~refreshing /\ ~(rearms > 0)
      /\ UNCHANGED <<sessions, rows, serverKey, refreshing, rearms>>
  BY DEF SwitchOff, Click
<1>2. rearms = 0 /\ Lists
  BY <1>1 DEF TypeOK, Orderly, Lists
<1>3. \A c \in DOMAIN ctl : Live(c) => ctl[c].shots # <<Restart>>
  BY <1>1, SwitchFacts
<1>4. \A c \in DOMAIN ctl : Served(c) => c \in sessions /\ serverKey = ctl[c].key
  BY DEF Orderly, OneKept, Waits, Served, Live
<1>5. CASE serverKey # NoKey /\ Has(serverKey)
  <2> DEFINE c == Find(serverKey)
  <2>1. c \in sessions /\ ctl[c].key = serverKey
    BY <1>5, FindFirst
  <2>2. Stop(c, <<>>)
    BY <1>5 DEF SwitchOff
  <2>3. <<>> \in RestartOf(c)
    BY DEF RestartOf
  <2> HIDE DEF c
  <2>4. /\ Lists'
        /\ DOMAIN ctl' = DOMAIN ctl
        /\ \A d \in DOMAIN ctl : Served(d)' => Served(d) /\ d # c
        /\ emitting' # <<Restart>>
        /\ \A d \in DOMAIN ctl : Live(d)' /\ ctl'[d].shots = <<Restart>> =>
               Live(d) /\ (ctl[d].shots = <<Restart>> \/ (d = c /\ <<>> = <<Restart>>))
        /\ \A d \in sessions : Telling(d)' /\ Tail(emitting') = <<Restart>> =>
               Live(d) /\ (ctl[d].shots = <<Restart>> \/ (d = c /\ <<>> = <<Restart>>))
    BY <1>1, <1>2, <2>1, <2>2, <2>3, StopLists
  <2>5. OneKept'
    <3>1. \A d \in DOMAIN ctl : Served(d) => d = c
      BY <1>4, <2>1 DEF Orderly, Distinct
    <3> QED
      BY <2>4, <3>1 DEF OneKept
  <2>6. sessions \subseteq DOMAIN ctl
    BY LenProperties DEF TypeOK
  <2>7. Due'
    BY <1>1, <1>2, <1>3, <2>4, <2>6, Shapes DEF Due
  <2> QED
    BY <2>4, <2>5, <2>7 DEF Lists, Orderly
<1>6. CASE ~(serverKey # NoKey /\ Has(serverKey))
  <2>1. UNCHANGED <<ctl, emitting>>
    BY <1>6 DEF SwitchOff
  <2>2. \A c \in DOMAIN ctl : ~Served(c)
    <3>1. ASSUME NEW c \in DOMAIN ctl, Served(c) PROVE FALSE
      <4>1. c \in sessions /\ serverKey = ctl[c].key
        BY <1>4, <3>1
      <4>2. serverKey # NoKey
        BY <3>1, <4>1, OfController, Keys
      <4> QED
        BY <1>6, <4>1, <4>2 DEF Has
    <3> QED
      BY <3>1
  <2>3. Lists'
    BY <1>1, <1>2, <2>1 DEF Lists, Distinct, KeyOfPort, Waits, RestartOf, Live, Emission,
                            Present, Rowed, Has, Telling
  <2>4. OneKept'
    BY <2>1, <2>2 DEF OneKept, Served
  <2>5. Due'
    BY <1>1, <1>2, <1>3, <2>1, Shapes DEF Due, Live, Telling
  <2> QED
    BY <2>3, <2>4, <2>5 DEF Lists, Orderly
<1> QED
  BY <1>5, <1>6

\* A connected device takes a key and a port of its own.
LEMMA ConnectDeviceOrderly ==
  ASSUME TypeOK, Orderly, NEW t \in Tablet, ConnectDevice(t) PROVE Orderly'
<1>1. /\ emitting = <<>> /\ ~Has(t) /\ FreePorts # {}
      /\ StartSession(t, AllocatePort, FALSE, "device")
      /\ UNCHANGED <<enabled, serverKey, refreshing, rearms, emitting>>
  BY DEF ConnectDevice, Click, server
<1>2. /\ AllocatePort \in Port /\ \A c \in sessions : ctl[c].port # AllocatePort
      /\ t \in Key /\ t \notin Port /\ "device" \in Origin
  BY <1>1, AllocateFree, Keys DEF Origin
<1>3. \A c \in sessions : ctl[c].key # t
  BY <1>1 DEF Has
<1>4. Lists /\ \A c \in sessions : ctl[c].proc # "gone"
  BY <1>1, NoneGone DEF Orderly, Lists
<1>5. /\ Lists'
      /\ \A d \in DOMAIN ctl' : Served(d)' =>
             \/ d \in DOMAIN ctl /\ Served(d) /\ ctl'[d].key = ctl[d].key
             \/ "device" = "server" /\ ctl'[d].key = t
      /\ \A d \in DOMAIN ctl' : Live(d)' /\ ctl'[d].shots = <<Restart>> =>
             d \in DOMAIN ctl /\ Live(d) /\ ctl[d].shots = <<Restart>> /\ ctl'[d].key = ctl[d].key
  BY <1>1, <1>2, <1>3, <1>4, StartLists
<1>6. OneKept'
  BY <1>1, <1>5 DEF Orderly, OneKept
<1>7. Due'
  BY <1>1, <1>5, Shapes DEF Orderly, Due, Telling
<1> QED
  BY <1>5, <1>6, <1>7 DEF Lists, Orderly

\* A stop that leaves the switch alone, and gives no restart of a listener, keeps
\* the rest of the invariant too.
LEMMA StopOrderly ==
  ASSUME TypeOK, Orderly, emitting = <<>>, NEW c \in sessions, NEW new \in RestartOf(c),
         Stop(c, new), new = <<>> \/ ~Hasty(c), new # <<Restart>>,
         UNCHANGED <<sessions, rows, enabled, serverKey, refreshing, rearms>>
  PROVE  Orderly'
<1>1. Lists
  BY DEF Orderly, Lists
<1>2. /\ Lists'
      /\ \A d \in DOMAIN ctl : ctl'[d].key = ctl[d].key
      /\ DOMAIN ctl' = DOMAIN ctl
      /\ \A d \in DOMAIN ctl : Served(d)' => Served(d) /\ d # c
      /\ emitting' # <<Restart>>
      /\ \A d \in DOMAIN ctl : Live(d)' /\ ctl'[d].shots = <<Restart>> =>
            Live(d) /\ (ctl[d].shots = <<Restart>> \/ (d = c /\ new = <<Restart>>))
      /\ \A d \in sessions : Telling(d)' /\ Tail(emitting') = <<Restart>> =>
            Live(d) /\ (ctl[d].shots = <<Restart>> \/ (d = c /\ new = <<Restart>>))
  BY <1>1, StopLists
<1>3. sessions \subseteq DOMAIN ctl
  BY LenProperties DEF TypeOK
<1>4. OneKept'
  BY <1>2 DEF Orderly, OneKept
<1>5. Due'
  BY <1>2, <1>3 DEF Orderly, Due
<1> QED
  BY <1>2, <1>4, <1>5 DEF Lists, Orderly

\* A monitor is stopped with no restart.
LEMMA StopMonitorOrderly ==
  ASSUME TypeOK, Orderly, NEW key \in rows, StopSelectedMonitor(key) PROVE Orderly'
<1>1. Find(key) \in sessions /\ Stop(Find(key), <<>>) /\ emitting = <<>>
  BY FindFirst DEF StopSelectedMonitor, Click
<1>2. <<>> \in RestartOf(Find(key)) /\ <<>> # <<Restart>>
  BY DEF RestartOf
<1>3. UNCHANGED <<sessions, rows, enabled, serverKey, refreshing, rearms>>
  BY DEF StopSelectedMonitor, server
<1> QED
  BY <1>1, <1>2, <1>3, StopOrderly

\* A mirror toggle of a streamer that runs waits with one restart.
LEMMA ToggleMirrorOrderly ==
  ASSUME TypeOK, Orderly, NEW key \in rows, ToggleMirror(key), ~hasty' PROVE Orderly'
<1> DEFINE c == Find(key)
           new == <<Respawn(key, ctl[c].port, ~ctl[c].mirror)>>
<1>1. /\ c \in sessions /\ ctl[c].key = key /\ Stop(c, new) /\ ~Hasty(c) /\ emitting = <<>>
  BY FindFirst DEF ToggleMirror, Click
<1>2. new \in RestartOf(c) /\ new # <<Restart>>
  BY <1>1, Shapes DEF RestartOf
<1>3. UNCHANGED <<sessions, rows, enabled, serverKey, refreshing, rearms>>
  BY DEF ToggleMirror, server
<1> QED
  BY <1>1, <1>2, <1>3, StopOrderly

\* What the invariant speaks of stays, but for rows of entries.
LEMMA SameOrderly ==
  ASSUME TypeOK, Orderly, UNCHANGED <<ctl, sessions, enabled, serverKey, refreshing, rearms, emitting>>,
         rows \subseteq rows', \A key \in rows' : Has(key)
  PROVE  Orderly'
<1>1. Distinct' /\ KeyOfPort' /\ Waits' /\ Emission' /\ Present'
  BY DEF Orderly, Distinct, KeyOfPort, Waits, RestartOf, Live, Emission, Present, Telling
<1>2. Rowed'
  BY DEF Orderly, Rowed, Has
<1>3. OneKept'
  BY DEF Orderly, OneKept, Served
<1>4. \A c : Telling(c)' <=> Telling(c)
  BY DEF Telling, RestartOf
<1>5. Due'
  BY <1>4 DEF Orderly, Due, Live
<1> QED
  BY <1>1, <1>2, <1>3, <1>5 DEF Orderly

\* A refresh of a listener that runs waits with one restart.
LEMMA RefreshServerOrderly ==
  ASSUME TypeOK, Orderly, RefreshServer, ~hasty' PROVE Orderly'
<1>1. emitting = <<>> /\ UNCHANGED <<sessions, rows, enabled, serverKey, rearms>>
  BY DEF RefreshServer
<1>2. CASE enabled /\ serverKey # NoKey /\ Has(serverKey)
  <2> DEFINE c == Find(serverKey)
  <2>1. c \in sessions /\ ctl[c].key = serverKey
    BY <1>2, FindFirst
  <2>2. Stop(c, <<Restart>>) /\ ~Hasty(c) /\ refreshing' = TRUE
    BY <1>2 DEF RefreshServer
  <2>3. <<Restart>> \in RestartOf(c) /\ Lists
    BY DEF RestartOf, Orderly, Lists
  <2> HIDE DEF c
  <2>4. /\ Lists'
        /\ \A d \in DOMAIN ctl : ctl'[d].key = ctl[d].key
        /\ DOMAIN ctl' = DOMAIN ctl
        /\ \A d \in DOMAIN ctl : Served(d)' => Served(d) /\ d # c
        /\ emitting' # <<Restart>>
        /\ \A d \in DOMAIN ctl : Live(d)' /\ ctl'[d].shots = <<Restart>> =>
              Live(d) /\ (ctl[d].shots = <<Restart>> \/ (d = c /\ <<Restart>> = <<Restart>>))
        /\ \A d \in sessions : Telling(d)' /\ Tail(emitting') = <<Restart>> =>
              Live(d) /\ (ctl[d].shots = <<Restart>> \/ (d = c /\ <<Restart>> = <<Restart>>))
    BY <1>1, <2>1, <2>2, <2>3, StopLists
  <2>5. sessions \subseteq DOMAIN ctl
    BY LenProperties DEF TypeOK
  <2>6. OneKept'
    BY <1>1, <2>4 DEF Orderly, OneKept
  <2>7. Due'
    BY <1>1, <1>2, <2>1, <2>2, <2>4, <2>5 DEF Orderly, Due
  <2> QED
    BY <2>4, <2>6, <2>7 DEF Lists, Orderly
<1>3. CASE ~(enabled /\ serverKey # NoKey /\ Has(serverKey))
  <2>1. UNCHANGED <<refreshing, ctl, emitting>>
    BY <1>3 DEF RefreshServer
  <2> QED
    BY <1>1, <2>1, SameOrderly DEF Orderly, Rowed
<1> QED
  BY <1>2, <1>3

\* The listener that is armed again is the only one.
LEMMA RearmOrderly == ASSUME TypeOK, Orderly, Rearm PROVE Orderly'
<1>1. emitting = <<>> /\ emitting' = <<>> /\ rearms > 0 /\ rearms' = rearms - 1
  BY DEF Rearm
<1>2. rearms = 1 /\ enabled /\ serverKey = NoKey /\ ~refreshing
  BY <1>1 DEF Orderly, Due
<1>3. rearms' = 0
  BY <1>1, <1>2
<1>4. StartServerSession(TRUE)
  BY <1>2 DEF Rearm
<1> QED
  BY <1>1, <1>2, <1>3, <1>4, NoneGone, SwitchFacts, ServerOrderly DEF Orderly, Lists

\* What a process does by itself keeps the invariant: its restart is the one that
\* waited, and only a process that was starting begins to run.
LEMMA TurnOrderly ==
  ASSUME TypeOK, Orderly, emitting = <<>>, NEW c \in DOMAIN ctl, Live(c),
         Kept(c), Turn(c, ctl[c].shots), ctl'[c].proc = "running" => ctl[c].proc = "starting",
         UNCHANGED <<sessions, rows, enabled, serverKey, refreshing, rearms>>
  PROVE  Orderly'
<1>1. Lists /\ c \in sessions /\ ctl[c].shots \in RestartOf(c)
  BY DEF Orderly, Lists, Waits
<1>2. Lists'
  BY <1>1, TurnLists
<1>3. /\ \A d \in DOMAIN ctl : ctl'[d].key = ctl[d].key
      /\ DOMAIN ctl' = DOMAIN ctl
      /\ \A d \in DOMAIN ctl : Served(d)' =>
            Served(d) \/ (d = c /\ Live(c) /\ ctl'[c].proc = "running")
      /\ emitting' # <<Restart>>
      /\ \A d \in DOMAIN ctl : Live(d)' /\ ctl'[d].shots = <<Restart>> =>
            Live(d) /\ (ctl[d].shots = <<Restart>> \/ (d = c /\ ctl[c].shots = <<Restart>>))
      /\ \A d \in sessions : Telling(d)' /\ Tail(emitting') = <<Restart>> =>
            d = c /\ ctl[c].shots = <<Restart>> /\ Live(c)
  BY <1>1, TurnListener
<1>4. \A d \in DOMAIN ctl : Served(d)' => Served(d)
  BY <1>3 DEF Kept, Served
<1>5. OneKept'
  BY <1>3, <1>4 DEF Orderly, OneKept
<1>6. Due'
  BY <1>3 DEF Orderly, Due
<1> QED
  BY <1>2, <1>5, <1>6 DEF Lists, Orderly

\* A process begins to run with no restart waiting.
LEMMA StartedOrderly ==
  ASSUME TypeOK, Orderly, NEW c \in DOMAIN ctl, Started(c) PROVE Orderly'
<1>1. /\ emitting = <<>> /\ UNCHANGED emitting /\ ctl[c].proc = "starting" /\ Live(c)
      /\ UNCHANGED <<sessions, rows, enabled, serverKey, refreshing, rearms>>
  BY DEF Started, server, Live
<1>2. ctl[c].shots = <<>>
  BY <1>1 DEF Orderly, Waits
<1>3. Kept(c) /\ ctl'[c].proc = "running" /\ ctl'[c].shots = <<>>
  <2>1. "running" \in Process
    BY DEF Process
  <2> QED
    BY <2>1, ShotTypes, Changed DEF Started
<1>4. Turn(c, ctl[c].shots)
  BY <1>1, <1>2, <1>3 DEF Turn
<1> QED
  BY <1>1, <1>3, <1>4, TurnOrderly

\* A process that cannot run leaves its entry behind.
LEMMA FailToStartOrderly ==
  ASSUME TypeOK, Orderly, NEW c \in DOMAIN ctl, FailToStart(c) PROVE Orderly'
<1>1. /\ emitting = <<>> /\ UNCHANGED emitting /\ ctl[c].proc = "starting" /\ Live(c)
      /\ UNCHANGED <<sessions, rows, enabled, serverKey, refreshing, rearms>>
  BY DEF FailToStart, server, Live
<1>2. Kept(c) /\ ctl'[c].proc = "failed"
  <2>1. "failed" \in Process
    BY DEF Process
  <2> QED
    BY <2>1, ChangedProcess DEF FailToStart
<1>3. Turn(c, ctl[c].shots)
  BY <1>1, <1>2 DEF Turn
<1> QED
  BY <1>1, <1>2, <1>3, TurnOrderly

\* An end is told with the restart that waited for it.
LEMMA EndOrderly ==
  ASSUME TypeOK, Orderly, NEW c \in DOMAIN ctl, Exit(c) \/ Stopped(c) PROVE Orderly'
<1>1. /\ emitting = <<>> /\ Live(c) /\ Ends(c, ctl[c].shots)
      /\ UNCHANGED <<sessions, rows, enabled, serverKey, refreshing, rearms>>
  BY DEF Exit, Stopped, server, Live
<1>2. Kept(c) /\ Ended(c, ctl[c].shots)
  BY <1>1, OfController, EndFacts
<1>3. Turn(c, ctl[c].shots) /\ ctl'[c].proc # "running"
  BY <1>1, <1>2 DEF Turn, Ended
<1> QED
  BY <1>1, <1>2, <1>3, TurnOrderly

\* The teardown takes the entry out, and leaves its key and port to the restart.
LEMMA TearDownOrderly == ASSUME TypeOK, Orderly, TearDown PROVE Orderly'
<1> DEFINE key == Head(emitting).key
<1>1. /\ emitting # <<>> /\ Head(emitting).slot = "teardown" /\ emitting' = Tail(emitting)
      /\ UNCHANGED refreshing
  BY DEF TearDown, Slots
<1>2. PICK c \in sessions : Telling(c)
  <2>1. emitting # <<Restart>>
    <3>1. Head(<<Restart>>).slot = "refresh"
      BY DEF Restart
    <3> QED
      BY <1>1, <3>1
  <2>2. \A k, p, m : emitting # <<Respawn(k, p, m)>>
    <3>1. \A k, p, m : Head(<<Respawn(k, p, m)>>).slot = "mirror"
      BY DEF Respawn
    <3> QED
      BY <1>1, <3>1
  <2> QED
    BY <1>1, <2>1, <2>2 DEF Orderly, Emission
<1>3. /\ ctl[c].proc = "gone" /\ key = ctl[c].key /\ Tail(emitting) \in RestartOf(c)
      /\ ~Live(c)
  BY <1>2 DEF Telling, Teardown, Live
<1>4. Has(key) /\ Find(key) = c
  BY <1>3, FindOnly DEF Orderly
<1>5. ctl' = ctl /\ sessions' = sessions \ {c} /\ rows' = rows \ {key}
  BY <1>3, <1>4 DEF TearDown, Delete
<1>6. sessions \subseteq DOMAIN ctl /\ \A d \in sessions : d # c => ctl[d].key # key /\ ctl[d].port # ctl[c].port
  <2>1. sessions \subseteq DOMAIN ctl
    BY LenProperties DEF TypeOK
  <2> QED
    BY <1>3, <2>1 DEF Orderly, Distinct
<1>7. key \in Key /\ ctl[c].port \in Port /\ key # NoKey /\ (key \in Port => key = ctl[c].port)
  <2>1. c \in DOMAIN ctl
    BY <1>6
  <2> QED
    BY <1>3, <2>1, OfController, Keys DEF Orderly, KeyOfPort
<1> HIDE DEF key
<1>8. \A d \in sessions : d # c => ctl[d].proc # "gone"
  <2>1. ASSUME NEW d \in sessions, d # c, ctl[d].proc = "gone" PROVE FALSE
    <3>1. Head(emitting) = Teardown(ctl[d].key) /\ Head(emitting) = Teardown(ctl[c].key)
      BY <1>2, <2>1 DEF Orderly, Present, Telling
    <3>2. ctl[d].key = ctl[c].key
      BY <3>1 DEF Teardown
    <3> QED
      BY <1>3, <1>6, <2>1, <3>2
  <2> QED
    BY <2>1
<1>9. Distinct' /\ KeyOfPort'
  BY <1>5 DEF Orderly, Distinct, KeyOfPort
<1>10. Waits'
  <2>1. \A d : RestartOf(d)' = RestartOf(d) /\ (Live(d)' <=> Live(d))
    BY <1>5 DEF RestartOf, Live
  <2> QED
    BY <1>3, <1>5, <2>1 DEF Orderly, Waits
<1>11. Present'
  BY <1>5, <1>8 DEF Present
<1>12. Emission'
  <2>1. CASE Tail(emitting) = <<>> \/ Tail(emitting) = <<Restart>>
    BY <1>1, <2>1 DEF Emission
  <2>2. ASSUME NEW m \in BOOLEAN, Tail(emitting) = <<Respawn(ctl[c].key, ctl[c].port, m)>>
        PROVE  Emission'
    <3>1. emitting' = <<Respawn(key, ctl[c].port, m)>>
      BY <1>1, <1>3, <2>2
    <3>2. \A d \in sessions' : ctl'[d].key # key /\ ctl'[d].port # ctl[c].port
      BY <1>5, <1>6
    <3> QED
      BY <1>5, <1>7, <3>1, <3>2 DEF Emission
  <2> QED
    BY <1>3, <2>1, <2>2 DEF RestartOf
<1>13. Rowed'
  <2>1. \A k \in rows' : Has(k)'
    BY <1>3, <1>5 DEF Orderly, Rowed, Has
  <2>2. \A d \in sessions' : ctl'[d].origin # "server" => ctl'[d].key \in rows'
    BY <1>5, <1>6 DEF Orderly, Rowed
  <2> QED
    BY <2>1, <2>2 DEF Rowed
<1>14. \A d \in sessions' : ~Telling(d)'
  BY <1>5, <1>8 DEF Telling
<1>15. ASSUME NEW d \in DOMAIN ctl, Live(d) PROVE d \in sessions /\ d # c /\ ctl[d].key # key
  <2>1. d \in sessions /\ d # c
    BY <1>3, <1>15 DEF Orderly, Waits
  <2> QED
    BY <1>6, <2>1
<1>16. \A d \in DOMAIN ctl : Served(d) => Live(d)
  BY DEF Served, Live
<1>17. emitting' = <<Restart>> => enabled /\ refreshing /\ serverKey = key
  BY <1>1, <1>2, <1>3 DEF Orderly, Due
<1>18. CASE key = serverKey
  <2>1. PICK longEnough \in BOOLEAN : ServerEnded(longEnough)
    BY <1>18 DEF TearDown, key
  <2>2. serverKey' = NoKey
    BY <2>1 DEF ServerEnded
  <2>3. rearms = 0
    BY <1>7, <1>18 DEF Orderly, Due
  <2>4. OneKept'
    BY <1>5, <1>15, <1>16, <1>18 DEF Orderly, OneKept, Served
  <2>5. rearms' \in {0, 1} /\ (rearms' = 1 => enabled' /\ ~refreshing)
    <3> DEFINE again == ~refreshing /\ ShouldRearm(longEnough)
    <3>1. again => enabled' /\ ~refreshing
      BY <2>1 DEF ServerEnded, ShouldRearm
    <3>2. rearms' = IF again THEN rearms + 1 ELSE rearms
      BY <2>1 DEF ServerEnded
    <3> HIDE DEF again
    <3>3. rearms' = IF again THEN 1 ELSE 0
      BY <2>3, <3>2
    <3> QED
      BY <3>1, <3>3
  <2>6. \A d \in DOMAIN ctl : ~(Live(d) /\ ctl[d].shots = <<Restart>>)
    BY <1>15, <1>18 DEF Orderly, Due
  <2>7. emitting' = <<Restart>> => enabled' /\ refreshing' /\ serverKey' = NoKey
    BY <1>1, <1>17, <2>1, <2>2 DEF ServerEnded
  <2>8. Due'
    BY <1>1, <1>5, <1>14, <2>2, <2>5, <2>6, <2>7 DEF Due, Live
  <2> QED
    BY <1>9, <1>10, <1>11, <1>12, <1>13, <2>4, <2>8 DEF Orderly
<1>19. CASE key # serverKey
  <2>1. UNCHANGED <<serverKey, rearms, enabled>>
    BY <1>19 DEF TearDown, key
  <2>2. OneKept'
    BY <1>5, <2>1 DEF Orderly, OneKept, Served
  <2>3. Due'
    BY <1>1, <1>5, <1>14, <1>17, <1>19, <2>1 DEF Orderly, Due, Live
  <2> QED
    BY <1>9, <1>10, <1>11, <1>12, <1>13, <2>2, <2>3 DEF Orderly
<1> QED
  BY <1>18, <1>19

\* The respawn takes the key and the port of the session that was torn down.
LEMMA RespawnMirrorOrderly == ASSUME TypeOK, Orderly, RespawnMirror PROVE Orderly'
<1>1. /\ emitting # <<>> /\ Head(emitting).slot = "mirror" /\ emitting' = Tail(emitting)
      /\ UNCHANGED <<enabled, serverKey, refreshing, rearms>>
  BY DEF RespawnMirror, Slots, server
<1>2. \A c \in sessions : ~Telling(c)
  BY <1>1 DEF Telling, Teardown
<1>3. PICK key \in Key, port \in Port, m \in BOOLEAN :
          /\ emitting = <<Respawn(key, port, m)>>
          /\ key \in Port => key = port
          /\ \A c \in sessions : ctl[c].key # key /\ ctl[c].port # port
  <2>1. emitting # <<Restart>>
    <3>1. Head(<<Restart>>).slot = "refresh"
      BY DEF Restart
    <3> QED
      BY <1>1, <3>1
  <2> QED
    BY <1>1, <1>2, <2>1 DEF Orderly, Emission
<1>4. Head(emitting) = Respawn(key, port, m) /\ emitting' = <<>>
  BY <1>1, <1>3
<1>5. StartSession(key, port, m, "mirror") /\ "mirror" \in Origin
  BY <1>4 DEF RespawnMirror, Respawn, Origin
<1>6. Lists /\ \A c \in sessions : ctl[c].proc # "gone"
  BY <1>2 DEF Orderly, Lists, Present
<1>7. /\ Lists'
      /\ \A d \in DOMAIN ctl' : Served(d)' =>
             \/ d \in DOMAIN ctl /\ Served(d) /\ ctl'[d].key = ctl[d].key
             \/ "mirror" = "server" /\ ctl'[d].key = key
      /\ \A d \in DOMAIN ctl' : Live(d)' /\ ctl'[d].shots = <<Restart>> =>
             d \in DOMAIN ctl /\ Live(d) /\ ctl[d].shots = <<Restart>> /\ ctl'[d].key = ctl[d].key
  BY <1>3, <1>4, <1>5, <1>6, StartLists
<1>8. OneKept'
  BY <1>1, <1>7 DEF Orderly, OneKept
<1>9. Due'
  BY <1>1, <1>4, <1>7, Shapes DEF Orderly, Due, Telling
<1> QED
  BY <1>7, <1>8, <1>9 DEF Lists, Orderly

\* The restart of a refreshed listener starts the only one.
LEMMA RestartServerOrderly == ASSUME TypeOK, Orderly, RestartServer PROVE Orderly'
<1>1. /\ emitting # <<>> /\ Head(emitting).slot = "refresh" /\ emitting' = Tail(emitting)
      /\ StartServerSession(enabled) /\ UNCHANGED rearms
  BY DEF RestartServer, Slots
<1>2. \A c \in sessions : ~Telling(c)
  BY <1>1 DEF Telling, Teardown
<1>3. emitting = <<Restart>> /\ emitting' = <<>>
  <2>1. \A k, p, m : emitting # <<Respawn(k, p, m)>>
    <3>1. \A k, p, m : Head(<<Respawn(k, p, m)>>).slot = "mirror"
      BY DEF Respawn
    <3> QED
      BY <1>1, <3>1
  <2>2. emitting = <<Restart>>
    BY <1>1, <1>2, <2>1 DEF Orderly, Emission
  <2> QED
    BY <1>1, <2>2
<1>4. enabled /\ refreshing /\ serverKey = NoKey /\ rearms = 0
  BY <1>3 DEF Orderly, Due
<1>5. StartServerSession(TRUE)
  <2>1. enabled = TRUE
    BY <1>4 DEF TypeOK
  <2> QED
    BY <1>1, <2>1
<1>6. Lists /\ \A c \in sessions : ctl[c].proc # "gone"
  BY <1>2 DEF Orderly, Lists, Present
<1> QED
  BY <1>1, <1>3, <1>4, <1>5, <1>6, SwitchFacts, ServerOrderly

\* Every step keeps the invariant, unless it restarts in haste.
LEMMA InvStep == Inv /\ [Next]_vars => Inv'
<1> SUFFICES ASSUME Inv, [Next]_vars, ~hasty' PROVE Orderly'
  BY TypeStep DEF Inv
<1>1. TypeOK
  BY DEF Inv
<1>2. ~hasty
  BY DEF Next, User, Run, vars, SwitchOn, SwitchOff, EditSettings, ConnectDevice,
         StopSelectedMonitor, ToggleMirror, Approve, RefreshServer, Rearm, TearDown,
         RespawnMirror, RestartServer, Started, FailToStart, Exit, Stopped, Stats
<1>3. Orderly
  BY <1>2 DEF Inv
<1>4. ASSUME UNCHANGED <<ctl, sessions, rows, enabled, serverKey, refreshing, rearms, emitting>>
      PROVE  Orderly'
  BY <1>1, <1>3, <1>4, SameOrderly DEF Orderly, Rowed
<1>5. CASE SwitchOn \/ SwitchOff
  BY <1>1, <1>3, <1>5, SwitchOnOrderly, SwitchOffOrderly
<1>6. CASE EditSettings
  BY <1>4, <1>6 DEF EditSettings, server
<1>7. ASSUME NEW t \in Tablet, ConnectDevice(t) PROVE Orderly'
  BY <1>1, <1>3, <1>7, ConnectDeviceOrderly
<1>8. ASSUME NEW key \in rows, StopSelectedMonitor(key) \/ ToggleMirror(key) PROVE Orderly'
  BY <1>1, <1>3, <1>8, StopMonitorOrderly, ToggleMirrorOrderly
<1>9. ASSUME NEW c \in DOMAIN ctl, Approve(c) PROVE Orderly'
  <2>1. /\ UNCHANGED <<ctl, sessions, enabled, serverKey, refreshing, rearms, emitting>>
        /\ rows' = rows \cup {ctl[c].key} /\ Has(ctl[c].key)
    BY <1>9 DEF Approve, server
  <2>2. \A key \in rows' : Has(key)
    BY <1>3, <2>1 DEF Orderly, Rowed
  <2> QED
    BY <1>1, <1>3, <2>1, <2>2, SameOrderly
<1>10. CASE RefreshServer \/ Rearm
  BY <1>1, <1>3, <1>10, RefreshServerOrderly, RearmOrderly
<1>11. CASE TearDown \/ RespawnMirror \/ RestartServer
  BY <1>1, <1>3, <1>11, TearDownOrderly, RespawnMirrorOrderly, RestartServerOrderly
<1>12. ASSUME NEW c \in DOMAIN ctl, Started(c) \/ FailToStart(c) \/ Exit(c) \/ Stopped(c)
       PROVE  Orderly'
  BY <1>1, <1>3, <1>12, StartedOrderly, FailToStartOrderly, EndOrderly
<1>13. ASSUME NEW c \in DOMAIN ctl, Stats(c) PROVE Orderly'
  BY <1>4, <1>13 DEF Stats
<1>14. CASE UNCHANGED vars
  BY <1>4, <1>14 DEF vars, server
<1> QED
  BY <1>5, <1>6, <1>7, <1>8, <1>9, <1>10, <1>11, <1>12, <1>13, <1>14 DEF Next, User, Run

\* The invariant holds in every reachable state.
LEMMA InvHolds == Spec => []Inv
<1>1. Init => Inv
  <2> SUFFICES ASSUME Init PROVE Inv
    OBVIOUS
  <2>1. Distinct /\ KeyOfPort /\ Waits /\ Emission /\ Present /\ Rowed
    BY DEF Init, Distinct, KeyOfPort, Waits, Emission, Present, Rowed
  <2>2. OneKept /\ Due
    BY Shapes DEF Init, OneKept, Due
  <2> QED
    BY <2>1, <2>2, TypeInit DEF Inv, Orderly
<1>2. Inv /\ [Next]_vars => Inv'
  BY InvStep
<1> QED
  BY <1>1, <1>2, PTL DEF Spec

-----------------------------------------------------------------------------
(* What the invariant gives.                                                *)

\* No streamer runs that is not in the list, and no entry of the list is of a
\* streamer that has ended.
THEOREM SessionsGoverned == Spec => []Governed
<1>1. Inv => Governed
  BY DEF Inv, Orderly, Governed, Settled, Waits, Present, Telling
<1> QED
  BY <1>1, InvHolds, PTL

\* No two sessions share a key or a port.
THEOREM KeysDistinct == Spec => []OnePerKey
<1>1. Inv => OnePerKey
  BY DEF Inv, Orderly, OnePerKey, Settled, Distinct
<1> QED
  BY <1>1, InvHolds, PTL

\* Until the mirror toggle has started a listener again, the switch has started
\* every streamer with the key of one.
OwnKeys == ~turned => \A c \in DOMAIN ctl : ctl[c].key \in Port => ctl[c].origin = "server"

\* A step that starts no session keeps the keys and who started them.
SameKeys ==
    /\ DOMAIN ctl' = DOMAIN ctl
    /\ \A c \in DOMAIN ctl : ctl'[c].key = ctl[c].key /\ ctl'[c].origin = ctl[c].origin

\* So it is however sessions start and end, in haste or not.
LEMMA OwnKeysStep == TypeOK /\ OwnKeys /\ [Next]_vars => OwnKeys'
<1> SUFFICES ASSUME TypeOK, OwnKeys, [Next]_vars PROVE OwnKeys'
  OBVIOUS
<1>1. ASSUME SameKeys, UNCHANGED turned PROVE OwnKeys'
  BY <1>1 DEF OwnKeys, SameKeys
<1>2. ASSUME NEW c \in DOMAIN ctl, Kept(c) PROVE SameKeys
  BY <1>2 DEF Kept, SameKeys
<1>3. ASSUME UNCHANGED ctl PROVE SameKeys
  BY <1>3 DEF SameKeys
<1>4. ASSUME NEW key, NEW new \in Seq(Shot), Has(key), Stop(Find(key), new) PROVE SameKeys
  BY <1>2, <1>4, FindFirst, StopFacts
<1>5. ASSUME NEW key \in Key, NEW port \in Port, NEW m \in BOOLEAN, NEW origin \in Origin,
             StartSession(key, port, m, origin), turned => turned',
             ~turned' => key \notin Port \/ origin = "server"
      PROVE  OwnKeys'
  <2>1. /\ DOMAIN ctl' = DOMAIN ctl \cup {Len(ctl) + 1}
        /\ ctl'[Len(ctl) + 1] = NewController(key, port, m, origin)
        /\ \A c \in DOMAIN ctl : ctl'[c] = ctl[c]
    BY <1>5, StartFacts, ZenonT(30)
  <2>2. ctl'[Len(ctl) + 1].key = key /\ ctl'[Len(ctl) + 1].origin = origin
    BY <2>1 DEF NewController
  <2> QED
    BY <1>5, <2>1, <2>2 DEF OwnKeys
<1>6. ASSUME NEW on \in BOOLEAN, StartServerSession(on), UNCHANGED turned PROVE OwnKeys'
  <2>1. CASE FreePorts = {}
    BY <1>1, <1>3, <1>6, <2>1 DEF StartServerSession
  <2>2. CASE FreePorts # {}
    <3>1. AllocatePort \in Port /\ AllocatePort \in Key /\ "server" \in Origin
      BY <2>2, AllocateFree, Keys DEF Origin
    <3>2. StartSession(AllocatePort, AllocatePort, FALSE, "server")
      BY <1>6, <2>2 DEF StartServerSession
    <3> QED
      BY <1>5, <1>6, <3>1, <3>2
  <2> QED
    BY <2>1, <2>2
<1>7. CASE SwitchOn \/ Rearm
  <2>1. UNCHANGED turned
    BY <1>7 DEF SwitchOn, Rearm
  <2>2. UNCHANGED ctl \/ StartServerSession(TRUE)
    BY <1>7 DEF SwitchOn, Rearm
  <2> QED
    BY <1>1, <1>3, <1>6, <2>1, <2>2
<1>8. CASE RestartServer
  <2>1. UNCHANGED turned /\ StartServerSession(enabled) /\ enabled \in BOOLEAN
    BY <1>8 DEF RestartServer, TypeOK
  <2> QED
    BY <1>6, <2>1
<1>9. CASE SwitchOff \/ RefreshServer
  <2>1. UNCHANGED turned
    BY <1>9 DEF SwitchOff, RefreshServer
  <2>2. UNCHANGED ctl \/ \E new \in {<<>>, <<Restart>>} : Has(serverKey) /\ Stop(Find(serverKey), new)
    BY <1>9 DEF SwitchOff, RefreshServer
  <2> QED
    BY <1>1, <1>3, <1>4, <2>1, <2>2, ShotTypes
<1>10. ASSUME NEW t \in Tablet, ConnectDevice(t) PROVE OwnKeys'
  <2>1. AllocatePort \in Port /\ t \in Key /\ t \notin Port /\ "device" \in Origin
    BY <1>10, AllocateFree, Keys DEF ConnectDevice, Origin
  <2>2. StartSession(t, AllocatePort, FALSE, "device") /\ UNCHANGED turned
    BY <1>10 DEF ConnectDevice
  <2> QED
    BY <1>5, <2>1, <2>2
<1>11. ASSUME NEW key \in rows, StopSelectedMonitor(key) PROVE OwnKeys'
  <2>1. Has(key) /\ Stop(Find(key), <<>>) /\ UNCHANGED turned
    BY <1>11 DEF StopSelectedMonitor
  <2> QED
    BY <1>1, <1>4, <2>1, ShotTypes
<1>12. ASSUME NEW key \in rows, ToggleMirror(key) PROVE OwnKeys'
  <2> DEFINE c == Find(key)
             new == <<Respawn(key, ctl[c].port, ~ctl[c].mirror)>>
  <2>1. Has(key) /\ Stop(c, new) /\ UNCHANGED turned
    BY <1>12 DEF ToggleMirror
  <2>2. key \in Key /\ ctl[c].port \in Port
    BY <2>1, FindFirst, OfController DEF TypeOK
  <2>3. new \in Seq(Shot)
    BY <2>2, ShotTypes
  <2> QED
    BY <1>1, <1>4, <2>1, <2>3
<1>13. CASE TearDown
  <2>1. UNCHANGED turned
    BY <1>13 DEF TearDown
  <2>2. CASE Has(Head(emitting).key) /\ Live(Find(Head(emitting).key))
    <3>1. Find(Head(emitting).key) \in DOMAIN ctl /\ "stopping" \in Process
      BY <2>2, FindFirst DEF Process
    <3>2. ctl' = [ctl EXCEPT ![Find(Head(emitting).key)].proc = "stopping"]
      BY <1>13, <2>2 DEF TearDown, Delete
    <3> QED
      BY <1>1, <1>2, <2>1, <3>1, <3>2, ChangedProcess
  <2>3. CASE ~(Has(Head(emitting).key) /\ Live(Find(Head(emitting).key)))
    BY <1>1, <1>3, <1>13, <2>1, <2>3 DEF TearDown, Delete
  <2> QED
    BY <2>2, <2>3
<1>14. CASE RespawnMirror
  <2> DEFINE e == Head(emitting)
  <2>1. e \in Slot /\ e.slot = "mirror"
    BY <1>14, SlotTypes DEF RespawnMirror, Slots
  <2>2. e.key \in Key /\ e.port \in Port /\ e.mirror \in BOOLEAN /\ "mirror" \in Origin
    BY <2>1 DEF Slot, Shot, Restart, Origin
  <2>3. StartSession(e.key, e.port, e.mirror, "mirror") /\ turned' = (turned \/ e.key \in Port)
    BY <1>14 DEF RespawnMirror
  <2> QED
    BY <1>5, <2>2, <2>3
<1>15. ASSUME NEW c \in DOMAIN ctl, Started(c) \/ FailToStart(c) \/ Exit(c) \/ Stopped(c)
       PROVE  OwnKeys'
  <2>1. UNCHANGED turned
    BY <1>15 DEF Started, FailToStart, Exit, Stopped
  <2>2. "running" \in Process /\ "failed" \in Process
    BY DEF Process
  <2>3. Kept(c)
    <3>1. CASE Started(c)
      BY <2>2, <3>1, ShotTypes, Changed DEF Started
    <3>2. CASE FailToStart(c)
      BY <2>2, <3>2, ChangedProcess DEF FailToStart
    <3>3. CASE Exit(c) \/ Stopped(c)
      BY <3>3, OfController, EndFacts DEF Exit, Stopped
    <3> QED
      BY <1>15, <3>1, <3>2, <3>3
  <2> QED
    BY <1>1, <1>2, <2>1, <2>3
<1>16. CASE EditSettings \/ (\E c \in DOMAIN ctl : Approve(c) \/ Stats(c)) \/ UNCHANGED vars
  BY <1>1, <1>3, <1>16 DEF EditSettings, Approve, Stats, vars
<1> QED
  BY <1>7, <1>8, <1>9, <1>10, <1>11, <1>12, <1>13, <1>14, <1>15, <1>16 DEF Next, User, Run

\* One listener at most, the one that the switch knows, and none when it is off:
\* of all with a listener's key, until the mirror toggle has started one again.
THEOREM ListenerSingle == Spec => []SingleListener
<1>1. Spec => []OwnKeys
  <2>1. Init => OwnKeys
    BY DEF Init, OwnKeys
  <2>2. TypeOK /\ OwnKeys /\ [Next]_vars => OwnKeys'
    BY OwnKeysStep
  <2> QED
    BY <2>1, <2>2, TypeCorrect, PTL DEF Spec
<1>2. Inv /\ OwnKeys => SingleListener
  <2> SUFFICES ASSUME Inv, OwnKeys, Settled, NEW c \in DOMAIN ctl, Listener(c)
               PROVE  /\ enabled /\ serverKey = ctl[c].key
                      /\ \A d \in DOMAIN ctl : Listener(d) => d = c
    BY DEF SingleListener
  <2>1. OneKept /\ Waits /\ Distinct
    BY DEF Inv, Orderly, Settled
  <2>2. \A d \in DOMAIN ctl : Listener(d) => Served(d)
    BY DEF OwnKeys, Listener, OfSwitch, Served
  <2>3. \A d \in DOMAIN ctl : Listener(d) => d \in sessions /\ serverKey = ctl[d].key
    BY <2>1, <2>2 DEF OneKept, Waits, Served, Live
  <2> QED
    BY <2>1, <2>2, <2>3 DEF OneKept, Distinct
<1> QED
  BY <1>1, <1>2, InvHolds, PTL

\* Every row stands for a session, and every session but a listener has a row.
THEOREM RowsCorrect == Spec => []RowsMatch
<1>1. Inv => RowsMatch
  BY DEF Inv, Orderly, RowsMatch, Settled, Rowed
<1> QED
  BY <1>1, InvHolds, PTL

-----------------------------------------------------------------------------
(* Approval. Types.                                                        *)

\* A streamer that waits at its gate waits for a device.
WaitsForDevice == \A s \in Streamer : phase[s] = "waiting" => peer[s] \in Device

\* An open question is about the head of what its slot has taken, and a slot
\* has one question open.
LiveAsks ==
    /\ \A i \in DOMAIN asking : asking[i].live => buf[asking[i].at] # <<>>
    /\ \A i, j \in DOMAIN asking :
          asking[i].live /\ asking[j].live /\ asking[i].at = asking[j].at => i = j

TypeInv == ApprovalTypeOK /\ WaitsForDevice /\ LiveAsks

\* The parts of ApprovalTypeOK that most actions leave alone.
StreamersOK ==
    /\ phase \in [Streamer -> {"idle", "waiting", "streaming", "off"}]
    /\ peer \in [Streamer -> Device \cup {Nobody}]
    /\ gate \in [Streamer -> [Device -> Decision]]
    /\ WaitsForDevice
LinesOK ==
    /\ out \in [Streamer -> Seq(Device)] /\ buf \in [Streamer -> Seq(Device)]
    /\ told \in [Streamer -> BOOLEAN]
AskingOK == asking \in Seq(Question) /\ LiveAsks
StoresOK ==
    /\ approved \in SUBSET Device /\ woken \in SUBSET Device /\ allowed \in SUBSET Device
    /\ gui \in BOOLEAN
DueOK == due \in [Streamer -> [Device -> Nat]]
BoundsOK == bounds \in [wakes : 0..MaxWakes, forgets : 0..MaxForgets, exits : 0..MaxExits]

LEMMA TypeParts ==
    TypeInv <=> StreamersOK /\ LinesOK /\ AskingOK /\ StoresOK /\ DueOK /\ BoundsOK
  BY DEF TypeInv, ApprovalTypeOK, StreamersOK, LinesOK, AskingOK, StoresOK, DueOK, BoundsOK

LEMMA TypePartsNext ==
    TypeInv' <=> StreamersOK' /\ LinesOK' /\ AskingOK' /\ StoresOK' /\ DueOK' /\ BoundsOK'
  BY DEF TypeInv, ApprovalTypeOK, StreamersOK, LinesOK, AskingOK, StoresOK, DueOK, BoundsOK

LEMMA StreamersKept == StreamersOK /\ UNCHANGED streamers => StreamersOK'
  BY DEF StreamersOK, streamers, WaitsForDevice

LEMMA LinesKept == LinesOK /\ UNCHANGED lines => LinesOK'
  BY DEF LinesOK, lines

\* A question is at a streamer.
LEMMA AskingAt ==
    ASSUME asking \in Seq(Question), NEW i \in DOMAIN asking
    PROVE  asking[i] \in Question /\ asking[i].at \in Streamer
<1>1. asking[i] \in Question
  OBVIOUS
<1> QED
  BY <1>1 DEF Question

LEMMA AskingKept == AskingOK /\ UNCHANGED <<asking, buf>> => AskingOK'
  BY DEF AskingOK, LiveAsks

LEMMA StoresKept == StoresOK /\ UNCHANGED <<stores, gui>> => StoresOK'
  BY DEF StoresOK, stores

\* What is printed leaves the lines alone.
LEMMA PrintsType ==
    ASSUME LinesOK, NEW s \in Streamer, Prints(s), UNCHANGED <<out, buf>>
    PROVE  LinesOK'
<1>1. (told[s] \/ ~Asks(s)) \in BOOLEAN
  OBVIOUS
<1>2. told' \in [Streamer -> BOOLEAN]
  BY <1>1 DEF LinesOK, Prints
<1> QED
  BY <1>2 DEF LinesOK

LEMMA TakenType ==
    ASSUME StreamersOK, NEW s \in Streamer
    PROVE  Taken(s) \in [Streamer -> [Device -> Decision]]
<1>1. [gate[s] EXCEPT ![peer[s]] = "none"] \in [Device -> Decision]
  BY DEF StreamersOK, Decision
<1> QED
  BY <1>1 DEF StreamersOK, Taken

LEMMA SubmitType ==
    ASSUME StreamersOK, NEW s \in Streamer, NEW d \in Device, NEW x \in Decision,
           Submit(s, d, x), UNCHANGED <<phase, peer>>
    PROVE  StreamersOK'
<1>1. [gate[s] EXCEPT ![d] = x] \in [Device -> Decision]
  BY DEF StreamersOK
<1>2. gate' \in [Streamer -> [Device -> Decision]]
  BY <1>1 DEF StreamersOK, Submit
<1> QED
  BY <1>2 DEF StreamersOK, WaitsForDevice

LEMMA ApprovedType ==
    ASSUME StoresOK, DueOK, NEW d \in Device, Approved(d)
    PROVE  /\ approved' \in SUBSET Device /\ allowed' \in SUBSET Device /\ DueOK'
<1>1. \A s \in Streamer : [due[s] EXCEPT ![d] = 0] \in [Device -> Nat]
  BY DEF DueOK
<1> QED
  BY <1>1 DEF StoresOK, DueOK, Approved

LEMMA InitType == ApprovalInit => TypeInv
<1> SUFFICES ASSUME ApprovalInit PROVE TypeInv
  OBVIOUS
<1>1. StreamersOK
  BY DEF ApprovalInit, StreamersOK, WaitsForDevice, NoDecisions, Decision
<1>2. LinesOK /\ AskingOK
  BY DEF ApprovalInit, LinesOK, AskingOK, LiveAsks
<1>3. StoresOK /\ DueOK
  BY DEF ApprovalInit, StoresOK, DueOK
<1>4. BoundsOK
  BY BoundsAssumption DEF ApprovalInit, BoundsOK
<1> QED
  BY <1>1, <1>2, <1>3, <1>4, TypeParts

-----------------------------------------------------------------------------
(* Types: one lemma for each action.                                       *)

LEMMA DialType ==
    ASSUME TypeInv, NEW s \in Streamer, NEW d \in Device, Dial(s, d)
    PROVE  TypeInv'
<1>0. StreamersOK /\ LinesOK /\ AskingOK /\ StoresOK /\ DueOK /\ BoundsOK
  BY TypeParts
<1>1. StreamersOK'
  BY <1>0 DEF Dial, StreamersOK, WaitsForDevice
<1>2. LinesOK'
  <2>1. Append(out[s], d) \in Seq(Device)
    BY <1>0 DEF LinesOK
  <2>2. out' \in [Streamer -> Seq(Device)] /\ buf' = buf
    BY <1>0, <2>1 DEF Dial, LinesOK
  <2>3. told' \in [Streamer -> BOOLEAN]
    BY <1>0 DEF Dial, Prints, LinesOK
  <2> QED
    BY <1>0, <2>2, <2>3 DEF LinesOK
<1>3. StoresOK'
  BY <1>0, StoresKept DEF Dial
<1>4. AskingOK' /\ DueOK' /\ BoundsOK'
  BY <1>0, AskingKept DEF Dial, DueOK, BoundsOK
<1> QED
  BY <1>1, <1>2, <1>3, <1>4, TypePartsNext

LEMMA AdmitType ==
    ASSUME TypeInv, NEW s \in Streamer, Admit(s)
    PROVE  TypeInv'
<1>0. StreamersOK /\ LinesOK /\ AskingOK /\ StoresOK /\ DueOK /\ BoundsOK
  BY TypeParts
<1>1. peer[s] \in Device
  BY <1>0 DEF Admit, StreamersOK, WaitsForDevice
<1>2. StreamersOK'
  <2>1. gate' \in [Streamer -> [Device -> Decision]]
    BY <1>0, TakenType DEF Admit
  <2>2. phase' \in [Streamer -> {"idle", "waiting", "streaming", "off"}]
    BY <1>0 DEF Admit, StreamersOK
  <2>3. \A r \in Streamer : phase'[r] = "waiting" => phase[r] = "waiting"
    BY <1>0 DEF Admit, StreamersOK
  <2> QED
    BY <1>0, <2>1, <2>2, <2>3 DEF Admit, StreamersOK, WaitsForDevice
<1>3. LinesOK'
  BY <1>0, PrintsType DEF Admit
<1>4. StoresOK'
  BY <1>0, StoresKept DEF Admit
<1>5. DueOK'
  <2>1. due[s][peer[s]] \in Nat
    BY <1>0, <1>1 DEF DueOK
  <2>2. [due[s] EXCEPT ![peer[s]] = IF peer[s] \in approved THEN 0 ELSE @ + 1] \in [Device -> Nat]
    BY <1>0, <1>1, <2>1 DEF DueOK
  <2> QED
    BY <1>0, <2>2 DEF Admit, DueOK
<1>6. AskingOK' /\ BoundsOK'
  BY <1>0, AskingKept DEF Admit, BoundsOK
<1> QED
  BY <1>2, <1>3, <1>4, <1>5, <1>6, TypePartsNext

\* A streamer that closes its session waits for nobody.
LEMMA ClosesType ==
    ASSUME TypeInv, NEW s \in Streamer, Closes(s), gate' \in [Streamer -> [Device -> Decision]]
    PROVE  TypeInv'
<1>0. StreamersOK /\ LinesOK /\ AskingOK /\ StoresOK /\ DueOK /\ BoundsOK
  BY TypeParts
<1>1. StreamersOK'
  <2>1. phase' \in [Streamer -> {"idle", "waiting", "streaming", "off"}]
        /\ peer' \in [Streamer -> Device \cup {Nobody}]
    BY <1>0 DEF Closes, StreamersOK
  <2>2. ASSUME NEW r \in Streamer, phase'[r] = "waiting"
        PROVE  r # s /\ phase[r] = "waiting" /\ peer'[r] = peer[r]
    BY <1>0, <2>2 DEF Closes, StreamersOK
  <2> QED
    BY <1>0, <2>1, <2>2 DEF StreamersOK, WaitsForDevice
<1>2. LinesOK'
  BY <1>0, PrintsType DEF Closes
<1>3. StoresOK'
  BY <1>0, StoresKept DEF Closes
<1>4. AskingOK' /\ DueOK' /\ BoundsOK'
  BY <1>0, AskingKept DEF Closes, DueOK, BoundsOK
<1> QED
  BY <1>1, <1>2, <1>3, <1>4, TypePartsNext

LEMMA StreamerStepType ==
    ASSUME TypeInv, NEW s \in Streamer, StreamerStep(s) \/ LinkLost(s) \/ Chatter(s) \/ Quits(s)
    PROVE  TypeInv'
<1>0. StreamersOK /\ LinesOK /\ AskingOK /\ StoresOK /\ DueOK /\ BoundsOK
  BY TypeParts
<1>1. gate \in [Streamer -> [Device -> Decision]]
  BY <1>0 DEF StreamersOK
<1>2. CASE Admit(s)
  BY <1>2, AdmitType
<1>3. CASE Deny(s)
  BY <1>0, <1>3, TakenType, ClosesType DEF Deny
<1>4. CASE TimeOut(s)
  BY <1>1, <1>4, ClosesType DEF TimeOut
<1>5. CASE LinkLost(s)
  BY <1>1, <1>5, ClosesType DEF LinkLost
<1>6. CASE Chatter(s)
  <2>1. StreamersOK'
    BY <1>0, <1>6, StreamersKept DEF Chatter
  <2>2. LinesOK'
    BY <1>0, <1>6, PrintsType DEF Chatter
  <2>3. StoresOK'
    BY <1>0, <1>6, StoresKept DEF Chatter
  <2>4. AskingOK' /\ DueOK' /\ BoundsOK'
    BY <1>0, <1>6, AskingKept DEF Chatter, DueOK, BoundsOK
  <2> QED
    BY <2>1, <2>2, <2>3, <2>4, TypePartsNext
<1>7. CASE Quits(s)
  <2>1. NoDecisions \in [Device -> Decision]
    BY DEF NoDecisions, Decision
  <2>2. gate' \in [Streamer -> [Device -> Decision]]
    BY <1>1, <1>7, <2>1 DEF Quits
  <2>3. phase' \in [Streamer -> {"idle", "waiting", "streaming", "off"}]
        /\ peer' \in [Streamer -> Device \cup {Nobody}]
    BY <1>0, <1>7 DEF Quits, StreamersOK
  <2>4. ASSUME NEW r \in Streamer, phase'[r] = "waiting"
        PROVE  r # s /\ phase[r] = "waiting" /\ peer'[r] = peer[r]
    BY <1>0, <1>7, <2>4 DEF Quits, StreamersOK
  <2>5. StreamersOK'
    BY <1>0, <2>2, <2>3, <2>4 DEF StreamersOK, WaitsForDevice
  <2>6. LinesOK'
    BY <1>0, <1>7, PrintsType DEF Quits
  <2>7. StoresOK'
    BY <1>0, <1>7, StoresKept DEF Quits
  <2>8. bounds' \in [wakes : 0..MaxWakes, forgets : 0..MaxForgets, exits : 0..MaxExits]
    BY <1>0, <1>7, BoundsAssumption DEF Quits, BoundsOK
  <2>9. AskingOK' /\ DueOK'
    BY <1>0, <1>7, AskingKept DEF Quits, DueOK
  <2> QED
    BY <2>5, <2>6, <2>7, <2>8, <2>9, TypePartsNext DEF BoundsOK
<1> QED
  BY <1>2, <1>3, <1>4, <1>5, <1>6, <1>7 DEF StreamerStep

LEMMA ReadType ==
    ASSUME TypeInv, NEW s \in Streamer, Read(s)
    PROVE  TypeInv'
<1>0. StreamersOK /\ LinesOK /\ AskingOK /\ StoresOK /\ DueOK /\ BoundsOK
  BY TypeParts
<1>1. StreamersOK' /\ StoresOK'
  BY <1>0, StreamersKept, StoresKept DEF Read
<1>2. LinesOK'
  BY <1>0 DEF Read, LinesOK
<1>3. DueOK' /\ BoundsOK'
  BY <1>0 DEF Read, DueOK, BoundsOK
<1>4. AskingOK'
  <2>1. asking' = asking /\ asking \in Seq(Question)
    BY <1>0 DEF Read, AskingOK
  <2>2. ASSUME NEW i \in DOMAIN asking, asking[i].live
        PROVE  buf'[asking[i].at] = buf[asking[i].at]
    <3>1. asking[i].at \in Streamer
      BY <2>1, AskingAt
    <3>2. asking[i].at # s
      BY <2>2 DEF Read, Asks
    <3> QED
      BY <1>0, <3>1, <3>2 DEF Read, LinesOK
  <2> QED
    BY <1>0, <2>1, <2>2 DEF AskingOK, LiveAsks
<1> QED
  BY <1>1, <1>2, <1>3, <1>4, TypePartsNext

\* What a slot has taken is consumed from its head.
LEMMA BufTail ==
    ASSUME LinesOK, NEW s \in Streamer, buf[s] # <<>>
    PROVE  /\ Head(buf[s]) \in Device
           /\ [buf EXCEPT ![s] = Tail(@)] \in [Streamer -> Seq(Device)]
<1>1. buf[s] \in Seq(Device)
  BY DEF LinesOK
<1>2. Head(buf[s]) \in Device /\ Tail(buf[s]) \in Seq(Device)
  BY <1>1
<1> QED
  BY <1>2 DEF LinesOK

LEMMA AnsweredType ==
    ASSUME TypeInv, NEW s \in Streamer, Answered(s)
    PROVE  TypeInv'
<1>0. StreamersOK /\ LinesOK /\ AskingOK /\ StoresOK /\ DueOK /\ BoundsOK
  BY TypeParts
<1> DEFINE d == Head(buf[s])
<1>1. d \in Device /\ [buf EXCEPT ![s] = Tail(@)] \in [Streamer -> Seq(Device)]
  BY <1>0, BufTail DEF Answered, InSlot
<1>2. StreamersOK'
  BY <1>0, <1>1, SubmitType DEF Answered, Decision
<1>3. approved' \in SUBSET Device /\ allowed' \in SUBSET Device /\ DueOK'
  BY <1>0, <1>1, ApprovedType DEF Answered
<1>4. StoresOK'
  BY <1>0, <1>3 DEF Answered, StoresOK
<1>5. LinesOK'
  BY <1>0, <1>1 DEF Answered, LinesOK
<1>6. AskingOK' /\ BoundsOK'
  <2>1. asking' = asking /\ asking \in Seq(Question) /\ BoundsOK'
    BY <1>0 DEF Answered, AskingOK, BoundsOK
  <2>2. ASSUME NEW i \in DOMAIN asking, asking[i].live
        PROVE  buf'[asking[i].at] = buf[asking[i].at]
    <3>1. asking[i].at \in Streamer
      BY <2>1, AskingAt
    <3>2. asking[i].at # s
      BY <2>2 DEF Answered, InSlot, Asks
    <3> QED
      BY <1>0, <3>1, <3>2 DEF Answered, LinesOK
  <2> QED
    BY <1>0, <2>1, <2>2 DEF AskingOK, LiveAsks
<1> QED
  BY <1>2, <1>3, <1>4, <1>5, <1>6, TypePartsNext

LEMMA AskType ==
    ASSUME TypeInv, NEW s \in Streamer, Ask(s)
    PROVE  TypeInv'
<1>0. StreamersOK /\ LinesOK /\ AskingOK /\ StoresOK /\ DueOK /\ BoundsOK
  BY TypeParts
<1>1. Head(buf[s]) \in Device
  BY <1>0, BufTail DEF Ask, InSlot
<1>2. [at |-> s, of |-> Head(buf[s]), live |-> TRUE] \in Question
  BY <1>1 DEF Question
<1>3. AskingOK'
  <2> DEFINE q == [at |-> s, of |-> Head(buf[s]), live |-> TRUE]
  <2>1. /\ asking' = <<q>> \o asking /\ asking \in Seq(Question) /\ q \in Question
        /\ buf' = buf /\ buf[s] # <<>> /\ ~Asks(s)
    BY <1>0, <1>2 DEF Ask, InSlot, AskingOK
  <2> HIDE DEF q
  <2>2. asking' \in Seq(Question) /\ Len(asking') = Len(asking) + 1
    BY <2>1
  <2>3. \A i \in DOMAIN asking' : asking'[i] = IF i = 1 THEN q ELSE asking[i - 1]
    BY <2>1, <2>2
  <2>4. \A i \in DOMAIN asking' : i # 1 => i - 1 \in DOMAIN asking
    BY <2>1, <2>2
  <2>5. q.at = s
    BY DEF q
  <2>6. \A i \in DOMAIN asking : asking[i].live => asking[i].at # s
    BY <2>1 DEF Asks
  <2>7. \A i \in DOMAIN asking' : asking'[i].live => buf'[asking'[i].at] # <<>>
    BY <1>0, <2>1, <2>3, <2>4, <2>5 DEF AskingOK, LiveAsks
  <2>8. ASSUME NEW i \in DOMAIN asking', NEW j \in DOMAIN asking',
               asking'[i].live, asking'[j].live, asking'[i].at = asking'[j].at
        PROVE  i = j
    <3>1. CASE i = 1 /\ j = 1
      BY <3>1
    <3>2. CASE i = 1 /\ j # 1
      BY <2>3, <2>4, <2>5, <2>6, <2>8, <3>2
    <3>3. CASE i # 1 /\ j = 1
      BY <2>3, <2>4, <2>5, <2>6, <2>8, <3>3
    <3>4. CASE i # 1 /\ j # 1
      <4>1. i - 1 = j - 1
        BY <1>0, <2>3, <2>4, <2>8, <3>4 DEF AskingOK, LiveAsks
      <4>2. i \in Int /\ j \in Int
        BY <2>2
      <4> QED
        BY <4>1, <4>2
    <3> QED
      BY <3>1, <3>2, <3>3, <3>4
  <2> QED
    BY <2>2, <2>7, <2>8 DEF AskingOK, LiveAsks
<1>4. StreamersOK' /\ LinesOK' /\ StoresOK'
  BY <1>0, StreamersKept, StoresKept DEF Ask, LinesOK
<1>5. DueOK' /\ BoundsOK'
  BY <1>0 DEF Ask, DueOK, BoundsOK
<1> QED
  BY <1>3, <1>4, <1>5, TypePartsNext

LEMMA AnswerType ==
    ASSUME TypeInv, NEW yes \in BOOLEAN, Answer(yes)
    PROVE  TypeInv'
<1>0. StreamersOK /\ LinesOK /\ AskingOK /\ StoresOK /\ DueOK /\ BoundsOK
  BY TypeParts
<1> DEFINE q == Head(asking)
<1>1. asking \in Seq(Question) /\ asking # <<>> /\ asking' = Tail(asking)
  BY <1>0 DEF Answer, AskingOK
<1>2. q \in Question /\ q = asking[1] /\ 1 \in DOMAIN asking
  BY <1>1
<1>3. q.at \in Streamer /\ q.of \in Device
  BY <1>2 DEF Question
<1>4. /\ asking' \in Seq(Question)
      /\ \A i \in DOMAIN asking' : /\ i + 1 \in DOMAIN asking /\ i + 1 # 1
                                   /\ asking'[i] = asking[i + 1]
                                   /\ i \in Int
  BY <1>1
<1>5. approved' \in SUBSET Device /\ allowed' \in SUBSET Device /\ DueOK'
  <2>1. CASE yes
    BY <1>0, <1>3, <2>1, ApprovedType DEF Answer
  <2>2. CASE ~yes
    BY <1>0, <2>2 DEF Answer, StoresOK, DueOK
  <2> QED
    BY <2>1, <2>2
<1>6. StoresOK' /\ BoundsOK'
  BY <1>0, <1>5 DEF Answer, StoresOK, BoundsOK
<1>7. \A i, j \in DOMAIN asking' :
        asking'[i].live /\ asking'[j].live /\ asking'[i].at = asking'[j].at => i = j
  <2>1. ASSUME NEW i \in DOMAIN asking', NEW j \in DOMAIN asking',
               asking'[i].live, asking'[j].live, asking'[i].at = asking'[j].at
        PROVE  i = j
    <3>1. i + 1 = j + 1
      BY <1>0, <1>4, <2>1 DEF AskingOK, LiveAsks
    <3> QED
      BY <1>4, <3>1
  <2> QED
    BY <2>1
<1>8. CASE q.live
  <2>1. StreamersOK'
    BY <1>0, <1>3, <1>8, SubmitType DEF Answer, Decision
  <2>2. buf[q.at] # <<>> /\ buf' = [buf EXCEPT ![q.at] = Tail(@)]
    BY <1>0, <1>2, <1>8 DEF Answer, AskingOK, LiveAsks
  <2>3. LinesOK'
    BY <1>0, <1>3, <2>2, BufTail DEF Answer, LinesOK
  <2>4. ASSUME NEW i \in DOMAIN asking', asking'[i].live
        PROVE  buf'[asking'[i].at] # <<>>
    <3>1. asking[i + 1].at # q.at
      BY <1>0, <1>2, <1>4, <1>8, <2>4 DEF AskingOK, LiveAsks
    <3>2. asking[i + 1].at \in Streamer
      BY <1>1, <1>4, AskingAt
    <3>3. buf'[asking[i + 1].at] = buf[asking[i + 1].at]
      BY <1>0, <2>2, <3>1, <3>2 DEF LinesOK
    <3> QED
      BY <1>0, <1>4, <2>4, <3>3 DEF AskingOK, LiveAsks
  <2>5. AskingOK'
    BY <1>4, <1>7, <2>4 DEF AskingOK, LiveAsks
  <2> QED
    BY <1>5, <1>6, <2>1, <2>3, <2>5, TypePartsNext
<1>9. CASE ~q.live
  <2>1. UNCHANGED <<phase, peer, gate, out, told, buf>>
    BY <1>9 DEF Answer
  <2>2. StreamersOK' /\ LinesOK'
    BY <1>0, <2>1, StreamersKept, LinesKept DEF streamers, lines
  <2>3. ASSUME NEW i \in DOMAIN asking', asking'[i].live
        PROVE  buf'[asking'[i].at] # <<>>
    BY <1>0, <1>4, <2>1, <2>3 DEF AskingOK, LiveAsks
  <2>4. AskingOK'
    BY <1>4, <1>7, <2>3 DEF AskingOK, LiveAsks
  <2> QED
    BY <1>5, <1>6, <2>2, <2>4, TypePartsNext
<1> QED
  BY <1>8, <1>9

LEMMA FinishedType ==
    ASSUME TypeInv, NEW s \in Streamer, Finished(s)
    PROVE  TypeInv'
<1>0. StreamersOK /\ LinesOK /\ AskingOK /\ StoresOK /\ DueOK /\ BoundsOK
  BY TypeParts
<1>1. StreamersOK'
  <2>1. phase' = [phase EXCEPT ![s] = "idle"] /\ UNCHANGED <<peer, gate>>
    BY DEF Finished
  <2>2. phase' \in [Streamer -> {"idle", "waiting", "streaming", "off"}]
    BY <1>0, <2>1 DEF StreamersOK
  <2>3. \A r \in Streamer : phase'[r] = "waiting" => phase[r] = "waiting"
    BY <1>0, <2>1 DEF StreamersOK
  <2> QED
    BY <1>0, <2>1, <2>2, <2>3 DEF StreamersOK, WaitsForDevice
<1>2. LinesOK'
  BY <1>0 DEF Finished, LinesOK
<1>3. StoresOK'
  BY <1>0, StoresKept DEF Finished
<1>4. DueOK' /\ BoundsOK'
  BY <1>0 DEF Finished, DueOK, BoundsOK
<1>5. AskingOK'
  <2>1. /\ asking \in Seq(Question)
        /\ asking' = [i \in DOMAIN asking |-> [asking[i] EXCEPT !.live = @ /\ asking[i].at # s]]
    BY <1>0 DEF Finished, AskingOK
  <2>2. \A i \in DOMAIN asking : asking[i] \in Question
    BY <2>1
  <2>3. ASSUME NEW i \in DOMAIN asking
        PROVE  /\ asking'[i] \in Question
               /\ asking'[i].at = asking[i].at
               /\ asking'[i].live => asking[i].live /\ asking[i].at # s
    <3>1. asking'[i] = [asking[i] EXCEPT !.live = @ /\ asking[i].at # s]
      BY <2>1
    <3> QED
      BY <2>2, <3>1 DEF Question
  <2>4. DOMAIN asking' = DOMAIN asking /\ asking' \in Seq(Question)
    <3>1. DOMAIN asking = 1 .. Len(asking) /\ Len(asking) \in Nat /\ DOMAIN asking' = DOMAIN asking
      BY <2>1
    <3>2. asking' \in [1 .. Len(asking) -> Question]
      BY <2>1, <2>3, <3>1
    <3> QED
      BY <3>1, <3>2
  <2>5. ASSUME NEW i \in DOMAIN asking', asking'[i].live
        PROVE  buf'[asking'[i].at] # <<>>
    <3>1. asking[i].at \in Streamer \ {s}
      BY <2>2, <2>3, <2>4, <2>5 DEF Question
    <3>2. buf'[asking[i].at] = buf[asking[i].at]
      BY <1>0, <3>1 DEF Finished, LinesOK
    <3> QED
      BY <1>0, <2>3, <2>4, <2>5, <3>2 DEF AskingOK, LiveAsks
  <2>6. \A i, j \in DOMAIN asking' :
          asking'[i].live /\ asking'[j].live /\ asking'[i].at = asking'[j].at => i = j
    BY <1>0, <2>3, <2>4 DEF AskingOK, LiveAsks
  <2> QED
    BY <2>4, <2>5, <2>6 DEF AskingOK, LiveAsks
<1> QED
  BY <1>1, <1>2, <1>3, <1>4, <1>5, TypePartsNext

LEMMA UserType ==
    ASSUME TypeInv, NEW d \in Device, Wake(d) \/ WakeIsOld(d) \/ Forget(d)
    PROVE  TypeInv'
<1>0. StreamersOK /\ LinesOK /\ AskingOK /\ StoresOK /\ DueOK /\ BoundsOK
  BY TypeParts
<1>1. UNCHANGED <<streamers, lines, asking, gui, due>>
  BY DEF Wake, WakeIsOld, Forget
<1>2. StreamersOK' /\ LinesOK' /\ AskingOK'
  BY <1>0, <1>1, StreamersKept, LinesKept, AskingKept DEF lines
<1>3. DueOK'
  BY <1>0, <1>1 DEF DueOK
<1>4. StoresOK'
  BY <1>0, <1>1 DEF Wake, WakeIsOld, Forget, StoresOK
<1>5. BoundsOK'
  <2>1. CASE Wake(d)
    BY <1>0, <2>1, BoundsAssumption DEF Wake, BoundsOK
  <2>2. CASE WakeIsOld(d)
    BY <1>0, <2>2 DEF WakeIsOld, BoundsOK
  <2>3. CASE Forget(d)
    BY <1>0, <2>3, BoundsAssumption DEF Forget, BoundsOK
  <2> QED
    BY <2>1, <2>2, <2>3
<1> QED
  BY <1>2, <1>3, <1>4, <1>5, TypePartsNext

LEMMA NextType == TypeInv /\ [ApprovalNext]_approvalVars => TypeInv'
<1> SUFFICES ASSUME TypeInv, [ApprovalNext]_approvalVars PROVE TypeInv'
  OBVIOUS
<1>1. ASSUME NEW s \in Streamer, GuiStep(s)
      PROVE  TypeInv'
  BY <1>1, ReadType, AnsweredType, AskType, FinishedType DEF GuiStep
<1>2. CASE UNCHANGED approvalVars
  BY <1>2 DEF approvalVars, streamers, lines, stores, TypeInv, ApprovalTypeOK, WaitsForDevice, LiveAsks
<1> QED
  BY <1>1, <1>2, StreamerStepType, DialType, AnswerType, UserType DEF ApprovalNext

\* The variables keep their types, whoever dials, asks and forgets.
THEOREM ApprovalTypeCorrect == ApprovalSpec => []ApprovalTypeOK
<1>1. TypeInv => ApprovalTypeOK
  BY DEF TypeInv
<1> QED
  BY <1>1, InitType, NextType, PTL DEF ApprovalSpec

-----------------------------------------------------------------------------
(* Late decisions. A decision to allow is given only with an entry on the  *)
(* list, which resets the count; a session takes its decision out of the   *)
(* gate.                                                                   *)

\* Off the list, a session that was counted has used up the decision, and a
\* device that nobody let in has none.
LateInv ==
    /\ approved \subseteq allowed
    /\ \A s \in Streamer, d \in Device :
          /\ due[s][d] \in {0, 1}
          /\ d \in approved => due[s][d] = 0
          /\ due[s][d] = 1 => gate[s][d] # "allow"
          /\ d \notin allowed => due[s][d] = 0 /\ gate[s][d] # "allow"

LEMMA InitLate == ApprovalInit => LateInv
  BY DEF ApprovalInit, LateInv, NoDecisions

\* Decisions that are taken or lost, and devices that are let in, do no harm.
LEMMA FewerDecisions ==
    ASSUME LateInv, UNCHANGED <<approved, allowed, due>>,
           \A s \in Streamer, d \in Device : gate'[s][d] = "allow" => gate[s][d] = "allow"
    PROVE  LateInv'
  BY DEF LateInv

LEMMA AdmitLate ==
    ASSUME TypeInv, LateInv, NEW s \in Streamer, Admit(s)
    PROVE  LateInv'
<1>0. StreamersOK /\ DueOK
  BY TypeParts
<1> DEFINE d == peer[s]
<1>1. d \in Device /\ gate[s][d] = "allow"
  BY <1>0 DEF Admit, StreamersOK, WaitsForDevice
<1>2. due[s][d] = 0 /\ d \in allowed
  BY <1>1 DEF LateInv
<1>3. /\ gate' = [gate EXCEPT ![s][d] = "none"]
      /\ due' = [due EXCEPT ![s][d] = IF d \in approved THEN 0 ELSE 1]
      /\ UNCHANGED <<approved, allowed>>
  <2>1. due' = [due EXCEPT ![s][d] = IF d \in approved THEN 0 ELSE due[s][d] + 1]
    BY DEF Admit
  <2> QED
    BY <1>2, <2>1 DEF Admit, Taken, stores
<1> HIDE DEF d
<1>4. ASSUME NEW r \in Streamer, NEW e \in Device, ~(r = s /\ e = d)
      PROVE  gate'[r][e] = gate[r][e] /\ due'[r][e] = due[r][e]
  BY <1>0, <1>1, <1>3, <1>4 DEF StreamersOK, DueOK
<1>5. gate'[s][d] = "none" /\ due'[s][d] = IF d \in approved THEN 0 ELSE 1
  BY <1>0, <1>1, <1>3 DEF StreamersOK, DueOK
<1> QED
  BY <1>2, <1>3, <1>4, <1>5 DEF LateInv

\* A device gets its entry, and one streamer its decision.
LEMMA ApprovedLate ==
    ASSUME TypeInv, LateInv, NEW s \in Streamer, NEW d \in Device,
           Approved(d), Submit(s, d, "allow")
    PROVE  LateInv'
<1>0. StreamersOK /\ DueOK
  BY TypeParts
<1>1. approved' = approved \cup {d} /\ allowed' = allowed \cup {d}
  BY DEF Approved
<1>2. ASSUME NEW r \in Streamer, NEW e \in Device
      PROVE  due'[r][e] = IF e = d THEN 0 ELSE due[r][e]
  BY <1>0 DEF Approved, DueOK
<1>3. ASSUME NEW r \in Streamer, NEW e \in Device, e # d
      PROVE  gate'[r][e] = gate[r][e]
  BY <1>0, <1>3 DEF Submit, StreamersOK
<1> QED
  BY <1>1, <1>2, <1>3 DEF LateInv

LEMMA AnswerLate ==
    ASSUME TypeInv, LateInv, NEW yes \in BOOLEAN, Answer(yes)
    PROVE  LateInv'
<1>0. StreamersOK /\ AskingOK /\ DueOK
  BY TypeParts
<1> DEFINE q == Head(asking)
<1>1. q \in Question
  BY <1>0 DEF Answer, AskingOK
<1>2. q.at \in Streamer /\ q.of \in Device
  BY <1>1 DEF Question
<1>3. CASE q.live /\ yes
  BY <1>2, <1>3, ApprovedLate DEF Answer
<1>4. CASE q.live /\ ~yes
  <2>1. UNCHANGED <<approved, allowed, due>> /\ Submit(q.at, q.of, "deny")
    BY <1>4 DEF Answer
  <2>2. ASSUME NEW r \in Streamer, NEW e \in Device, gate'[r][e] = "allow"
        PROVE  gate[r][e] = "allow"
    BY <1>0, <1>2, <2>1, <2>2 DEF Submit, StreamersOK
  <2> QED
    BY <2>1, <2>2, FewerDecisions
<1>5. CASE ~q.live /\ yes
  <2>1. Approved(q.of) /\ gate' = gate
    BY <1>5 DEF Answer
  <2>2. approved' = approved \cup {q.of} /\ allowed' = allowed \cup {q.of}
    BY <2>1 DEF Approved
  <2>3. ASSUME NEW r \in Streamer, NEW e \in Device
        PROVE  due'[r][e] = IF e = q.of THEN 0 ELSE due[r][e]
    BY <1>0, <2>1 DEF Approved, DueOK
  <2> QED
    BY <2>1, <2>2, <2>3 DEF LateInv
<1>6. CASE ~q.live /\ ~yes
  BY <1>6, FewerDecisions DEF Answer
<1> QED
  BY <1>3, <1>4, <1>5, <1>6

LEMMA NextLate == TypeInv /\ LateInv /\ [ApprovalNext]_approvalVars => LateInv'
<1> SUFFICES ASSUME TypeInv, LateInv, [ApprovalNext]_approvalVars PROVE LateInv'
  OBVIOUS
<1>0. StreamersOK /\ LinesOK
  BY TypeParts
<1>1. ASSUME NEW s \in Streamer, StreamerStep(s) \/ LinkLost(s) \/ Chatter(s) \/ Quits(s)
      PROVE  LateInv'
  <2>1. CASE Admit(s)
    BY <2>1, AdmitLate
  <2>2. CASE Deny(s)
    <3>1. \A r \in Streamer, d \in Device : gate'[r][d] = "allow" => gate[r][d] = "allow"
      BY <1>0, <2>2 DEF Deny, Taken, StreamersOK
    <3> QED
      BY <2>2, <3>1, FewerDecisions DEF Deny, Closes, stores
  <2>3. CASE TimeOut(s) \/ LinkLost(s) \/ Chatter(s)
    BY <2>3, FewerDecisions DEF TimeOut, LinkLost, Chatter, Closes, stores, streamers
  <2>4. CASE Quits(s)
    <3>1. \A r \in Streamer, d \in Device : gate'[r][d] = "allow" => gate[r][d] = "allow"
      BY <1>0, <2>4 DEF Quits, StreamersOK, NoDecisions
    <3> QED
      BY <2>4, <3>1, FewerDecisions DEF Quits, stores
  <2> QED
    BY <1>1, <2>1, <2>2, <2>3, <2>4 DEF StreamerStep
<1>2. ASSUME NEW s \in Streamer, GuiStep(s)
      PROVE  LateInv'
  <2>1. CASE Read(s) \/ Ask(s) \/ Finished(s)
    BY <2>1, FewerDecisions DEF Read, Ask, Finished, streamers, stores
  <2>2. CASE Answered(s)
    <3>1. Head(buf[s]) \in Device
      BY <1>0, <2>2, BufTail DEF Answered, InSlot
    <3> QED
      BY <2>2, <3>1, ApprovedLate DEF Answered
  <2> QED
    BY <1>2, <2>1, <2>2 DEF GuiStep
<1>3. ASSUME NEW s \in Streamer, NEW d \in Device, Dial(s, d)
      PROVE  LateInv'
  BY <1>3, FewerDecisions DEF Dial, stores
<1>4. ASSUME NEW yes \in BOOLEAN, Answer(yes)
      PROVE  LateInv'
  BY <1>4, AnswerLate
<1>5. ASSUME NEW d \in Device, Wake(d) \/ WakeIsOld(d) \/ Forget(d)
      PROVE  LateInv'
  <2>1. UNCHANGED <<gate, due, allowed>> /\ approved' \subseteq approved
    BY <1>5 DEF Wake, WakeIsOld, Forget, streamers
  <2> QED
    BY <2>1 DEF LateInv
<1>6. CASE UNCHANGED approvalVars
  BY <1>6, FewerDecisions DEF approvalVars, streamers, stores
<1> QED
  BY <1>1, <1>2, <1>3, <1>4, <1>5, <1>6 DEF ApprovalNext

\* A device that was taken off the list gets one more session of each streamer at
\* most, and one that nobody let in gets none, however decisions, time-outs, wakes
\* and questions follow each other. (approval.h, main_window.cpp.)
THEOREM LateAnswers == ApprovalSpec => []OneLateAnswer
<1>1. LateInv => OneLateAnswer
  BY DEF LateInv, OneLateAnswer
<1> QED
  BY <1>1, InitType, NextType, InitLate, NextLate, PTL DEF ApprovalSpec
=============================================================================
