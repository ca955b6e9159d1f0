------------------------- MODULE OtherLinks_proofs -------------------------
(***************************************************************************)
(* Proofs about the ways to a streamer that are not its own protocol over  *)
(* TCP, each for any values of its constants. UsbHost: the auto-connect    *)
(* starts nothing that is switched off, and a monitor that is connected    *)
(* has no scan counted against it.                                         *)
(* WebPath: the exchange of the code, and the settings that are handed     *)
(* back, whatever pages, connections and the streamer do. Spacedesk: the   *)
(* stripes a viewer reads continue its picture. The three share nothing.   *)
(***************************************************************************)
EXTENDS UsbHost, WebPath, Spacedesk, TLAPS

-----------------------------------------------------------------------------
(* UsbHost. The lists of the host.                                         *)

SessionsOK == session \in [Device -> {"none", "up", "stopping"}]

\* Nothing that the last scan of the bus missed is in the list of the accessories; a
\* search of the network that is on may find a tablet at any of its addresses.
OnNetwork(list) == \A d \in list : d.via \in {"tether", "wifi"}
Lists ==
    /\ seen = [via \in Via |-> seen[via]]
    /\ rows \subseteq Found(seen)
    /\ \A d \in seen["aoa"] : d.via = "aoa"
    /\ \A d \in seen["adb"] : d.via = "adb"
    /\ OnNetwork(seen["tether"]) /\ OnNetwork(seen["wifi"])
    /\ seen["aoa"] # {} => usb
    /\ seen["tether"] # {} => usb
    /\ seen["wifi"] # {} => lan
    /\ \A t \in Tablet : misses[t] # 0 => Accessory(t) \notin seen["aoa"]

ListInv == SessionsOK /\ Lists

LEMMA InitLists == HostInit => ListInv
  BY DEF HostInit, Init, ListInv, SessionsOK, Lists, OnNetwork, Via

LEMMA ListsKept == Lists /\ UNCHANGED <<rows, seen, usb, lan, misses>> => Lists'
  BY DEF Lists, OnNetwork, Found

\* A row is in the list of a scanner.
LEMMA InList ==
    ASSUME Lists, NEW d \in rows
    PROVE  \E via \in Via : d \in seen[via]
  BY DEF Lists, Found

LEMMA AccessoryRow ==
    ASSUME Lists, NEW d \in rows, d.via = "aoa"
    PROVE  d \in seen["aoa"]
<1>1. PICK via \in Via : d \in seen[via]
  BY InList
<1> QED
  BY <1>1 DEF Lists, OnNetwork, Via

LEMMA OfTransport == \A via, d : d \in By(via) <=> d \in Offers /\ d.via = via
  BY DEF By

-----------------------------------------------------------------------------
(* Sessions.                                                               *)

\* No stop, however late the process ends, starts a session.
LEMMA StopStartsNone ==
    ASSUME SessionsOK, NEW ds, Stopped(ds)
    PROVE  /\ SessionsOK'
           /\ \A d \in Device : session'[d] = "up" => session[d] = "up"
  BY DEF SessionsOK, Stopped

LEMMA SetOne ==
    ASSUME SessionsOK, NEW d \in Device, NEW to \in {"none", "up"}, session' = [session EXCEPT ![d] = to]
    PROVE  /\ SessionsOK'
           /\ \A e \in Device : session'[e] = "up" => session[e] = "up" \/ (e = d /\ to = "up")
  BY DEF SessionsOK

LEMMA EvaluateStarts ==
    ASSUME SessionsOK, Evaluate
    PROVE  /\ SessionsOK'
           /\ \A d \in Device : session'[d] = "up" => session[d] = "up" \/ (auto /\ d \in Candidate)
<1>1. CASE ~auto
  BY <1>1 DEF Evaluate, SessionsOK
<1>2. CASE auto
  <2>1. PICK late \in SUBSET PlanDisconnect :
            \E new \in Taken(PlanConnect, (Active \ PlanDisconnect) \cup late) :
               session' = [d \in Device |-> IF d \in new THEN "up"
                                            ELSE IF d \in late THEN "stopping"
                                            ELSE IF d \in PlanDisconnect THEN "none" ELSE session[d]]
    BY <1>2 DEF Evaluate
  <2>2. \A new \in Taken(PlanConnect, (Active \ PlanDisconnect) \cup late) : new \subseteq Candidate
    BY DEF Taken, PlanConnect
  <2> QED
    BY <1>2, <2>1, <2>2 DEF SessionsOK
<1> QED
  BY <1>1, <1>2

LEMMA Cables == \A t \in Tablet : Cable(t) \in Device /\ Accessory(t) = Cable(t)
  BY DEF Cable, Device, Via, Accessory

-----------------------------------------------------------------------------
(* The lists.                                                              *)

\* A list that changes, and the rows with it.
LEMMA ListSet ==
    ASSUME Lists, NEW via \in Via, NEW now, seen' = [seen EXCEPT ![via] = now]
    PROVE  /\ seen' = [v \in Via |-> seen'[v]] /\ seen'[via] = now
           /\ \A v \in Via : v # via => seen'[v] = seen[v]
<1>1. seen = [v \in Via |-> seen[v]]
  BY DEF Lists
<1> QED
  BY <1>1

LEMMA ScanLists ==
    ASSUME ListInv, AoaScan
    PROVE  Lists'
<1>0. Lists /\ usb /\ UNCHANGED <<usb, lan>>
  BY DEF ListInv, AoaScan, switches
<1>1. rows' \subseteq Found(seen)'
  BY DEF AoaScan, Found
<1>2. seen' = [seen EXCEPT !["aoa"] = near \cap By("aoa")]
  BY DEF AoaScan
<1>3. /\ seen' = [v \in Via |-> seen'[v]] /\ seen'["aoa"] = near \cap By("aoa")
      /\ seen'["tether"] = seen["tether"] /\ seen'["adb"] = seen["adb"] /\ seen'["wifi"] = seen["wifi"]
  BY <1>0, <1>2, ListSet DEF Via
<1>4. ASSUME NEW t \in Tablet, misses'[t] # 0, Accessory(t) \in seen'["aoa"]
      PROVE  FALSE
  <2>1. misses'[t] = IF t \in Gone(Attached) THEN 0 ELSE Missed(Attached, t)
    BY DEF AoaScan
  <2>2. t \notin Attached
    BY <1>4, <2>1 DEF Missed
  <2>3. Accessory(t).of = t
    BY DEF Accessory
  <2> QED
    BY <1>3, <1>4, <2>2, <2>3 DEF Attached
<1>5. \A d \in seen'["aoa"] : d.via = "aoa"
  BY <1>3, OfTransport
<1>6. OnNetwork(seen["tether"])' /\ OnNetwork(seen["wifi"])'
  BY <1>0, <1>3 DEF Lists, OnNetwork
<1> QED
  BY <1>0, <1>1, <1>3, <1>4, <1>5, <1>6 DEF Lists

LEMMA ReportLists ==
    ASSUME Lists, NEW via \in {"tether", "adb", "wifi"}, NEW now, Discovered(via, now),
           via = "tether" => usb, via = "wifi" => lan,
           via = "adb" => \A d \in now : d.via = "adb",
           via # "adb" => OnNetwork(now),
           UNCHANGED <<usb, lan, misses>>
    PROVE  Lists'
<1>1. seen' = [seen EXCEPT ![via] = now] /\ rows' \subseteq Found(seen)'
  BY DEF Discovered, Listed, Found
<1>2. /\ seen' = [v \in Via |-> seen'[v]] /\ seen'[via] = now
      /\ \A v \in Via : v # via => seen'[v] = seen[v]
  BY <1>1, ListSet DEF Via
<1>3. seen'["aoa"] = seen["aoa"]
  BY <1>2 DEF Via
<1>4. \A d \in seen'["adb"] : d.via = "adb"
  BY <1>2 DEF Lists, Via
<1>5. OnNetwork(seen["tether"])' /\ (seen'["tether"] # {} => usb')
  <2>1. CASE via = "tether"
    BY <1>2, <2>1 DEF OnNetwork
  <2>2. CASE via # "tether"
    BY <1>2, <2>2 DEF Lists, OnNetwork, Via
  <2> QED
    BY <2>1, <2>2
<1>6. OnNetwork(seen["wifi"])' /\ (seen'["wifi"] # {} => lan')
  <2>1. CASE via = "wifi"
    BY <1>2, <2>1 DEF OnNetwork
  <2>2. CASE via # "wifi"
    BY <1>2, <2>2 DEF Lists, OnNetwork, Via
  <2> QED
    BY <2>1, <2>2
<1> QED
  BY <1>1, <1>2, <1>3, <1>4, <1>5, <1>6 DEF Lists

LEMMA SwitchLists ==
    ASSUME Lists, ToggleLan \/ ToggleUsb
    PROVE  Lists'
<1>1. CASE ToggleLan
  <2>1. CASE lan
    <3>1. /\ lan' = ~lan /\ seen' = [seen EXCEPT !["wifi"] = {}] /\ rows' \subseteq Found(seen)'
          /\ UNCHANGED <<usb, misses>>
      BY <1>1, <2>1 DEF ToggleLan, Listed, Found
    <3>2. /\ seen' = [v \in Via |-> seen'[v]] /\ seen'["wifi"] = {}
          /\ seen'["tether"] = seen["tether"] /\ seen'["adb"] = seen["adb"] /\ seen'["aoa"] = seen["aoa"]
      BY <3>1, ListSet DEF Via
    <3> QED
      BY <2>1, <3>1, <3>2 DEF Lists, OnNetwork
  <2>2. CASE ~lan
    <3>1. lan' = ~lan /\ UNCHANGED <<seen, rows, usb, misses>>
      BY <1>1, <2>2 DEF ToggleLan
    <3> QED
      BY <2>2, <3>1 DEF Lists, OnNetwork, Found
  <2> QED
    BY <2>1, <2>2
<1>2. CASE ToggleUsb
  <2>1. CASE usb
    <3>1. /\ seen' = [via \in Via |-> IF via = "wifi" THEN seen[via] ELSE {}]
          /\ rows' \subseteq Found(seen)' /\ UNCHANGED <<lan, misses>>
      BY <1>2, <2>1 DEF ToggleUsb, Listed, Found
    <3>2. /\ seen' = [v \in Via |-> seen'[v]] /\ seen'["wifi"] = seen["wifi"]
          /\ seen'["tether"] = {} /\ seen'["adb"] = {} /\ seen'["aoa"] = {}
      BY <3>1 DEF Via
    <3> QED
      BY <3>1, <3>2 DEF Lists, OnNetwork
  <2>2. CASE ~usb
    <3>1. usb' = ~usb /\ UNCHANGED <<seen, rows, lan, misses>>
      BY <1>2, <2>2 DEF ToggleUsb
    <3> QED
      BY <2>2, <3>1 DEF Lists, OnNetwork, Found
  <2> QED
    BY <2>1, <2>2
<1> QED
  BY <1>1, <1>2

LEMMA AnswersOnNetwork ==
    ASSUME NEW now \in Answers
    PROVE  OnNetwork(now)
  BY DEF Answers, OnNetwork

LEMMA GuiLists ==
    ASSUME ListInv, HostNext
    PROVE  Lists'
<1>0. Lists
  BY DEF ListInv
<1>1. CASE AoaScan
  BY <1>1, ScanLists
<1>2. CASE TetherReport
  BY <1>0, <1>2, ReportLists, AnswersOnNetwork DEF TetherReport, switches
<1>3. CASE Browsed
  BY <1>0, <1>3, ReportLists, AnswersOnNetwork DEF Browsed, switches
<1>4. ASSUME NEW i \in DOMAIN polls, AdbResult(i)
      PROVE  Lists'
  <2> DEFINE now == {[via |-> "adb", of |-> t] : t \in polls[i]}
  <2>1. UNCHANGED <<usb, lan, misses>> /\ (UNCHANGED <<seen, rows>> \/ Discovered("adb", now))
    BY <1>4 DEF AdbResult, switches
  <2>2. \A d \in now : d.via = "adb"
    OBVIOUS
  <2> HIDE DEF now
  <2> QED
    BY <1>0, <2>1, <2>2, ReportLists, ListsKept
<1>5. CASE ToggleLan \/ ToggleUsb
  BY <1>0, <1>5, SwitchLists
<1>6. ASSUME \/ AdbPoll \/ Evaluate \/ ToggleAuto
             \/ \E d \in Offers : \/ Streaming(d) \/ Approve(d) \/ Ended(d)
                                  \/ Connect(d) \/ StopMonitor(d) \/ ToggleMirror(d) \/ Goes(d) \/ Comes(d)
             \/ \E t \in Tablet : \/ Usb(Link!Step(t)) \/ Usb(Link!SessionEnds(t)) \/ Bye(t)
                                  \/ Usb(Link!Enumerates(t)) \/ Usb(Link!Unplug(t)) \/ Usb(Link!Plug(t))
      PROVE  Lists'
  <2>1. UNCHANGED <<rows, seen, usb, lan, misses>>
    BY <1>6 DEF AdbPoll, Evaluate, ToggleAuto, Streaming, Streams, Approve, Ended, Connect, StopMonitor,
                ToggleMirror, Goes, Comes, Usb, Bye, switches
  <2> QED
    BY <1>0, <2>1, ListsKept
<1> QED
  BY <1>1, <1>2, <1>3, <1>4, <1>5, <1>6 DEF HostNext, Gui

-----------------------------------------------------------------------------
(* What a step starts.                                                     *)

LEMMA Starts ==
    ASSUME ListInv, HostNext
    PROVE  /\ SessionsOK'
           /\ \A t \in Tablet : session'[Accessory(t)] = "up" =>
                 \/ session[Accessory(t)] = "up" \/ Accessory(t) \in turning
                 \/ Accessory(t) \in seen["aoa"] /\ UNCHANGED misses
<1> DEFINE Fine == /\ SessionsOK'
                   /\ \A t \in Tablet : session'[Accessory(t)] = "up" =>
                         \/ session[Accessory(t)] = "up" \/ Accessory(t) \in turning
                         \/ Accessory(t) \in seen["aoa"] /\ UNCHANGED misses
<1>0. SessionsOK /\ Lists /\ Offers \subseteq Device /\ \A t \in Tablet : Accessory(t) \in Device
  BY Cables, DiscoveryAssumption DEF ListInv
<1>a. \A t \in Tablet : Accessory(t) \in rows => Accessory(t) \in seen["aoa"]
  BY <1>0, AccessoryRow DEF Accessory
<1>1. CASE AoaScan
  BY <1>0, <1>1, StopStartsNone DEF AoaScan
<1>2. CASE Evaluate
  <2>1. UNCHANGED misses /\ Candidate \subseteq rows
    BY <1>2 DEF Evaluate, Candidate
  <2> QED
    BY <1>0, <1>a, <1>2, <2>1, EvaluateStarts
<1>3. ASSUME NEW d \in Offers, Ended(d)
      PROVE  Fine
  <2>1. d \in Device /\ session' = [session EXCEPT ![d] = IF d \in turning THEN "up" ELSE "none"]
    BY <1>0, <1>3 DEF Ended
  <2>2. CASE d \in turning
    <3>1. SessionsOK' /\ \A e \in Device : session'[e] = "up" => session[e] = "up" \/ e = d
      BY <1>0, <2>1, <2>2, SetOne
    <3> QED
      BY <1>0, <2>2, <3>1
  <2>3. CASE d \notin turning
    <3>1. SessionsOK' /\ \A e \in Device : session'[e] = "up" => session[e] = "up"
      BY <1>0, <2>1, <2>3, SetOne
    <3> QED
      BY <1>0, <3>1
  <2> QED
    BY <2>2, <2>3
<1>4. ASSUME NEW d \in Offers, Connect(d)
      PROVE  Fine
  <2>1. d \in Device /\ d \in rows /\ session' = [session EXCEPT ![d] = "up"] /\ UNCHANGED misses
    BY <1>0, <1>4 DEF Connect
  <2>2. SessionsOK' /\ \A e \in Device : session'[e] = "up" => session[e] = "up" \/ e = d
    BY <1>0, <2>1, SetOne
  <2> QED
    BY <1>0, <1>a, <2>1, <2>2
<1>5. ASSUME NEW d \in Offers, StopMonitor(d)
      PROVE  Fine
  BY <1>0, <1>5, StopStartsNone DEF StopMonitor
<1>6. ASSUME NEW t \in Tablet, Bye(t)
      PROVE  Fine
  <2>1. session' = [session EXCEPT ![Cable(t)] = "none"] /\ Cable(t) \in Device
    BY <1>6, Cables DEF Bye
  <2>2. SessionsOK' /\ \A e \in Device : session'[e] = "up" => session[e] = "up"
    BY <1>0, <2>1, SetOne
  <2> QED
    BY <1>0, <2>2
<1>7. ASSUME NEW d \in Offers, ToggleMirror(d)
      PROVE  Fine
  <2>1. d \in Device /\ session' = [session EXCEPT ![d] = "stopping"]
    BY <1>0, <1>7 DEF ToggleMirror
  <2>2. SessionsOK' /\ \A e \in Device : session'[e] = "up" => session[e] = "up"
    BY <1>0, <2>1 DEF SessionsOK
  <2> QED
    BY <1>0, <2>2
<1>8. ASSUME \/ TetherReport \/ Browsed \/ AdbPoll \/ ToggleLan \/ ToggleUsb \/ ToggleAuto
             \/ \E i \in DOMAIN polls : AdbResult(i)
             \/ \E d \in Offers : Streaming(d) \/ Approve(d) \/ Goes(d) \/ Comes(d)
             \/ \E t \in Tablet : \/ Usb(Link!Step(t)) \/ Usb(Link!SessionEnds(t))
                                  \/ Usb(Link!Enumerates(t)) \/ Usb(Link!Unplug(t)) \/ Usb(Link!Plug(t))
      PROVE  Fine
  <2>1. UNCHANGED session
    BY <1>8 DEF TetherReport, Browsed, AdbPoll, ToggleLan, ToggleUsb, ToggleAuto, AdbResult, Streaming,
                Streams, Approve, Goes, Comes, Usb
  <2> QED
    BY <1>0, <2>1 DEF SessionsOK
<1> QED
  BY <1>1, <1>2, <1>3, <1>4, <1>5, <1>6, <1>7, <1>8 DEF HostNext, Gui

LEMMA ListStep == ListInv /\ [HostNext]_hostVars => ListInv'
<1>1. ListInv /\ HostNext => ListInv'
  BY GuiLists, Starts DEF ListInv
<1>2. ListInv /\ UNCHANGED hostVars => ListInv'
  BY ListsKept DEF hostVars, vars, switches, ListInv, SessionsOK
<1> QED
  BY <1>1, <1>2

\* A row of a transport that is off is one of adb, whose ids are never approved.
LEMMA OnlyWhatIsOn ==
    ASSUME ListInv, Evaluate, NEW d \in Offers, session[d] = "none", session'[d] = "up"
    PROVE  auto /\ (usb \/ (lan /\ d.via \in {"tether", "wifi"}))
<1>1. d \in Device
  BY DiscoveryAssumption
<1>2. auto /\ d \in Candidate
  BY <1>1, EvaluateStarts DEF ListInv
<1>3. d \in rows /\ Eligible(d) /\ Lists
  BY <1>2 DEF Candidate, ListInv
<1>4. d.via # "adb"
  BY <1>3 DEF Eligible, Id
<1>5. PICK via \in Via : d \in seen[via]
  BY <1>3, InList
<1>6. usb \/ (lan /\ d.via \in {"tether", "wifi"})
  BY <1>3, <1>4, <1>5 DEF Lists, OnNetwork, Via
<1> QED
  BY <1>2, <1>6

\* With the auto-connect or both transports off nothing is started by it, with USB off
\* nothing over a cable, and a monitor that is connected starts with its count of
\* missed scans at zero, whatever the lists, the switches, the polls and the handshakes
\* do in between. (A toggle of the mirror keeps the count.)
THEOREM CleanStarts == HostSpec => StartsClean
<1>1. ListInv /\ [HostNext]_hostVars =>
          [\A d \in Offers :
             (Evaluate /\ session[d] = "none" /\ session'[d] = "up") =>
                auto /\ (usb \/ (lan /\ d.via \in {"tether", "wifi"}))]_vars
  BY OnlyWhatIsOn
<1>2. ListInv /\ [HostNext]_hostVars =>
          [\A t \in Tablet :
             session[Accessory(t)] # "up" /\ session'[Accessory(t)] = "up" /\ Accessory(t) \notin turning
                => misses'[t] = 0]_vars
  <2>1. ASSUME ListInv, HostNext, NEW t \in Tablet,
               session[Accessory(t)] # "up", session'[Accessory(t)] = "up", Accessory(t) \notin turning
        PROVE  misses'[t] = 0
    <3>1. Accessory(t) \in seen["aoa"] /\ UNCHANGED misses
      BY <2>1, Starts
    <3> QED
      BY <2>1, <3>1 DEF ListInv, Lists
  <2>2. UNCHANGED hostVars => UNCHANGED vars
    BY DEF hostVars
  <2> QED
    BY <2>1, <2>2
<1> QED
  BY <1>1, <1>2, InitLists, ListStep, PTL DEF HostSpec, StartsClean, OffMeansOff, ReconnectIsClean

-----------------------------------------------------------------------------
(* WebPath.                                                                *)


-----------------------------------------------------------------------------
(* Types.                                                                  *)

Setting == 0 .. edits
UpFrame ==
    [type : {"Pair"}, v : BOOLEAN] \cup [type : {"Hello", "Settings"}, v : Setting]
      \cup [type : {"Bye", "control"}, v : {0}]
DownFrame ==
    [type : {"Open", "Paired"}, v : {0}] \cup [type : {"Rejected"}, v : 0 .. MaxTries]
      \cup [type : {"Settings"}, v : Setting]
Connection ==
    [kind : Kinds \cup {"none"}, up : Seq(UpFrame), down : Seq(DownFrame),
     peer : BOOLEAN, ours : BOOLEAN, wrong : Nat, right : BOOLEAN]
PageState ==
    [local : Setting, link : Conns \cup {NoConn}, at : {"closed", "waiting", "prompt", "paired", "live"},
     hello : Setting, left : 0 .. MaxTries, timer : BOOLEAN, handed : Setting]

ConnsOK == conns \in [Conns -> Connection]
PagesOK ==
    /\ page \in [Pages -> PageState]
    /\ \A p \in Pages : page[p].timer => page[p].at = "paired"
HostOK ==
    /\ queue \in Seq(Conns)
    /\ host \in {"load", "accept", "blocked", "headers", "pin", "hello", "stream", "exit"}
    /\ cur \in Conns \cup {NoConn}
    /\ (host \in {"load", "accept", "exit"}) = (cur = NoConn)
    /\ pinTries \in 0 .. MaxTries - 1
    /\ loaded \in Setting /\ settings \in Setting
FileOK ==
    /\ file \in Setting /\ lines \in Seq(Setting)
    /\ writing \in BOOLEAN /\ (writing => lines # <<>>)
    /\ edits \in Nat

\* A connection that is closed at both ends is forgotten, and the host holds
\* the one that it serves and those that wait.
InQueue(i) == \E k \in DOMAIN queue : queue[k] = i
HeldOK ==
    \A i \in Conns :
        /\ Len(conns[i].up) <= MaxFrames
        /\ conns[i].peer \/ conns[i].ours <=> conns[i] # None
        /\ conns[i].ours <=> i = cur \/ InQueue(i)

Types == ConnsOK /\ PagesOK /\ HostOK /\ FileOK /\ HeldOK

LEMMA TypesImply == Types => WebTypeOK
  BY DEF Types, WebTypeOK, ConnsOK, PagesOK, HostOK, FileOK, HeldOK, InQueue, Setting, Connection, PageState

-----------------------------------------------------------------------------
(* Names, frames and connections.                                          *)

LEMMA ConnNames ==
    /\ NoConn \notin Conns
    /\ \A p \in Pages : Sockets(p) \subseteq Conns /\ NoConn \notin Sockets(p)
    /\ \A p, q \in Pages : p # q => Sockets(p) \cap Sockets(q) = {}
    /\ \A kind \in Extras : <<kind, 0>> \in Conns
    /\ \A kind \in Extras, p \in Pages : <<kind, 0>> \notin Sockets(p)
    /\ \A kind \in Extras : kind # "ws"
<1>0. \A kind \in Extras : kind \in {"native", "request", "idle"}
  BY WebAssumption
<1>1. \A i : i \in Conns <=> (\E p \in Pages : i \in Sockets(p)) \/ \E kind \in Extras : i = <<kind, 0>>
  <2>1. \A i : i \in UNION {Sockets(p) : p \in Pages} <=> \E p \in Pages : i \in Sockets(p)
    BY Zenon
  <2>2. \A i : i \in {<<kind, 0>> : kind \in Extras} <=> \E kind \in Extras : i = <<kind, 0>>
    OBVIOUS
  <2>3. \A i : i \in Conns <=> i \in UNION {Sockets(p) : p \in Pages} \/ i \in {<<kind, 0>> : kind \in Extras}
    BY DEF Conns
  <2> QED
    BY <2>1, <2>2, <2>3, Zenon
<1>2. \A p \in Pages : \A i \in Sockets(p) : i[1] = p /\ i[2] \in 1 .. MaxSockets
  BY DEF Sockets
<1>3. \A kind : <<kind, 0>>[1] = kind /\ <<kind, 0>>[2] = 0
  OBVIOUS
<1>4. NoConn[1] = "nobody" /\ NoConn[2] = 0
  BY DEF NoConn
<1>5. NoConn \notin Conns
  BY <1>0, <1>1, <1>2, <1>3, <1>4, WebAssumption
<1>6. \A p \in Pages : Sockets(p) \subseteq Conns /\ NoConn \notin Sockets(p)
  BY <1>1, <1>5
<1>7. \A p, q \in Pages : p # q => Sockets(p) \cap Sockets(q) = {}
  BY <1>2
<1>8. \A kind \in Extras : <<kind, 0>> \in Conns
  BY <1>1
<1>9. \A kind \in Extras, p \in Pages : <<kind, 0>> \notin Sockets(p)
  <2> SUFFICES ASSUME NEW kind \in Extras, NEW p \in Pages, <<kind, 0>> \in Sockets(p) PROVE FALSE
    OBVIOUS
  <2>1. <<kind, 0>>[2] \in 1 .. MaxSockets /\ <<kind, 0>>[2] = 0
    BY <1>2
  <2> QED
    BY <2>1, WebAssumption
<1> QED
  BY <1>0, <1>5, <1>6, <1>7, <1>8, <1>9

LEMMA NoneType == None \in Connection
  BY DEF None, Connection

LEMMA FreshType ==
    ASSUME FileOK, NEW kind \in Kinds
    PROVE  Fresh(kind) \in Connection
<1>1. << Frame("Hello", 0) >> \in Seq(UpFrame)
  BY DEF Frame, UpFrame, FileOK, Setting
<1> QED
  BY <1>1 DEF Fresh, Connection

\* Values grow with the edits.
LEMMA TypesGrow ==
    ASSUME edits \in Nat, edits' \in Nat, edits <= edits'
    PROVE  /\ Setting \subseteq Setting'
           /\ UpFrame \subseteq UpFrame' /\ DownFrame \subseteq DownFrame'
           /\ Connection \subseteq Connection' /\ PageState \subseteq PageState'
<1>1. Setting \subseteq Setting'
  BY DEF Setting
<1>2. UpFrame \subseteq UpFrame' /\ DownFrame \subseteq DownFrame'
  BY <1>1 DEF UpFrame, DownFrame
<1>3. Seq(UpFrame) \subseteq Seq(UpFrame') /\ Seq(DownFrame) \subseteq Seq(DownFrame')
  BY <1>2
<1>4. Connection \subseteq Connection'
  BY <1>3 DEF Connection
<1>5. PageState \subseteq PageState'
  BY <1>1 DEF PageState
<1> QED
  BY <1>1, <1>2, <1>4, <1>5

\* A connection as it is after a step.
LEMMA WithIs ==
    ASSUME NEW C, conns \in [Conns -> C], None \in C, NEW name \in Conns, NEW value \in C
    PROVE  /\ With(name, value) \in [Conns -> C]
           /\ \A j \in Conns : j # name => With(name, value)[j] = conns[j]
           /\ With(name, value)[name] = IF value.peer \/ value.ours THEN value ELSE None
  BY DEF With

LEMMA ConnParts ==
    ASSUME NEW c \in Connection
    PROVE  /\ c.kind \in Kinds \cup {"none"} /\ c.up \in Seq(UpFrame) /\ c.down \in Seq(DownFrame)
           /\ c.peer \in BOOLEAN /\ c.ours \in BOOLEAN /\ c.wrong \in Nat /\ c.right \in BOOLEAN
  BY DEF Connection

LEMMA SentType ==
    ASSUME ConnsOK, NEW i \in Conns, NEW f \in UpFrame
    PROVE  /\ Sent(i, f) \in Connection
           /\ Sent(i, f) = [conns[i] EXCEPT !.up = Append(conns[i].up, f)]
           /\ Len(Sent(i, f).up) = Len(conns[i].up) + 1
<1>1. conns[i] \in Connection
  BY DEF ConnsOK
<1>2. Append(conns[i].up, f) \in Seq(UpFrame) /\ Len(Append(conns[i].up, f)) = Len(conns[i].up) + 1
  BY <1>1, ConnParts
<1> QED
  BY <1>1, <1>2 DEF Sent, Connection

LEMMA TailType ==
    ASSUME NEW S, NEW s \in Seq(S), s # <<>>
    PROVE  /\ Tail(s) \in Seq(S) /\ Len(Tail(s)) = Len(s) - 1 /\ Head(s) \in S /\ Head(s) = s[1]
           /\ Len(s) \in Nat \ {0} /\ \A k \in 1 .. Len(s) - 1 : Tail(s)[k] = s[k + 1]
  OBVIOUS

LEMMA ReadType ==
    ASSUME ConnsOK, NEW i \in Conns, conns[i].down # <<>>
    PROVE  Read(i) \in Connection
<1>1. conns[i] \in Connection /\ Tail(conns[i].down) \in Seq(DownFrame)
  BY TailType, ConnParts DEF ConnsOK
<1> QED
  BY <1>1 DEF Read, Connection

\* A step that leaves the ends that the host holds, the queue and the served
\* connection alone.
LEMMA HeldKept ==
    ASSUME NEW C, conns \in [Conns -> C], None \in C, HeldOK,
           NEW i \in Conns, NEW c \in C, conns' = With(i, c),
           c.ours = conns[i].ours, Len(c.up) <= MaxFrames, UNCHANGED <<queue, cur>>
    PROVE  HeldOK'
<1> SUFFICES ASSUME NEW j \in Conns
             PROVE  /\ Len(conns'[j].up) <= MaxFrames
                    /\ conns'[j].peer \/ conns'[j].ours <=> conns'[j] # None
                    /\ conns'[j].ours <=> j = cur \/ InQueue(j)
  BY DEF HeldOK, InQueue
<1>1. CASE j # i
  <2>1. conns'[j] = conns[j]
    BY <1>1, WithIs
  <2> QED
    BY <2>1 DEF HeldOK
<1>2. CASE j = i
  <2>1. conns'[i] = IF c.peer \/ c.ours THEN c ELSE None
    BY WithIs
  <2>2. Len(None.up) = 0 /\ None.peer = FALSE /\ None.ours = FALSE
    BY DEF None
  <2>3. conns[i].ours <=> i = cur \/ InQueue(i)
    BY DEF HeldOK
  <2> QED
    BY <1>2, <2>1, <2>2, <2>3, WebAssumption
<1> QED
  BY <1>1, <1>2

-----------------------------------------------------------------------------
(* The inductive invariant.                                                *)

No(s, type) == \A k \in DOMAIN s : s[k].type # type

Blank(c) == c.up = <<>> /\ c.down = <<>> /\ c.wrong = 0 /\ ~c.right

\* A connection waits once, and until it is accepted nothing happens on it.
Queued ==
    /\ \A k, l \in DOMAIN queue : queue[k] = queue[l] => k = l
    /\ \A k \in DOMAIN queue :
          queue[k] # cur /\ (conns[queue[k]].kind = "ws" => Blank(conns[queue[k]]))

\* What a page shows before its socket is accepted.
Untold(q) == q.left = MaxTries /\ q.handed = 0

\* A socket opens before anything else arrives on it.
OpenFirst(at, down) == \A k \in DOMAIN down : down[k].type = "Open" => k = 1 /\ at = "waiting"

LinkOK(p) ==
    LET l == page[p].link IN
    /\ l = NoConn <=> page[p].at = "closed"
    /\ l = NoConn => Untold(page[p])
    /\ l # NoConn => /\ l \in Sockets(p) /\ conns[l].peer /\ conns[l].kind = "ws"
                     /\ OpenFirst(page[p].at, conns[l].down)
    /\ InQueue(l) => page[p].at = "waiting" /\ Untold(page[p])
Linked == \A p \in Pages : LinkOK(p)

Stage ==
    /\ pinTries # 0 => host = "pin"
    /\ host = "pin" => conns[cur].kind = "ws"
    /\ host \in {"headers", "blocked"} => conns[cur].kind # "ws"

\* The wrong codes on connection c are those that count already, t of them, and
\* those on the way: with f[k] of them counted once the first k frames are read,
\* the right code finds no fewer than were entered before it.
WrongCode(frame) == frame.type = "Pair" /\ ~frame.v
RightCode(frame) == frame.type = "Pair" /\ frame.v
Tally(c, t, f) ==
    /\ f[0] = t
    /\ \A k \in 1 .. Len(c.up) : f[k] = IF WrongCode(c.up[k]) THEN f[k - 1] + 1 ELSE f[k - 1]
    /\ c.wrong <= f[Len(c.up)]
    /\ \A k \in 1 .. Len(c.up) : RightCode(c.up[k]) => c.right /\ c.wrong <= f[k]
CodesCounted(c, t) == \E f \in [0 .. Len(c.up) -> Nat] : Tally(c, t, f)

\* The last result on its way to the page, or what it shows, is n tries.
Told(s, shows, n) ==
    \/ No(s, "Rejected") /\ shows = n
    \/ \E k \in DOMAIN s : /\ s[k].type = "Rejected" /\ s[k].v = n
                           /\ \A l \in DOMAIN s : l > k => s[l].type # "Rejected"

\* A page q on the connection c that is at the prompt, after t wrong codes.
PinState(q, c, t) ==
    /\ q.at \in {"waiting", "prompt"} /\ q.handed = 0
    /\ No(c.up, "Hello")
    /\ q.at = "waiting" => c.up = <<>> /\ c.down = << Frame("Open", 0) >>
    /\ q.at = "prompt" => \A k \in DOMAIN c.down : c.down[k].type = "Rejected"
    /\ Told(c.down, q.left, MaxTries - t)

\* And after the right code: the result of it comes once, then the settings, once;
\* the page says HELLO when they have come, or are late.
SessionState(q, c, h, s) ==
    /\ q.at \in {"prompt", "paired", "live"}
    /\ No(c.down, "Open")
    /\ \A k \in DOMAIN c.down :
          /\ c.down[k].type = "Settings" => k = Len(c.down)
          /\ c.down[k].type = "Paired" => k = Len(c.down) - 1 /\ q.at = "prompt"
    /\ q.at # "live" => No(c.up, "Hello") /\ q.handed = 0 /\ h = "hello"
    /\ q.handed # 0 => /\ No(c.down, "Settings")
                       /\ \A k \in DOMAIN c.up : c.up[k].type = "Hello" => c.up[k].v = q.handed
                       /\ h = "stream" => s = q.handed

Served == {"hello", "stream"}
ServedOK ==
    /\ host = "pin" => CodesCounted(conns[cur], pinTries)
    /\ StreamNeedsCode
    /\ \A p \in Pages : page[p].link = cur =>
          /\ host = "pin" => PinState(page[p], conns[cur], pinTries)
          /\ host \in Served => SessionState(page[p], conns[cur], host, settings)

WebInv == Types /\ Queued /\ Linked /\ Stage /\ ServedOK

\* The properties follow.
LEMMA InvImplies == WebInv => PinKept /\ HandedBackInTime
<1> SUFFICES ASSUME WebInv PROVE PinKept /\ HandedBackInTime
  OBVIOUS
<1>1. StreamNeedsCode
  BY DEF WebInv, ServedOK
<1>2. ASSUME NEW p \in Pages, page[p].at = "prompt", Serving({"pin"}), cur = page[p].link,
             conns[cur].down = <<>>
      PROVE  page[p].left = MaxTries - pinTries
  <2>1. Told(<<>>, page[p].left, MaxTries - pinTries)
    BY <1>2 DEF WebInv, ServedOK, PinState, Serving
  <2> QED
    BY <2>1 DEF Told
<1>3. HandedBackInTime
  BY DEF WebInv, ServedOK, SessionState, HandedBackInTime, PageStreams, Served
<1> QED
  BY <1>1, <1>2, <1>3 DEF PinKept, TriesShown

LEMMA InitInv == WebInit => WebInv
<1> SUFFICES ASSUME WebInit PROVE WebInv
  OBVIOUS
<1>1. \A p \in Pages : page[p] = NoLink(0)
  BY DEF WebInit
<1>2. ConnsOK
  BY NoneType DEF WebInit, ConnsOK
<1>3. 0 \in Setting
  BY DEF WebInit, Setting
<1>4. NoLink(0) \in PageState
  BY <1>3, WebAssumption DEF NoLink, PageState
<1>10. /\ NoLink(0).timer = FALSE /\ NoLink(0).link = NoConn /\ NoLink(0).at = "closed"
       /\ NoLink(0).left = MaxTries /\ NoLink(0).handed = 0
  BY DEF NoLink
<1>11. PagesOK
  BY <1>1, <1>4, <1>10 DEF WebInit, PagesOK
<1>5. HostOK
  <2>1. host = "load" /\ cur = NoConn /\ queue = <<>> /\ pinTries = 0 /\ loaded = 0 /\ settings = 0
    BY DEF WebInit
  <2> QED
    BY <2>1, <1>3, WebAssumption DEF HostOK
<1>12. FileOK
  <2>1. file = 0 /\ lines = <<>> /\ edits = 0 /\ writing \in BOOLEAN /\ ~writing
    BY DEF WebInit
  <2> QED
    BY <2>1, <1>3 DEF FileOK
<1>6. HeldOK
  BY ConnNames, WebAssumption DEF WebInit, HeldOK, None, InQueue
<1>7. Queued /\ Stage
  BY DEF WebInit, Queued, Stage
<1>8. Linked
  <2>1. \A i : ~InQueue(i)
    BY DEF WebInit, InQueue
  <2> QED
    BY <2>1, <1>1, <1>10 DEF Linked, LinkOK, Untold
<1>9. ServedOK
  BY DEF WebInit, ServedOK, StreamNeedsCode, Serving, Served
<1> QED
  BY <1>2, <1>5, <1>6, <1>7, <1>8, <1>9, <1>11, <1>12 DEF WebInv, Types

-----------------------------------------------------------------------------
(* Codes on the way, and results on the way.                               *)

LEMMA CountedAppend ==
    ASSUME NEW S, NEW c, NEW d, NEW t, NEW frame, c.up \in Seq(S), frame \in S,
           c.wrong \in Nat, d.wrong \in Nat, CodesCounted(c, t),
           d.up = Append(c.up, frame),
           d.wrong <= IF WrongCode(frame) THEN c.wrong + 1 ELSE c.wrong,
           c.right => d.right /\ d.wrong = c.wrong,
           RightCode(frame) => d.right
    PROVE  CodesCounted(d, t)
<1> DEFINE n == Len(c.up)
<1>1. PICK f \in [0 .. n -> Nat] : Tally(c, t, f)
  BY DEF CodesCounted
<1>2. /\ n \in Nat /\ Len(d.up) = n + 1 /\ d.up[n + 1] = frame
      /\ \A k \in 1 .. n : d.up[k] = c.up[k]
  OBVIOUS
<1> HIDE DEF n
<1>3. /\ n \in 0 .. n /\ f[n] \in Nat
      /\ c.wrong <= f[n]
  BY <1>1, <1>2 DEF Tally, n
<1>4. PICK last \in Nat : /\ WrongCode(frame) => last = f[n] + 1
                          /\ ~WrongCode(frame) => last = f[n]
  BY <1>3
<1> DEFINE g == [k \in 0 .. n + 1 |-> IF k = n + 1 THEN last ELSE f[k]]
<1>11. /\ g[n + 1] = last /\ g[n] = f[n]
       /\ \A k \in 0 .. n : g[k] = f[k]
       /\ g \in [0 .. Len(d.up) -> Nat]
  BY <1>2
<1> HIDE DEF g
<1>5. g[0] = t
  <2>1. 0 \in 0 .. n
    BY <1>2
  <2> QED
    BY <1>1, <1>11, <2>1 DEF Tally
<1>6. ASSUME NEW k \in 1 .. Len(d.up)
      PROVE  g[k] = IF WrongCode(d.up[k]) THEN g[k - 1] + 1 ELSE g[k - 1]
  <2>1. CASE k = n + 1
    <3>1. d.up[k] = frame /\ g[k] = last /\ k - 1 = n
      BY <2>1, <1>2, <1>11
    <3>2. g[k - 1] = f[n]
      BY <3>1, <1>11
    <3> QED
      BY <3>1, <3>2, <1>4
  <2>2. CASE k # n + 1
    <3>1. k \in 1 .. n /\ k - 1 \in 0 .. n /\ k \in 0 .. n
      BY <2>2, <1>2
    <3> QED
      BY <3>1, <1>1, <1>2, <1>11 DEF Tally, n
  <2> QED
    BY <2>1, <2>2
<1>8. d.wrong <= g[Len(d.up)]
  <2>1. g[Len(d.up)] = last
    BY <1>2, <1>11
  <2>2. CASE WrongCode(frame)
    BY <1>3, <1>4, <2>1, <2>2
  <2>3. CASE ~WrongCode(frame)
    BY <1>3, <1>4, <2>1, <2>3
  <2> QED
    BY <2>2, <2>3
<1>9. ASSUME NEW k \in 1 .. Len(d.up), RightCode(d.up[k])
      PROVE  d.right /\ d.wrong <= g[k]
  <2>1. CASE k = n + 1
    BY <2>1, <1>2, <1>8, <1>9
  <2>2. CASE k # n + 1
    <3>1. k \in 1 .. n /\ k \in 0 .. n /\ RightCode(c.up[k])
      <4>1. k \in 1 .. n /\ k \in 0 .. n
        BY <2>2, <1>2
      <4> QED
        BY <4>1, <1>2, <1>9
    <3>2. c.right /\ c.wrong <= f[k]
      BY <3>1, <1>1 DEF Tally, n
    <3>3. g[k] = f[k] /\ d.right /\ d.wrong = c.wrong
      BY <3>1, <3>2, <1>11
    <3> QED
      BY <3>2, <3>3
  <2> QED
    BY <2>1, <2>2
<1> HIDE DEF g
<1>10. Tally(d, t, g)
  BY <1>5, <1>6, <1>8, <1>9 DEF Tally
<1> QED
  BY <1>11, <1>10 DEF CodesCounted

LEMMA CountedTail ==
    ASSUME NEW S, NEW c, NEW d, NEW t \in Nat, c.up \in Seq(S), c.up # <<>>, CodesCounted(c, t),
           d.up = Tail(c.up), d.wrong = c.wrong, d.right = c.right
    PROVE  CodesCounted(d, IF WrongCode(Head(c.up)) THEN t + 1 ELSE t)
<1> DEFINE n == Len(c.up)
           u == IF WrongCode(Head(c.up)) THEN t + 1 ELSE t
<1>1. PICK f \in [0 .. n -> Nat] : Tally(c, t, f)
  BY DEF CodesCounted
<1> DEFINE g == [k \in 0 .. n - 1 |-> f[k + 1]]
<1>2. /\ n \in Nat \ {0} /\ Len(d.up) = n - 1 /\ Head(c.up) = c.up[1]
      /\ \A k \in 1 .. n - 1 : d.up[k] = c.up[k + 1]
  OBVIOUS
<1> HIDE DEF n
<1>0. /\ f[0] = t
      /\ \A k \in 1 .. n : f[k] = IF WrongCode(c.up[k]) THEN f[k - 1] + 1 ELSE f[k - 1]
      /\ c.wrong <= f[n]
      /\ \A k \in 1 .. n : RightCode(c.up[k]) => c.right /\ c.wrong <= f[k]
  BY <1>1 DEF Tally, n
<1>3. /\ g \in [0 .. Len(d.up) -> Nat]
      /\ \A k \in 0 .. n - 1 : g[k] = f[k + 1]
  BY <1>2
<1>4. g[0] = u
  <2>1. 1 \in 1 .. n /\ 0 \in 0 .. n - 1
    BY <1>2
  <2>2. f[1] = IF WrongCode(c.up[1]) THEN f[0] + 1 ELSE f[0]
    <3>1. 1 - 1 = 0
      OBVIOUS
    <3> QED
      BY <1>0, <2>1, <3>1
  <2>3. g[0] = f[1]
    <3>1. g[0] = f[0 + 1]
      BY <1>3, <2>1
    <3> QED
      BY <3>1
  <2> HIDE DEF g
  <2> QED
    BY <1>0, <1>2, <2>2, <2>3
<1>5. ASSUME NEW k \in 1 .. Len(d.up)
      PROVE  g[k] = IF WrongCode(d.up[k]) THEN g[k - 1] + 1 ELSE g[k - 1]
  <2>1. k + 1 \in 1 .. n /\ k \in 0 .. n - 1 /\ k - 1 \in 0 .. n - 1 /\ (k + 1) - 1 = k /\ (k - 1) + 1 = k
    BY <1>2
  <2>2. f[k + 1] = IF WrongCode(c.up[k + 1]) THEN f[k] + 1 ELSE f[k]
    BY <1>0, <2>1
  <2> QED
    BY <1>2, <1>3, <2>1, <2>2
<1>6. d.wrong <= g[Len(d.up)]
  <2>1. n - 1 \in 0 .. n - 1 /\ (n - 1) + 1 = n
    BY <1>2
  <2> QED
    BY <1>0, <1>2, <1>3, <2>1
<1>7. ASSUME NEW k \in 1 .. Len(d.up), RightCode(d.up[k])
      PROVE  d.right /\ d.wrong <= g[k]
  <2>1. k + 1 \in 1 .. n /\ k \in 0 .. n - 1 /\ d.up[k] = c.up[k + 1]
    BY <1>2
  <2>2. c.right /\ c.wrong <= f[k + 1]
    BY <1>0, <1>7, <2>1
  <2> QED
    BY <1>3, <2>1, <2>2
<1> HIDE DEF g
<1>8. Tally(d, u, g)
  BY <1>4, <1>5, <1>6, <1>7 DEF Tally
<1> QED
  BY <1>3, <1>8 DEF CodesCounted

LEMMA CountedNone ==
    ASSUME NEW c, NEW t \in Nat, c.up = <<>>, c.wrong <= t
    PROVE  CodesCounted(c, t)
<1>1. [k \in 0 .. 0 |-> t] \in [0 .. Len(c.up) -> Nat]
  OBVIOUS
<1>2. Tally(c, t, [k \in 0 .. 0 |-> t])
  BY DEF Tally
<1> QED
  BY <1>1, <1>2 DEF CodesCounted

LEMMA CountedSame ==
    ASSUME NEW c, NEW d, NEW t, CodesCounted(c, t), d.up = c.up, d.wrong = c.wrong, d.right = c.right
    PROVE  CodesCounted(d, t)
  BY DEF CodesCounted, Tally

\* The right code is read after all wrong ones that were entered before it.
LEMMA CodeRead ==
    ASSUME NEW S, NEW c, NEW t, c.up \in Seq(S), c.up # <<>>, CodesCounted(c, t), RightCode(Head(c.up))
    PROVE  c.right /\ c.wrong <= t
<1>1. PICK f \in [0 .. Len(c.up) -> Nat] : Tally(c, t, f)
  BY DEF CodesCounted
<1>2. 1 \in 1 .. Len(c.up) /\ Head(c.up) = c.up[1] /\ 1 - 1 = 0
  OBVIOUS
<1>3. ~WrongCode(c.up[1])
  BY <1>2 DEF WrongCode, RightCode
<1> QED
  BY <1>1, <1>2, <1>3 DEF Tally

LEMMA NoTail ==
    ASSUME NEW S, NEW s \in Seq(S), s # <<>>, NEW type, No(s, type)
    PROVE  No(Tail(s), type)
  BY TailType DEF No

LEMMA NoAppend ==
    ASSUME NEW S, NEW s \in Seq(S), NEW frame \in S, NEW type, No(s, type), frame.type # type
    PROVE  No(Append(s, frame), type)
  BY DEF No

\* A result is sent.
LEMMA ToldAppend ==
    ASSUME NEW S, NEW s \in Seq(S), NEW n, NEW shows
    PROVE  Told(Append(s, Frame("Rejected", n)), shows, n)
<1> DEFINE r == Append(s, Frame("Rejected", n))
<1>1. Len(s) + 1 \in DOMAIN r /\ DOMAIN r = 1 .. Len(s) + 1 /\ r[Len(s) + 1] = Frame("Rejected", n)
  BY DEF Frame
<1>2. r[Len(s) + 1].type = "Rejected" /\ r[Len(s) + 1].v = n
  BY <1>1 DEF Frame
<1>3. \A l \in DOMAIN r : ~(l > Len(s) + 1)
  BY <1>1
<1> QED
  BY <1>1, <1>2, <1>3 DEF Told

\* A frame is read: what it says is what the page shows from then on.
LEMMA ToldTail ==
    ASSUME NEW S, NEW s \in Seq(S), s # <<>>, NEW n, NEW shows, NEW now, Told(s, shows, n),
           now = IF Head(s).type = "Rejected" THEN Head(s).v ELSE shows
    PROVE  Told(Tail(s), now, n)
<1>1. /\ DOMAIN s = 1 .. Len(s) /\ DOMAIN Tail(s) = 1 .. Len(s) - 1 /\ Head(s) = s[1] /\ Len(s) \in Nat \ {0}
      /\ \A k \in 1 .. Len(s) - 1 : Tail(s)[k] = s[k + 1]
  OBVIOUS
<1>2. CASE No(s, "Rejected") /\ shows = n
  BY <1>1, <1>2 DEF Told, No
<1>3. CASE ~(No(s, "Rejected") /\ shows = n)
  <2>1. PICK k \in DOMAIN s : /\ s[k].type = "Rejected" /\ s[k].v = n
                              /\ \A l \in DOMAIN s : l > k => s[l].type # "Rejected"
    BY <1>3 DEF Told
  <2>2. CASE k = 1
    <3>1. No(Tail(s), "Rejected")
      BY <1>1, <2>1, <2>2 DEF No
    <3> QED
      BY <1>1, <2>1, <2>2, <3>1 DEF Told
  <2>3. CASE k # 1
    <3>1. k - 1 \in DOMAIN Tail(s) /\ Tail(s)[k - 1] = s[k]
      BY <1>1, <2>3
    <3>2. \A l \in DOMAIN Tail(s) : l > k - 1 => Tail(s)[l].type # "Rejected"
      BY <1>1, <2>1
    <3> QED
      BY <2>1, <3>1, <3>2 DEF Told
  <2> QED
    BY <2>2, <2>3
<1> QED
  BY <1>2, <1>3

LEMMA OneTail ==
    ASSUME NEW S, NEW s \in Seq(S), Len(s) = 1
    PROVE  Tail(s) = <<>>
<1>1. s # <<>>
  OBVIOUS
<1>2. Tail(s) \in Seq(S) /\ Len(Tail(s)) = 0
  BY <1>1, TailType
<1>3. \A r \in Seq(S) : Len(r) = 0 => r = <<>>
  OBVIOUS
<1> QED
  BY <1>2, <1>3

LEMMA OpenTail ==
    ASSUME NEW S, NEW s \in Seq(S), s # <<>>, NEW at, NEW now, OpenFirst(at, s)
    PROVE  OpenFirst(now, Tail(s))
  BY TailType DEF OpenFirst

LEMMA Joined ==
    ASSUME NEW S, NEW s \in Seq(S), NEW r \in Seq(S)
    PROVE  /\ Len(s \o r) = Len(s) + Len(r) /\ Len(s) \in Nat /\ DOMAIN (s \o r) = 1 .. Len(s \o r)
           /\ \A k \in 1 .. Len(s) : (s \o r)[k] = s[k]
           /\ \A k \in 1 .. Len(r) : (s \o r)[Len(s) + k] = r[k]
  OBVIOUS

LEMMA OpenJoin ==
    ASSUME NEW S, NEW s \in Seq(S), NEW r \in Seq(S), NEW at, OpenFirst(at, s), No(r, "Open")
    PROVE  OpenFirst(at, s \o r)
<1> SUFFICES ASSUME NEW k \in DOMAIN (s \o r), (s \o r)[k].type = "Open" PROVE k = 1 /\ at = "waiting"
  BY DEF OpenFirst
<1>1. CASE k \in DOMAIN s
  BY <1>1 DEF OpenFirst
<1>2. CASE k \notin DOMAIN s
  <2>1. k - Len(s) \in DOMAIN r /\ (s \o r)[k] = r[k - Len(s)]
    BY <1>2
  <2> QED
    BY <2>1 DEF No
<1> QED
  BY <1>1, <1>2

\* The frames of a session that are left when one is read.
LEMMA SessionTail ==
    ASSUME NEW S, NEW q, NEW c, NEW d, NEW h, NEW s, c.down \in Seq(S), c.down # <<>>,
           SessionState(q, c, h, s), d.up = c.up, d.down = Tail(c.down)
    PROVE  SessionState(q, d, h, s)
<1>1. /\ DOMAIN d.down = 1 .. Len(c.down) - 1 /\ DOMAIN c.down = 1 .. Len(c.down)
      /\ Len(d.down) = Len(c.down) - 1 /\ Len(c.down) \in Nat \ {0}
      /\ \A k \in 1 .. Len(c.down) - 1 : d.down[k] = c.down[k + 1]
  BY TailType
<1>2. No(c.down, "Open") => No(d.down, "Open")
  BY <1>1 DEF No
<1>3. No(c.down, "Settings") => No(d.down, "Settings")
  BY <1>1 DEF No
<1>4. ASSUME NEW k \in DOMAIN d.down
      PROVE  /\ d.down[k].type = "Settings" => k = Len(d.down)
             /\ d.down[k].type = "Paired" => k = Len(d.down) - 1 /\ q.at = "prompt"
  <2>1. k + 1 \in DOMAIN c.down /\ d.down[k] = c.down[k + 1] /\ k \in Nat
    BY <1>1
  <2>2. /\ c.down[k + 1].type = "Settings" => k + 1 = Len(c.down)
        /\ c.down[k + 1].type = "Paired" => k + 1 = Len(c.down) - 1 /\ q.at = "prompt"
    BY <2>1 DEF SessionState
  <2> QED
    BY <1>1, <2>1, <2>2
<1> QED
  BY <1>2, <1>3, <1>4 DEF SessionState

-----------------------------------------------------------------------------
(* Steps of a page.                                                        *)

\* A page acts on the socket that it has: q and c are what it and the connection
\* become.
LEMMA PageActs ==
    ASSUME WebInv, NEW p \in Pages, NEW l \in Conns, page[p].link = l, ~InQueue(l),
           edits' \in Nat, edits <= edits',
           NEW c \in Connection', conns' = With(l, c), c.kind = conns[l].kind,
           c.ours = conns[l].ours, c.peer, Len(c.up) <= MaxFrames,
           NEW q \in PageState', page' = [page EXCEPT ![p] = q], q.link = l, q.at # "closed",
           q.timer => q.at = "paired", OpenFirst(q.at, c.down),
           UNCHANGED <<streamerVars, guiVars>>,
           l = cur /\ host = "pin" => CodesCounted(c, pinTries) /\ PinState(q, c, pinTries),
           l = cur /\ host \in Served =>
             SessionState(q, c, host, settings) /\ c.right /\ c.wrong < MaxTries
    PROVE  WebInv'
<1>0. /\ queue' = queue /\ host' = host /\ cur' = cur /\ pinTries' = pinTries /\ loaded' = loaded
      /\ settings' = settings /\ file' = file /\ lines' = lines /\ writing' = writing
  BY DEF streamerVars, guiVars
<1>1. /\ ConnsOK /\ PagesOK /\ HostOK /\ FileOK /\ HeldOK
      /\ Setting \subseteq Setting' /\ Connection \subseteq Connection' /\ PageState \subseteq PageState'
  BY TypesGrow DEF WebInv, Types, FileOK
<1>2. /\ conns \in [Conns -> Connection'] /\ None \in Connection'
      /\ page \in [Pages -> PageState']
  BY <1>1, NoneType DEF ConnsOK, PagesOK
<1>3. /\ conns' \in [Conns -> Connection']
      /\ \A j \in Conns : j # l => conns'[j] = conns[j]
      /\ conns'[l] = c
  BY <1>2, WithIs
<1>4. /\ page'[p] = q /\ \A r \in Pages : r # p => page'[r] = page[r]
      /\ page' \in [Pages -> PageState']
  BY <1>2
<1>5. \A i : InQueue(i)' <=> InQueue(i)
  BY <1>0 DEF InQueue
<1>6. l \in Sockets(p) /\ conns[l].kind = "ws"
  BY ConnNames DEF WebInv, Linked, LinkOK
<1>7. \A r \in Pages : r # p => page[r].link # l
  BY <1>6, ConnNames DEF WebInv, Linked, LinkOK
<1>8. Types'
  <2>1. ConnsOK' /\ PagesOK'
    BY <1>1, <1>3, <1>4 DEF ConnsOK, PagesOK
  <2>2. HostOK'
    BY <1>0, <1>1 DEF HostOK
  <2>3. FileOK'
    BY <1>0, <1>1 DEF FileOK
  <2>4. HeldOK'
    BY <1>0, <1>1, <1>2, HeldKept
  <2> QED
    BY <2>1, <2>2, <2>3, <2>4 DEF Types
<1>9. Queued'
  <2>1. \A k \in DOMAIN queue : queue[k] \in Conns /\ queue[k] # l
    BY <1>1 DEF InQueue, HostOK
  <2> QED
    BY <1>0, <1>3, <2>1 DEF WebInv, Queued
<1>10. Linked'
  <2> SUFFICES ASSUME NEW r \in Pages PROVE LinkOK(r)'
    BY DEF Linked
  <2>1. CASE r = p
    BY <2>1, <1>3, <1>4, <1>5, <1>6, ConnNames DEF LinkOK
  <2>2. CASE r # p
    <3>1. LinkOK(r) /\ page'[r] = page[r]
      BY <2>2, <1>4 DEF WebInv, Linked
    <3>2. page[r].link # NoConn => conns'[page[r].link] = conns[page[r].link]
      BY <2>2, <1>3, <1>7, <3>1, ConnNames DEF LinkOK
    <3> QED
      BY <3>1, <3>2, <1>5 DEF LinkOK
  <2> QED
    BY <2>1, <2>2
<1>11. cur # NoConn => cur \in Conns /\ conns'[cur] = IF cur = l THEN c ELSE conns[cur]
  BY <1>1, <1>3 DEF HostOK
<1>12. host = "pin" \/ host \in Served \/ host \in {"headers", "blocked"} => cur # NoConn
  BY <1>1 DEF HostOK, Served
<1>13. Stage'
  BY <1>0, <1>11, <1>12 DEF WebInv, Stage, Served
<1>14. ServedOK'
  <2>1. CASE cur = l
    <3>1. conns'[cur] = c /\ \A r \in Pages : page'[r].link = cur => r = p
      BY <2>1, <1>4, <1>7, <1>11, ConnNames
    <3>2. StreamNeedsCode'
      BY <3>1, <2>1, <1>0 DEF StreamNeedsCode, Serving, Served
    <3> QED
      BY <3>1, <3>2, <2>1, <1>0, <1>4 DEF ServedOK, Served
  <2>2. CASE cur # l
    <3>1. \A r \in Pages : page'[r].link = cur => r # p /\ page'[r] = page[r]
      BY <2>2, <1>4
    <3>2. cur # NoConn => conns'[cur] = conns[cur]
      BY <2>2, <1>11
    <3>3. StreamNeedsCode'
      BY <3>2, <1>0, <1>12 DEF WebInv, ServedOK, StreamNeedsCode, Serving, Served
    <3> QED
      BY <3>1, <3>2, <3>3, <1>0, <1>12 DEF WebInv, ServedOK, Served
  <2> QED
    BY <2>1, <2>2
<1> QED
  BY <1>8, <1>9, <1>10, <1>13, <1>14 DEF WebInv

\* A page that leaves: only what it sent before stays on the connection.
LEMMA PageLeaves ==
    ASSUME WebInv, NEW p \in Pages, NEW l \in Conns, page[p].link = l,
           NEW frames \in Seq(UpFrame), Left(p, frames),
           Len(conns[l].up \o frames) <= MaxFrames, InQueue(l) => frames = <<>>,
           l = cur /\ host = "pin" =>
             CodesCounted([conns[l] EXCEPT !.peer = FALSE, !.down = <<>>, !.up = @ \o frames], pinTries),
           UNCHANGED <<streamerVars, guiVars, stop, edits>>
    PROVE  WebInv'
<1> DEFINE c == [conns[l] EXCEPT !.peer = FALSE, !.down = <<>>, !.up = @ \o frames]
           q == NoLink(page[p].local)
<1>0. /\ queue' = queue /\ host' = host /\ cur' = cur /\ pinTries' = pinTries /\ loaded' = loaded
      /\ settings' = settings /\ file' = file /\ lines' = lines /\ writing' = writing /\ edits' = edits
  BY DEF streamerVars, guiVars
<1>1. /\ ConnsOK /\ PagesOK /\ HostOK /\ FileOK /\ HeldOK /\ None \in Connection
      /\ Setting' = Setting /\ Connection' = Connection /\ PageState' = PageState
  BY <1>0, NoneType DEF WebInv, Types, Setting, Connection, PageState, UpFrame, DownFrame
<1>2. /\ c \in Connection /\ c.kind = conns[l].kind /\ c.ours = conns[l].ours /\ ~c.peer
      /\ c.down = <<>> /\ c.up = conns[l].up \o frames /\ c.wrong = conns[l].wrong /\ c.right = conns[l].right
  <2>1. conns[l] \in Connection
    BY <1>1 DEF ConnsOK
  <2>2. conns[l].up \o frames \in Seq(UpFrame)
    BY <2>1, ConnParts
  <2>3. <<>> \in Seq(DownFrame)
    OBVIOUS
  <2>4. c.peer = FALSE /\ c.down = <<>> /\ c.up = conns[l].up \o frames
    BY <2>1 DEF Connection
  <2>5. c.kind = conns[l].kind /\ c.ours = conns[l].ours /\ c.wrong = conns[l].wrong /\ c.right = conns[l].right
    BY <2>1 DEF Connection
  <2>6. c \in Connection
    BY <2>1, <2>2, <2>3 DEF Connection
  <2> QED
    BY <2>4, <2>5, <2>6
<1>3. /\ q.at = "closed" /\ q.link = NoConn /\ Untold(q) /\ q.timer = FALSE /\ q \in PageState
  <2>1. page[p].local \in Setting
    BY <1>1 DEF PagesOK, PageState
  <2>2. 0 \in Setting
    BY <1>1 DEF FileOK, Setting
  <2>3. q \in PageState
    BY <2>1, <2>2, WebAssumption DEF NoLink, PageState
  <2> QED
    BY <2>3 DEF Untold, NoLink
<1>4. conns' = With(l, c) /\ page' = [page EXCEPT ![p] = q]
  BY DEF Left
<1> HIDE DEF c, q
<1>5. /\ conns' \in [Conns -> Connection]
      /\ \A j \in Conns : j # l => conns'[j] = conns[j]
      /\ conns'[l] = IF c.peer \/ c.ours THEN c ELSE None
  BY <1>1, <1>2, <1>4, WithIs DEF ConnsOK
<1>6. /\ page'[p] = q /\ \A r \in Pages : r # p => page'[r] = page[r]
      /\ page' \in [Pages -> PageState]
  BY <1>1, <1>3, <1>4 DEF PagesOK
<1>7. \A i : InQueue(i)' <=> InQueue(i)
  BY <1>0 DEF InQueue
<1>8. l \in Sockets(p) /\ conns[l].kind = "ws"
  BY ConnNames DEF WebInv, Linked, LinkOK
<1>9. \A r \in Pages : r # p => page[r].link # l
  BY <1>8, ConnNames DEF WebInv, Linked, LinkOK
<1>10. Types'
  <2>1. ConnsOK' /\ PagesOK'
    BY <1>1, <1>3, <1>5, <1>6 DEF ConnsOK, PagesOK
  <2>2. HostOK' /\ FileOK'
    BY <1>0, <1>1 DEF HostOK, FileOK
  <2>3. Len(c.up) <= MaxFrames
    BY <1>2
  <2>4. HeldOK'
    BY <1>0, <1>1, <1>2, <1>4, <2>3, HeldKept DEF ConnsOK
  <2> QED
    BY <2>1, <2>2, <2>4 DEF Types
<1>11. InQueue(l) => conns'[l] = c /\ Blank(c)
  <2> SUFFICES ASSUME InQueue(l) PROVE conns'[l] = c /\ Blank(c)
    OBVIOUS
  <2>1. conns[l].ours /\ Blank(conns[l])
    BY <1>1, <1>8 DEF HeldOK, WebInv, Queued, InQueue
  <2>2. c.up = <<>>
    BY <1>2, <2>1 DEF Blank
  <2> QED
    BY <1>2, <1>5, <2>1, <2>2 DEF Blank
<1>12. Queued'
  <2> SUFFICES ASSUME NEW k \in DOMAIN queue
               PROVE  conns'[queue[k]].kind = "ws" => Blank(conns'[queue[k]])
    BY <1>0 DEF WebInv, Queued
  <2>1. queue[k] \in Conns /\ InQueue(queue[k])
    BY <1>1 DEF InQueue, HostOK
  <2>2. CASE queue[k] = l
    BY <1>11, <2>1, <2>2
  <2>3. CASE queue[k] # l
    BY <1>5, <2>1, <2>3 DEF WebInv, Queued
  <2> QED
    BY <2>2, <2>3
<1>13. Linked'
  <2> SUFFICES ASSUME NEW r \in Pages PROVE LinkOK(r)'
    BY DEF Linked
  <2>1. CASE r = p
    <3>1. ~InQueue(NoConn)
      BY <1>1, ConnNames DEF InQueue, HostOK
    <3> QED
      BY <2>1, <3>1, <1>3, <1>6, <1>7 DEF LinkOK, Untold
  <2>2. CASE r # p
    <3>1. LinkOK(r) /\ page'[r] = page[r]
      BY <2>2, <1>6 DEF WebInv, Linked
    <3>2. page[r].link # NoConn => conns'[page[r].link] = conns[page[r].link]
      BY <2>2, <1>5, <1>9, <3>1, ConnNames DEF LinkOK
    <3> QED
      BY <3>1, <3>2, <1>7 DEF LinkOK, Untold
  <2> QED
    BY <2>1, <2>2
<1>14. cur # NoConn => /\ cur \in Conns
                       /\ conns'[cur] = IF cur = l THEN c ELSE conns[cur]
  <2>1. cur = l => c.ours
    BY <1>1, <1>2 DEF HeldOK
  <2> QED
    BY <1>1, <1>5, <2>1 DEF HostOK
<1>15. host = "pin" \/ host \in Served \/ host \in {"headers", "blocked"} => cur # NoConn
  BY <1>1 DEF HostOK, Served
<1>16. Stage'
  BY <1>0, <1>2, <1>14, <1>15 DEF WebInv, Stage, Served
<1>17. \A r \in Pages : page'[r].link = cur /\ cur # NoConn => cur # l /\ page'[r] = page[r]
  BY <1>3, <1>6, <1>9
<1>18. StreamNeedsCode'
  BY <1>0, <1>2, <1>14, <1>15 DEF WebInv, ServedOK, StreamNeedsCode, Serving, Served
<1>19. host = "pin" => CodesCounted(conns'[cur], pinTries)
  BY <1>14, <1>15 DEF WebInv, ServedOK, c
<1>20. ServedOK'
  BY <1>0, <1>14, <1>15, <1>17, <1>18, <1>19 DEF WebInv, ServedOK, Served
<1> QED
  BY <1>10, <1>12, <1>13, <1>16, <1>20 DEF WebInv

LEMMA LinkFacts ==
    ASSUME WebInv, NEW p \in Pages, page[p].at # "closed"
    PROVE  /\ page[p].link \in Conns /\ page[p].link # NoConn /\ page[p].link \in Sockets(p)
           /\ conns[page[p].link] \in Connection /\ page[p] \in PageState
           /\ conns[page[p].link].peer /\ conns[page[p].link].kind = "ws"
           /\ conns[page[p].link].up \in Seq(UpFrame) /\ Len(conns[page[p].link].up) <= MaxFrames
           /\ conns[page[p].link].down \in Seq(DownFrame)
           /\ InQueue(page[p].link) => page[p].at = "waiting" /\ conns[page[p].link].down = <<>>
           /\ page[p].timer => page[p].at = "paired"
           /\ OpenFirst(page[p].at, conns[page[p].link].down)
           /\ page[p].link = cur /\ host = "pin" =>
                CodesCounted(conns[cur], pinTries) /\ PinState(page[p], conns[cur], pinTries)
           /\ page[p].link = cur /\ host \in Served =>
                /\ SessionState(page[p], conns[cur], host, settings)
                /\ conns[cur].right /\ conns[cur].wrong < MaxTries
<1> DEFINE l == page[p].link
<1>1. /\ l # NoConn /\ l \in Sockets(p) /\ conns[l].peer /\ conns[l].kind = "ws"
      /\ OpenFirst(page[p].at, conns[l].down)
  BY DEF WebInv, Linked, LinkOK
<1>2. l \in Conns
  BY <1>1, ConnNames
<1>3. conns[l] \in Connection /\ page[p] \in PageState /\ (page[p].timer => page[p].at = "paired")
  BY <1>2 DEF WebInv, Types, ConnsOK, PagesOK
<1>4. conns[l].up \in Seq(UpFrame) /\ conns[l].down \in Seq(DownFrame) /\ Len(conns[l].up) <= MaxFrames
  BY <1>2, <1>3, ConnParts DEF WebInv, Types, HeldOK
<1>5. InQueue(l) => page[p].at = "waiting" /\ conns[l].down = <<>>
  BY <1>1 DEF WebInv, Linked, LinkOK, Queued, Blank, InQueue
<1>6. l = cur /\ host = "pin" => CodesCounted(conns[cur], pinTries) /\ PinState(page[p], conns[cur], pinTries)
  BY DEF WebInv, ServedOK
<1>7. l = cur /\ host \in Served => /\ SessionState(page[p], conns[cur], host, settings)
                                    /\ conns[cur].right /\ conns[cur].wrong < MaxTries
  BY <1>1 DEF WebInv, ServedOK, StreamNeedsCode, Serving, Served
<1> QED
  BY <1>1, <1>2, <1>3, <1>4, <1>5, <1>6, <1>7

LEMMA PinSend ==
    ASSUME NEW q, NEW c, NEW d, NEW t, NEW S, c.up \in Seq(S), NEW frame \in S, PinState(q, c, t),
           q.at # "waiting", frame.type # "Hello", d.up = Append(c.up, frame), d.down = c.down
    PROVE  PinState(q, d, t)
<1>1. No(d.up, "Hello")
  BY NoAppend DEF PinState
<1> QED
  BY <1>1 DEF PinState

LEMMA SessionSend ==
    ASSUME NEW q, NEW c, NEW d, NEW h, NEW s, NEW S, c.up \in Seq(S), NEW frame \in S,
           SessionState(q, c, h, s), frame.type # "Hello", d.up = Append(c.up, frame), d.down = c.down
    PROVE  SessionState(q, d, h, s)
<1>1. No(c.up, "Hello") => No(d.up, "Hello")
  BY NoAppend
<1>2. (\A k \in DOMAIN c.up : c.up[k].type = "Hello" => c.up[k].v = q.handed)
        => \A k \in DOMAIN d.up : d.up[k].type = "Hello" => d.up[k].v = q.handed
  OBVIOUS
<1> QED
  BY <1>1, <1>2 DEF SessionState

LEMMA SubmitPinInv ==
    ASSUME WebInv, NEW p \in Pages, NEW right \in BOOLEAN, SubmitPin(p, right)
    PROVE  WebInv'
<1> DEFINE l == page[p].link
           x == conns[l]
           frame == Frame("Pair", right)
           y == Sent(l, frame)
           more == IF y.right \/ right \/ y.wrong > MaxTries THEN y.wrong ELSE y.wrong + 1
           c == [y EXCEPT !.wrong = more, !.right = @ \/ right]
<1>0. /\ page[p].at = "prompt" /\ x.peer /\ Len(x.up) < MaxFrames
      /\ page' = page /\ edits' = edits /\ UNCHANGED <<streamerVars, guiVars>>
  BY DEF SubmitPin, Room
<1>1. /\ l \in Conns /\ l # NoConn /\ x \in Connection /\ page[p] \in PageState /\ x.kind = "ws"
      /\ x.up \in Seq(UpFrame) /\ ~InQueue(l) /\ ~page[p].timer
      /\ l = cur /\ host = "pin" => CodesCounted(x, pinTries) /\ PinState(page[p], x, pinTries)
      /\ l = cur /\ host \in Served => SessionState(page[p], x, host, settings) /\ x.right /\ x.wrong < MaxTries
  BY <1>0, LinkFacts
<1>2. frame \in UpFrame /\ frame.type = "Pair" /\ frame.v = right
  BY DEF Frame, UpFrame
<1>3. y \in Connection /\ y = [x EXCEPT !.up = Append(x.up, frame)] /\ Len(y.up) = Len(x.up) + 1
  BY <1>1, <1>2, SentType DEF WebInv, Types
<1>4. /\ y.up = Append(x.up, frame) /\ y.down = x.down /\ y.kind = x.kind /\ y.ours = x.ours
      /\ y.peer = x.peer /\ y.wrong = x.wrong /\ y.right = x.right
      /\ x.wrong \in Nat /\ x.right \in BOOLEAN /\ more \in Nat /\ (y.right \/ right) \in BOOLEAN
  <2>1. y.up = Append(x.up, frame) /\ y.down = x.down /\ y.kind = x.kind /\ y.ours = x.ours
    BY <1>1, <1>3 DEF Connection
  <2>2. y.peer = x.peer /\ y.wrong = x.wrong /\ y.right = x.right
    BY <1>1, <1>3 DEF Connection
  <2> HIDE DEF y, x
  <2>3. y.wrong \in Nat /\ y.right \in BOOLEAN /\ x.wrong \in Nat /\ x.right \in BOOLEAN
    BY <1>1, <1>3, ConnParts
  <2> QED
    BY <2>1, <2>2, <2>3, WebAssumption
<1>6. conns' = With(l, c) /\ page' = [page EXCEPT ![p] = page[p]]
  <2>1. conns' = With(l, c)
    BY DEF SubmitPin
  <2> QED
    BY <1>0, <2>1 DEF WebInv, Types, PagesOK
<1> HIDE DEF y, x, l, frame, more
<1>5. /\ c \in Connection /\ c.kind = x.kind /\ c.ours = x.ours /\ c.peer
      /\ c.up = Append(x.up, frame) /\ c.down = x.down /\ c.wrong = more /\ (x.right \/ right => c.right)
      /\ Len(c.up) <= MaxFrames
  <2>1. c \in Connection
    BY <1>3, <1>4 DEF Connection
  <2>2. c.kind = y.kind /\ c.ours = y.ours /\ c.peer = y.peer /\ c.up = y.up /\ c.down = y.down
    BY <1>3 DEF Connection
  <2>3. c.wrong = more /\ c.right = (y.right \/ right)
    BY <1>3 DEF Connection
  <2>4. Len(c.up) <= MaxFrames
    BY <1>0, <1>1, <1>3, <2>2, WebAssumption
  <2>5. x.right \/ right => c.right
    <3>1. x.right => y.right
      BY <1>4
    <3> QED
      BY <2>3, <3>1, Zenon
  <2>6. c.peer
    BY <1>0, <1>4, <2>2, Zenon
  <2> QED
    BY <1>4, <2>1, <2>2, <2>3, <2>4, <2>5, <2>6
<1>7. Connection' = Connection /\ PageState' = PageState /\ edits \in Nat
  BY <1>0 DEF Connection, PageState, UpFrame, DownFrame, Setting, WebInv, Types, FileOK
<1> HIDE DEF c
<1>8. /\ c.wrong <= (IF WrongCode(frame) THEN x.wrong + 1 ELSE x.wrong)
      /\ x.right => c.right /\ c.wrong = x.wrong
      /\ RightCode(frame) => c.right
  BY <1>2, <1>4, <1>5 DEF WrongCode, RightCode, more
<1>9. CodesCounted(x, pinTries) => CodesCounted(c, pinTries)
  BY <1>1, <1>2, <1>4, <1>5, <1>8, CountedAppend
<1>10. PinState(page[p], x, pinTries) => PinState(page[p], c, pinTries)
  BY <1>0, <1>1, <1>2, <1>5, PinSend
<1>11. SessionState(page[p], x, host, settings) => SessionState(page[p], c, host, settings)
  BY <1>1, <1>2, <1>5, SessionSend
<1>12. x.right => c.right /\ c.wrong = x.wrong
  BY <1>8
<1>13. l = cur /\ host = "pin" => CodesCounted(c, pinTries) /\ PinState(page[p], c, pinTries)
  BY <1>1, <1>9, <1>10
<1>14. l = cur /\ host \in Served => SessionState(page[p], c, host, settings) /\ c.right /\ c.wrong < MaxTries
  BY <1>1, <1>11, <1>12
<1>15. c \in Connection' /\ page[p] \in PageState' /\ edits' \in Nat /\ edits <= edits'
  BY <1>0, <1>1, <1>5, <1>7
<1>16. /\ c.kind = conns[l].kind /\ c.ours = conns[l].ours /\ page[p].link = l /\ page[p].at # "closed"
       /\ OpenFirst(page[p].at, c.down)
  <2>1. OpenFirst(page[p].at, conns[l].down)
    BY <1>0, LinkFacts DEF l
  <2> QED
    BY <1>0, <1>5, <2>1 DEF x, l
<1> QED
  BY <1>0, <1>1, <1>5, <1>6, <1>13, <1>14, <1>15, <1>16, PageActs

\* A page sends a frame that is no code, and becomes q.
LEMMA PageSends ==
    ASSUME WebInv, NEW p \in Pages, page[p].at \in {"prompt", "paired", "live"}, Room(page[p].link),
           edits' \in Nat, edits <= edits',
           NEW frame \in UpFrame', frame.type # "Pair",
           conns' = With(page[p].link, Sent(page[p].link, frame)),
           NEW q \in PageState', page' = [page EXCEPT ![p] = q], q.link = page[p].link,
           q.at # "closed", q.timer => q.at = "paired",
           UNCHANGED <<streamerVars, guiVars>>,
           page[p].link = cur /\ host = "pin" => PinState(q, Sent(cur, frame), pinTries),
           page[p].link = cur /\ host \in Served => SessionState(q, Sent(cur, frame), host, settings)
    PROVE  WebInv'
<1> DEFINE l == page[p].link
           x == conns[l]
           c == Sent(l, frame)
<1>1. /\ l \in Conns /\ x \in Connection /\ x.peer /\ ~InQueue(l) /\ Len(x.up) < MaxFrames
      /\ l = cur /\ host = "pin" => CodesCounted(x, pinTries)
      /\ l = cur /\ host \in Served => x.right /\ x.wrong < MaxTries
  BY LinkFacts DEF Room
<1>2. x \in Connection' /\ x.up \in Seq(UpFrame') /\ x.wrong \in Nat
  <2>1. x \in Connection'
    BY <1>1, TypesGrow DEF WebInv, Types, FileOK
  <2> QED
    BY <2>1, ConnParts DEF Connection
<1>3. /\ c \in Connection' /\ c.up = Append(x.up, frame) /\ c.kind = x.kind /\ c.ours = x.ours
      /\ c.peer = x.peer /\ c.wrong = x.wrong /\ c.right = x.right
  <2> DEFINE y == [x EXCEPT !.up = Append(x.up, frame)]
  <2>1. c = y
    BY DEF Sent
  <2> HIDE DEF x, c
  <2>2. Append(x.up, frame) \in Seq(UpFrame')
    BY <1>2
  <2>3. y \in Connection'
    BY <1>2, <2>2 DEF Connection
  <2>4. /\ y.up = Append(x.up, frame) /\ y.down = x.down /\ y.kind = x.kind
        /\ y.ours = x.ours /\ y.peer = x.peer /\ y.wrong = x.wrong /\ y.right = x.right
    BY <1>2 DEF Connection
  <2> QED
    BY <2>1, <2>3, <2>4
<1>4. Len(c.up) <= MaxFrames
  BY <1>1, <1>2, <1>3, WebAssumption
<1> HIDE DEF c, x
<1>5. ~WrongCode(frame) /\ ~RightCode(frame)
  BY DEF WrongCode, RightCode
<1>6. CodesCounted(x, pinTries) => CodesCounted(c, pinTries)
  <2>1. x.right => c.right
    BY <1>3
  <2> QED
    BY <1>2, <1>3, <1>5, <2>1, CountedAppend
<1>7. l = cur /\ host = "pin" => CodesCounted(c, pinTries) /\ PinState(q, c, pinTries)
  BY <1>1, <1>6 DEF c
<1>8. l = cur /\ host \in Served => SessionState(q, c, host, settings) /\ c.right /\ c.wrong < MaxTries
  BY <1>1, <1>3 DEF c
<1>9. conns' = With(l, c) /\ c.kind = conns[l].kind /\ c.ours = conns[l].ours /\ c.peer
  BY <1>1, <1>3 DEF c, x
<1>10. OpenFirst(q.at, c.down)
  <2>1. OpenFirst(page[p].at, x.down) /\ page[p].at # "waiting"
    BY LinkFacts DEF x
  <2>2. c.down = x.down
    BY <1>2 DEF c, x, Sent, Connection
  <2> QED
    BY <2>1, <2>2 DEF OpenFirst
<1> QED
  BY <1>10, <1>1, <1>3, <1>4, <1>7, <1>8, <1>9, PageActs

LEMMA SameShown ==
    ASSUME NEW q, NEW r, NEW c, NEW t, NEW h, NEW s, r.at = q.at, r.left = q.left, r.handed = q.handed
    PROVE  /\ PinState(q, c, t) => PinState(r, c, t)
           /\ SessionState(q, c, h, s) => SessionState(r, c, h, s)
  BY DEF PinState, SessionState

\* The settings of a page alone change.
LEMMA LocalOnly ==
    ASSUME WebInv, NEW p \in Pages, edits' \in Nat, edits <= edits', NEW v \in Setting',
           page' = [page EXCEPT ![p].local = v], UNCHANGED <<conns, streamerVars, guiVars>>
    PROVE  WebInv'
<1>0. /\ queue' = queue /\ host' = host /\ cur' = cur /\ pinTries' = pinTries /\ loaded' = loaded
      /\ settings' = settings /\ file' = file /\ lines' = lines /\ writing' = writing /\ conns' = conns
  BY DEF streamerVars, guiVars
<1>1. /\ ConnsOK /\ PagesOK /\ HostOK /\ FileOK /\ HeldOK
      /\ Setting \subseteq Setting' /\ Connection \subseteq Connection' /\ PageState \subseteq PageState'
  BY TypesGrow DEF WebInv, Types, FileOK
<1>2. page \in [Pages -> PageState']
  BY <1>1 DEF PagesOK
<1>3. /\ page' \in [Pages -> PageState']
      /\ \A r \in Pages : /\ page'[r].at = page[r].at /\ page'[r].left = page[r].left
                          /\ page'[r].handed = page[r].handed /\ page'[r].link = page[r].link
                          /\ page'[r].timer = page[r].timer
  BY <1>2 DEF PageState
<1>4. Types'
  <2>1. ConnsOK' /\ PagesOK'
    BY <1>0, <1>1, <1>3 DEF ConnsOK, PagesOK
  <2>2. HostOK' /\ FileOK'
    BY <1>0, <1>1 DEF HostOK, FileOK
  <2>3. HeldOK'
    BY <1>0, <1>1 DEF HeldOK, InQueue
  <2> QED
    BY <2>1, <2>2, <2>3 DEF Types
<1>5. Queued' /\ Stage'
  BY <1>0 DEF WebInv, Queued, Stage
<1>6. Linked'
  BY <1>0, <1>3 DEF WebInv, Linked, LinkOK, Untold, InQueue
<1>7. ServedOK'
  <2>1. StreamNeedsCode'
    BY <1>0 DEF WebInv, ServedOK, StreamNeedsCode, Serving
  <2>2. ASSUME NEW r \in Pages, page'[r].link = cur'
        PROVE  /\ host' = "pin" => PinState(page'[r], conns'[cur'], pinTries')
               /\ host' \in Served => SessionState(page'[r], conns'[cur'], host', settings')
    <3>1. /\ host = "pin" => PinState(page[r], conns[cur], pinTries)
          /\ host \in Served => SessionState(page[r], conns[cur], host, settings)
      BY <1>0, <1>3, <2>2 DEF WebInv, ServedOK
    <3> QED
      BY <1>0, <1>3, <3>1, SameShown
  <2> QED
    BY <1>0, <2>1, <2>2 DEF WebInv, ServedOK, Served
<1> QED
  BY <1>4, <1>5, <1>6, <1>7 DEF WebInv

LEMMA ForgetInv ==
    ASSUME WebInv, NEW p \in Pages, Forget(p)
    PROVE  WebInv'
<1>1. edits' \in Nat /\ edits <= edits' /\ 0 \in Setting'
  BY DEF Forget, WebInv, Types, FileOK, Setting
<1>2. page' = [page EXCEPT ![p].local = 0] /\ UNCHANGED <<conns, streamerVars, guiVars>>
  BY DEF Forget
<1> QED
  BY <1>1, <1>2, LocalOnly

LEMMA EditInv ==
    ASSUME WebInv, NEW p \in Pages, Edit(p)
    PROVE  WebInv'
<1> DEFINE l == page[p].link
           frame == Frame("Settings", edits + 1)
           q == [page[p] EXCEPT !.local = edits + 1]
<1>1. /\ edits \in Nat /\ edits' = edits + 1 /\ edits <= edits' /\ edits' \in Nat /\ edits + 1 \in Setting'
      /\ UNCHANGED <<streamerVars, guiVars>>
  BY DEF Edit, WebInv, Types, FileOK, Setting
<1>2. CASE ~Live(p)
  BY <1>1, <1>2, LocalOnly DEF Edit
<1>3. CASE Live(p)
  <2>1. /\ page[p].at \in {"prompt", "paired", "live"} /\ Room(l) /\ conns' = With(l, Sent(l, frame))
        /\ page' = [page EXCEPT ![p] = q]
    BY <1>3 DEF Edit, Live
  <2>2. frame \in UpFrame' /\ frame.type = "Settings"
    BY <1>1 DEF Frame, UpFrame
  <2>3. page[p] \in PageState' /\ page[p] \in PageState
    BY <1>1, <2>1, LinkFacts, TypesGrow
  <2>4. /\ q \in PageState' /\ q.link = l /\ q.at = page[p].at /\ q.left = page[p].left
        /\ q.handed = page[p].handed /\ q.timer = page[p].timer
    BY <1>1, <2>3 DEF PageState
  <2> HIDE DEF q, frame
  <2>5. /\ l \in Conns /\ conns[l] \in Connection /\ conns[l] \in Connection'
        /\ (q.timer => q.at = "paired") /\ q.at # "closed"
    BY <1>1, <2>1, <2>4, LinkFacts, TypesGrow
  <2>6. /\ Sent(l, frame).up = Append(conns[l].up, frame) /\ Sent(l, frame).down = conns[l].down
        /\ conns[l].up \in Seq(UpFrame')
    BY <2>5 DEF Connection, Sent
  <2>7. ASSUME l = cur, host = "pin"
        PROVE  PinState(q, Sent(cur, frame), pinTries)
    <3>1. PinState(page[p], conns[l], pinTries)
      BY <2>1, <2>7, LinkFacts
    <3>2. PinState(page[p], Sent(l, frame), pinTries)
      BY <2>1, <2>2, <2>6, <3>1, PinSend
    <3> QED
      BY <2>4, <2>7, <3>2, SameShown
  <2>8. ASSUME l = cur, host \in Served
        PROVE  SessionState(q, Sent(cur, frame), host, settings)
    <3>1. SessionState(page[p], conns[l], host, settings)
      BY <2>1, <2>8, LinkFacts
    <3>2. SessionState(page[p], Sent(l, frame), host, settings)
      BY <2>2, <2>6, <3>1, SessionSend
    <3> QED
      BY <2>4, <2>8, <3>2, SameShown
  <2>9. frame.type # "Pair"
    BY <2>2
  <2> QED
    BY <1>1, <2>1, <2>2, <2>4, <2>5, <2>7, <2>8, <2>9, PageSends
<1> QED
  BY <1>2, <1>3

LEMMA HelloTimeoutInv ==
    ASSUME WebInv, NEW p \in Pages, HelloTimeout(p)
    PROVE  WebInv'
<1> DEFINE l == page[p].link
           frame == Frame("Hello", page[p].hello)
           q == [page[p] EXCEPT !.timer = FALSE, !.at = "live"]
<1>1. /\ edits' = edits /\ edits \in Nat /\ page[p].timer /\ page[p] \in PageState /\ PageState' = PageState
      /\ UpFrame' = UpFrame
  BY DEF HelloTimeout, WebInv, Types, FileOK, PagesOK, PageState, UpFrame, Setting
<1>2. /\ Room(l) /\ conns' = With(l, Sent(l, frame)) /\ page' = [page EXCEPT ![p] = q]
      /\ UNCHANGED <<streamerVars, guiVars>>
  BY DEF HelloTimeout, HelloSent
<1>3. page[p].at = "paired"
  BY <1>1 DEF WebInv, Types, PagesOK
<1>4. frame \in UpFrame' /\ frame.type = "Hello" /\ frame.type # "Pair"
  BY <1>1 DEF Frame, UpFrame, PageState
<1>5. /\ q \in PageState' /\ q.link = l /\ q.at = "live" /\ q.at # "closed" /\ ~q.timer /\ q.handed = page[p].handed
  BY <1>1 DEF PageState
<1> HIDE DEF q, frame
<1>6. l \in Conns /\ Sent(l, frame).down = conns[l].down
  BY <1>3, LinkFacts DEF Connection, Sent
<1>7. ~(l = cur /\ host = "pin")
  BY <1>3, LinkFacts DEF PinState
<1>8. ASSUME l = cur, host \in Served
      PROVE  SessionState(q, Sent(cur, frame), host, settings)
  <2>1. SessionState(page[p], conns[l], host, settings)
    BY <1>3, <1>8, LinkFacts
  <2> QED
    BY <1>3, <1>5, <1>6, <1>8, <2>1 DEF SessionState
<1>9. /\ page[p].at \in {"prompt", "paired", "live"} /\ edits' \in Nat /\ edits <= edits'
      /\ (q.timer => q.at = "paired")
  BY <1>1, <1>3, <1>5
<1> QED
  BY <1>2, <1>4, <1>5, <1>7, <1>8, <1>9, PageSends

LEMMA HeartbeatInv ==
    ASSUME WebInv, NEW p \in Pages, Heartbeat(p)
    PROVE  WebInv'
<1> DEFINE l == page[p].link
           frame == Frame("control", 0)
<1>1. /\ edits' = edits /\ edits \in Nat /\ page[p].at = "prompt" /\ PageState' = PageState
      /\ UpFrame' = UpFrame
  BY DEF Heartbeat, WebInv, Types, FileOK, PageState, UpFrame, Setting
<1>2. /\ conns' = With(l, Sent(l, frame)) /\ page' = [page EXCEPT ![p] = page[p]]
      /\ UNCHANGED <<streamerVars, guiVars>> /\ conns[l].peer /\ conns[l].up = <<>>
  BY DEF Heartbeat, WebInv, Types, PagesOK
<1>3. Room(l)
  BY <1>2, WebAssumption DEF Room
<1>4. frame \in UpFrame' /\ frame.type = "control" /\ frame.type # "Pair"
  BY <1>1 DEF Frame, UpFrame
<1> HIDE DEF frame
<1>5. /\ l \in Conns /\ conns[l].up \in Seq(UpFrame) /\ page[p] \in PageState /\ (page[p].timer => FALSE)
      /\ conns[l] \in Connection
  BY <1>1, LinkFacts
<1>6. Sent(l, frame).up = Append(conns[l].up, frame) /\ Sent(l, frame).down = conns[l].down
  BY <1>5 DEF Connection, Sent
<1>7. ASSUME l = cur, host = "pin"
      PROVE  PinState(page[p], Sent(cur, frame), pinTries)
  <2>1. PinState(page[p], conns[l], pinTries)
    BY <1>1, <1>7, LinkFacts
  <2>2. frame \in UpFrame /\ frame.type # "Hello" /\ page[p].at # "waiting"
    BY <1>1, <1>4
  <2> QED
    BY <1>5, <1>6, <1>7, <2>1, <2>2, PinSend
<1>8. ASSUME l = cur, host \in Served
      PROVE  SessionState(page[p], Sent(cur, frame), host, settings)
  <2>1. SessionState(page[p], conns[l], host, settings)
    BY <1>1, <1>8, LinkFacts
  <2>2. frame \in UpFrame /\ frame.type # "Hello"
    BY <1>1, <1>4
  <2> QED
    BY <1>5, <1>6, <1>8, <2>1, <2>2, SessionSend
<1>9. /\ page[p].at \in {"prompt", "paired", "live"} /\ edits' \in Nat /\ edits <= edits'
      /\ page[p] \in PageState' /\ page[p].at # "closed" /\ (page[p].timer => page[p].at = "paired")
  BY <1>1, <1>5
<1> QED
  BY <1>2, <1>3, <1>4, <1>7, <1>8, <1>9, PageSends

\* The page reads a frame, and becomes q.
LEMMA PageReads ==
    ASSUME WebInv, NEW p \in Pages, page[p].at # "closed", conns[page[p].link].down # <<>>,
           UNCHANGED edits, conns' = With(page[p].link, Read(page[p].link)),
           NEW q \in PageState, page' = [page EXCEPT ![p] = q], q.link = page[p].link,
           q.at # "closed", q.timer => q.at = "paired",
           UNCHANGED <<streamerVars, guiVars>>,
           \A c \in Connection :
              /\ c.up = conns[cur].up /\ c.down = Tail(conns[cur].down) /\ page[p].link = cur
              => /\ host = "pin" => PinState(q, c, pinTries)
                 /\ host \in Served => SessionState(q, c, host, settings)
    PROVE  WebInv'
<1> DEFINE l == page[p].link
           x == conns[l]
           c == Read(l)
<1>1. /\ l \in Conns /\ x \in Connection /\ x.peer /\ ~InQueue(l) /\ Len(x.up) <= MaxFrames
      /\ l = cur /\ host = "pin" => CodesCounted(x, pinTries)
      /\ l = cur /\ host \in Served => x.right /\ x.wrong < MaxTries
  BY LinkFacts
<1>2. Connection' = Connection /\ PageState' = PageState /\ edits \in Nat
  BY DEF Connection, PageState, UpFrame, DownFrame, Setting, WebInv, Types, FileOK
<1>3. c \in Connection
  BY <1>1, ReadType DEF WebInv, Types
<1>4. /\ c.up = x.up /\ c.down = Tail(x.down) /\ c.kind = x.kind /\ c.ours = x.ours
      /\ c.peer = x.peer /\ c.wrong = x.wrong /\ c.right = x.right
  BY <1>1 DEF Connection, Read
<1>9. conns' = With(l, c) /\ c.kind = conns[l].kind /\ c.ours = conns[l].ours /\ c.peer
  BY <1>1, <1>4
<1> HIDE DEF c, x
<1>5. CodesCounted(x, pinTries) => CodesCounted(c, pinTries)
  BY <1>4, CountedSame
<1>6. l = cur => c.up = conns[cur].up /\ c.down = Tail(conns[cur].down)
  BY <1>4 DEF x
<1>7. l = cur /\ host = "pin" => CodesCounted(c, pinTries) /\ PinState(q, c, pinTries)
  BY <1>1, <1>3, <1>5, <1>6
<1>8. l = cur /\ host \in Served => SessionState(q, c, host, settings) /\ c.right /\ c.wrong < MaxTries
  BY <1>1, <1>3, <1>4, <1>6
<1>10. /\ c \in Connection' /\ q \in PageState' /\ edits' \in Nat /\ edits <= edits'
       /\ page[p].link = l /\ Len(c.up) <= MaxFrames
  BY <1>1, <1>2, <1>3, <1>4
<1>11. OpenFirst(q.at, c.down)
  <2>1. OpenFirst(page[p].at, x.down) /\ x.down \in Seq(DownFrame) /\ x.down # <<>>
    BY LinkFacts DEF x
  <2> QED
    BY <1>4, <2>1, OpenTail
<1> HIDE DEF l
<1> QED
  BY <1>1, <1>7, <1>8, <1>9, <1>10, <1>11, PageActs

LEMMA ReceiveInv ==
    ASSUME WebInv, NEW p \in Pages, Receive(p)
    PROVE  WebInv'
<1> DEFINE l == page[p].link
           f == Head(conns[l].down)
<1>1. /\ l # NoConn /\ conns[l].down # <<>> /\ edits' = edits /\ UNCHANGED <<streamerVars, guiVars>>
      /\ \/ /\ f.type = "Open"
            /\ page' = [page EXCEPT ![p].at = "prompt"]
            /\ conns' = With(l, Read(l))
         \/ f.type = "Paired" /\ OnPaired(p, l)
         \/ f.type = "Rejected" /\ OnRejected(p, l, f.v)
         \/ f.type = "Settings" /\ OnSettings(p, l, f.v)
  BY DEF Receive
<1>2. page[p].at # "closed"
  BY <1>1 DEF WebInv, Linked, LinkOK
<1>3. /\ l \in Conns /\ conns[l] \in Connection /\ page[p] \in PageState
      /\ conns[l].down \in Seq(DownFrame) /\ (page[p].timer => page[p].at = "paired")
      /\ OpenFirst(page[p].at, conns[l].down)
  BY <1>2, LinkFacts
<1>4. /\ f \in DownFrame /\ 1 \in DOMAIN conns[l].down /\ f = conns[l].down[1]
      /\ Tail(conns[l].down) \in Seq(DownFrame) /\ Len(conns[l].down) \in Nat \ {0}
  BY <1>1, <1>3, TailType
<1>5. l = cur /\ host = "pin" =>
         /\ PinState(page[p], conns[l], pinTries)
         /\ page[p].at = "waiting" => conns[l].down = << Frame("Open", 0) >> /\ f.type = "Open"
         /\ page[p].at = "prompt" => f.type = "Rejected"
         /\ page[p].at \in {"waiting", "prompt"}
  <2> SUFFICES ASSUME l = cur, host = "pin"
               PROVE  /\ PinState(page[p], conns[l], pinTries)
                      /\ page[p].at = "waiting" => conns[l].down = << Frame("Open", 0) >> /\ f.type = "Open"
                      /\ page[p].at = "prompt" => f.type = "Rejected"
                      /\ page[p].at \in {"waiting", "prompt"}
    OBVIOUS
  <2>1. PinState(page[p], conns[l], pinTries)
    BY <1>2, LinkFacts
  <2>2. page[p].at = "waiting" => conns[l].down = << Frame("Open", 0) >>
    BY <2>1 DEF PinState
  <2>3. Head(<< Frame("Open", 0) >>).type = "Open"
    BY DEF Frame
  <2> QED
    BY <1>4, <2>1, <2>2, <2>3 DEF PinState
<1>6. l = cur /\ host \in Served =>
         /\ SessionState(page[p], conns[l], host, settings)
         /\ f.type # "Open"
         /\ f.type = "Settings" => Len(conns[l].down) = 1
         /\ f.type = "Paired" => Len(conns[l].down) = 2 /\ page[p].at = "prompt"
  <2> SUFFICES ASSUME l = cur, host \in Served
               PROVE  /\ SessionState(page[p], conns[l], host, settings)
                      /\ f.type # "Open"
                      /\ f.type = "Settings" => Len(conns[l].down) = 1
                      /\ f.type = "Paired" => Len(conns[l].down) = 2 /\ page[p].at = "prompt"
    OBVIOUS
  <2>1. SessionState(page[p], conns[l], host, settings)
    BY <1>2, LinkFacts
  <2> HIDE DEF f, l
  <2>2. /\ f.type # "Open" /\ (f.type = "Settings" => 1 = Len(conns[l].down))
        /\ f.type = "Paired" => 1 = Len(conns[l].down) - 1 /\ page[p].at = "prompt"
    BY <1>4, <2>1 DEF SessionState, No
  <2> QED
    BY <1>4, <2>1, <2>2
<1> HIDE DEF f, l
<1>7. CASE /\ f.type = "Open"
           /\ page' = [page EXCEPT ![p].at = "prompt"]
           /\ conns' = With(l, Read(l))
  <2> DEFINE q == [page[p] EXCEPT !.at = "prompt"]
  <2>1. page[p].at = "waiting" /\ ~page[p].timer
    BY <1>3, <1>4, <1>7 DEF OpenFirst
  <2>2. /\ q \in PageState /\ q.link = page[p].link /\ q.at = "prompt" /\ ~q.timer /\ q.left = page[p].left
        /\ q.handed = page[p].handed
    BY <1>3, <2>1 DEF PageState
  <2>3. page' = [page EXCEPT ![p] = q]
    BY <1>7
  <2> HIDE DEF q
  <2>4. ASSUME NEW c \in Connection, c.up = conns[cur].up, c.down = Tail(conns[cur].down), page[p].link = cur,
               host = "pin"
        PROVE  PinState(q, c, pinTries)
    <3>1. l = cur /\ PinState(page[p], conns[l], pinTries)
      BY <1>5, <2>4 DEF l
    <3>2. c.down = <<>>
      <4>1. conns[l].down = << Frame("Open", 0) >> /\ c.down = Tail(conns[l].down)
        BY <1>5, <2>1, <2>4, <3>1
      <4>2. Tail(<< Frame("Open", 0) >>) = <<>>
        OBVIOUS
      <4> QED
        BY <4>1, <4>2
    <3>3. Told(c.down, q.left, MaxTries - pinTries)
      BY <1>1, <1>3, <1>7, <2>2, <2>4, <3>1, ToldTail DEF PinState, f
    <3>4. No(c.up, "Hello") /\ q.handed = 0
      BY <2>2, <2>4, <3>1 DEF PinState
    <3> QED
      BY <2>2, <3>2, <3>3, <3>4 DEF PinState
  <2>5. l = cur => host \notin Served
    BY <1>6, <1>7
  <2>6. page[p].link = l
    BY DEF l
  <2> QED
    BY <1>1, <1>2, <1>7, <2>2, <2>3, <2>4, <2>5, <2>6, PageReads
<1>8. CASE f.type = "Paired" /\ OnPaired(p, l)
  <2> DEFINE q == [page[p] EXCEPT !.at = "paired", !.timer = TRUE]
  <2>2. /\ q \in PageState /\ q.link = page[p].link /\ q.at = "paired" /\ q.handed = page[p].handed
    BY <1>3 DEF PageState
  <2>3. page' = [page EXCEPT ![p] = q] /\ conns' = With(l, Read(l))
    BY <1>8 DEF OnPaired
  <2> HIDE DEF q
  <2>4. ASSUME NEW c \in Connection, c.up = conns[cur].up, c.down = Tail(conns[cur].down), page[p].link = cur,
               host \in Served
        PROVE  SessionState(q, c, host, settings)
    <3>1. l = cur /\ SessionState(page[p], conns[l], host, settings)
      BY <1>6, <2>4 DEF l
    <3>2. SessionState(page[p], c, host, settings)
      BY <1>1, <1>3, <2>4, <3>1, SessionTail
    <3>3. Len(conns[l].down) = 2 /\ page[p].at = "prompt" /\ Len(c.down) = 1
      BY <1>1, <1>3, <1>6, <1>8, <2>4, <3>1, TailType
    <3>4. c.down \in Seq(DownFrame) /\ DOMAIN c.down = 1 .. Len(c.down)
      BY <2>4, <3>1, <1>4
    <3>5. \A k \in DOMAIN c.down : k = 1 /\ c.down[k].type # "Paired"
      BY <3>2, <3>3, <3>4 DEF SessionState
    <3> QED
      BY <2>2, <3>2, <3>3, <3>5 DEF SessionState
  <2>5. l = cur => host # "pin"
    BY <1>5, <1>8
  <2>6. page[p].link = l
    BY DEF l
  <2> QED
    BY <1>1, <1>2, <2>2, <2>3, <2>4, <2>5, <2>6, PageReads
<1>9. CASE f.type = "Rejected" /\ OnRejected(p, l, f.v)
  <2> DEFINE q == [page[p] EXCEPT !.left = f.v]
  <2>1. f.v \in 0 .. MaxTries
    BY <1>4, <1>9 DEF DownFrame
  <2>2. /\ q \in PageState /\ q.link = page[p].link /\ q.at = page[p].at /\ q.handed = page[p].handed
        /\ q.left = f.v /\ q.timer = page[p].timer
    BY <1>3, <2>1 DEF PageState
  <2>3. page' = [page EXCEPT ![p] = q] /\ conns' = With(l, Read(l))
    BY <1>9 DEF OnRejected
  <2> HIDE DEF q
  <2>4. ASSUME NEW c \in Connection, c.up = conns[cur].up, c.down = Tail(conns[cur].down), page[p].link = cur,
               host \in Served
        PROVE  SessionState(q, c, host, settings)
    <3>1. l = cur /\ SessionState(page[p], conns[l], host, settings)
      BY <1>6, <2>4 DEF l
    <3>2. SessionState(page[p], c, host, settings)
      BY <1>1, <1>3, <2>4, <3>1, SessionTail
    <3> QED
      BY <2>2, <3>2 DEF SessionState
  <2>5. ASSUME NEW c \in Connection, c.up = conns[cur].up, c.down = Tail(conns[cur].down), page[p].link = cur,
               host = "pin"
        PROVE  PinState(q, c, pinTries)
    <3>1. l = cur /\ PinState(page[p], conns[l], pinTries)
      BY <1>5, <2>5 DEF l
    <3>2. page[p].at = "prompt"
      BY <1>5, <1>9, <2>5, <3>1
    <3>3. Told(c.down, q.left, MaxTries - pinTries)
      BY <1>1, <1>3, <1>9, <2>2, <2>5, <3>1, ToldTail DEF PinState, f
    <3>4. \A k \in DOMAIN c.down : c.down[k].type = "Rejected"
      <4>1. \A k \in DOMAIN conns[l].down : conns[l].down[k].type = "Rejected"
        BY <3>1, <3>2 DEF PinState
      <4>2. c.down = Tail(conns[l].down)
        BY <2>5, <3>1
      <4> QED
        BY <1>1, <1>3, <4>1, <4>2, TailType
    <3> QED
      BY <2>2, <2>5, <3>1, <3>2, <3>3, <3>4 DEF PinState
  <2>6. page[p].link = l
    BY DEF l
  <2> QED
    BY <1>1, <1>2, <1>3, <2>2, <2>3, <2>4, <2>5, <2>6, PageReads
<1>10. CASE f.type = "Settings" /\ OnSettings(p, l, f.v)
  <2> DEFINE hello == IF f.v = 0 THEN page[p].hello ELSE f.v
             frame == Frame("Hello", hello)
             y == Sent(l, frame)
             c == [y EXCEPT !.down = Tail(@)]
             q == [page[p] EXCEPT !.timer = FALSE, !.at = "live", !.hello = hello,
                                  !.handed = IF page[p].at = "paired" THEN f.v ELSE @,
                                  !.local = IF f.v = 0 THEN @ ELSE f.v]
  <2>1. f.v \in Setting /\ hello \in Setting
    BY <1>3, <1>4, <1>10 DEF DownFrame, PageState
  <2>2. frame \in UpFrame /\ frame.type = "Hello" /\ frame.v = hello
    BY <2>1 DEF Frame, UpFrame
  <2>3. /\ q \in PageState /\ q.link = page[p].link /\ q.at = "live" /\ ~q.timer
        /\ q.handed = IF page[p].at = "paired" THEN f.v ELSE page[p].handed
    BY <1>3, <2>1 DEF PageState
  <2>4. /\ y \in Connection /\ y = [conns[l] EXCEPT !.up = Append(conns[l].up, frame)]
        /\ Len(y.up) = Len(conns[l].up) + 1
    BY <1>3, <2>2, SentType DEF WebInv, Types
  <2>5. Room(l) /\ page' = [page EXCEPT ![p] = q] /\ conns' = With(l, c)
    BY <1>10 DEF OnSettings, HelloSent, l
  <2>6. f.v # 0 => hello = f.v
    OBVIOUS
  <2> HIDE DEF y, q, frame, hello
  <2>7. /\ y.up = Append(conns[l].up, frame) /\ y.down = conns[l].down /\ y.kind = conns[l].kind
        /\ y.ours = conns[l].ours /\ y.peer = conns[l].peer /\ y.wrong = conns[l].wrong
        /\ y.right = conns[l].right
    BY <1>3, <2>4 DEF Connection
  <2>8. /\ c \in Connection /\ c.up = y.up /\ c.down = Tail(y.down) /\ c.kind = y.kind /\ c.ours = y.ours
        /\ c.peer = y.peer /\ c.wrong = y.wrong /\ c.right = y.right
    BY <1>4, <2>4, <2>7 DEF Connection
  <2> HIDE DEF c
  <2>9. Len(c.up) <= MaxFrames /\ c.peer /\ conns[l].up \in Seq(UpFrame)
    BY <1>3, <2>4, <2>5, <2>7, <2>8, ConnParts, WebAssumption DEF Room
  <2>10. OpenFirst(q.at, c.down)
    BY <1>1, <1>3, <2>7, <2>8, OpenTail
  <2>11. l = cur => host # "pin"
    BY <1>5, <1>10
  <2>12. ASSUME l = cur, host \in Served
         PROVE  SessionState(q, c, host, settings) /\ c.right /\ c.wrong < MaxTries
    <3>1. SessionState(page[p], conns[l], host, settings) /\ Len(conns[l].down) = 1
      BY <1>6, <1>10, <2>12
    <3>2. c.down = <<>>
      BY <1>1, <1>3, <2>7, <2>8, <3>1, OneTail
    <3>3. page[p].handed = 0
      BY <1>4, <1>10, <3>1 DEF SessionState, No
    <3>4. ASSUME q.handed # 0
          PROVE  page[p].at = "paired" /\ q.handed = f.v /\ hello = q.handed
      BY <2>3, <2>6, <3>3, <3>4
    <3>5. q.handed # 0 => No(conns[l].up, "Hello") /\ host = "hello"
      BY <3>1, <3>4 DEF SessionState
    <3>6. q.handed # 0 => \A k \in DOMAIN c.up : c.up[k].type = "Hello" => c.up[k].v = q.handed
      <4> SUFFICES ASSUME q.handed # 0, NEW k \in DOMAIN c.up, c.up[k].type = "Hello" PROVE c.up[k].v = q.handed
        OBVIOUS
      <4>1. /\ c.up = Append(conns[l].up, frame) /\ DOMAIN c.up = 1 .. Len(conns[l].up) + 1
            /\ c.up[Len(conns[l].up) + 1] = frame
            /\ \A m \in 1 .. Len(conns[l].up) : c.up[m] = conns[l].up[m]
        BY <2>2, <2>7, <2>8, <2>9
      <4> QED
        BY <2>2, <3>4, <3>5, <4>1 DEF No
    <3>7. c.right /\ c.wrong < MaxTries
      BY <1>2, <2>7, <2>8, <2>12, LinkFacts DEF l
    <3> QED
      BY <2>3, <3>2, <3>5, <3>6, <3>7 DEF SessionState, No
  <2>13. /\ c \in Connection' /\ q \in PageState' /\ edits \in Nat /\ edits' \in Nat /\ edits <= edits'
    <3>1. edits \in Nat
      BY DEF WebInv, Types, FileOK
    <3> QED
      BY <1>1, <2>3, <2>8, <3>1 DEF Connection, PageState, UpFrame, DownFrame, Setting
  <2>14. page[p].link = l /\ c.kind = conns[l].kind /\ c.ours = conns[l].ours /\ q.link = l /\ q.at # "closed"
    BY <2>3, <2>7, <2>8 DEF l
  <2>15. ~InQueue(l)
    BY <1>1, <1>2, LinkFacts DEF l
  <2> QED
    BY <1>1, <1>3, <2>3, <2>5, <2>9, <2>10, <2>11, <2>12, <2>13, <2>14, <2>15, PageActs
<1> QED
  BY <1>1, <1>7, <1>8, <1>9, <1>10

LEMMA DisconnectInv ==
    ASSUME WebInv, NEW p \in Pages, Disconnect(p)
    PROVE  WebInv'
<1> DEFINE l == page[p].link
           frame == Frame("Bye", 0)
           d == [conns[l] EXCEPT !.peer = FALSE, !.down = <<>>, !.up = @ \o << frame >>]
<1>1. /\ page[p].at \in {"prompt", "paired", "live"} /\ Room(l) /\ Left(p, << frame >>)
      /\ UNCHANGED <<streamerVars, guiVars, stop, edits>>
  BY DEF Disconnect, Live
<1>2. /\ l \in Conns /\ conns[l] \in Connection /\ conns[l].up \in Seq(UpFrame) /\ ~InQueue(l)
      /\ l = cur /\ host = "pin" => CodesCounted(conns[l], pinTries)
  BY <1>1, LinkFacts
<1>3. frame \in UpFrame /\ frame.type = "Bye" /\ << frame >> \in Seq(UpFrame)
  BY DEF Frame, UpFrame
<1> HIDE DEF frame
<1>4. /\ d.up = conns[l].up \o << frame >> /\ d.wrong = conns[l].wrong /\ d.right = conns[l].right
      /\ conns[l].wrong \in Nat
  BY <1>2 DEF Connection
<1> HIDE DEF l
<1>5. d.up = Append(conns[l].up, frame) /\ Len(conns[l].up \o << frame >>) <= MaxFrames
  BY <1>1, <1>2, <1>3, <1>4, WebAssumption DEF Room
<1>6. ~WrongCode(frame) /\ ~RightCode(frame)
  BY <1>3 DEF WrongCode, RightCode
<1> HIDE DEF d
<1>7. CodesCounted(conns[l], pinTries) => CodesCounted(d, pinTries)
  BY <1>2, <1>3, <1>4, <1>5, <1>6, CountedAppend
<1>8. l = cur /\ host = "pin" => CodesCounted(d, pinTries)
  BY <1>2, <1>7
<1> QED
  BY <1>1, <1>2, <1>3, <1>5, <1>8, PageLeaves DEF d, l

LEMMA DropInv ==
    ASSUME WebInv, NEW p \in Pages, page[p].link # NoConn, Left(p, <<>>),
           UNCHANGED <<streamerVars, guiVars, stop, edits>>
    PROVE  WebInv'
<1> DEFINE l == page[p].link
           d == [conns[l] EXCEPT !.peer = FALSE, !.down = <<>>, !.up = @ \o <<>>]
<1>1. page[p].at # "closed"
  BY DEF WebInv, Linked, LinkOK
<1>2. /\ l \in Conns /\ conns[l] \in Connection /\ conns[l].up \in Seq(UpFrame)
      /\ Len(conns[l].up) <= MaxFrames
      /\ l = cur /\ host = "pin" => CodesCounted(conns[l], pinTries)
  BY <1>1, LinkFacts
<1>3. conns[l].up \o <<>> = conns[l].up /\ <<>> \in Seq(UpFrame)
  BY <1>2
<1>4. d.up = conns[l].up /\ d.wrong = conns[l].wrong /\ d.right = conns[l].right
  BY <1>2, <1>3 DEF Connection
<1> HIDE DEF l, d
<1>5. l = cur /\ host = "pin" => CodesCounted(d, pinTries)
  BY <1>2, <1>4, CountedSame
<1>6. Len(conns[l].up \o <<>>) <= MaxFrames
  BY <1>2, <1>3
<1> QED
  BY <1>2, <1>3, <1>5, <1>6, PageLeaves DEF l, d

-----------------------------------------------------------------------------
(* Connections open, and the ones that are not of a page end.              *)

LEMMA OpenFacts ==
    ASSUME WebInv, NEW kind \in Kinds, NEW i \in Conns, Open(kind, i)
    PROVE  /\ i # cur /\ ~InQueue(i) /\ cur' = cur /\ host' = host /\ pinTries' = pinTries
           /\ settings' = settings /\ edits' = edits
           /\ \A j \in Conns : j # i => conns'[j] = conns[j]
           /\ conns'[i] = Fresh(kind)
           /\ \A j : InQueue(j)' <=> InQueue(j) \/ j = i
           /\ \A p \in Pages : page[p].link # i
           /\ ConnsOK' /\ HostOK' /\ FileOK' /\ HeldOK' /\ Queued' /\ Stage'
           /\ host = "pin" => CodesCounted(conns'[cur], pinTries)
           /\ StreamNeedsCode'
           /\ cur # NoConn => conns'[cur] = conns[cur]
<1>0. /\ conns[i] = None /\ conns' = With(i, Fresh(kind)) /\ queue' = Append(queue, i)
      /\ host' = host /\ cur' = cur /\ pinTries' = pinTries /\ loaded' = loaded
      /\ settings' = settings /\ file' = file /\ lines' = lines /\ writing' = writing /\ edits' = edits
  BY DEF Open, guiVars
<1>1. /\ ConnsOK /\ PagesOK /\ HostOK /\ FileOK /\ HeldOK /\ None \in Connection
      /\ Setting' = Setting /\ Connection' = Connection
  BY <1>0, NoneType DEF WebInv, Types, Setting, Connection, UpFrame, DownFrame
<1>2. /\ Fresh(kind) \in Connection /\ Fresh(kind).peer = TRUE /\ Fresh(kind).ours = TRUE
      /\ Fresh(kind).kind = kind /\ Len(Fresh(kind).up) <= MaxFrames /\ (kind = "ws" => Blank(Fresh(kind)))
  <2>1. Fresh(kind) \in Connection
    BY <1>1, FreshType
  <2>2. /\ Fresh(kind).peer = TRUE /\ Fresh(kind).ours = TRUE /\ Fresh(kind).kind = kind
        /\ Fresh(kind).down = <<>> /\ Fresh(kind).wrong = 0 /\ Fresh(kind).right = FALSE
        /\ Fresh(kind).up = IF kind = "native" THEN << Frame("Hello", 0) >> ELSE <<>>
    BY DEF Fresh
  <2>3. Len(<< Frame("Hello", 0) >>) = 1 /\ Len(<<>>) = 0
    OBVIOUS
  <2> QED
    BY <2>1, <2>2, <2>3, WebAssumption DEF Blank
<1>3. /\ conns' \in [Conns -> Connection] /\ \A j \in Conns : j # i => conns'[j] = conns[j]
      /\ conns'[i] = Fresh(kind)
  BY <1>0, <1>1, <1>2, WithIs DEF ConnsOK
<1>4. None.peer = FALSE /\ None.ours = FALSE
  BY DEF None
<1>5. i # cur /\ ~InQueue(i)
  BY <1>0, <1>1, <1>4 DEF HeldOK
<1>6. /\ queue' \in Seq(Conns) /\ DOMAIN queue' = DOMAIN queue \cup {Len(queue) + 1}
      /\ Len(queue) + 1 \notin DOMAIN queue
      /\ queue'[Len(queue) + 1] = i /\ \A k \in DOMAIN queue : queue'[k] = queue[k] /\ queue[k] \in Conns
  BY <1>0, <1>1 DEF HostOK
<1>7. \A j : InQueue(j)' <=> InQueue(j) \/ j = i
  BY <1>6 DEF InQueue
<1>8. \A p \in Pages : page[p].link # i
  BY <1>0, <1>4, ConnNames DEF WebInv, Linked, LinkOK
<1>9. ConnsOK' /\ HostOK' /\ FileOK'
  <2>1. ConnsOK'
    BY <1>1, <1>3 DEF ConnsOK
  <2>2. HostOK'
    BY <1>0, <1>1, <1>6 DEF HostOK
  <2>3. FileOK'
    BY <1>0, <1>1 DEF FileOK
  <2> QED
    BY <2>1, <2>2, <2>3
<1>10. HeldOK'
  <2> SUFFICES ASSUME NEW j \in Conns
               PROVE  /\ Len(conns'[j].up) <= MaxFrames
                      /\ conns'[j].peer \/ conns'[j].ours <=> conns'[j] # None
                      /\ conns'[j].ours <=> j = cur' \/ InQueue(j)'
    BY DEF HeldOK
  <2>1. CASE j = i
    BY <2>1, <1>2, <1>3, <1>4, <1>7
  <2>2. CASE j # i
    BY <2>2, <1>0, <1>1, <1>3, <1>7 DEF HeldOK
  <2> QED
    BY <2>1, <2>2
<1>11. Queued'
  <2>1. \A k \in DOMAIN queue : queue[k] # i
    BY <1>5 DEF InQueue
  <2>2. \A k, m \in DOMAIN queue' : queue'[k] = queue'[m] => k = m
    BY <1>6, <2>1 DEF WebInv, Queued
  <2>3. ASSUME NEW k \in DOMAIN queue'
        PROVE  queue'[k] # cur' /\ (conns'[queue'[k]].kind = "ws" => Blank(conns'[queue'[k]]))
    <3>1. CASE k = Len(queue) + 1
      BY <3>1, <1>0, <1>2, <1>3, <1>5, <1>6
    <3>2. CASE k # Len(queue) + 1
      BY <3>2, <1>0, <1>3, <1>6, <2>1 DEF WebInv, Queued
    <3> QED
      BY <3>1, <3>2
  <2> QED
    BY <2>2, <2>3 DEF Queued
<1>12. cur # NoConn => conns'[cur] = conns[cur]
  BY <1>1, <1>3, <1>5 DEF HostOK
<1>13. host = "pin" \/ host \in Served \/ host \in {"headers", "blocked"} => cur # NoConn
  BY <1>1 DEF HostOK, Served
<1>14. Stage' /\ StreamNeedsCode' /\ (host = "pin" => CodesCounted(conns'[cur], pinTries))
  BY <1>0, <1>12, <1>13 DEF WebInv, Stage, ServedOK, StreamNeedsCode, Serving, Served
<1> QED
  BY <1>0, <1>3, <1>5, <1>7, <1>8, <1>9, <1>10, <1>11, <1>12, <1>14

LEMMA ConnectInv ==
    ASSUME WebInv, NEW p \in Pages, NEW i \in Sockets(p), ConnectPage(p, i)
    PROVE  WebInv'
<1> DEFINE q == [page[p] EXCEPT !.at = "waiting", !.link = i, !.hello = page[p].local]
<1>1. "ws" \in Kinds /\ i \in Conns /\ i # NoConn
  BY ConnNames DEF Kinds
<1>2. Open("ws", i) /\ page[p].at = "closed" /\ page' = [page EXCEPT ![p] = q]
  BY DEF ConnectPage
<1>3. /\ page[p] \in PageState /\ page \in [Pages -> PageState] /\ (page[p].timer => page[p].at = "paired")
      /\ Untold(page[p])
  BY <1>2 DEF WebInv, Types, PagesOK, Linked, LinkOK
<1>4. /\ q \in PageState /\ q.at = "waiting" /\ q.link = i /\ ~q.timer /\ q.left = page[p].left
      /\ q.handed = page[p].handed
  BY <1>1, <1>2, <1>3 DEF PageState
<1> HIDE DEF q
<1>5. /\ i # cur /\ ~InQueue(i) /\ cur' = cur /\ host' = host /\ pinTries' = pinTries
      /\ settings' = settings /\ edits' = edits
      /\ \A j \in Conns : j # i => conns'[j] = conns[j]
      /\ conns'[i] = Fresh("ws")
      /\ \A j : InQueue(j)' <=> InQueue(j) \/ j = i
      /\ \A r \in Pages : page[r].link # i
      /\ ConnsOK' /\ HostOK' /\ FileOK' /\ HeldOK' /\ Queued' /\ Stage'
      /\ host = "pin" => CodesCounted(conns'[cur], pinTries)
      /\ StreamNeedsCode'
      /\ cur # NoConn => conns'[cur] = conns[cur]
  BY <1>1, <1>2, OpenFacts
<1>6. page'[p] = q /\ (\A r \in Pages : r # p => page'[r] = page[r]) /\ page' \in [Pages -> PageState]
  BY <1>2, <1>3, <1>4
<1>7. PageState' = PageState
  BY <1>5 DEF PageState, Setting
<1>8. PagesOK'
  BY <1>4, <1>6, <1>7 DEF PagesOK, WebInv, Types
<1>9. Linked'
  <2> SUFFICES ASSUME NEW r \in Pages PROVE LinkOK(r)'
    BY DEF Linked
  <2>1. CASE r = p
    <3>1. Fresh("ws").peer = TRUE /\ Fresh("ws").kind = "ws" /\ Fresh("ws").down = <<>>
      BY DEF Fresh
    <3>2. OpenFirst(q.at, Fresh("ws").down)
      BY <3>1 DEF OpenFirst
    <3>3. Untold(q)
      BY <1>3, <1>4 DEF Untold
    <3> QED
      BY <2>1, <3>1, <3>2, <3>3, <1>1, <1>4, <1>5, <1>6 DEF LinkOK
  <2>2. CASE r # p
    <3>1. LinkOK(r) /\ page'[r] = page[r] /\ page[r].link # i
      BY <2>2, <1>5, <1>6 DEF WebInv, Linked
    <3>2. page[r].link # NoConn => conns'[page[r].link] = conns[page[r].link]
      BY <1>5, <3>1, ConnNames DEF LinkOK
    <3> QED
      BY <3>1, <3>2, <1>5 DEF LinkOK
  <2> QED
    BY <2>1, <2>2
<1>10. ServedOK'
  <2>1. \A r \in Pages : page'[r].link = cur => page'[r] = page[r]
    BY <1>4, <1>5, <1>6
  <2>2. host = "pin" \/ host \in Served => cur # NoConn
    BY DEF WebInv, Types, HostOK, Served
  <2> QED
    BY <1>5, <2>1, <2>2 DEF WebInv, ServedOK, Served
<1> QED
  BY <1>5, <1>8, <1>9, <1>10 DEF WebInv, Types

LEMMA OpenExtraInv ==
    ASSUME WebInv, NEW kind \in Extras, OpenExtra(kind)
    PROVE  WebInv'
<1> DEFINE i == <<kind, 0>>
<1>1. kind \in Kinds /\ i \in Conns /\ Open(kind, i) /\ page' = page
  BY ConnNames DEF Kinds, OpenExtra
<1> HIDE DEF i
<1>2. /\ i # cur /\ cur' = cur /\ host' = host /\ pinTries' = pinTries
      /\ settings' = settings /\ edits' = edits
      /\ \A j \in Conns : j # i => conns'[j] = conns[j]
      /\ \A j : InQueue(j)' <=> InQueue(j) \/ j = i
      /\ \A r \in Pages : page[r].link # i
      /\ ConnsOK' /\ HostOK' /\ FileOK' /\ HeldOK' /\ Queued' /\ Stage'
      /\ host = "pin" => CodesCounted(conns'[cur], pinTries)
      /\ StreamNeedsCode'
      /\ cur # NoConn => conns'[cur] = conns[cur]
  BY <1>1, OpenFacts
<1>3. PagesOK'
  BY <1>1, <1>2 DEF PagesOK, PageState, Setting, WebInv, Types
<1>4. Linked'
  <2> SUFFICES ASSUME NEW r \in Pages PROVE LinkOK(r)'
    BY DEF Linked
  <2>1. LinkOK(r) /\ page'[r] = page[r] /\ page[r].link # i
    BY <1>1, <1>2 DEF WebInv, Linked
  <2>2. page[r].link # NoConn => conns'[page[r].link] = conns[page[r].link]
    BY <1>2, <2>1, ConnNames DEF LinkOK
  <2> QED
    BY <2>1, <2>2, <1>2 DEF LinkOK
<1>5. ServedOK'
  <2>1. host = "pin" \/ host \in Served => cur # NoConn
    BY DEF WebInv, Types, HostOK, Served
  <2> QED
    BY <1>1, <1>2, <2>1 DEF WebInv, ServedOK, Served
<1> QED
  BY <1>2, <1>3, <1>4, <1>5 DEF WebInv, Types

LEMMA CloseExtraInv ==
    ASSUME WebInv, NEW kind \in Extras, CloseExtra(kind)
    PROVE  WebInv'
<1> DEFINE i == <<kind, 0>>
           c == [conns[i] EXCEPT !.peer = FALSE]
<1>0. /\ queue' = queue /\ host' = host /\ cur' = cur /\ pinTries' = pinTries /\ loaded' = loaded /\ page' = page
      /\ settings' = settings /\ file' = file /\ lines' = lines /\ writing' = writing /\ edits' = edits
      /\ conns' = With(i, c)
  BY DEF CloseExtra, streamerVars, guiVars
<1>1. /\ ConnsOK /\ PagesOK /\ HostOK /\ FileOK /\ HeldOK /\ None \in Connection
      /\ Setting' = Setting /\ Connection' = Connection /\ PageState' = PageState
  BY <1>0, NoneType DEF WebInv, Types, Setting, Connection, PageState, UpFrame, DownFrame
<1>2. i \in Conns /\ \A p \in Pages : page[p].link # i
  BY ConnNames DEF WebInv, Linked, LinkOK
<1> HIDE DEF i
<1>3. /\ c \in Connection /\ c.kind = conns[i].kind /\ c.ours = conns[i].ours /\ ~c.peer /\ c.up = conns[i].up
      /\ c.down = conns[i].down /\ c.wrong = conns[i].wrong /\ c.right = conns[i].right
      /\ Len(c.up) <= MaxFrames
  <2>1. conns[i] \in Connection /\ Len(conns[i].up) <= MaxFrames
    BY <1>1, <1>2 DEF ConnsOK, HeldOK
  <2> QED
    BY <2>1 DEF Connection
<1> HIDE DEF c
<1>4. /\ conns' \in [Conns -> Connection] /\ \A j \in Conns : j # i => conns'[j] = conns[j]
      /\ conns'[i] = IF c.peer \/ c.ours THEN c ELSE None
  BY <1>0, <1>1, <1>2, <1>3, WithIs DEF ConnsOK
<1>5. Types'
  <2>1. ConnsOK' /\ PagesOK' /\ HostOK' /\ FileOK'
    BY <1>0, <1>1, <1>4 DEF ConnsOK, PagesOK, HostOK, FileOK
  <2>2. HeldOK'
    BY <1>0, <1>1, <1>2, <1>3, HeldKept DEF ConnsOK
  <2> QED
    BY <2>1, <2>2 DEF Types
<1>6. \A k \in DOMAIN queue : queue[k] = i => conns[i].ours
  BY <1>1, <1>2 DEF HeldOK, InQueue
<1>7. Queued'
  <2> SUFFICES ASSUME NEW k \in DOMAIN queue
               PROVE  conns'[queue[k]].kind = "ws" => Blank(conns'[queue[k]])
    BY <1>0 DEF WebInv, Queued
  <2>1. queue[k] \in Conns /\ (conns[queue[k]].kind = "ws" => Blank(conns[queue[k]]))
    BY <1>1 DEF HostOK, WebInv, Queued
  <2>2. CASE queue[k] = i
    BY <2>1, <2>2, <1>3, <1>4, <1>6 DEF Blank
  <2>3. CASE queue[k] # i
    BY <2>1, <2>3, <1>4
  <2> QED
    BY <2>2, <2>3
<1>8. Linked'
  <2> SUFFICES ASSUME NEW r \in Pages PROVE LinkOK(r)'
    BY DEF Linked
  <2>1. LinkOK(r) /\ page'[r] = page[r] /\ page[r].link # i
    BY <1>0, <1>2 DEF WebInv, Linked
  <2>2. page[r].link # NoConn => conns'[page[r].link] = conns[page[r].link]
    BY <1>4, <2>1, ConnNames DEF LinkOK
  <2>3. \A j : InQueue(j)' <=> InQueue(j)
    BY <1>0 DEF InQueue
  <2> QED
    BY <2>1, <2>2, <2>3 DEF LinkOK
<1>9. cur # NoConn => /\ cur \in Conns
                      /\ conns'[cur] = IF cur = i THEN c ELSE conns[cur]
  <2>1. cur = i => c.ours
    BY <1>1, <1>2, <1>3 DEF HeldOK
  <2> QED
    BY <1>1, <1>4, <2>1 DEF HostOK
<1>10. host = "pin" \/ host \in Served \/ host \in {"headers", "blocked"} => cur # NoConn
  BY <1>1 DEF HostOK, Served
<1>11. Stage'
  BY <1>0, <1>3, <1>9, <1>10 DEF WebInv, Stage, Served
<1>12. StreamNeedsCode'
  BY <1>0, <1>3, <1>9, <1>10 DEF WebInv, ServedOK, StreamNeedsCode, Serving, Served
<1>13. host = "pin" => CodesCounted(conns'[cur], pinTries)
  <2>1. CodesCounted(conns[i], pinTries) => CodesCounted(c, pinTries)
    BY <1>3, CountedSame
  <2> QED
    BY <1>9, <1>10, <2>1 DEF WebInv, ServedOK
<1>14. ServedOK'
  BY <1>0, <1>2, <1>9, <1>10, <1>12, <1>13 DEF WebInv, ServedOK, Served
<1> QED
  BY <1>5, <1>7, <1>8, <1>11, <1>14 DEF WebInv

-----------------------------------------------------------------------------
(* Steps of the streamer.                                                  *)

LEMMA SameTypes ==
    ASSUME WebInv, UNCHANGED edits
    PROVE  /\ ConnsOK /\ PagesOK /\ HostOK /\ FileOK /\ HeldOK /\ None \in Connection
           /\ Setting' = Setting /\ Connection' = Connection /\ PageState' = PageState
  BY NoneType DEF WebInv, Types, Setting, Connection, PageState, UpFrame, DownFrame

LEMMA FileSame ==
    ASSUME WebInv, UNCHANGED <<edits, guiVars>>
    PROVE  FileOK'
<1>1. FileOK /\ Setting' = Setting
  BY SameTypes
<1> QED
  BY <1>1 DEF FileOK, guiVars

\* Nothing happens on the connections.
LEMMA Quiet ==
    ASSUME WebInv, UNCHANGED <<conns, queue, cur, pinTries, settings, page, edits>>, FileOK',
           loaded' \in Setting, host' = host \/ (cur = NoConn /\ host' \in {"load", "accept", "exit"})
    PROVE  WebInv'
<1>0. /\ conns' = conns /\ queue' = queue /\ cur' = cur /\ pinTries' = pinTries /\ settings' = settings
      /\ page' = page /\ edits' = edits
  OBVIOUS
<1>1. /\ ConnsOK /\ PagesOK /\ HostOK /\ FileOK /\ HeldOK
      /\ Setting' = Setting /\ Connection' = Connection /\ PageState' = PageState
  BY SameTypes
<1>2. Types'
  <2>1. ConnsOK' /\ PagesOK' /\ HeldOK'
    BY <1>0, <1>1 DEF ConnsOK, PagesOK, HeldOK, InQueue
  <2>2. HostOK'
    BY <1>0, <1>1 DEF HostOK
  <2> QED
    BY <2>1, <2>2 DEF Types
<1>3. Queued' /\ Linked'
  BY <1>0 DEF WebInv, Queued, Linked, LinkOK, InQueue
<1>4. CASE host' = host
  BY <1>0, <1>2, <1>3, <1>4 DEF WebInv, Stage, ServedOK, StreamNeedsCode, Serving
<1>5. CASE cur = NoConn /\ host' \in {"load", "accept", "exit"}
  <2>1. host \in {"load", "accept", "exit"}
    BY <1>1, <1>5 DEF HostOK
  <2>2. Stage' /\ ServedOK'
    BY <1>0, <1>5, <2>1 DEF WebInv, Stage, ServedOK, StreamNeedsCode, Serving, Served
  <2> QED
    BY <1>2, <1>3, <2>2 DEF WebInv
<1> QED
  BY <1>4, <1>5

\* The streamer goes on with the connection that it serves, which becomes c.
LEMMA HostServes ==
    ASSUME WebInv, cur \in Conns, NEW c \in Connection, conns' = With(cur, c),
           c.kind = conns[cur].kind, c.ours = conns[cur].ours, c.peer = conns[cur].peer,
           Len(c.up) <= MaxFrames,
           UNCHANGED <<queue, cur, loaded, page, edits>>, FileOK',
           host' \in {"pin", "hello", "stream"}, pinTries' \in 0 .. MaxTries - 1, settings' \in Setting,
           pinTries' # 0 => host' = "pin",
           host' = "pin" => c.kind = "ws" /\ CodesCounted(c, pinTries'),
           host' \in Served /\ c.kind = "ws" => c.right /\ c.wrong < MaxTries,
           \A p \in Pages : page[p].link = cur =>
              /\ OpenFirst(page[p].at, c.down)
              /\ host' = "pin" => PinState(page[p], c, pinTries')
              /\ host' \in Served => SessionState(page[p], c, host', settings')
    PROVE  WebInv'
<1>0. /\ queue' = queue /\ cur' = cur /\ loaded' = loaded /\ page' = page /\ edits' = edits
  OBVIOUS
<1>1. /\ ConnsOK /\ PagesOK /\ HostOK /\ FileOK /\ HeldOK /\ None \in Connection
      /\ Setting' = Setting /\ Connection' = Connection /\ PageState' = PageState
  BY SameTypes
<1>2. c.ours /\ cur # NoConn /\ ~InQueue(cur)
  BY <1>1, ConnNames DEF HeldOK, WebInv, Queued, InQueue
<1>3. /\ conns' \in [Conns -> Connection] /\ \A j \in Conns : j # cur => conns'[j] = conns[j]
      /\ conns'[cur] = c
  BY <1>1, <1>2, WithIs DEF ConnsOK
<1>4. \A j : InQueue(j)' <=> InQueue(j)
  BY <1>0 DEF InQueue
<1>5. Types'
  <2>1. ConnsOK' /\ PagesOK'
    BY <1>0, <1>1, <1>3 DEF ConnsOK, PagesOK
  <2>2. HostOK'
    BY <1>0, <1>1, <1>2 DEF HostOK
  <2>3. HeldOK'
    BY <1>0, <1>1, HeldKept DEF ConnsOK
  <2> QED
    BY <2>1, <2>2, <2>3 DEF Types
<1>6. Queued'
  <2>1. \A k \in DOMAIN queue : queue[k] \in Conns /\ queue[k] # cur
    BY <1>1, <1>2 DEF HostOK, InQueue
  <2> QED
    BY <1>0, <1>3, <2>1 DEF WebInv, Queued
<1>7. Linked'
  <2> SUFFICES ASSUME NEW r \in Pages PROVE LinkOK(r)'
    BY DEF Linked
  <2>1. LinkOK(r) /\ page'[r] = page[r]
    BY <1>0 DEF WebInv, Linked
  <2>2. CASE page[r].link = cur
    BY <1>2, <1>3, <1>4, <2>1, <2>2 DEF LinkOK
  <2>3. CASE page[r].link # cur
    <3>1. page[r].link # NoConn => conns'[page[r].link] = conns[page[r].link]
      BY <1>3, <2>1, <2>3, ConnNames DEF LinkOK
    <3> QED
      BY <1>4, <2>1, <3>1 DEF LinkOK
  <2> QED
    BY <2>2, <2>3
<1>8. Stage'
  BY <1>0, <1>3 DEF Stage
<1>9. ServedOK'
  <2>1. StreamNeedsCode'
    BY <1>0, <1>3 DEF StreamNeedsCode, Serving, Served
  <2> QED
    BY <1>0, <1>3, <2>1 DEF ServedOK, Served
<1> QED
  BY <1>5, <1>6, <1>7, <1>8, <1>9 DEF WebInv

\* The streamer closes connection i, after the frames, and serves none.
LEMMA HostDrops ==
    ASSUME WebInv, NEW i \in Conns, NEW frames \in Seq(DownFrame), No(frames, "Open"),
           conns' = Shut(i, frames), cur' = NoConn, host' \in {"load", "accept", "exit"},
           pinTries' = 0, settings' \in Setting, loaded' \in Setting, UNCHANGED <<page, edits>>, FileOK',
           queue' \in Seq(Conns), Queued', ~InQueue(i)',
           \A j \in Conns : j # i => (InQueue(j)' <=> j = cur \/ InQueue(j)),
           \A j : InQueue(j)' => InQueue(j)
    PROVE  WebInv'
<1> DEFINE x == conns[i]
           left == IF x.peer THEN x.down \o frames ELSE <<>>
           d == [x EXCEPT !.ours = FALSE, !.up = <<>>, !.down = left]
           c == IF x.kind = "ws" THEN d ELSE None
<1>0. page' = page /\ edits' = edits
  OBVIOUS
<1>1. /\ ConnsOK /\ PagesOK /\ HostOK /\ FileOK /\ HeldOK /\ None \in Connection
      /\ Setting' = Setting /\ Connection' = Connection /\ PageState' = PageState
  BY SameTypes
<1>2. x \in Connection /\ x.down \o frames \in Seq(DownFrame) /\ x.down \in Seq(DownFrame) /\ x.peer \in BOOLEAN
  BY <1>1, ConnParts DEF ConnsOK
<1>3. /\ d \in Connection /\ d.ours = FALSE /\ d.up = <<>> /\ d.kind = x.kind /\ d.peer = x.peer
      /\ d.down = left
  <2>1. left \in Seq(DownFrame) /\ <<>> \in Seq(UpFrame)
    BY <1>2
  <2> HIDE DEF left, x
  <2>2. d \in Connection
    BY <1>2, <2>1 DEF Connection
  <2>3. d.ours = FALSE /\ d.up = <<>> /\ d.kind = x.kind /\ d.peer = x.peer /\ d.down = left
    BY <1>2 DEF Connection
  <2> QED
    BY <2>2, <2>3
<1>4. conns' = With(i, c)
  <2>1. [x EXCEPT !.ours = FALSE, !.up = <<>>, !.down = IF x.peer THEN @ \o frames ELSE <<>>] = d
    BY <1>2 DEF Connection
  <2> QED
    BY <2>1 DEF Shut
<1> HIDE DEF x, d
<1>5. None.peer = FALSE /\ None.ours = FALSE /\ None.up = <<>>
  BY DEF None
<1>6. c \in Connection /\ c.ours = FALSE /\ c.up = <<>> /\ (x.kind = "ws" => c = d)
  BY <1>1, <1>3, <1>5
<1> HIDE DEF c
<1>7. /\ conns' \in [Conns -> Connection] /\ \A j \in Conns : j # i => conns'[j] = conns[j]
      /\ conns'[i] = IF c.peer \/ c.ours THEN c ELSE None
  BY <1>1, <1>4, <1>6, WithIs DEF ConnsOK
<1>8. Types'
  <2>1. ConnsOK' /\ PagesOK'
    BY <1>0, <1>1, <1>7 DEF ConnsOK, PagesOK
  <2>2. HostOK'
    BY <1>1, WebAssumption DEF HostOK
  <2>3. HeldOK'
    <3> SUFFICES ASSUME NEW j \in Conns
                 PROVE  /\ Len(conns'[j].up) <= MaxFrames
                        /\ conns'[j].peer \/ conns'[j].ours <=> conns'[j] # None
                        /\ conns'[j].ours <=> j = cur' \/ InQueue(j)'
      BY DEF HeldOK
    <3>1. j # cur'
      BY ConnNames
    <3>2. CASE j = i
      BY <3>1, <3>2, <1>5, <1>6, <1>7, WebAssumption
    <3>3. CASE j # i
      BY <3>1, <3>3, <1>1, <1>7 DEF HeldOK
    <3> QED
      BY <3>2, <3>3
  <2> QED
    BY <2>1, <2>2, <2>3 DEF Types
<1>9. Linked'
  <2> SUFFICES ASSUME NEW r \in Pages PROVE LinkOK(r)'
    BY DEF Linked
  <2>1. LinkOK(r) /\ page'[r] = page[r]
    BY <1>0 DEF WebInv, Linked
  <2>2. CASE page[r].link = i
    <3>1. x.peer /\ x.kind = "ws" /\ i # NoConn /\ OpenFirst(page[r].at, x.down)
      BY <2>1, <2>2, ConnNames DEF LinkOK, x
    <3>2. conns'[i] = d /\ d.peer /\ d.kind = "ws" /\ d.down = x.down \o frames
      BY <1>3, <1>6, <1>7, <3>1
    <3>3. OpenFirst(page[r].at, d.down)
      BY <1>2, <3>1, <3>2, OpenJoin
    <3> QED
      BY <2>1, <2>2, <3>1, <3>2, <3>3 DEF LinkOK
  <2>3. CASE page[r].link # i
    <3>1. page[r].link # NoConn => conns'[page[r].link] = conns[page[r].link]
      BY <1>7, <2>1, <2>3, ConnNames DEF LinkOK
    <3> QED
      BY <2>1, <3>1 DEF LinkOK
  <2> QED
    BY <2>2, <2>3
<1>10. Stage' /\ ServedOK'
  BY DEF Stage, ServedOK, StreamNeedsCode, Serving, Served
<1> QED
  BY <1>8, <1>9, <1>10 DEF WebInv

\* The served connection is closed: nothing changes in the queue.
LEMMA ServedDropped ==
    ASSUME WebInv, cur \in Conns, NEW frames \in Seq(DownFrame), No(frames, "Open"),
           conns' = Shut(cur, frames), cur' = NoConn, host' \in {"load", "accept", "exit"},
           pinTries' = 0, settings' \in Setting, loaded' \in Setting, UNCHANGED <<queue, page, edits>>, FileOK'
    PROVE  WebInv'
<1>1. HostOK /\ ConnsOK /\ None \in Connection
  BY SameTypes
<1>2. queue' = queue /\ \A j : InQueue(j)' <=> InQueue(j)
  BY DEF InQueue
<1>3. \A k \in DOMAIN queue : queue[k] \in Conns /\ queue[k] # cur
  BY <1>1 DEF HostOK, WebInv, Queued
<1>4. \A j \in Conns : j # cur => conns'[j] = conns[j]
  BY <1>1 DEF Shut, With, ConnsOK
<1>5. Queued'
  BY <1>2, <1>3, <1>4, ConnNames DEF WebInv, Queued
<1>6. ~InQueue(cur)
  BY <1>3 DEF InQueue
<1> QED
  BY <1>1, <1>2, <1>5, <1>6, HostDrops DEF HostOK

LEMMA GoToInv ==
    ASSUME WebInv, cur # NoConn, NEW where \in {"load", "accept", "exit"}, GoTo(where)
    PROVE  WebInv'
<1>1. /\ host' = where /\ cur' = NoConn /\ conns' = Shut(cur, <<>>) /\ pinTries' = 0 /\ settings' = 0
      /\ loaded' = (IF where = "accept" THEN loaded ELSE 0)
      /\ queue' = queue /\ page' = page /\ edits' = edits /\ UNCHANGED guiVars
  BY DEF GoTo
<1>2. HostOK /\ FileOK /\ Setting' = Setting
  BY <1>1, SameTypes
<1>3. 0 \in Setting
  BY <1>2 DEF FileOK, Setting
<1>4. /\ cur \in Conns /\ settings' \in Setting /\ loaded' \in Setting /\ <<>> \in Seq(DownFrame)
      /\ No(<<>>, "Open")
  BY <1>1, <1>2, <1>3 DEF HostOK, No
<1>5. FileOK'
  BY <1>1, <1>2 DEF FileOK, guiVars
<1> QED
  BY <1>1, <1>4, <1>5, ServedDropped

\* A frame of the served connection is read, and frames answer it.
LEMMA ConsumedIs ==
    ASSUME WebInv, cur \in Conns, conns[cur].up # <<>>, NEW frames \in Seq(DownFrame)
    PROVE  \E c \in Connection :
              /\ Consumed(frames) = With(cur, c)
              /\ c.up = Tail(conns[cur].up) /\ Len(c.up) <= MaxFrames
              /\ conns[cur].peer => c.down = conns[cur].down \o frames
              /\ c.kind = conns[cur].kind /\ c.ours = conns[cur].ours /\ c.peer = conns[cur].peer
              /\ c.wrong = conns[cur].wrong /\ c.right = conns[cur].right
<1> DEFINE x == conns[cur]
           left == IF x.peer THEN x.down \o frames ELSE <<>>
           next == Tail(x.up)
           c == [x EXCEPT !.up = next, !.down = left]
<1>1. x \in Connection /\ Len(x.up) <= MaxFrames
  BY DEF WebInv, Types, ConnsOK, HeldOK
<1>2. x.up \in Seq(UpFrame) /\ x.down \in Seq(DownFrame) /\ x.peer \in BOOLEAN
  BY <1>1, ConnParts
<1>3. next \in Seq(UpFrame) /\ Len(next) <= MaxFrames /\ left \in Seq(DownFrame)
  BY <1>1, <1>2, TailType, WebAssumption
<1>4. Consumed(frames) = With(cur, c)
  BY <1>1 DEF Consumed, Connection
<1>5. x.peer => left = x.down \o frames
  OBVIOUS
<1>6. x = conns[cur] /\ next = Tail(x.up)
  OBVIOUS
<1> HIDE DEF x, left, next
<1>7. c \in Connection
  BY <1>1, <1>3 DEF Connection
<1>8. /\ c.up = next /\ c.down = left /\ c.kind = x.kind /\ c.ours = x.ours /\ c.peer = x.peer
      /\ c.wrong = x.wrong /\ c.right = x.right
  BY <1>1 DEF Connection
<1> HIDE DEF c
<1> QED
  BY <1>3, <1>4, <1>5, <1>6, <1>7, <1>8

\* What is known of the served connection, and of its page.
LEMMA ServedFacts ==
    ASSUME WebInv, cur \in Conns
    PROVE  /\ conns[cur] \in Connection /\ conns[cur].up \in Seq(UpFrame) /\ conns[cur].down \in Seq(DownFrame)
           /\ conns[cur].wrong \in Nat
           /\ pinTries \in 0 .. MaxTries - 1 /\ loaded \in Setting /\ settings \in Setting
           /\ host = "pin" => conns[cur].kind = "ws" /\ CodesCounted(conns[cur], pinTries)
           /\ host \in Served /\ conns[cur].kind = "ws" => conns[cur].right /\ conns[cur].wrong < MaxTries
           /\ \A p \in Pages : page[p].link = cur =>
                 /\ page[p].at # "closed" /\ conns[cur].peer /\ OpenFirst(page[p].at, conns[cur].down)
                 /\ host = "pin" => PinState(page[p], conns[cur], pinTries)
                 /\ host \in Served => SessionState(page[p], conns[cur], host, settings)
<1>1. conns[cur] \in Connection /\ pinTries \in 0 .. MaxTries - 1 /\ loaded \in Setting /\ settings \in Setting
  BY DEF WebInv, Types, ConnsOK, HostOK
<1>2. conns[cur].up \in Seq(UpFrame) /\ conns[cur].down \in Seq(DownFrame) /\ conns[cur].wrong \in Nat
  BY <1>1, ConnParts
<1>3. /\ host = "pin" => conns[cur].kind = "ws" /\ CodesCounted(conns[cur], pinTries)
      /\ host \in Served /\ conns[cur].kind = "ws" => conns[cur].right /\ conns[cur].wrong < MaxTries
  BY DEF WebInv, Stage, ServedOK, StreamNeedsCode, Serving, Served
<1>4. ASSUME NEW p \in Pages, page[p].link = cur
      PROVE  /\ page[p].at # "closed" /\ conns[cur].peer /\ OpenFirst(page[p].at, conns[cur].down)
             /\ host = "pin" => PinState(page[p], conns[cur], pinTries)
             /\ host \in Served => SessionState(page[p], conns[cur], host, settings)
  BY <1>4, ConnNames DEF WebInv, Linked, LinkOK, ServedOK
<1> QED
  BY <1>1, <1>2, <1>3, <1>4

LEMMA SessionConsume ==
    ASSUME NEW S, NEW q, NEW c, NEW d, NEW h, NEW s, c.up \in Seq(S), c.up # <<>>,
           SessionState(q, c, h, s), d.up = Tail(c.up), d.down = c.down
    PROVE  SessionState(q, d, h, s)
<1>1. /\ DOMAIN d.up = 1 .. Len(c.up) - 1 /\ DOMAIN c.up = 1 .. Len(c.up) /\ Len(c.up) \in Nat
      /\ \A k \in 1 .. Len(c.up) - 1 : d.up[k] = c.up[k + 1]
  BY TailType
<1>2. No(c.up, "Hello") => No(d.up, "Hello")
  BY <1>1 DEF No
<1>3. (\A k \in DOMAIN c.up : c.up[k].type = "Hello" => c.up[k].v = q.handed)
        => \A k \in DOMAIN d.up : d.up[k].type = "Hello" => d.up[k].v = q.handed
  BY <1>1
<1> QED
  BY <1>2, <1>3 DEF SessionState

LEMMA RightPinInv ==
    ASSUME WebInv, cur \in Conns, RightPin
    PROVE  WebInv'
<1> DEFINE x == conns[cur]
           f == Frame("Paired", 0)
           g == Frame("Settings", loaded)
           frames == << f, g >>
<1>1. /\ host = "pin" /\ x.up # <<>> /\ Head(x.up).type = "Pair" /\ Head(x.up).v
      /\ host' = "hello" /\ pinTries' = 0 /\ conns' = Consumed(frames)
      /\ UNCHANGED <<queue, cur, loaded, settings, guiVars, page, edits>>
  BY DEF RightPin, Arrived
<1>2. /\ x \in Connection /\ x.up \in Seq(UpFrame) /\ x.down \in Seq(DownFrame) /\ x.wrong \in Nat
      /\ pinTries \in 0 .. MaxTries - 1 /\ loaded \in Setting /\ settings \in Setting
      /\ CodesCounted(x, pinTries)
      /\ \A p \in Pages : page[p].link = cur => /\ page[p].at # "closed" /\ x.peer /\ OpenFirst(page[p].at, x.down)
                                              /\ PinState(page[p], x, pinTries)
  BY <1>1, ServedFacts
<1>3. /\ f \in DownFrame /\ g \in DownFrame /\ f.type = "Paired" /\ g.type = "Settings"
  BY <1>2 DEF Frame, DownFrame
<1> HIDE DEF f, g
<1>4. /\ frames \in Seq(DownFrame) /\ No(frames, "Open") /\ Len(frames) = 2 /\ frames[1] = f /\ frames[2] = g
  BY <1>3 DEF No
<1>5. PICK c \in Connection :
         /\ conns' = With(cur, c) /\ c.up = Tail(x.up) /\ Len(c.up) <= MaxFrames
         /\ x.peer => c.down = x.down \o frames
         /\ c.kind = x.kind /\ c.ours = x.ours /\ c.peer = x.peer /\ c.wrong = x.wrong /\ c.right = x.right
  BY <1>1, <1>4, ConsumedIs
<1> HIDE DEF frames, x
<1>6. c.right /\ c.wrong < MaxTries
  <2>1. RightCode(Head(x.up))
    BY <1>1 DEF RightCode
  <2>2. x.right /\ x.wrong <= pinTries
    BY <1>1, <1>2, <2>1, CodeRead
  <2> QED
    BY <1>2, <1>5, <2>2, WebAssumption
<1>7. ASSUME NEW p \in Pages, page[p].link = cur
      PROVE  OpenFirst(page[p].at, c.down) /\ SessionState(page[p], c, "hello", settings)
  <2>1. x.peer /\ OpenFirst(page[p].at, x.down) /\ PinState(page[p], x, pinTries)
    BY <1>2, <1>7
  <2>2. /\ page[p].at = "prompt" /\ page[p].handed = 0 /\ No(x.up, "Hello")
        /\ \A k \in DOMAIN x.down : x.down[k].type = "Rejected"
    BY <1>1, <2>1 DEF PinState
  <2>3. c.down = x.down \o frames
    BY <1>5, <2>1
  <2>4. /\ DOMAIN c.down = 1 .. Len(c.down) /\ Len(c.down) = Len(x.down) + 2 /\ Len(x.down) \in Nat
        /\ \A k \in 1 .. Len(x.down) : c.down[k] = x.down[k]
        /\ c.down[Len(x.down) + 1] = f /\ c.down[Len(x.down) + 2] = g
    <3>1. x.down \in Seq(DownFrame)
      BY <1>2
    <3>2. /\ Len(c.down) = Len(x.down) + Len(frames) /\ Len(x.down) \in Nat /\ DOMAIN c.down = 1 .. Len(c.down)
          /\ \A k \in 1 .. Len(x.down) : c.down[k] = x.down[k]
          /\ \A k \in 1 .. Len(frames) : c.down[Len(x.down) + k] = frames[k]
      <4> DEFINE s == x.down
                 r == c.down
      <4>1. s \in Seq(DownFrame) /\ frames \in Seq(DownFrame) /\ r = s \o frames
        BY <1>4, <2>3, <3>1
      <4> HIDE DEF s, r
      <4>2. /\ Len(r) = Len(s) + Len(frames) /\ Len(s) \in Nat /\ DOMAIN r = 1 .. Len(r)
            /\ \A k \in 1 .. Len(s) : r[k] = s[k]
            /\ \A k \in 1 .. Len(frames) : r[Len(s) + k] = frames[k]
        BY <4>1, Joined
      <4> QED
        BY <4>2 DEF s, r
    <3>4. 1 \in 1 .. Len(frames) /\ 2 \in 1 .. Len(frames)
      BY <1>4
    <3> QED
      BY <1>4, <3>2, <3>4
  <2>5. ASSUME NEW k \in DOMAIN c.down
        PROVE  /\ c.down[k].type # "Open"
               /\ c.down[k].type = "Settings" => k = Len(c.down)
               /\ c.down[k].type = "Paired" => k = Len(c.down) - 1
    <3>1. CASE k \in 1 .. Len(x.down)
      <4>1. k \in DOMAIN x.down /\ c.down[k] = x.down[k]
        BY <1>2, <2>4, <3>1
      <4> QED
        BY <2>2, <4>1
    <3>2. CASE k = Len(x.down) + 1
      BY <1>3, <2>4, <3>2
    <3>3. CASE k = Len(x.down) + 2
      BY <1>3, <2>4, <3>3
    <3> QED
      BY <2>4, <3>1, <3>2, <3>3
  <2>6. No(c.up, "Hello")
    BY <1>1, <1>2, <1>5, <2>2, NoTail
  <2> QED
    BY <2>2, <2>5, <2>6 DEF SessionState, OpenFirst, No
<1>8. FileOK'
  BY <1>1, FileSame
<1>9. settings' \in Setting /\ pinTries' \in 0 .. MaxTries - 1 /\ settings' = settings
  BY <1>1, <1>2, WebAssumption
<1>10. c.kind = conns[cur].kind /\ c.ours = conns[cur].ours /\ c.peer = conns[cur].peer
  BY <1>5 DEF x
<1> QED
  BY <1>1, <1>5, <1>6, <1>7, <1>8, <1>9, <1>10, HostServes

LEMMA WrongPinInv ==
    ASSUME WebInv, cur \in Conns, WrongPin
    PROVE  WebInv'
<1> DEFINE x == conns[cur]
<1>1. /\ host = "pin" /\ x.up # <<>> /\ Head(x.up).type = "Pair" /\ ~Head(x.up).v
      /\ queue' = queue /\ loaded' = loaded /\ settings' = settings /\ page' = page /\ edits' = edits
      /\ UNCHANGED guiVars
  BY DEF WrongPin, Arrived
<1>2. /\ x \in Connection /\ x.up \in Seq(UpFrame) /\ x.down \in Seq(DownFrame) /\ x.wrong \in Nat
      /\ pinTries \in 0 .. MaxTries - 1 /\ loaded \in Setting /\ settings \in Setting
      /\ CodesCounted(x, pinTries) /\ x.kind = "ws"
      /\ \A p \in Pages : page[p].link = cur => /\ page[p].at # "closed" /\ x.peer /\ OpenFirst(page[p].at, x.down)
                                              /\ PinState(page[p], x, pinTries)
  BY <1>1, ServedFacts
<1>3. FileOK' /\ Setting' = Setting
  BY <1>1 DEF FileOK, guiVars, Setting, WebInv, Types
<1>4. CASE pinTries + 1 = MaxTries
  <2>1. host' = "accept" /\ cur' = NoConn /\ pinTries' = 0 /\ conns' = Shut(cur, Rejected(0))
    BY <1>4 DEF WrongPin
  <2>2. Rejected(0) \in Seq(DownFrame) /\ No(Rejected(0), "Open")
    <3>1. Frame("Rejected", 0) \in DownFrame /\ Frame("Rejected", 0).type = "Rejected"
      BY WebAssumption DEF Frame, DownFrame
    <3> QED
      BY <3>1 DEF Rejected, No
  <2>3. settings' \in Setting /\ loaded' \in Setting
    BY <1>1, <1>2
  <2> QED
    BY <1>1, <1>3, <2>1, <2>2, <2>3, ServedDropped
<1>5. CASE pinTries + 1 # MaxTries
  <2> DEFINE n == MaxTries - (pinTries + 1)
             f == Frame("Rejected", n)
  <2>1. host' = "pin" /\ cur' = cur /\ pinTries' = pinTries + 1 /\ conns' = Consumed(<< f >>)
    BY <1>1, <1>5 DEF WrongPin, Rejected
  <2>2. n \in 0 .. MaxTries /\ pinTries' \in 0 .. MaxTries - 1 /\ n = MaxTries - pinTries' /\ pinTries \in Nat
    BY <1>2, <1>5, <2>1, WebAssumption
  <2>3. f \in DownFrame /\ f.type = "Rejected"
    BY <2>2 DEF Frame, DownFrame
  <2>4. << f >> \in Seq(DownFrame) /\ No(<< f >>, "Open")
    BY <2>3 DEF No
  <2>5. PICK c \in Connection :
           /\ conns' = With(cur, c) /\ c.up = Tail(x.up) /\ Len(c.up) <= MaxFrames
           /\ x.peer => c.down = x.down \o << f >>
           /\ c.kind = x.kind /\ c.ours = x.ours /\ c.peer = x.peer /\ c.wrong = x.wrong /\ c.right = x.right
    BY <1>1, <2>1, <2>4, ConsumedIs
  <2> HIDE DEF x, n
  <2>6. CodesCounted(c, pinTries')
    <3>1. WrongCode(Head(x.up))
      BY <1>1 DEF WrongCode
    <3> QED
      BY <1>1, <1>2, <2>1, <2>2, <2>5, <3>1, CountedTail
  <2>7. ASSUME NEW p \in Pages, page[p].link = cur
        PROVE  OpenFirst(page[p].at, c.down) /\ PinState(page[p], c, pinTries')
    <3>1. x.peer /\ OpenFirst(page[p].at, x.down) /\ PinState(page[p], x, pinTries)
      BY <1>2, <2>7
    <3>2. /\ page[p].at = "prompt" /\ page[p].handed = 0 /\ No(x.up, "Hello")
          /\ \A k \in DOMAIN x.down : x.down[k].type = "Rejected"
      BY <1>1, <3>1 DEF PinState
    <3>3. c.down = Append(x.down, f)
      BY <1>2, <2>3, <2>5, <3>1
    <3>4. \A k \in DOMAIN c.down : c.down[k].type = "Rejected"
      BY <1>2, <2>3, <3>2, <3>3
    <3>5. Told(c.down, page[p].left, MaxTries - pinTries')
      BY <1>2, <2>2, <3>3, ToldAppend DEF f
    <3>6. No(c.up, "Hello")
      BY <1>1, <1>2, <2>5, <3>2, NoTail
    <3> QED
      BY <3>2, <3>4, <3>5, <3>6 DEF PinState, OpenFirst
  <2>8. /\ c.kind = conns[cur].kind /\ c.ours = conns[cur].ours /\ c.peer = conns[cur].peer
        /\ c.kind = "ws" /\ settings' \in Setting
    BY <1>1, <1>2, <2>5 DEF x
  <2> QED
    BY <1>1, <1>3, <2>1, <2>2, <2>5, <2>6, <2>7, <2>8, HostServes DEF Served
<1> QED
  BY <1>4, <1>5

LEMMA OtherAtPinInv ==
    ASSUME WebInv, cur \in Conns, OtherAtPin
    PROVE  WebInv'
<1> DEFINE x == conns[cur]
<1>1. /\ host = "pin" /\ x.up # <<>> /\ Head(x.up).type # "Pair"
      /\ conns' = Consumed(<<>>) /\ UNCHANGED <<streamerVars, guiVars, page, edits>>
  BY DEF OtherAtPin, Arrived
<1>2. /\ x \in Connection /\ x.up \in Seq(UpFrame) /\ x.down \in Seq(DownFrame) /\ x.wrong \in Nat
      /\ pinTries \in 0 .. MaxTries - 1 /\ loaded \in Setting /\ settings \in Setting
      /\ CodesCounted(x, pinTries) /\ x.kind = "ws"
      /\ \A p \in Pages : page[p].link = cur => /\ page[p].at # "closed" /\ x.peer /\ OpenFirst(page[p].at, x.down)
                                              /\ PinState(page[p], x, pinTries)
  BY <1>1, ServedFacts
<1>3. <<>> \in Seq(DownFrame) /\ x.down \o <<>> = x.down
  BY <1>2
<1>4. PICK c \in Connection :
         /\ conns' = With(cur, c) /\ c.up = Tail(x.up) /\ Len(c.up) <= MaxFrames
         /\ x.peer => c.down = x.down
         /\ c.kind = x.kind /\ c.ours = x.ours /\ c.peer = x.peer /\ c.wrong = x.wrong /\ c.right = x.right
  BY <1>1, <1>3, ConsumedIs
<1> HIDE DEF x
<1>5. CodesCounted(c, pinTries)
  <2>1. ~WrongCode(Head(x.up)) /\ pinTries \in Nat
    BY <1>1, <1>2, WebAssumption DEF WrongCode
  <2> QED
    BY <1>1, <1>2, <1>4, <2>1, CountedTail
<1>6. ASSUME NEW p \in Pages, page[p].link = cur
      PROVE  OpenFirst(page[p].at, c.down) /\ PinState(page[p], c, pinTries)
  <2>1. x.peer /\ OpenFirst(page[p].at, x.down) /\ PinState(page[p], x, pinTries) /\ c.down = x.down
    BY <1>2, <1>4, <1>6
  <2>2. No(c.up, "Hello") /\ page[p].at # "waiting"
    BY <1>1, <1>2, <1>4, <2>1, NoTail DEF PinState
  <2> QED
    BY <2>1, <2>2 DEF PinState
<1>7. FileOK'
  BY <1>1, FileSame
<1>8. c.kind = conns[cur].kind /\ c.ours = conns[cur].ours /\ c.peer = conns[cur].peer
  BY <1>4 DEF x
<1>9. /\ queue' = queue /\ cur' = cur /\ loaded' = loaded /\ settings' = settings /\ pinTries' = pinTries /\ host' = host
      /\ page' = page /\ edits' = edits
  BY <1>1 DEF streamerVars
<1> QED
  BY <1>1, <1>2, <1>4, <1>5, <1>6, <1>7, <1>8, <1>9, HostServes DEF Served

LEMMA ReadHelloInv ==
    ASSUME WebInv, cur \in Conns, ReadHello
    PROVE  WebInv'
<1> DEFINE x == conns[cur]
           f == Head(x.up)
<1>1. /\ host = "hello" /\ x.up # <<>>
      /\ \/ f.type # "Hello" /\ host' = host /\ settings' = settings
         \/ f.type = "Hello" /\ host' = "stream" /\ settings' = f.v
      /\ conns' = Consumed(<<>>)
      /\ queue' = queue /\ cur' = cur /\ pinTries' = pinTries /\ loaded' = loaded /\ page' = page /\ edits' = edits
      /\ UNCHANGED guiVars
  BY DEF ReadHello, Arrived
<1>2. /\ x \in Connection /\ x.up \in Seq(UpFrame) /\ x.down \in Seq(DownFrame)
      /\ pinTries \in 0 .. MaxTries - 1 /\ loaded \in Setting /\ settings \in Setting
      /\ x.kind = "ws" => x.right /\ x.wrong < MaxTries
      /\ \A p \in Pages : page[p].link = cur => /\ page[p].at # "closed" /\ x.peer /\ OpenFirst(page[p].at, x.down)
                                              /\ SessionState(page[p], x, host, settings)
  BY <1>1, ServedFacts DEF Served
<1>3. <<>> \in Seq(DownFrame) /\ x.down \o <<>> = x.down
  BY <1>2
<1>4. PICK c \in Connection :
         /\ conns' = With(cur, c) /\ c.up = Tail(x.up) /\ Len(c.up) <= MaxFrames
         /\ x.peer => c.down = x.down
         /\ c.kind = x.kind /\ c.ours = x.ours /\ c.peer = x.peer /\ c.wrong = x.wrong /\ c.right = x.right
  BY <1>1, <1>3, ConsumedIs
<1>5. f \in UpFrame /\ f = x.up[1] /\ 1 \in DOMAIN x.up
  BY <1>1, <1>2, TailType
<1> HIDE DEF x, f
<1>6. settings' \in Setting
  BY <1>1, <1>2, <1>5 DEF UpFrame
<1>7. ASSUME NEW p \in Pages, page[p].link = cur
      PROVE  OpenFirst(page[p].at, c.down) /\ SessionState(page[p], c, host', settings')
  <2>1. x.peer /\ OpenFirst(page[p].at, x.down) /\ SessionState(page[p], x, host, settings) /\ c.down = x.down
    BY <1>2, <1>4, <1>7
  <2>2. SessionState(page[p], c, host, settings)
    BY <1>1, <1>2, <1>4, <2>1, SessionConsume
  <2>3. CASE f.type # "Hello"
    BY <1>1, <2>1, <2>2, <2>3
  <2>4. CASE f.type = "Hello"
    <3>1. page[p].at = "live" /\ (page[p].handed # 0 => f.v = page[p].handed)
      BY <1>5, <2>1, <2>4 DEF SessionState, No
    <3>2. host' = "stream" /\ settings' = f.v
      BY <1>1, <2>4
    <3> QED
      BY <2>1, <2>2, <3>1, <3>2 DEF SessionState
  <2> QED
    BY <2>3, <2>4
<1>8. FileOK'
  BY <1>1, FileSame
<1>9. /\ c.kind = conns[cur].kind /\ c.ours = conns[cur].ours /\ c.peer = conns[cur].peer
      /\ host' \in {"hello", "stream"} /\ pinTries' = 0
  BY <1>1, <1>4 DEF x, WebInv, Stage
<1> QED
  BY <1>1, <1>2, <1>4, <1>6, <1>7, <1>8, <1>9, HostServes DEF Served

LEMMA PollInv ==
    ASSUME WebInv, cur \in Conns, Poll
    PROVE  WebInv'
<1> DEFINE x == conns[cur]
           f == Head(x.up)
<1>1. host = "stream" /\ x.up # <<>>
  BY DEF Poll
<1>2. CASE Arrived("Bye")
  <2>1. GoTo("exit") /\ cur # NoConn
    BY <1>2, ConnNames DEF Poll
  <2> QED
    BY <2>1, GoToInv
<1>3. CASE ~Arrived("Bye")
  <2>1. /\ conns' = Consumed(<<>>) /\ UNCHANGED <<streamerVars, file, writing, page, edits>>
        /\ lines' = IF f.type = "Settings" THEN Append(lines, f.v) ELSE lines
    BY <1>1, <1>3 DEF Poll, Arrived
  <2>2. /\ x \in Connection /\ x.up \in Seq(UpFrame) /\ x.down \in Seq(DownFrame)
        /\ pinTries \in 0 .. MaxTries - 1 /\ loaded \in Setting /\ settings \in Setting
        /\ x.kind = "ws" => x.right /\ x.wrong < MaxTries
        /\ \A p \in Pages : page[p].link = cur => /\ page[p].at # "closed" /\ x.peer /\ OpenFirst(page[p].at, x.down)
                                                /\ SessionState(page[p], x, host, settings)
    BY <1>1, ServedFacts DEF Served
  <2>3. <<>> \in Seq(DownFrame) /\ x.down \o <<>> = x.down
    BY <2>2
  <2>4. PICK c \in Connection :
           /\ conns' = With(cur, c) /\ c.up = Tail(x.up) /\ Len(c.up) <= MaxFrames
           /\ x.peer => c.down = x.down
           /\ c.kind = x.kind /\ c.ours = x.ours /\ c.peer = x.peer /\ c.wrong = x.wrong /\ c.right = x.right
    BY <1>1, <2>1, <2>3, ConsumedIs
  <2>5. f \in UpFrame
    BY <1>1, <2>2, TailType
  <2> HIDE DEF x, f
  <2>6. FileOK'
    <3>1. /\ file \in Setting /\ lines \in Seq(Setting) /\ writing \in BOOLEAN /\ (writing => lines # <<>>)
          /\ edits \in Nat /\ Setting' = Setting /\ file' = file /\ writing' = writing /\ edits' = edits
      BY <2>1 DEF WebInv, Types, FileOK, Setting
    <3>2. f.type = "Settings" => Append(lines, f.v) \in Seq(Setting) /\ Append(lines, f.v) # <<>>
      BY <2>5, <3>1 DEF UpFrame
    <3> QED
      BY <2>1, <3>1, <3>2 DEF FileOK
  <2>7. ASSUME NEW p \in Pages, page[p].link = cur
        PROVE  OpenFirst(page[p].at, c.down) /\ SessionState(page[p], c, host, settings)
    <3>1. x.peer /\ OpenFirst(page[p].at, x.down) /\ SessionState(page[p], x, host, settings) /\ c.down = x.down
      BY <2>2, <2>4, <2>7
    <3>2. SessionState(page[p], c, host, settings)
      BY <1>1, <2>2, <2>4, <3>1, SessionConsume
    <3> QED
      BY <3>1, <3>2
  <2>8. /\ c.kind = conns[cur].kind /\ c.ours = conns[cur].ours /\ c.peer = conns[cur].peer /\ pinTries = 0
    BY <1>1, <2>4 DEF x, WebInv, Stage
  <2>9. /\ queue' = queue /\ cur' = cur /\ loaded' = loaded /\ settings' = settings /\ pinTries' = pinTries /\ host' = host
        /\ page' = page /\ edits' = edits
    BY <2>1 DEF streamerVars
  <2> QED
    BY <1>1, <2>2, <2>4, <2>6, <2>7, <2>8, <2>9, HostServes DEF Served
<1> QED
  BY <1>2, <1>3

\* The first of the queue is taken from it.
LEMMA FirstTaken ==
    ASSUME WebInv, queue # <<>>, queue' = Tail(queue), cur = NoConn
    PROVE  /\ Head(queue) \in Conns /\ InQueue(Head(queue)) /\ conns[Head(queue)].ours
           /\ queue' \in Seq(Conns)
           /\ \A j : InQueue(j)' <=> InQueue(j) /\ j # Head(queue)
           /\ \A k, m \in DOMAIN queue' : queue'[k] = queue'[m] => k = m
           /\ \A k \in DOMAIN queue' : queue'[k] \in Conns /\ queue'[k] # Head(queue) /\ InQueue(queue'[k])
<1>1. queue \in Seq(Conns) /\ HeldOK
  BY DEF WebInv, Types, HostOK
<1>2. /\ DOMAIN queue' = 1 .. Len(queue) - 1 /\ DOMAIN queue = 1 .. Len(queue) /\ Head(queue) = queue[1]
      /\ \A k \in 1 .. Len(queue) - 1 : queue'[k] = queue[k + 1]
      /\ Len(queue) \in Nat \ {0} /\ queue' \in Seq(Conns) /\ Head(queue) \in Conns
  BY <1>1, TailType
<1>3. \A k, m \in DOMAIN queue : queue[k] = queue[m] => k = m
  BY DEF WebInv, Queued
<1>4. 1 \in DOMAIN queue /\ InQueue(Head(queue))
  BY <1>2 DEF InQueue
<1>5. conns[Head(queue)].ours
  BY <1>1, <1>2, <1>4 DEF HeldOK
<1>6. \A k \in DOMAIN queue' : /\ k + 1 \in DOMAIN queue /\ k \in Nat /\ k + 1 # 1
                              /\ queue'[k] = queue[k + 1] /\ queue[k + 1] \in Conns
  BY <1>1, <1>2
<1>7. \A k \in DOMAIN queue' : queue'[k] \in Conns /\ queue'[k] # Head(queue) /\ InQueue(queue'[k])
  BY <1>2, <1>3, <1>4, <1>6 DEF InQueue
<1>8. \A k, m \in DOMAIN queue' : queue'[k] = queue'[m] => k = m
  <2> SUFFICES ASSUME NEW k \in DOMAIN queue', NEW m \in DOMAIN queue', queue'[k] = queue'[m] PROVE k = m
    OBVIOUS
  <2>1. k + 1 = m + 1
    BY <1>3, <1>6
  <2> QED
    BY <1>6, <2>1
<1>9. ASSUME NEW j, InQueue(j), j # Head(queue)
      PROVE  InQueue(j)'
  <2>1. PICK k \in DOMAIN queue : queue[k] = j
    BY <1>9 DEF InQueue
  <2>2. k - 1 \in DOMAIN queue' /\ (k - 1) + 1 = k
    BY <1>2, <1>9, <2>1
  <2> QED
    BY <1>6, <2>1, <2>2 DEF InQueue
<1>10. ASSUME NEW j, InQueue(j)'
       PROVE  InQueue(j) /\ j # Head(queue)
  BY <1>7, <1>10 DEF InQueue
<1> QED
  BY <1>2, <1>4, <1>5, <1>7, <1>8, <1>9, <1>10

\* The streamer begins with connection i, which becomes c.
LEMMA Begins ==
    ASSUME WebInv, queue # <<>>, queue' = Tail(queue), cur = NoConn, cur' = Head(queue),
           NEW c \in Connection, conns' \in [Conns -> Connection], conns'[cur'] = c,
           \A j \in Conns : j # cur' => conns'[j] = conns[j],
           c.peer, c.ours, c.kind = conns[cur'].kind, c.up = conns[cur'].up,
           UNCHANGED <<pinTries, loaded, settings, guiVars, page, edits>>,
           host' \in {"pin", "hello", "headers", "blocked"},
           host' = "pin" <=> c.kind = "ws", host' = "pin" => CodesCounted(c, pinTries),
           \A p \in Pages : page[p].link = cur' =>
              OpenFirst(page[p].at, c.down) /\ (host' = "pin" => PinState(page[p], c, pinTries))
    PROVE  WebInv'
<1> DEFINE i == Head(queue)
<1>0. /\ pinTries' = pinTries /\ loaded' = loaded /\ settings' = settings /\ page' = page /\ edits' = edits
      /\ cur' = i
  OBVIOUS
<1>1. /\ ConnsOK /\ PagesOK /\ HostOK /\ HeldOK /\ None \in Connection /\ FileOK'
      /\ Setting' = Setting /\ Connection' = Connection /\ PageState' = PageState
  BY SameTypes, FileSame
<1>2. /\ i \in Conns /\ InQueue(i) /\ conns[i].ours
      /\ queue' \in Seq(Conns)
      /\ \A j : InQueue(j)' <=> InQueue(j) /\ j # i
      /\ \A k, m \in DOMAIN queue' : queue'[k] = queue'[m] => k = m
      /\ \A k \in DOMAIN queue' : queue'[k] \in Conns /\ queue'[k] # i /\ InQueue(queue'[k])
  BY FirstTaken
<1> HIDE DEF i
<1>3. i # NoConn /\ pinTries = 0
  BY <1>1, <1>2, ConnNames DEF WebInv, Stage, HostOK
<1>4. Types'
  <2>1. ConnsOK' /\ PagesOK'
    BY <1>0, <1>1 DEF ConnsOK, PagesOK
  <2>2. HostOK'
    BY <1>0, <1>1, <1>2, <1>3 DEF HostOK
  <2>3. HeldOK'
    <3> SUFFICES ASSUME NEW j \in Conns
                 PROVE  /\ Len(conns'[j].up) <= MaxFrames
                        /\ conns'[j].peer \/ conns'[j].ours <=> conns'[j] # None
                        /\ conns'[j].ours <=> j = cur' \/ InQueue(j)'
      BY DEF HeldOK
    <3>1. None.peer = FALSE
      BY DEF None
    <3>2. CASE j = i
      BY <3>1, <3>2, <1>0, <1>1, <1>2 DEF HeldOK
    <3>3. CASE j # i
      BY <3>3, <1>0, <1>1, <1>2, ConnNames DEF HeldOK
    <3> QED
      BY <3>2, <3>3
  <2> QED
    BY <1>1, <2>1, <2>2, <2>3 DEF Types
<1>5. Queued'
  <2> SUFFICES ASSUME NEW k \in DOMAIN queue'
               PROVE  queue'[k] # cur' /\ (conns'[queue'[k]].kind = "ws" => Blank(conns'[queue'[k]]))
    BY <1>2 DEF Queued
  <2>1. conns'[queue'[k]] = conns[queue'[k]] /\ queue'[k] # i
    BY <1>0, <1>2
  <2>2. PICK m \in DOMAIN queue : queue[m] = queue'[k]
    BY <1>2 DEF InQueue
  <2>3. conns[queue'[k]].kind = "ws" => Blank(conns[queue'[k]])
    BY <2>2 DEF WebInv, Queued
  <2> QED
    BY <1>0, <2>1, <2>3
<1>6. Linked'
  <2> SUFFICES ASSUME NEW r \in Pages PROVE LinkOK(r)'
    BY DEF Linked
  <2>1. LinkOK(r) /\ page'[r] = page[r]
    BY <1>0 DEF WebInv, Linked
  <2>2. CASE page[r].link = i
    BY <1>0, <1>2, <1>3, <2>1, <2>2 DEF LinkOK
  <2>3. CASE page[r].link # i
    <3>1. page[r].link # NoConn => conns'[page[r].link] = conns[page[r].link]
      BY <1>0, <2>1, <2>3, ConnNames DEF LinkOK
    <3> QED
      BY <1>2, <2>1, <3>1 DEF LinkOK
  <2> QED
    BY <2>2, <2>3
<1>7. Stage'
  BY <1>0, <1>3 DEF Stage
<1>8. \A p \in Pages : page[p].link = i => c.kind = "ws"
  BY <1>0, <1>3 DEF WebInv, Linked, LinkOK
<1>9. ServedOK'
  BY <1>0, <1>8 DEF ServedOK, StreamNeedsCode, Serving, Served
<1> QED
  BY <1>4, <1>5, <1>6, <1>7, <1>9 DEF WebInv

LEMMA AcceptInv ==
    ASSUME WebInv, Accept
    PROVE  WebInv'
<1>13. queue # <<>> /\ queue \in Seq(Conns)
  BY DEF Accept, WebInv, Types, HostOK
<1>12. PICK first \in Conns : first = Head(queue)
  BY <1>13, TailType
<1> DEFINE x == conns[first]
           open == << Frame("Open", 0) >>
<1>0. /\ host = "accept" /\ queue # <<>> /\ queue' = Tail(queue)
      /\ UNCHANGED <<pinTries, loaded, settings, guiVars, page, edits>>
      /\ \/ ~x.peer /\ conns' = Shut(first, <<>>) /\ host' = host /\ cur' = cur
         \/ x.peer /\ x.kind = "ws" /\ conns' = Answered(first, open) /\ host' = "pin" /\ cur' = first
         \/ /\ x.peer /\ x.kind # "ws" /\ host' \in {"hello", "headers", "blocked"} /\ cur' = first
            /\ conns' = conns
  BY <1>12 DEF Accept
<1>1. /\ ConnsOK /\ HostOK /\ HeldOK /\ None \in Connection /\ FileOK'
  BY <1>0, SameTypes, FileSame
<1>2. cur = NoConn
  BY <1>0, <1>1 DEF HostOK
<1>3. /\ first \in Conns /\ InQueue(first) /\ x.ours /\ x \in Connection
      /\ queue' \in Seq(Conns)
      /\ \A j : InQueue(j)' <=> InQueue(j) /\ j # first
      /\ \A k, m \in DOMAIN queue' : queue'[k] = queue'[m] => k = m
      /\ \A k \in DOMAIN queue' : queue'[k] \in Conns /\ queue'[k] # first /\ InQueue(queue'[k])
  BY <1>0, <1>1, <1>2, <1>12, FirstTaken DEF ConnsOK
<1>4. pinTries = 0
  BY <1>0 DEF WebInv, Stage
<1>5. x.kind = "ws" => Blank(x)
  BY <1>3 DEF InQueue, WebInv, Queued
<1>6. \A p \in Pages : page[p].link = first =>
         x.peer /\ x.kind = "ws" /\ page[p].at = "waiting" /\ Untold(page[p]) /\ OpenFirst(page[p].at, x.down)
  BY <1>3, ConnNames DEF WebInv, Linked, LinkOK
<1>7. open \in Seq(DownFrame) /\ No(<<>>, "Open") /\ <<>> \in Seq(DownFrame)
      /\ Len(open) = 1 /\ DOMAIN open = {1} /\ open[1] = Frame("Open", 0) /\ open[1].type = "Open"
  BY DEF Frame, DownFrame, No
<1> HIDE DEF x
<1>8. CASE ~x.peer /\ conns' = Shut(first, <<>>) /\ host' = host /\ cur' = cur
  <2>1. \A j \in Conns : j # first => conns'[j] = conns[j]
    BY <1>1, <1>8 DEF Shut, With, ConnsOK
  <2>2. Queued'
    <3> SUFFICES ASSUME NEW k \in DOMAIN queue'
                 PROVE  queue'[k] # cur' /\ (conns'[queue'[k]].kind = "ws" => Blank(conns'[queue'[k]]))
      BY <1>3 DEF Queued
    <3>1. conns'[queue'[k]] = conns[queue'[k]] /\ queue'[k] # NoConn
      BY <1>3, <2>1, ConnNames
    <3>2. conns[queue'[k]].kind = "ws" => Blank(conns[queue'[k]])
      BY <1>3 DEF InQueue, WebInv, Queued
    <3> QED
      BY <1>2, <1>8, <3>1, <3>2
  <2>3. /\ cur' = NoConn /\ host' \in {"load", "accept", "exit"} /\ pinTries' = 0
        /\ settings' \in Setting /\ loaded' \in Setting /\ ~InQueue(first)'
        /\ \A j \in Conns : j # first => (InQueue(j)' <=> j = cur \/ InQueue(j))
        /\ \A j : InQueue(j)' => InQueue(j)
    <3>1. settings' \in Setting /\ loaded' \in Setting
      BY <1>0, <1>1 DEF HostOK
    <3>2. \A j \in Conns : j # cur
      BY <1>2, ConnNames
    <3>3. \A j \in Conns : j # first => (InQueue(j)' <=> j = cur \/ InQueue(j))
      BY <1>3, <3>2
    <3>4. cur' = NoConn /\ host' = "accept" /\ pinTries' = 0 /\ ~InQueue(first)' /\ \A j : InQueue(j)' => InQueue(j)
      BY <1>0, <1>2, <1>3, <1>4, <1>8
    <3> QED
      BY <3>1, <3>3, <3>4
  <2> QED
    BY <1>0, <1>1, <1>3, <1>7, <1>8, <2>2, <2>3, HostDrops
<1>9. CASE x.peer /\ x.kind = "ws" /\ conns' = Answered(first, open) /\ host' = "pin" /\ cur' = first
  <2> DEFINE c == [x EXCEPT !.down = x.down \o open]
  <2>1. x.down = <<>> /\ x.up = <<>> /\ x.wrong = 0 /\ x.down \o open = open
    <3>1. x.down = <<>> /\ x.up = <<>> /\ x.wrong = 0
      BY <1>5, <1>9 DEF Blank
    <3>2. <<>> \o open = open
      OBVIOUS
    <3> QED
      BY <3>1, <3>2
  <2>2. Answered(first, open) = With(first, c)
    BY DEF Answered, x
  <2> HIDE DEF open
  <2>3. /\ c \in Connection /\ c.peer = x.peer /\ c.ours = x.ours /\ c.kind = x.kind /\ c.up = x.up
        /\ c.down = open /\ c.wrong = x.wrong /\ c.right = x.right
    BY <1>3, <1>7, <2>1 DEF Connection
  <2> HIDE DEF c
  <2>4. /\ conns' \in [Conns -> Connection] /\ \A j \in Conns : j # first => conns'[j] = conns[j]
        /\ conns'[first] = c
    <3>1. conns' = With(first, c) /\ conns \in [Conns -> Connection] /\ (c.peer \/ c.ours)
      BY <1>1, <1>9, <2>2, <2>3 DEF ConnsOK
    <3> QED
      <4>1. /\ None \in Connection /\ c \in Connection /\ first \in Conns
            /\ conns \in [Conns -> Connection]
        BY <1>1, <2>3, <3>1
      <4>2. /\ With(first, c) \in [Conns -> Connection] /\ \A j \in Conns : j # first => With(first, c)[j] = conns[j]
            /\ With(first, c)[first] = IF c.peer \/ c.ours THEN c ELSE None
        BY <4>1, WithIs
      <4> QED
        BY <3>1, <4>2
  <2>5. CodesCounted(c, pinTries)
    BY <1>4, <2>1, <2>3, CountedNone
  <2>6. ASSUME NEW p \in Pages, page[p].link = first
        PROVE  OpenFirst(page[p].at, c.down) /\ PinState(page[p], c, pinTries)
    <3>1. page[p].at = "waiting" /\ page[p].handed = 0 /\ page[p].left = MaxTries
      BY <1>6, <2>6 DEF Untold
    <3>2. MaxTries - pinTries = MaxTries
      BY <1>4, WebAssumption
    <3>3. OpenFirst(page[p].at, c.down) /\ No(c.up, "Hello") /\ No(c.down, "Rejected")
      BY <1>7, <2>1, <2>3, <3>1 DEF OpenFirst, No
    <3>4. Told(c.down, page[p].left, MaxTries - pinTries)
      BY <3>1, <3>2, <3>3 DEF Told
    <3> QED
      BY <2>1, <2>3, <3>1, <3>3, <3>4 DEF PinState, open
  <2>7. c.peer /\ c.ours /\ c.kind = "ws" /\ conns[cur'].kind = c.kind /\ conns[cur'].up = c.up /\ cur' = Head(queue)
    BY <1>3, <1>9, <1>12, <2>3 DEF x
  <2> QED
    BY <1>0, <1>2, <1>9, <2>3, <2>4, <2>5, <2>6, <2>7, Begins
<1>10. CASE /\ x.peer /\ x.kind # "ws" /\ host' \in {"hello", "headers", "blocked"} /\ cur' = first
            /\ conns' = conns
  <2>1. conns \in [Conns -> Connection] /\ x = conns[cur'] /\ cur' = Head(queue)
    BY <1>1, <1>10, <1>12 DEF ConnsOK, x
  <2>2. conns' \in [Conns -> Connection] /\ conns'[cur'] = x /\ \A j \in Conns : j # cur' => conns'[j] = conns[j]
    BY <1>10, <2>1
  <2>3. \A p \in Pages : page[p].link # cur'
    BY <1>6, <1>10
  <2> QED
    BY <1>0, <1>2, <1>3, <1>10, <2>1, <2>2, <2>3, Begins
<1> QED
  BY <1>0, <1>8, <1>9, <1>10

-----------------------------------------------------------------------------
(* Every step.                                                             *)

LEMMA HostStepInv ==
    ASSUME WebInv, HostStep
    PROVE  WebInv'
<1>1. /\ cur \in Conns \cup {NoConn} /\ (host \in {"load", "accept", "exit"}) = (cur = NoConn)
      /\ loaded \in Setting /\ file \in Setting
  BY DEF WebInv, Types, HostOK, FileOK
<1>2. CASE LoadSettings
  <2>1. /\ UNCHANGED <<conns, queue, cur, pinTries, settings, page, edits>> /\ UNCHANGED guiVars
        /\ loaded' = file /\ cur = NoConn /\ host' = "accept"
    BY <1>1, <1>2 DEF LoadSettings
  <2>2. FileOK'
    BY <2>1, FileSame
  <2> QED
    BY <1>1, <2>1, <2>2, Quiet
<1>3. CASE Exit
  <2>1. /\ UNCHANGED <<conns, queue, cur, pinTries, settings, page, edits>> /\ UNCHANGED guiVars
        /\ loaded' = loaded /\ cur = NoConn /\ host' = "exit"
    BY <1>1, <1>3 DEF Exit
  <2>2. FileOK'
    BY <2>1, FileSame
  <2> QED
    BY <1>1, <2>1, <2>2, Quiet
<1>4. CASE Accept
  BY <1>4, AcceptInv
<1>5. CASE Unblock \/ Respond \/ GiveUp \/ NoHello \/ EndSession
  <2>1. PICK where \in {"load", "accept", "exit"} : GoTo(where)
    BY <1>5 DEF Unblock, Respond, GiveUp, NoHello, EndSession
  <2>2. host \in {"blocked", "headers", "pin", "hello", "stream"}
    BY <1>5 DEF Unblock, Respond, GiveUp, NoHello, EndSession
  <2>3. cur # NoConn
    BY <1>1, <2>2
  <2> QED
    BY <2>1, <2>3, GoToInv
<1>6. CASE RightPin \/ WrongPin \/ OtherAtPin \/ ReadHello \/ Poll
  <2>1. host \in {"pin", "hello", "stream"}
    BY <1>6 DEF RightPin, WrongPin, OtherAtPin, ReadHello, Poll
  <2>2. cur \in Conns
    BY <1>1, <2>1
  <2> QED
    BY <1>6, <2>2, RightPinInv, WrongPinInv, OtherAtPinInv, ReadHelloInv, PollInv
<1> QED
  BY <1>2, <1>3, <1>4, <1>5, <1>6 DEF HostStep

LEMMA GuiStepInv ==
    ASSUME WebInv, Stop \/ Truncate \/ Write
    PROVE  WebInv'
<1>1. /\ UNCHANGED <<conns, queue, cur, pinTries, settings, page, edits, host, loaded>>
  BY DEF Stop, Truncate, Write, streamerVars
<1>2. /\ file \in Setting /\ lines \in Seq(Setting) /\ writing \in BOOLEAN /\ (writing => lines # <<>>)
      /\ edits \in Nat /\ Setting' = Setting /\ 0 \in Setting /\ loaded \in Setting
  BY <1>1 DEF WebInv, Types, FileOK, HostOK, Setting
<1>3. FileOK'
  <2>1. CASE Stop
    BY <1>1, <2>1, FileSame DEF Stop
  <2>2. CASE Truncate
    BY <1>1, <1>2, <2>2 DEF Truncate, FileOK
  <2>3. CASE Write
    <3>1. Head(lines) \in Setting /\ Tail(lines) \in Seq(Setting)
      BY <1>2, <2>3, TailType DEF Write
    <3> QED
      BY <1>1, <1>2, <2>3, <3>1 DEF Write, FileOK
  <2> QED
    BY <2>1, <2>2, <2>3
<1> QED
  BY <1>1, <1>2, <1>3, Quiet

LEMMA PageStepInv ==
    ASSUME WebInv, NEW p \in Pages,
           \/ PageStep(p) \/ Edit(p) \/ Forget(p) \/ Drop(p) \/ Disconnect(p) \/ Heartbeat(p)
           \/ \E right \in BOOLEAN : SubmitPin(p, right)
    PROVE  WebInv'
<1>1. CASE Closed(p) \/ Drop(p)
  <2>1. page[p].link # NoConn /\ Left(p, <<>>) /\ UNCHANGED <<streamerVars, guiVars, stop, edits>>
    BY <1>1 DEF Closed, Drop
  <2> QED
    BY <2>1, DropInv
<1>2. CASE \E i \in Sockets(p) : ConnectPage(p, i)
  BY <1>2, ConnectInv
<1>3. CASE HelloTimeout(p) \/ Receive(p)
  BY <1>3, HelloTimeoutInv, ReceiveInv
<1>4. CASE Edit(p) \/ Forget(p) \/ Disconnect(p) \/ Heartbeat(p)
  BY <1>4, EditInv, ForgetInv, DisconnectInv, HeartbeatInv
<1>5. CASE \E right \in BOOLEAN : SubmitPin(p, right)
  BY <1>5, SubmitPinInv
<1> QED
  BY <1>1, <1>2, <1>3, <1>4, <1>5 DEF PageStep

LEMMA StutterInv ==
    ASSUME WebInv, UNCHANGED webVars
    PROVE  WebInv'
<1>1. UNCHANGED <<conns, queue, cur, pinTries, settings, page, edits, host, loaded>> /\ UNCHANGED guiVars
  BY DEF webVars, guiVars
<1>2. FileOK' /\ loaded' \in Setting
  BY <1>1, FileSame DEF WebInv, Types, HostOK
<1> QED
  BY <1>1, <1>2, Quiet

LEMMA NextInv == WebInv /\ [WebNext]_webVars => WebInv'
<1> SUFFICES ASSUME WebInv, [WebNext]_webVars PROVE WebInv'
  OBVIOUS
<1>1. CASE HostStep
  BY <1>1, HostStepInv
<1>2. CASE Stop \/ Truncate \/ Write
  BY <1>2, GuiStepInv
<1>3. CASE \E kind \in Extras : OpenExtra(kind) \/ CloseExtra(kind)
  BY <1>3, OpenExtraInv, CloseExtraInv
<1>4. CASE \E p \in Pages : \/ PageStep(p) \/ Edit(p) \/ Forget(p) \/ Drop(p) \/ Disconnect(p) \/ Heartbeat(p)
                            \/ \E right \in BOOLEAN : SubmitPin(p, right)
  BY <1>4, PageStepInv
<1>5. CASE UNCHANGED webVars
  BY <1>5, StutterInv
<1> QED
  BY <1>1, <1>2, <1>3, <1>4, <1>5 DEF WebNext

\* In every state the connections, the pages and the streamer agree.
THEOREM WebInvariant == WebSpec => []WebInv
<1> QED
  BY InitInv, NextInv, PTL DEF WebSpec

THEOREM WebTypes == WebSpec => []WebTypeOK
<1>1. WebInv => WebTypeOK
  BY TypesImply DEF WebInv
<1> QED
  BY <1>1, WebInvariant, PTL

\* (verify_web_pin.) Whatever is entered, sent or lost, and however connections
\* come and go: a page streams only after the right code, entered after fewer wrong
\* ones than the code allows, and shows the tries that it has left.
THEOREM CodeKept == WebSpec => []PinKept
<1> QED
  BY InvImplies, WebInvariant, PTL

\* (kMsgClientSettings, helloTimer.) The settings handed back to a page before it
\* gave up waiting are those of its session.
THEOREM SettingsKept == WebSpec => []HandedBackInTime
<1> QED
  BY InvImplies, WebInvariant, PTL

-----------------------------------------------------------------------------
(* Spacedesk. Types, threads and connections.                              *)

\* The accept thread serves a connection.
Busy == acc \notin {"none", "poll"}

\* The thread is there only while the server is up, or until stop() has joined
\* it, and the connection it serves is open.
ThreadsOK ==
    /\ client # 0 <=> Busy
    /\ main = "off" \/ (main = "run" /\ ~listening) => acc = "none"
    /\ client <= dials /\ (client # 0 => link[client] # "closed")

\* A connection waits once, and is served after that.
QueueOK ==
    \A i \in DOMAIN waiting :
       /\ waiting[i] <= dials /\ waiting[i] # client /\ link[waiting[i]] # "closed"
       /\ \A j \in DOMAIN waiting : waiting[i] = waiting[j] => i = j

\* A viewer has a connection of its own, which is up or closed by the host.
HoldsOK(v) ==
    /\ conn[v] = 0 => covered[v] = 0 /\ shown[v] = 0
    /\ conn[v] # 0 => /\ conn[v] <= dials
                      /\ link[conn[v]] \in {"up", "closed"}
                      /\ \A u \in Viewer : conn[u] = conn[v] => u = v

ViewersOK ==
    /\ \A c \in Conn : c > dials => wire[c] = <<>> /\ link[c] = "up"
    /\ \A v \in Viewer : HoldsOK(v)

LinksInv == SpaceTypeOK /\ ThreadsOK /\ QueueOK /\ ViewersOK

LEMMA Bounds ==
    /\ MaxStarts \in Nat /\ MaxDials \in Nat /\ MaxModes \in Nat
    /\ \A m \in Mode : m \in Size
  BY SpacedeskAssumption DEF Size

LEMMA InitLinks == SpaceInit => LinksInv
<1> SUFFICES ASSUME SpaceInit PROVE LinksInv
  OBVIOUS
<1> USE SpacedeskAssumption DEF SpaceInit, NoSize, Size
<1>1. SpaceTypeOK
  <2>1. wire \in [Conn -> Seq(Message)] /\ waiting \in Seq(Conn)
    OBVIOUS
  <2>2. starts \in 0..MaxStarts /\ dials \in 0..MaxDials /\ modes \in 0..MaxModes
    BY Bounds
  <2>3. link \in [Conn -> LinkState] /\ said \in [Conn -> {"nothing", "hello", "junk"}]
    BY DEF LinkState
  <2>4. conn \in [Viewer -> Conn \cup {0}] /\ covered \in [Viewer -> Nat] /\ shown \in [Viewer -> Nat]
    OBVIOUS
  <2>5. size \in Size /\ enc \in Size /\ stripe \in 0..(kStripes - 1)
    BY DEF kStripes
  <2> QED
    BY <2>1, <2>2, <2>3, <2>4, <2>5 DEF SpaceTypeOK
<1>2. ThreadsOK
  BY DEF ThreadsOK, Busy
<1>3. QueueOK
  BY DEF QueueOK
<1>4. ViewersOK
  BY DEF ViewersOK, HoldsOK, Conn
<1> QED
  BY <1>1, <1>2, <1>3, <1>4 DEF LinksInv

LEMMA StripeRows ==
    ASSUME NEW h \in Nat, NEW i \in 0..(kStripes - 1)
    PROVE  /\ YStart(h, i) \in Nat /\ YEnd(h, i) \in Nat /\ Rows(h, i) \in Nat
           /\ Rows(h, i) = YEnd(h, i) - YStart(h, i)
           /\ YStart(h, 0) = 0 /\ YEnd(h, kStripes - 1) = h
           /\ i # kStripes - 1 => YEnd(h, i) = YStart(h, i + 1)
<1> DEFINE q == h \div 4
<1>1. q \in Nat /\ 4 * q <= h
  OBVIOUS
<1>2. /\ YStart(h, i) = q * i /\ YStart(h, i + 1) = q * (i + 1) /\ YStart(h, 0) = q * 0
      /\ YEnd(h, i) = IF i = 3 THEN h ELSE q * (i + 1)
      /\ YEnd(h, kStripes - 1) = h
  BY DEF YStart, YEnd, kStripes
<1> HIDE DEF q
<1>3. i \in {0, 1, 2, 3}
  BY DEF kStripes
<1>4. CASE i = 0
  BY <1>1, <1>2, <1>4 DEF Rows, kStripes
<1>5. CASE i = 1
  BY <1>1, <1>2, <1>5 DEF Rows, kStripes
<1>6. CASE i = 2
  BY <1>1, <1>2, <1>6 DEF Rows, kStripes
<1>7. CASE i = 3
  BY <1>1, <1>2, <1>7 DEF Rows, kStripes
<1> QED
  BY <1>3, <1>4, <1>5, <1>6, <1>7

\* The encoder, once it has a stripe to encode, is as high as that.
LEMMA EncoderType ==
    ASSUME SpaceTypeOK
    PROVE  Encoder \in Size /\ Encoder.h = Rows(size.h, stripe) /\ Picture \in Message
<1>1. size.h \in Nat /\ size.w \in Nat /\ stripe \in 0..(kStripes - 1)
  BY DEF SpaceTypeOK, Size
<1>2. Rows(size.h, stripe) \in Nat /\ YStart(size.h, stripe) \in Nat /\ YEnd(size.h, stripe) \in Nat
  BY <1>1, StripeRows
<1>3. Encoder \in Size /\ Encoder.h = Rows(size.h, stripe)
  BY <1>1, <1>2 DEF Encoder, Size, SpaceTypeOK
<1> QED
  BY <1>1, <1>2, <1>3 DEF Picture, Message

LEMMA AppendWire ==
    ASSUME SpaceTypeOK, NEW c \in Conn, NEW m \in Message, SentTo(c, m)
    PROVE  /\ wire' \in [Conn -> Seq(Message)]
           /\ wire' = [wire EXCEPT ![c] = Append(@, IF link[c] = "up" THEN m ELSE Control)]
<1>1. (IF link[c] = "up" THEN m ELSE Control) \in Message
  BY DEF Message
<1> QED
  BY <1>1 DEF SentTo, SpaceTypeOK

LEMMA SpaceTypes == LinksInv /\ [SpaceNext]_spaceVars => SpaceTypeOK'
<1> SUFFICES ASSUME LinksInv, [SpaceNext]_spaceVars PROVE SpaceTypeOK'
  OBVIOUS
<1> USE SpacedeskAssumption DEF server, thread, net, viewer, hist
<1>0. SpaceTypeOK /\ (Busy => client \in Conn) /\ NoSize \in Size /\ 0 \in 0..(kStripes - 1)
      /\ Control \in Message
  BY DEF LinksInv, SpaceTypeOK, ThreadsOK, NoSize, Size, kStripes, Message
<1>1. CASE UNCHANGED spaceVars
  BY <1>0, <1>1 DEF spaceVars, SpaceTypeOK
<1>2. CASE Start
  <2>1. starts' \in 0..MaxStarts
    BY <1>0, <1>2, Bounds DEF Start, SpaceTypeOK
  <2> QED
    BY <1>0, <1>2, <2>1 DEF Start, SpaceTypeOK
<1>3. ASSUME NEW cs, ClosePort(cs)
      PROVE  /\ listening' \in BOOLEAN /\ disc' \in BOOLEAN /\ waiting' \in Seq(Conn)
             /\ link' \in [Conn -> LinkState]
  <2>1. waiting' = <<>> /\ listening' = FALSE /\ disc' = FALSE
        /\ link' = [c \in Conn |-> IF c \in cs \cup Waiting THEN "closed" ELSE link[c]]
    BY <1>3 DEF ClosePort
  <2>2. \A c \in Conn : link[c] \in LinkState /\ "closed" \in LinkState
    BY <1>0 DEF SpaceTypeOK, LinkState
  <2>3. link' \in [Conn -> LinkState]
    BY <2>1, <2>2
  <2>4. waiting' \in Seq(Conn)
    BY <2>1
  <2> QED
    BY <2>1, <2>3, <2>4
<1>4. CASE MainReturns
  BY <1>0, <1>3, <1>4 DEF MainReturns, SpaceTypeOK
<1>5. CASE ThreadsJoined
  BY <1>0, <1>5 DEF ThreadsJoined, SpaceTypeOK
<1>6. CASE Kill
  BY <1>0, <1>3, <1>6 DEF Kill, Dies, NoSession, SpaceTypeOK
<1>7. ASSUME EndClient PROVE SpaceTypeOK'
  <2>1. link' \in [Conn -> LinkState]
    BY <1>0, <1>7 DEF EndClient, SpaceTypeOK, LinkState
  <2> QED
    BY <1>0, <1>7, <2>1 DEF EndClient, NoSession, SpaceTypeOK
<1>8. CASE AcceptViewer
  <2>1. Head(waiting) \in Conn /\ Tail(waiting) \in Seq(Conn)
    BY <1>0, <1>8 DEF AcceptViewer, SpaceTypeOK
  <2> QED
    BY <1>0, <1>8, <2>1 DEF AcceptViewer, Go, SpaceTypeOK
<1>9. CASE RunEnds \/ HelloArrives
  BY <1>0, <1>9 DEF RunEnds, HelloArrives, Go, SpaceTypeOK
<1>10. CASE HelloFails \/ SourceFails \/ StripeFails
  BY <1>7, <1>10 DEF HelloFails, SourceFails, StripeFails
<1>11. CASE SendOpen \/ Beat
  <2>1. Busy /\ \E next \in {"source", "frame"} : SendOrEnd(Control, next)
    BY <1>11 DEF SendOpen, Beat, Busy
  <2>2. PICK next \in {"source", "frame"} : SendOrEnd(Control, next)
    BY <2>1
  <2>3. CASE EndClient
    BY <1>7, <2>3
  <2>4. CASE ~EndClient
    <3>1. SentTo(client, Control) /\ Go(next)
          /\ UNCHANGED <<server, client, size, enc, stripe, link, said, viewer, hist>>
      BY <2>2, <2>4 DEF SendOrEnd
    <3>2. wire' \in [Conn -> Seq(Message)]
      BY <1>0, <2>1, <3>1, AppendWire
    <3> QED
      BY <1>0, <3>1, <3>2 DEF Go, SpaceTypeOK
  <2> QED
    BY <2>3, <2>4
<1>12. CASE SourceStarts
  <2>1. PICK m \in Mode : size' = m /\ enc' = [w |-> m.w, h |-> Rows(m.h, 0)]
    BY <1>12 DEF SourceStarts
  <2>2. m \in Size /\ Rows(m.h, 0) \in Nat
    BY <1>0, StripeRows DEF Size
  <2>3. size' \in Size /\ enc' \in Size
    BY <2>1, <2>2 DEF Size
  <2> QED
    BY <1>0, <1>12, <2>3 DEF SourceStarts, Go, SpaceTypeOK
<1>13. CASE Top
  BY <1>0, <1>7, <1>13 DEF Top, Go, SpaceTypeOK
<1>14. ASSUME Busy, Pump
       PROVE  size' \in Size /\ modes' \in 0..MaxModes /\ resized' \subseteq Conn
  <2>1. CASE UNCHANGED <<size, modes, resized>>
    BY <1>0, <2>1 DEF SpaceTypeOK
  <2>2. CASE ~UNCHANGED <<size, modes, resized>>
    <3>1. modes < MaxModes /\ modes' = modes + 1 /\ size' \in Mode
          /\ resized' \in {resized, resized \cup {client}}
      BY <1>14, <2>2 DEF Pump
    <3> QED
      BY <1>0, <1>14, <3>1, Bounds DEF SpaceTypeOK
  <2> QED
    BY <2>1, <2>2
<1>15. CASE GrabFrame
  <2>1. Busy
    BY <1>15 DEF GrabFrame, Busy
  <2> QED
    BY <1>0, <1>14, <1>15, <2>1 DEF GrabFrame, Go, SpaceTypeOK
<1>16. CASE NothingNew
  <2>1. Busy
    BY <1>16 DEF NothingNew, Busy
  <2>2. CASE EndClient
    BY <1>7, <2>2
  <2>3. CASE ~EndClient
    <3>1. link' \in [Conn -> LinkState]
      BY <1>0, <1>16, <2>3 DEF NothingNew, SpaceTypeOK, LinkState
    <3> QED
      BY <1>0, <1>14, <1>16, <2>1, <2>3, <3>1 DEF NothingNew, Go, SpaceTypeOK
  <2> QED
    BY <2>2, <2>3
<1>17. CASE Stripe
  <2>0. client \in Conn /\ Encoder \in Size /\ Picture \in Message
    BY <1>0, <1>17, EncoderType DEF Stripe, Busy
  <2>1. CASE EndClient
    BY <1>7, <2>1
  <2>2. CASE ~EndClient
    <3>1. /\ NextStripe /\ link' = link /\ gaps' \in {gaps, gaps \cup {client}}
          /\ wire' = wire \/ SentTo(client, Picture)
      BY <1>17, <2>2 DEF Stripe
    <3>2. wire' \in [Conn -> Seq(Message)] /\ gaps' \subseteq Conn
      BY <1>0, <2>0, <3>1, AppendWire DEF SpaceTypeOK
    <3>3. (stripe + 1) % kStripes \in 0..(kStripes - 1)
      BY <1>0 DEF SpaceTypeOK, kStripes
    <3> QED
      BY <1>0, <2>0, <3>1, <3>2, <3>3 DEF NextStripe, Go, SpaceTypeOK
  <2> QED
    BY <2>1, <2>2
<1>18. ASSUME NEW v \in Viewer, Hear(v) \/ SayHello(v)
       PROVE  SpaceTypeOK'
  BY <1>0, <1>18 DEF Hear, SayHello, SpaceTypeOK
<1>19. ASSUME NEW v \in Viewer, Dial(v)
       PROVE  SpaceTypeOK'
  <2>1. dials + 1 \in Conn /\ dials' \in 0..MaxDials
    BY <1>0, <1>19 DEF Dial, SpaceTypeOK, Conn
  <2>2. Append(waiting, dials + 1) \in Seq(Conn)
    BY <1>0, <2>1 DEF SpaceTypeOK
  <2> QED
    BY <1>0, <1>19, <2>1, <2>2 DEF Dial, SpaceTypeOK
<1>20. ASSUME NEW v \in Viewer, ReadMessage(v)
       PROVE  SpaceTypeOK'
  <2>1. conn[v] \in Conn /\ wire[conn[v]] \in Seq(Message) /\ wire[conn[v]] # <<>>
    BY <1>0, <1>20 DEF ReadMessage, SpaceTypeOK
  <2>2. Head(wire[conn[v]]) \in Message /\ Tail(wire[conn[v]]) \in Seq(Message)
    BY <2>1
  <2>3. wire' \in [Conn -> Seq(Message)]
    BY <1>0, <1>20, <2>2 DEF ReadMessage, SpaceTypeOK
  <2>4. Head(wire[conn[v]]).kind = "frame" =>
          Head(wire[conn[v]]).y1 \in Nat /\ Head(wire[conn[v]]).h \in Nat
    BY <2>2 DEF Message, Control
  <2>5. covered' \in [Viewer -> Nat] /\ shown' \in [Viewer -> Nat]
    BY <1>0, <1>20, <2>4 DEF ReadMessage, SpaceTypeOK
  <2> QED
    BY <1>0, <1>20, <2>3, <2>5 DEF ReadMessage, SpaceTypeOK
<1>21. ASSUME NEW v \in Viewer, Leave(v) \/ Vanish(v)
       PROVE  SpaceTypeOK'
  <2>1. link' \in [Conn -> LinkState] /\ Hangs(v)
    BY <1>0, <1>21 DEF Leave, Vanish, SpaceTypeOK, LinkState
  <2>2. wire' \in [Conn -> Seq(Message)]
    <3>1. wire' = [wire EXCEPT ![conn[v]] = <<>>] /\ <<>> \in Seq(Message)
      BY <2>1 DEF Hangs
    <3> QED
      BY <1>0, <3>1 DEF SpaceTypeOK
  <2> QED
    BY <1>0, <2>1, <2>2 DEF Hangs, SpaceTypeOK
<1>22. ASSUME NEW c \in Conn, KernelGivesUp(c)
       PROVE  SpaceTypeOK'
  <2>1. link' \in [Conn -> LinkState] /\ wire' \in [Conn -> Seq(Message)]
    BY <1>0, <1>22 DEF KernelGivesUp, SpaceTypeOK, LinkState
  <2> QED
    BY <1>0, <1>22, <2>1 DEF KernelGivesUp, SpaceTypeOK
<1> QED
  BY <1>1, <1>2, <1>4, <1>5, <1>6, <1>8, <1>9, <1>10, <1>11, <1>12, <1>13, <1>15, <1>16,
     <1>17, <1>18, <1>19, <1>20, <1>21, <1>22
  DEF SpaceNext, Thread

\* A step that leaves the connections of the viewers, and closes or breaks ends
\* that no viewer holds.
LEMMA ViewersKept ==
    ASSUME LinksInv, UNCHANGED <<conn, covered, shown, dials>>,
           \A c \in Conn : c > dials => wire'[c] = wire[c],
           \A c \in Conn : \/ link'[c] = link[c]
                           \/ c <= dials /\ (link'[c] = "closed" \/ link[c] \notin {"up", "closed"})
    PROVE  ViewersOK'
<1>0. ViewersOK /\ SpaceTypeOK /\ (\A c \in Conn : c \in Nat) /\ dials \in Nat
  BY SpacedeskAssumption DEF LinksInv, Conn, SpaceTypeOK
<1>1. ASSUME NEW c \in Conn, c > dials PROVE wire'[c] = <<>> /\ link'[c] = "up"
  BY <1>0, <1>1 DEF ViewersOK
<1>2. ASSUME NEW v \in Viewer PROVE HoldsOK(v)'
  <2>1. HoldsOK(v) /\ conn[v] \in Conn \cup {0}
    BY <1>0 DEF ViewersOK, SpaceTypeOK
  <2>2. conn[v] # 0 => link'[conn[v]] \in {"up", "closed"}
    BY <2>1 DEF HoldsOK
  <2> QED
    BY <2>1, <2>2 DEF HoldsOK
<1> QED
  BY <1>1, <1>2 DEF ViewersOK

LEMMA QueueKept ==
    ASSUME LinksInv, waiting' = waiting, client' \in {client, 0}, dials' = dials,
           \A c \in Conn : c \in Waiting => link'[c] = link[c] \/ link'[c] # "closed"
    PROVE  QueueOK'
<1>1. ASSUME NEW i \in DOMAIN waiting
      PROVE  waiting[i] \in Conn /\ waiting[i] \in Waiting /\ waiting[i] \in Nat \ {0}
  BY <1>1, SpacedeskAssumption DEF LinksInv, SpaceTypeOK, Waiting, Conn
<1> QED
  BY <1>1 DEF LinksInv, QueueOK

LEMMA QueueGone == waiting' = <<>> => QueueOK'
  BY DEF QueueOK

LEMMA ClientEnds == LinksInv /\ Busy /\ EndClient => LinksInv'
<1> SUFFICES ASSUME LinksInv, Busy, EndClient PROVE LinksInv'
  OBVIOUS
<1>0. client \in Conn /\ client <= dials /\ (\A c \in Conn : c \in Nat /\ c # 0) /\ dials \in Nat
      /\ SpaceTypeOK
  BY SpacedeskAssumption DEF LinksInv, ThreadsOK, SpaceTypeOK, Conn
<1>1. SpaceTypeOK'
  <2>2. link' \in [Conn -> LinkState]
    BY <1>0 DEF EndClient, SpaceTypeOK, LinkState
  <2> QED
    BY <1>0, <2>2 DEF EndClient, NoSession, NoSize, Size, kStripes, SpaceTypeOK, server, viewer, hist
<1>2. ThreadsOK'
  BY <1>0 DEF LinksInv, ThreadsOK, Busy, EndClient, NoSession, server, hist
<1>3. \A c \in Conn : link'[c] = IF c = client THEN "closed" ELSE link[c]
  BY <1>0 DEF EndClient, SpaceTypeOK
<1>4. client \notin Waiting
  BY DEF LinksInv, QueueOK, Waiting
<1>5. QueueOK'
  BY <1>3, <1>4, QueueKept DEF EndClient, NoSession, server, hist
<1>6. ViewersOK'
  BY <1>0, <1>3, ViewersKept DEF EndClient, viewer, hist
<1> QED
  BY <1>1, <1>2, <1>5, <1>6 DEF LinksInv

LEMMA LinksStep == LinksInv /\ [SpaceNext]_spaceVars => LinksInv'
<1> SUFFICES ASSUME LinksInv, [SpaceNext]_spaceVars PROVE LinksInv'
  OBVIOUS
<1> USE DEF server, thread, net, viewer, hist
<1>0. /\ SpaceTypeOK /\ ThreadsOK /\ QueueOK /\ ViewersOK
      /\ (Busy => client \in Conn) /\ dials \in Nat /\ client \in Nat
      /\ \A c \in Conn : c \in Nat /\ c # 0
      /\ \A c \in Waiting : c \in Conn /\ c <= dials /\ c # client
  <2>1. /\ SpaceTypeOK /\ ThreadsOK /\ QueueOK /\ ViewersOK
    BY DEF LinksInv
  <2>2. \A c \in Conn : c \in Nat /\ c # 0
    BY SpacedeskAssumption DEF Conn
  <2>3. dials \in Nat /\ client \in Conn \cup {0} /\ waiting \in Seq(Conn)
    BY <2>1, SpacedeskAssumption DEF SpaceTypeOK
  <2>4. Busy => client \in Conn
    BY <2>1, <2>3 DEF ThreadsOK
  <2>5. \A c \in Waiting : c \in Conn /\ c <= dials /\ c # client
    BY <2>1, <2>3 DEF QueueOK, Waiting
  <2> QED
    BY <2>1, <2>2, <2>3, <2>4, <2>5
<1>t. SpaceTypeOK'
  BY SpaceTypes
<1>a. ASSUME UNCHANGED <<link, wire, conn, covered, shown, dials, waiting>>, client' \in {client, 0}
      PROVE  QueueOK' /\ ViewersOK'
  BY <1>a, QueueKept, ViewersKept
<1>1. CASE UNCHANGED spaceVars
  <2>1. ThreadsOK'
    BY <1>0, <1>1 DEF spaceVars, ThreadsOK, Busy
  <2> QED
    BY <1>1, <1>a, <1>t, <2>1 DEF spaceVars, LinksInv
<1>2. CASE Start
  <2>1. ThreadsOK'
    BY <1>0, <1>2 DEF Start, ThreadsOK, Busy
  <2> QED
    BY <1>2, <1>a, <1>t, <2>1 DEF Start, LinksInv
<1>3. ASSUME NEW cs, cs \subseteq Conn \cup {0}, \A c \in cs : c <= dials,
             ClosePort(cs), UNCHANGED <<wire, conn, covered, shown, dials>>
      PROVE  QueueOK' /\ ViewersOK'
  <2>1. \A c \in Conn : link'[c] = IF c \in cs \cup Waiting THEN "closed" ELSE link[c]
    BY <1>3 DEF ClosePort
  <2>2. \A c \in Conn : c \in cs \cup Waiting => c <= dials
    BY <1>0, <1>3
  <2>3. ViewersOK'
    BY <1>3, <2>1, <2>2, ViewersKept
  <2> QED
    BY <1>3, <2>3, QueueGone DEF ClosePort
<1>4. CASE MainReturns
  <2>1. QueueOK' /\ ViewersOK'
    BY <1>3, <1>4 DEF MainReturns
  <2>2. client' # 0 => link'[client'] # "closed"
    BY <1>0, <1>4 DEF MainReturns, ClosePort, ThreadsOK
  <2>3. ThreadsOK'
    BY <1>0, <1>4, <2>2 DEF MainReturns, ThreadsOK, Busy
  <2> QED
    BY <1>t, <2>1, <2>3 DEF LinksInv
<1>5. CASE ThreadsJoined
  <2>1. ThreadsOK'
    BY <1>0, <1>5 DEF ThreadsJoined, ThreadsOK, Busy
  <2> QED
    BY <1>5, <1>a, <1>t, <2>1 DEF ThreadsJoined, LinksInv
<1>6. CASE Kill
  <2>1. QueueOK' /\ ViewersOK'
    BY <1>0, <1>3, <1>6 DEF Kill, Dies, SpaceTypeOK, ThreadsOK
  <2>2. ThreadsOK'
    BY <1>0, <1>6 DEF Kill, Dies, NoSession, ThreadsOK, Busy
  <2> QED
    BY <1>t, <2>1, <2>2 DEF LinksInv
<1>8. CASE AcceptViewer
  <2>1. 1 \in DOMAIN waiting /\ Head(waiting) = waiting[1] /\ Head(waiting) \in Waiting
        /\ Tail(waiting) \in Seq(Conn) /\ Len(waiting) \in Nat
        /\ DOMAIN Tail(waiting) = 1..(Len(waiting) - 1) /\ DOMAIN waiting = 1..Len(waiting)
        /\ \A i \in DOMAIN Tail(waiting) : i + 1 \in DOMAIN waiting /\ Tail(waiting)[i] = waiting[i + 1]
    BY <1>0, <1>8 DEF AcceptViewer, SpaceTypeOK, Waiting
  <2>2. link[Head(waiting)] # "closed" /\ Head(waiting) <= dials /\ Head(waiting) # 0
    BY <1>0, <2>1 DEF QueueOK
  <2>3. ThreadsOK'
    BY <1>0, <1>8, <2>2 DEF AcceptViewer, Go, ThreadsOK, Busy
  <2>4. QueueOK'
    <3> SUFFICES ASSUME NEW i \in DOMAIN Tail(waiting)
                 PROVE  /\ Tail(waiting)[i] <= dials /\ Tail(waiting)[i] # Head(waiting)
                        /\ link[Tail(waiting)[i]] # "closed"
                        /\ \A j \in DOMAIN Tail(waiting) : Tail(waiting)[i] = Tail(waiting)[j] => i = j
      BY <1>8 DEF AcceptViewer, QueueOK
    <3>1. i + 1 # 1 /\ i \in Nat
      BY <2>1
    <3>2. waiting[i + 1] # waiting[1]
      BY <1>0, <2>1, <3>1 DEF QueueOK
    <3>3. \A j \in DOMAIN Tail(waiting) : waiting[i + 1] = waiting[j + 1] => i = j
      <4> SUFFICES ASSUME NEW j \in DOMAIN Tail(waiting), waiting[i + 1] = waiting[j + 1] PROVE i = j
        OBVIOUS
      <4>1. i + 1 = j + 1
        BY <1>0, <2>1 DEF QueueOK
      <4>2. j \in Nat
        BY <2>1
      <4> QED
        BY <3>1, <4>1, <4>2
    <3> QED
      BY <1>0, <2>1, <3>2, <3>3 DEF QueueOK
  <2>5. ViewersOK'
    BY <1>8, ViewersKept DEF AcceptViewer
  <2> QED
    BY <1>t, <2>3, <2>4, <2>5 DEF LinksInv
<1>9. CASE RunEnds \/ HelloArrives \/ SourceStarts \/ GrabFrame
  <2>1. ThreadsOK'
    BY <1>0, <1>9 DEF RunEnds, HelloArrives, SourceStarts, GrabFrame, Go, ThreadsOK, Busy
  <2>2. UNCHANGED <<link, wire, conn, covered, shown, dials, waiting, client>>
    BY <1>9 DEF RunEnds, HelloArrives, SourceStarts, GrabFrame
  <2> QED
    BY <1>a, <1>t, <2>1, <2>2 DEF LinksInv
<1>10. CASE HelloFails \/ SourceFails \/ StripeFails
  BY <1>10, ClientEnds DEF HelloFails, SourceFails, StripeFails, Busy
<1>7. ASSUME Busy, acc' \notin {"none", "poll"},
             UNCHANGED <<link, server, client, conn, covered, shown, dials>>,
             wire' = wire \/ \E m : SentTo(client, m)
      PROVE  LinksInv'
  <2>1. ThreadsOK'
    BY <1>0, <1>7 DEF ThreadsOK, Busy
  <2>2. QueueOK'
    BY <1>7, QueueKept
  <2>3. \A c \in Conn : c > dials => wire'[c] = wire[c]
    <3>1. client <= dials
      BY <1>0 DEF ThreadsOK
    <3> QED
      BY <1>0, <1>7, <3>1 DEF SentTo, SpaceTypeOK
  <2>4. ViewersOK'
    BY <1>7, <2>3, ViewersKept
  <2> QED
    BY <1>t, <2>1, <2>2, <2>4 DEF LinksInv
<1>11. CASE SendOpen \/ Beat
  <2>1. Busy /\ \E next \in {"source", "frame"} : SendOrEnd(Control, next)
    BY <1>11 DEF SendOpen, Beat, Busy
  <2>2. PICK next \in {"source", "frame"} : SendOrEnd(Control, next)
    BY <2>1
  <2>3. CASE EndClient
    BY <2>1, <2>3, ClientEnds
  <2>4. CASE ~EndClient
    <3>1. SentTo(client, Control) /\ Go(next)
          /\ UNCHANGED <<server, client, size, enc, stripe, link, said, viewer, hist>>
      BY <2>2, <2>4 DEF SendOrEnd
    <3> QED
      BY <1>7, <2>1, <3>1 DEF Go
  <2> QED
    BY <2>3, <2>4
<1>12. CASE Top
  <2>1. CASE EndClient
    BY <1>12, <2>1, ClientEnds DEF Top, Busy
  <2>2. CASE ~EndClient
    BY <1>7, <1>12, <2>2 DEF Top, Busy, Go
  <2> QED
    BY <2>1, <2>2
<1>13. CASE NothingNew
  <2>0. Busy
    BY <1>13 DEF NothingNew, Busy
  <2>1. CASE EndClient
    BY <2>0, <2>1, ClientEnds
  <2>2. CASE ~EndClient
    <3>1. /\ link' = IF link[client] = "rst" THEN [link EXCEPT ![client] = "dead"] ELSE link
          /\ acc' = "top"
          /\ UNCHANGED <<server, client, enc, stripe, wire, said, viewer, starts, dials, gaps>>
      BY <1>13, <2>2 DEF NothingNew, Go
    <3>2. \A c \in Conn : \/ link'[c] = link[c]
                          \/ c = client /\ link'[c] = "dead" /\ link[c] = "rst"
      BY <1>0, <3>1 DEF SpaceTypeOK
    <3>3. ViewersOK'
      BY <1>0, <3>1, <3>2, ViewersKept DEF ThreadsOK
    <3>4. QueueOK'
      BY <3>1, <3>2, QueueKept
    <3>5. ThreadsOK'
      BY <1>0, <2>0, <3>1, <3>2 DEF ThreadsOK, Busy
    <3> QED
      BY <1>t, <3>3, <3>4, <3>5 DEF LinksInv
  <2> QED
    BY <2>1, <2>2
<1>14. CASE Stripe
  <2>0. Busy
    BY <1>14 DEF Stripe, Busy
  <2>1. CASE EndClient
    BY <2>0, <2>1, ClientEnds
  <2>2. CASE ~EndClient
    BY <1>7, <1>14, <2>0, <2>2 DEF Stripe, NextStripe, Go
  <2> QED
    BY <2>1, <2>2
<1>15. ASSUME NEW v \in Viewer, Hear(v) \/ SayHello(v) PROVE LinksInv'
  <2>1. UNCHANGED <<server, link, wire, conn, covered, shown, dials, thread>>
    BY <1>15 DEF Hear, SayHello
  <2>2. ThreadsOK'
    BY <1>0, <2>1 DEF ThreadsOK, Busy
  <2> QED
    BY <1>a, <1>t, <2>1, <2>2 DEF LinksInv
<1>16. ASSUME NEW v \in Viewer, Dial(v) PROVE LinksInv'
  <2> DEFINE c == dials + 1
  <2>1. c \in Conn /\ dials' = c /\ wire[c] = <<>> /\ link[c] = "up" /\ conn[v] = 0 /\ v \in Viewer
        /\ covered[v] = 0 /\ shown[v] = 0 /\ UNCHANGED <<link, wire, covered, shown, thread, main, listening>>
        /\ conn' = [conn EXCEPT ![v] = c] /\ waiting' = Append(waiting, c)
    <3>1. c \in Conn /\ c > dials
      BY <1>0, <1>16, Bounds DEF Dial, Conn
    <3> QED
      BY <1>0, <1>16, <3>1 DEF Dial, ViewersOK, HoldsOK
  <2>2. ThreadsOK'
    BY <1>0, <2>1 DEF ThreadsOK, Busy
  <2>3. QueueOK'
    <3>1. Len(waiting) \in Nat /\ DOMAIN waiting = 1..Len(waiting)
          /\ DOMAIN waiting' = 1..(Len(waiting) + 1)
          /\ \A i \in DOMAIN waiting' : waiting'[i] = IF i = Len(waiting) + 1 THEN c ELSE waiting[i]
      <4>1. waiting \in Seq(Conn) /\ c \in Conn /\ waiting' = Append(waiting, c)
        BY <1>0, <2>1 DEF SpaceTypeOK
      <4> HIDE DEF c
      <4> QED
        BY <4>1
    <3>2. \A i \in DOMAIN waiting : waiting[i] \in Nat /\ waiting[i] <= dials /\ waiting[i] # c
      <4> SUFFICES ASSUME NEW i \in DOMAIN waiting
                   PROVE  waiting[i] \in Nat /\ waiting[i] <= dials /\ waiting[i] # c
        OBVIOUS
      <4>1. waiting[i] \in Waiting
        BY <1>0 DEF Waiting, SpaceTypeOK
      <4> QED
        BY <1>0, <4>1
    <3>3. client # c
      BY <1>0 DEF ThreadsOK
    <3> SUFFICES ASSUME NEW i \in DOMAIN waiting'
                 PROVE  /\ waiting'[i] <= c /\ waiting'[i] # client /\ link[waiting'[i]] # "closed"
                        /\ \A j \in DOMAIN waiting' : waiting'[i] = waiting'[j] => i = j
      BY <2>1 DEF QueueOK
    <3>4. CASE i = Len(waiting) + 1
      BY <1>0, <2>1, <3>1, <3>2, <3>3, <3>4
    <3>5. CASE i # Len(waiting) + 1
      <4>1. i \in DOMAIN waiting
        BY <3>1, <3>5
      <4> QED
        BY <1>0, <2>1, <3>1, <3>2, <3>3, <3>5, <4>1 DEF QueueOK
    <3> QED
      BY <3>4, <3>5
  <2>4. ViewersOK'
    <3>1. \A b \in Conn : b > dials' => wire'[b] = <<>> /\ link'[b] = "up"
      BY <1>0, <2>1 DEF ViewersOK
    <3>2. ASSUME NEW u \in Viewer PROVE HoldsOK(u)'
      <4>1. \A x \in Viewer : HoldsOK(x) /\ conn[x] \in Conn \cup {0}
                              /\ conn'[x] = (IF x = v THEN c ELSE conn[x]) /\ conn[x] # c
        BY <1>0, <2>1 DEF ViewersOK, SpaceTypeOK, HoldsOK
      <4>2. CASE u = v
        BY <1>0, <2>1, <4>1, <4>2 DEF HoldsOK
      <4>3. CASE u # v
        BY <1>0, <2>1, <4>1, <4>3 DEF HoldsOK
      <4> QED
        BY <4>2, <4>3
    <3> QED
      BY <3>1, <3>2 DEF ViewersOK
  <2> QED
    BY <1>t, <2>2, <2>3, <2>4 DEF LinksInv
<1>17. ASSUME NEW v \in Viewer, ReadMessage(v) PROVE LinksInv'
  <2>1. /\ conn[v] \in Conn /\ wire[conn[v]] # <<>> /\ wire' = [wire EXCEPT ![conn[v]] = Tail(@)]
        /\ \A u \in Viewer : u # v => covered'[u] = covered[u] /\ shown'[u] = shown[u]
        /\ UNCHANGED <<server, thread, link, conn, dials>>
    BY <1>0, <1>17 DEF ReadMessage, SpaceTypeOK
  <2>2. ThreadsOK'
    BY <1>0, <2>1 DEF ThreadsOK, Busy
  <2>3. QueueOK'
    BY <2>1, QueueKept
  <2>4. conn[v] <= dials /\ conn[v] # 0
    BY <1>0, <2>1 DEF ViewersOK, HoldsOK
  <2>5. \A c \in Conn : c > dials => wire'[c] = wire[c]
    BY <1>0, <2>1, <2>4 DEF SpaceTypeOK
  <2>6. ViewersOK'
    BY <1>0, <2>1, <2>4, <2>5 DEF ViewersOK, HoldsOK
  <2> QED
    BY <1>t, <2>2, <2>3, <2>6 DEF LinksInv
<1>18. ASSUME NEW v \in Viewer, Leave(v) \/ Vanish(v) PROVE LinksInv'
  <2> DEFINE c == conn[v]
  <2>1. /\ c \in Conn /\ conn' = [conn EXCEPT ![v] = 0] /\ wire' = [wire EXCEPT ![c] = <<>>]
        /\ covered' = [covered EXCEPT ![v] = 0] /\ shown' = [shown EXCEPT ![v] = 0]
        /\ UNCHANGED <<server, thread, dials>>
        /\ \E l \in {"fin", "rst", "lost", link[c]} : link' = [link EXCEPT ![c] = l]
    BY <1>0, <1>18 DEF Leave, Vanish, Hangs, SpaceTypeOK
  <2>2. /\ \A b \in Conn : link'[b] = IF b = c THEN link'[c] ELSE link[b]
        /\ link'[c] \in {"fin", "rst", "lost", link[c]}
    BY <1>0, <2>1 DEF SpaceTypeOK
  <2>3. ThreadsOK'
    BY <1>0, <2>1, <2>2 DEF ThreadsOK, Busy
  <2>4. QueueOK'
    BY <2>1, <2>2, QueueKept
  <2>5. ViewersOK'
    <3>1. \A b \in Conn : b > dials' => wire'[b] = <<>> /\ link'[b] = "up"
      <4>1. c <= dials
        BY <1>0, <2>1 DEF ViewersOK, HoldsOK
      <4>2. \A b \in Conn : b # c => wire'[b] = wire[b]
        BY <1>0, <2>1 DEF SpaceTypeOK
      <4> HIDE DEF c
      <4> QED
        BY <1>0, <2>1, <2>2, <4>1, <4>2 DEF ViewersOK
    <3>2. ASSUME NEW u \in Viewer PROVE HoldsOK(u)'
      <4>1. \A x \in Viewer : HoldsOK(x) /\ conn[x] \in Conn \cup {0}
                              /\ conn'[x] = (IF x = v THEN 0 ELSE conn[x])
        BY <1>0, <2>1 DEF ViewersOK, SpaceTypeOK
      <4>2. CASE u = v
        BY <1>0, <2>1, <4>1, <4>2 DEF HoldsOK, SpaceTypeOK
      <4>3. CASE u # v
        <5>1. covered'[u] = covered[u] /\ shown'[u] = shown[u]
          BY <1>0, <2>1, <4>3 DEF SpaceTypeOK
        <5>2. conn[u] # c \/ conn[u] = 0
          BY <1>0, <4>1, <4>3 DEF HoldsOK
        <5> QED
          BY <1>0, <2>1, <2>2, <4>1, <4>3, <5>1, <5>2 DEF HoldsOK
      <4> QED
        BY <4>2, <4>3
    <3> QED
      BY <3>1, <3>2 DEF ViewersOK
  <2> QED
    BY <1>t, <2>3, <2>4, <2>5 DEF LinksInv
<1>19. ASSUME NEW c \in Conn, KernelGivesUp(c) PROVE LinksInv'
  <2>1. /\ link[c] \in {"fin", "lost"} /\ link' = [link EXCEPT ![c] = "rst"]
        /\ wire' = [wire EXCEPT ![c] = <<>>]
        /\ UNCHANGED <<server, thread, viewer, dials>>
    BY <1>19 DEF KernelGivesUp
  <2>2. \A b \in Conn : link'[b] = IF b = c THEN "rst" ELSE link[b]
    BY <1>0, <2>1 DEF SpaceTypeOK
  <2>3. c <= dials
    BY <1>0, <2>1 DEF ViewersOK
  <2>4. ThreadsOK'
    BY <1>0, <2>1, <2>2 DEF ThreadsOK, Busy
  <2>5. QueueOK'
    BY <2>1, <2>2, QueueKept
  <2>6. \A b \in Conn : b > dials => wire'[b] = wire[b]
    BY <1>0, <2>1, <2>3 DEF SpaceTypeOK
  <2>7. ViewersOK'
    BY <2>1, <2>2, <2>3, <2>6, ViewersKept
  <2> QED
    BY <1>t, <2>4, <2>5, <2>7 DEF LinksInv
<1> QED
  BY <1>1, <1>2, <1>4, <1>5, <1>6, <1>8, <1>9, <1>10, <1>11, <1>12, <1>13, <1>14, <1>15,
     <1>16, <1>17, <1>18, <1>19
  DEF SpaceNext, Thread

-----------------------------------------------------------------------------
(* Spacedesk. The picture along what a viewer has not read.                *)

\* How far a picture is painted, and how high it is.
Painted == [y : Nat, h : Nat]

IsFrame(m) == m.kind = "frame"
After(m, p) == IF IsFrame(m) THEN [y |-> m.y1, h |-> m.h] ELSE p

\* A stripe that begins at row y continues the picture.
Follows(y, p) == y = p.y \/ (y = 0 /\ p.y = p.h)

\* From p on the messages s paint f, each stripe after the one before it, and
\* end in E.
Paints(s, p, E, f) ==
    /\ f[0] = p
    /\ \A k \in 1..Len(s) : /\ f[k] = After(s[k], f[k - 1])
                            /\ IsFrame(s[k]) => Follows(s[k].y0, f[k - 1])
    /\ f[Len(s)] \in E
Chain(s, p, E) == \E f \in [0..Len(s) -> Painted] : Paints(s, p, E, f)

LEMMA ChainEmpty ==
    ASSUME NEW p \in Painted, NEW E, p \in E
    PROVE  Chain(<<>>, p, E)
<1> DEFINE f == [k \in 0..0 |-> p]
<1>1. f \in [0..Len(<<>>) -> Painted] /\ f[0] = p /\ Len(<<>>) = 0
  OBVIOUS
<1>2. Paints(<<>>, p, E, f)
  BY <1>1 DEF Paints
<1> QED
  BY <1>1, <1>2 DEF Chain

LEMMA ChainMore ==
    ASSUME NEW s, NEW p, NEW E, NEW F, Chain(s, p, E), E \cap Painted \subseteq F, Len(s) \in Nat
    PROVE  Chain(s, p, F)
<1>1. PICK f \in [0..Len(s) -> Painted] : Paints(s, p, E, f)
  BY DEF Chain
<1>2. f[Len(s)] \in F
  BY <1>1 DEF Paints
<1> QED
  BY <1>1, <1>2 DEF Chain, Paints

LEMMA AfterType ==
    ASSUME NEW m \in Message, NEW p \in Painted
    PROVE  After(m, p) \in Painted
  BY DEF Message, Control, Painted, After, IsFrame

LEMMA ChainAppend ==
    ASSUME NEW s \in Seq(Message), NEW p, NEW E, NEW F, NEW m \in Message, Chain(s, p, E),
           \A q \in E \cap Painted : After(m, q) \in F /\ (IsFrame(m) => Follows(m.y0, q))
    PROVE  Chain(Append(s, m), p, F)
<1>1. PICK f \in [0..Len(s) -> Painted] : Paints(s, p, E, f)
  BY DEF Chain
<1> DEFINE n == Len(s)
           t == Append(s, m)
           last == After(m, f[n])
           g == [k \in 0..(n + 1) |-> IF k = n + 1 THEN last ELSE f[k]]
<1>2. n \in Nat /\ Len(t) = n + 1 /\ t[n + 1] = m /\ \A k \in 1..n : t[k] = s[k]
  OBVIOUS
<1>3. f[n] \in E \cap Painted
  BY <1>1, <1>2 DEF Paints
<1>4. last \in Painted /\ last \in F /\ (IsFrame(m) => Follows(m.y0, f[n]))
  BY <1>3, AfterType
<1>5. /\ f[0] = p
      /\ \A k \in 1..n : f[k] = After(s[k], f[k - 1]) /\ (IsFrame(s[k]) => Follows(s[k].y0, f[k - 1]))
  BY <1>1 DEF Paints
<1>l. last = After(m, f[n])
  OBVIOUS
<1> HIDE DEF n, t, last
<1>6. g \in [0..(n + 1) -> Painted] /\ g[n + 1] = last /\ (\A k \in 0..n : g[k] = f[k])
  <2>1. \A k \in 0..n : k # n + 1 /\ k \in 0..(n + 1)
    BY <1>2
  <2>2. \A k \in 0..(n + 1) : k # n + 1 => f[k] \in Painted
    BY <1>2, <1>1 DEF n
  <2> QED
    BY <1>2, <1>4, <2>1, <2>2
<1> HIDE DEF g
<1>7. ASSUME NEW k \in 1..(n + 1)
      PROVE  g[k] = After(t[k], g[k - 1]) /\ (IsFrame(t[k]) => Follows(t[k].y0, g[k - 1]))
  <2>1. CASE k = n + 1
    <3>1. k - 1 = n /\ n \in 0..n
      BY <1>2, <2>1
    <3>2. g[k - 1] = f[n] /\ g[k] = last /\ t[k] = m
      BY <1>2, <1>6, <2>1, <3>1
    <3> QED
      BY <1>4, <1>l, <3>2
  <2>2. CASE k # n + 1
    <3>1. k \in 1..n /\ k \in 0..n /\ k - 1 \in 0..n
      BY <1>2, <2>2
    <3>2. g[k] = f[k] /\ g[k - 1] = f[k - 1] /\ t[k] = s[k]
      BY <1>2, <1>6, <3>1
    <3> QED
      BY <1>5, <3>1, <3>2
  <2> QED
    BY <2>1, <2>2
<1>8. g[0] = p
  BY <1>2, <1>5, <1>6
<1>9. Paints(t, p, F, g)
  BY <1>2, <1>4, <1>6, <1>7, <1>8 DEF Paints
<1> QED
  BY <1>2, <1>6, <1>9 DEF Chain, t

LEMMA ChainTail ==
    ASSUME NEW s \in Seq(Message), NEW p, NEW E, s # <<>>, Chain(s, p, E)
    PROVE  Chain(Tail(s), After(Head(s), p), E)
<1>1. PICK f \in [0..Len(s) -> Painted] : Paints(s, p, E, f)
  BY DEF Chain
<1> DEFINE n == Len(s) - 1
           t == Tail(s)
           g == [k \in 0..n |-> f[k + 1]]
<1>2. n \in Nat /\ Len(s) = n + 1 /\ Len(t) = n /\ Head(s) = s[1] /\ \A k \in 1..n : t[k] = s[k + 1]
  OBVIOUS
<1>3. /\ f[0] = p /\ f[n + 1] \in E
      /\ \A k \in 1..(n + 1) : f[k] = After(s[k], f[k - 1]) /\ (IsFrame(s[k]) => Follows(s[k].y0, f[k - 1]))
  BY <1>1, <1>2 DEF Paints
<1> HIDE DEF n, t
<1>4. g \in [0..n -> Painted] /\ \A k \in 0..n : g[k] = f[k + 1]
  <2>1. \A k \in 0..n : k + 1 \in 0..(n + 1)
    BY <1>2
  <2> QED
    BY <1>2, <2>1
<1> HIDE DEF g
<1>5. g[0] = After(Head(s), p)
  <2>1. 1 \in 1..(n + 1) /\ 0 \in 0..n /\ 0 + 1 = 1 /\ 1 - 1 = 0
    BY <1>2
  <2> QED
    BY <1>2, <1>3, <1>4, <2>1
<1>6. ASSUME NEW k \in 1..n
      PROVE  g[k] = After(t[k], g[k - 1]) /\ (IsFrame(t[k]) => Follows(t[k].y0, g[k - 1]))
  <2>1. k \in 0..n /\ k - 1 \in 0..n /\ k + 1 \in 1..(n + 1) /\ (k + 1) - 1 = k /\ (k - 1) + 1 = k
    BY <1>2
  <2>2. g[k] = f[k + 1] /\ g[k - 1] = f[k] /\ t[k] = s[k + 1]
    BY <1>2, <1>4, <2>1
  <2>3. f[k + 1] = After(s[k + 1], f[k]) /\ (IsFrame(s[k + 1]) => Follows(s[k + 1].y0, f[k]))
    BY <1>3, <2>1
  <2> QED
    BY <2>2, <2>3
<1>7. g[n] \in E
  BY <1>2, <1>3, <1>4
<1>8. Paints(t, After(Head(s), p), E, g)
  BY <1>2, <1>5, <1>6, <1>7 DEF Paints
<1> QED
  BY <1>2, <1>4, <1>8 DEF Chain, t

-----------------------------------------------------------------------------
(* Spacedesk. The pictures.                                                *)

Now(v) == [y |-> covered[v], h |-> shown[v]]

\* Where everything on its way takes the picture of connection c: to the row
\* of the next stripe, or, between two pictures and before the first, to the
\* last row. A connection the host has closed may end anywhere.
Ending(c) ==
    {p \in Painted :
        /\ c = client /\ acc = "stripe" => Follows(YStart(size.h, stripe), p)
        /\ (c = client /\ acc # "stripe") \/ c \in Waiting => p.y = p.h}

\* A stripe m of connection c holds what its header says.
Fits(c, m) ==
    /\ m.y0 < m.y1 /\ m.jpeg.h = m.y1 - m.y0
    /\ c \in resized \/ m.jpeg.w = m.w

\* The encoder has the width of the mode, unless that has changed.
EncoderFits(c) ==
    c = client /\ acc \in {"top", "frame", "stripe"} => c \in resized \/ enc.w = size.w

StripesFit(c) ==
    \A k \in 1..Len(wire[c]) : IsFrame(wire[c][k]) => Fits(c, wire[c][k])

\* The connection c of viewer v.
PictureOK(v, c) ==
    conn[v] = c =>
      /\ c \in gaps \/ Chain(wire[c], Now(v), Ending(c))
      /\ StripesFit(c) /\ EncoderFits(c)

PictureInv == LinksInv /\ \A v \in Viewer, c \in Conn : PictureOK(v, c)

LEMMA PictureWhole == PictureInv => PicturesWhole
<1> SUFFICES ASSUME PictureInv, NEW v \in Viewer, conn[v] # 0, wire[conn[v]] # <<>>,
                    Head(wire[conn[v]]).kind = "frame"
             PROVE  LET c == conn[v]
                        m == Head(wire[c])
                    IN  /\ c \in gaps \/ m.y0 = covered[v] \/ (m.y0 = 0 /\ covered[v] = shown[v])
                        /\ m.y0 < m.y1 /\ m.jpeg.h = m.y1 - m.y0
                        /\ c \in resized \/ m.jpeg.w = m.w
  BY DEF PicturesWhole
<1> DEFINE c == conn[v]
           s == wire[c]
<1>1. c \in Conn /\ s \in Seq(Message) /\ PictureOK(v, c)
  BY DEF PictureInv, LinksInv, SpaceTypeOK
<1>2. 1 \in 1..Len(s) /\ Head(s) = s[1] /\ IsFrame(s[1])
  BY <1>1 DEF IsFrame
<1>3. Fits(c, s[1])
  BY <1>1, <1>2 DEF PictureOK, StripesFit
<1>4. c \in gaps \/ Follows(s[1].y0, Now(v))
  <2>1. c \in gaps \/ Chain(s, Now(v), Ending(c))
    BY <1>1 DEF PictureOK
  <2>2. ASSUME Chain(s, Now(v), Ending(c)) PROVE Follows(s[1].y0, Now(v))
    <3>1. PICK f \in [0..Len(s) -> Painted] : Paints(s, Now(v), Ending(c), f)
      BY <2>2 DEF Chain
    <3>2. f[0] = Now(v) /\ Follows(s[1].y0, f[1 - 1]) /\ 1 - 1 = 0
      BY <1>2, <3>1 DEF Paints
    <3> QED
      BY <3>2
  <2> QED
    BY <2>1, <2>2
<1> QED
  BY <1>2, <1>3, <1>4 DEF Fits, Follows, Now

\* What a viewer has before it is unchanged.
LEMMA ViewKept ==
    ASSUME LinksInv, NEW v \in Viewer, NEW c \in Conn, PictureOK(v, c),
           conn'[v] = c => /\ conn[v] = c /\ wire'[c] = wire[c]
                           /\ covered'[v] = covered[v] /\ shown'[v] = shown[v]
                           /\ (c \in gaps => c \in gaps') /\ (c \in resized => c \in resized')
                           /\ c \in gaps' \/ Ending(c) \subseteq Ending(c)'
                           /\ EncoderFits(c)'
    PROVE  PictureOK(v, c)'
<1> SUFFICES ASSUME conn'[v] = c
             PROVE  /\ c \in gaps' \/ Chain(wire[c], Now(v), Ending(c))'
                    /\ StripesFit(c)' /\ EncoderFits(c)'
  BY DEF PictureOK
<1>1. Len(wire[c]) \in Nat
  BY DEF LinksInv, SpaceTypeOK
<1>2. Now(v)' = Now(v)
  BY DEF Now
<1>3. c \in gaps' \/ Chain(wire[c], Now(v), Ending(c))'
  <2>1. c \in gaps \/ Chain(wire[c], Now(v), Ending(c))
    BY DEF PictureOK
  <2>3. c \notin gaps' /\ Chain(wire[c], Now(v), Ending(c)) => Chain(wire[c], Now(v), Ending(c)')
    BY <1>1, ChainMore
  <2>4. Chain(wire[c], Now(v), Ending(c))' <=> Chain(wire'[c], Now(v)', Ending(c)')
    BY DEF Chain, Paints
  <2> QED
    BY <1>2, <2>1, <2>3, <2>4
<1>4. StripesFit(c)'
  BY DEF PictureOK, StripesFit, Fits
<1> QED
  BY <1>3, <1>4

\* The place where a connection ends is given up at no step but the stripe's.
LEMMA EndingKept ==
    ASSUME NEW c \in Conn,
           c = client' \/ c \in Waiting' => c = client \/ c \in Waiting,
           c = client' /\ acc' = "stripe" =>
             IF c = client /\ acc = "stripe"
               THEN stripe' = stripe /\ size' = size
               ELSE stripe' = 0 /\ size'.h \in Nat,
           (c = client' /\ acc' # "stripe") \/ c \in Waiting' =>
             (c = client /\ acc # "stripe") \/ c \in Waiting
    PROVE  Ending(c) \subseteq Ending(c)'
<1> SUFFICES ASSUME NEW q \in Ending(c) PROVE q \in Ending(c)'
  OBVIOUS
<1>1. q \in Painted
  BY DEF Ending
<1>2. ASSUME c = client', acc' = "stripe" PROVE Follows(YStart(size.h, stripe)', q)
  <2>1. CASE c = client /\ acc = "stripe"
    BY <1>2, <2>1 DEF Ending, YStart
  <2>2. CASE ~(c = client /\ acc = "stripe")
    <3>1. YStart(size.h, stripe)' = 0
      <4>1. stripe' = 0 /\ size'.h \in Nat /\ 0 \in 0..(kStripes - 1)
        BY <1>2, <2>2 DEF kStripes
      <4>2. YStart(size'.h, 0) = 0
        BY <4>1, StripeRows
      <4> QED
        BY <4>1, <4>2 DEF YStart
    <3>2. q.y = q.h
      BY <1>2, <2>2 DEF Ending
    <3> QED
      BY <3>1, <3>2 DEF Follows
  <2> QED
    BY <2>1, <2>2
<1>3. ASSUME (c = client' /\ acc' # "stripe") \/ c \in Waiting' PROVE q.y = q.h
  BY <1>3 DEF Ending
<1> QED
  BY <1>1, <1>2, <1>3 DEF Ending, Follows

\* The accept thread serves nobody any more.
LEMMA ClientGone ==
    ASSUME PictureInv, LinksInv', client' = 0, Waiting' \subseteq Waiting,
           UNCHANGED <<wire, conn, covered, shown, gaps, resized>>
    PROVE  PictureInv'
<1> SUFFICES ASSUME NEW v \in Viewer, NEW c \in Conn PROVE PictureOK(v, c)'
  BY DEF PictureInv
<1>1. c # client'
  BY SpacedeskAssumption DEF Conn
<1>2. Ending(c) \subseteq Ending(c)'
  BY <1>1, EndingKept
<1>3. EncoderFits(c)'
  BY <1>1 DEF EncoderFits
<1> QED
  BY <1>2, <1>3, ViewKept DEF PictureInv

\* A step of a thread that sends nothing.
LEMMA NothingSent ==
    ASSUME PictureInv, LinksInv',
           UNCHANGED <<wire, conn, covered, shown, client, waiting, gaps>>, resized \subseteq resized',
           acc' # "stripe" \/ (acc # "stripe" /\ stripe' = 0 /\ size'.h \in Nat)
             \/ UNCHANGED <<acc, stripe, size>>,
           acc = "stripe" => acc' = "stripe",
           acc' \in {"top", "frame", "stripe"} =>
             client \in resized' \/ enc'.w = size'.w
               \/ (client \notin resized /\ acc \in {"top", "frame", "stripe"}
                     /\ size'.w = size.w /\ enc' = enc)
    PROVE  PictureInv'
<1> SUFFICES ASSUME NEW v \in Viewer, NEW c \in Conn PROVE PictureOK(v, c)'
  BY DEF PictureInv
<1>1. Waiting' = Waiting
  BY DEF Waiting
<1>2. Ending(c) \subseteq Ending(c)'
  BY <1>1, EndingKept
<1>3. conn[v] = c => EncoderFits(c)'
  BY DEF EncoderFits, PictureInv, PictureOK
<1> QED
  BY <1>2, <1>3, ViewKept DEF PictureInv

\* The server says something that is no stripe.
LEMMA ControlSent ==
    ASSUME PictureInv, LinksInv', client \in Conn, SentTo(client, Control), acc \in {"open", "top"},
           acc' \in {"source", "frame"}, acc = "open" => acc' = "source",
           UNCHANGED <<conn, covered, shown, client, waiting, gaps, resized, enc, size>>
    PROVE  PictureInv'
<1> SUFFICES ASSUME NEW v \in Viewer, NEW c \in Conn PROVE PictureOK(v, c)'
  BY DEF PictureInv
<1>0. LinksInv /\ SpaceTypeOK /\ PictureOK(v, c) /\ Control \in Message
  BY DEF PictureInv, LinksInv, Message
<1>1. Waiting' = Waiting
  BY DEF Waiting
<1>2. Ending(c) \subseteq Ending(c)'
  BY <1>1, EndingKept
<1>3. conn[v] = c => EncoderFits(c)'
  BY <1>0 DEF EncoderFits, PictureOK
<1>4. wire' = [wire EXCEPT ![client] = Append(@, Control)]
  BY <1>0, AppendWire
<1>5. CASE c # client
  <2>1. wire'[c] = wire[c]
    BY <1>0, <1>4, <1>5 DEF SpaceTypeOK
  <2> QED
    BY <1>0, <1>2, <1>3, <2>1, ViewKept
<1>6. CASE c = client
  <2> SUFFICES ASSUME conn[v] = c
               PROVE  /\ c \in gaps' \/ Chain(wire[c], Now(v), Ending(c))'
                      /\ StripesFit(c)' /\ EncoderFits(c)'
    BY DEF PictureOK
  <2>1. wire[c] \in Seq(Message) /\ wire'[c] = Append(wire[c], Control) /\ ~IsFrame(Control)
    BY <1>0, <1>4, <1>6 DEF SpaceTypeOK, IsFrame, Control
  <2>2. Len(wire'[c]) = Len(wire[c]) + 1 /\ Len(wire[c]) \in Nat
        /\ \A k \in 1..Len(wire'[c]) : wire'[c][k] = IF k = Len(wire[c]) + 1 THEN Control ELSE wire[c][k]
    BY <2>1
  <2>3. StripesFit(c)'
    <3>1. StripesFit(c)
      BY <1>0 DEF PictureOK
    <3> QED
      BY <2>1, <2>2, <3>1 DEF StripesFit, Fits
  <2>4. \A q \in Ending(c) \cap Painted : After(Control, q) \in Ending(c)' /\ ~IsFrame(Control)
    BY <1>2, <2>1 DEF After
  <2>5. Chain(wire[c], Now(v), Ending(c)) => Chain(wire'[c], Now(v), Ending(c)')
    BY <1>0, <2>1, <2>4, ChainAppend
  <2>6. Now(v)' = Now(v)
    BY DEF Now
  <2>7. Chain(wire[c], Now(v), Ending(c))' <=> Chain(wire'[c], Now(v)', Ending(c)')
    BY DEF Chain, Paints
  <2>8. c \in gaps \/ Chain(wire[c], Now(v), Ending(c))
    BY <1>0 DEF PictureOK
  <2> QED
    BY <1>3, <2>3, <2>5, <2>6, <2>7, <2>8
<1> QED
  BY <1>5, <1>6

\* The next stripe of the picture.
LEMMA StripeSent ==
    ASSUME PictureInv, LinksInv', client \in Conn, acc = "stripe", Encoder.h > 0,
           SentTo(client, Picture), NextStripe, UNCHANGED <<link, gaps>>
    PROVE  PictureInv'
<1> SUFFICES ASSUME NEW v \in Viewer, NEW c \in Conn PROVE PictureOK(v, c)'
  BY DEF PictureInv
<1>0. LinksInv /\ SpaceTypeOK /\ PictureOK(v, c) /\ Picture \in Message
      /\ UNCHANGED <<conn, covered, shown, client, waiting, gaps, resized, size>>
  BY EncoderType DEF PictureInv, LinksInv, NextStripe, server, viewer
<1>1. Waiting' = Waiting
  BY <1>0 DEF Waiting
<1>3. conn[v] = c => EncoderFits(c)'
  BY <1>0 DEF EncoderFits, PictureOK, NextStripe, Encoder
<1>5. CASE c # client
  <2>1. wire'[c] = wire[c]
    BY <1>0, <1>5, AppendWire DEF SpaceTypeOK
  <2>2. Ending(c) \subseteq Ending(c)'
    BY <1>0, <1>1, <1>5, EndingKept
  <2> QED
    BY <1>0, <1>3, <2>1, <2>2, ViewKept
<1>6. CASE c = client
  <2> SUFFICES ASSUME conn[v] = c
               PROVE  /\ c \in gaps' \/ Chain(wire[c], Now(v), Ending(c))'
                      /\ StripesFit(c)' /\ EncoderFits(c)'
    BY <1>0 DEF PictureOK
  <2> DEFINE m == Picture
  <2>1. link[c] = "up"
    BY <1>0, <1>6 DEF LinksInv, ThreadsOK, ViewersOK, HoldsOK, Conn
  <2>2. wire[c] \in Seq(Message) /\ wire'[c] = Append(wire[c], m) /\ m \in Message
    BY <1>0, <1>6, <2>1, AppendWire DEF SpaceTypeOK
  <2>3. size.h \in Nat /\ stripe \in 0..(kStripes - 1) /\ size.w \in Nat
    BY <1>0 DEF SpaceTypeOK, Size
  <2>4. /\ IsFrame(m) /\ m.w = size.w /\ m.h = size.h /\ m.jpeg = Encoder
        /\ m.y0 = YStart(size.h, stripe) /\ m.y1 = YEnd(size.h, stripe)
    BY DEF Picture, IsFrame
  <2>5. Fits(c, m)
    <3>1. m.y0 \in Nat /\ m.y1 \in Nat /\ Encoder.h = m.y1 - m.y0
      BY <1>0, <2>3, <2>4, StripeRows, EncoderType
    <3>2. c \in resized \/ Encoder.w = size.w
      BY <1>0, <1>6 DEF PictureOK, EncoderFits, Encoder
    <3> QED
      BY <2>4, <3>1, <3>2 DEF Fits
  <2>6. \A q \in Ending(c) \cap Painted : After(m, q) \in Ending(c)' /\ (IsFrame(m) => Follows(m.y0, q))
    <3> SUFFICES ASSUME NEW q \in Ending(c)
                 PROVE  After(m, q) \in Ending(c)' /\ Follows(m.y0, q)
      OBVIOUS
    <3>1. Follows(m.y0, q) /\ q \in Painted
      BY <1>6, <2>4 DEF Ending
    <3>2. After(m, q) = [y |-> m.y1, h |-> size.h] /\ After(m, q) \in Painted
      BY <2>2, <2>4, <3>1, AfterType DEF After
    <3>3. CASE stripe = kStripes - 1
      <4>1. acc' = "top" /\ m.y1 = size.h
        BY <2>3, <2>4, <3>3, StripeRows DEF NextStripe, Go
      <4> QED
        BY <3>1, <3>2, <4>1 DEF Ending
    <3>4. CASE stripe # kStripes - 1
      <4>1. acc' = "stripe" /\ stripe' = stripe + 1
        BY <2>3, <3>4 DEF NextStripe, Go, kStripes
      <4>2. m.y1 = YStart(size.h, stripe + 1)
        BY <2>3, <2>4, <3>4, StripeRows
      <4>3. YStart(size.h, stripe)' = m.y1
        BY <1>0, <4>1, <4>2 DEF YStart
      <4>4. c \notin Waiting'
        BY <1>0, <1>1, <1>6 DEF LinksInv, QueueOK, Waiting
      <4> QED
        BY <3>1, <3>2, <4>1, <4>3, <4>4 DEF Ending, Follows
    <3> QED
      BY <3>1, <3>3, <3>4
  <2> HIDE DEF m
  <2>7. Len(wire'[c]) = Len(wire[c]) + 1 /\ Len(wire[c]) \in Nat
        /\ \A k \in 1..Len(wire'[c]) : wire'[c][k] = IF k = Len(wire[c]) + 1 THEN m ELSE wire[c][k]
    BY <2>2
  <2>8. StripesFit(c)'
    <3>1. StripesFit(c)
      BY <1>0 DEF PictureOK
    <3>2. \A n : Fits(c, n) => Fits(c, n)'
      BY <1>0 DEF Fits
    <3>3. \A k \in 1..Len(wire'[c]) : IsFrame(wire'[c][k]) => Fits(c, wire'[c][k])
      BY <2>5, <2>7, <3>1 DEF StripesFit
    <3> QED
      BY <1>0, <3>3 DEF StripesFit, Fits
  <2>9. Chain(wire[c], Now(v), Ending(c)) => Chain(wire'[c], Now(v), Ending(c)')
    BY <2>2, <2>6, ChainAppend
  <2>10. Now(v)' = Now(v)
    BY <1>0 DEF Now
  <2>11. Chain(wire[c], Now(v), Ending(c))' <=> Chain(wire'[c], Now(v)', Ending(c)')
    BY DEF Chain, Paints
  <2>12. c \in gaps \/ Chain(wire[c], Now(v), Ending(c))
    BY <1>0 DEF PictureOK
  <2> QED
    BY <1>0, <1>3, <1>6, <2>8, <2>9, <2>10, <2>11, <2>12
<1> QED
  BY <1>5, <1>6

\* The encoder refuses a stripe.
LEMMA StripeLeftOut ==
    ASSUME PictureInv, LinksInv', acc = "stripe", gaps' = gaps \cup {client}, NextStripe,
           UNCHANGED <<link, wire>>
    PROVE  PictureInv'
<1> SUFFICES ASSUME NEW v \in Viewer, NEW c \in Conn PROVE PictureOK(v, c)'
  BY DEF PictureInv
<1>0. LinksInv /\ PictureOK(v, c)
      /\ UNCHANGED <<conn, covered, shown, client, waiting, resized, size, wire>>
  BY DEF PictureInv, NextStripe, server, viewer
<1>1. Waiting' = Waiting
  BY <1>0 DEF Waiting
<1>2. conn[v] = c => EncoderFits(c)'
  BY <1>0 DEF EncoderFits, PictureOK, NextStripe, Encoder
<1>3. c \in gaps' \/ Ending(c) \subseteq Ending(c)'
  BY <1>0, <1>1, EndingKept
<1> QED
  BY <1>0, <1>2, <1>3, ViewKept

\* A viewer takes the next message.
LEMMA MessageRead ==
    ASSUME PictureInv, LinksInv', NEW u \in Viewer, ReadMessage(u)
    PROVE  PictureInv'
<1> SUFFICES ASSUME NEW v \in Viewer, NEW c \in Conn PROVE PictureOK(v, c)'
  BY DEF PictureInv
<1>0. LinksInv /\ SpaceTypeOK /\ PictureOK(v, c) /\ conn[u] \in Conn
      /\ UNCHANGED <<conn, client, waiting, acc, stripe, size, enc, gaps, resized>>
  BY DEF PictureInv, LinksInv, ReadMessage, SpaceTypeOK, server, thread, hist
<1>1. Ending(c)' = Ending(c) /\ (conn[v] = c => EncoderFits(c)')
  BY <1>0 DEF Ending, Waiting, YStart, EncoderFits, PictureOK
<1>2. CASE v # u
  <2> SUFFICES ASSUME conn[v] = c PROVE PictureOK(v, c)'
    BY <1>0 DEF PictureOK
  <2>1. c # conn[u]
    BY <1>0, <1>2, SpacedeskAssumption DEF LinksInv, ViewersOK, HoldsOK, Conn
  <2>2. wire'[c] = wire[c] /\ covered'[v] = covered[v] /\ shown'[v] = shown[v]
    BY <1>0, <1>2, <2>1 DEF ReadMessage, SpaceTypeOK
  <2> QED
    BY <1>0, <1>1, <2>2, ViewKept
<1>3. CASE v = u
  <2> SUFFICES ASSUME conn[v] = c
               PROVE  /\ c \in gaps' \/ Chain(wire[c], Now(v), Ending(c))'
                      /\ StripesFit(c)' /\ EncoderFits(c)'
    BY <1>0 DEF PictureOK
  <2>1. /\ wire[c] \in Seq(Message) /\ wire[c] # <<>> /\ wire'[c] = Tail(wire[c])
        /\ covered'[v] = IF IsFrame(Head(wire[c])) THEN Head(wire[c]).y1 ELSE covered[v]
        /\ shown'[v] = IF IsFrame(Head(wire[c])) THEN Head(wire[c]).h ELSE shown[v]
    BY <1>0, <1>3 DEF ReadMessage, SpaceTypeOK, IsFrame
  <2>2. Now(v)' = After(Head(wire[c]), Now(v))
    BY <2>1 DEF Now, After
  <2>3. Chain(wire[c], Now(v), Ending(c)) => Chain(wire'[c], Now(v)', Ending(c)')
    BY <1>1, <2>1, <2>2, ChainTail
  <2>4. Chain(wire[c], Now(v), Ending(c))' <=> Chain(wire'[c], Now(v)', Ending(c)')
    BY DEF Chain, Paints
  <2>5. c \in gaps \/ Chain(wire[c], Now(v), Ending(c))
    BY <1>0 DEF PictureOK
  <2>6. StripesFit(c)'
    <3>1. Len(wire'[c]) = Len(wire[c]) - 1 /\ Len(wire[c]) \in Nat
          /\ \A k \in 1..Len(wire'[c]) : wire'[c][k] = wire[c][k + 1]
      BY <2>1
    <3>2. StripesFit(c)
      BY <1>0 DEF PictureOK
    <3>3. \A k \in 1..Len(wire'[c]) : IsFrame(wire'[c][k]) => Fits(c, wire'[c][k])
      BY <3>1, <3>2 DEF StripesFit
    <3> QED
      BY <1>0, <3>3 DEF StripesFit, Fits
  <2> QED
    BY <1>0, <1>1, <2>3, <2>4, <2>5, <2>6
<1> QED
  BY <1>2, <1>3

LEMMA ViewerDials ==
    ASSUME PictureInv, LinksInv', NEW u \in Viewer, Dial(u)
    PROVE  PictureInv'
<1> SUFFICES ASSUME NEW v \in Viewer, NEW c \in Conn PROVE PictureOK(v, c)'
  BY DEF PictureInv
<1>0. LinksInv /\ SpaceTypeOK /\ PictureOK(v, c) /\ dials \in Nat /\ c \in Nat /\ client <= dials
      /\ UNCHANGED <<wire, covered, shown, client, acc, stripe, size, enc, gaps, resized>>
      /\ conn' = [conn EXCEPT ![u] = dials + 1] /\ waiting' = Append(waiting, dials + 1)
  <2>1. LinksInv /\ SpaceTypeOK /\ PictureOK(v, c) /\ client <= dials
    BY DEF PictureInv, LinksInv, ThreadsOK
  <2>2. dials \in Nat /\ c \in Nat
    BY <2>1, Bounds DEF SpaceTypeOK, Conn
  <2>3. /\ UNCHANGED <<wire, covered, shown, client, acc, stripe, size, enc, gaps, resized>>
        /\ conn' = [conn EXCEPT ![u] = dials + 1] /\ waiting' = Append(waiting, dials + 1)
    BY DEF Dial, thread, net
  <2> QED
    BY <2>1, <2>2, <2>3
<1>1. Waiting' = Waiting \cup {dials + 1}
  <2> DEFINE n == Len(waiting)
  <2>1. n \in Nat /\ Len(waiting') = n + 1
        /\ \A i \in 1..(n + 1) : waiting'[i] = IF i = n + 1 THEN dials + 1 ELSE waiting[i]
    BY <1>0 DEF SpaceTypeOK
  <2> HIDE DEF n
  <2>2. (n + 1) \in 1..(n + 1) /\ \A i \in 1..n : i \in 1..(n + 1) /\ i # n + 1
    BY <2>1
  <2>3. \A i \in 1..(n + 1) : i = n + 1 \/ i \in 1..n
    BY <2>1
  <2> QED
    BY <2>1, <2>2, <2>3 DEF Waiting, n
<1>2. CASE v # u
  <2> SUFFICES ASSUME conn[v] = c PROVE PictureOK(v, c)'
    BY <1>0, <1>2 DEF PictureOK, SpaceTypeOK
  <2>1. c # dials + 1
    BY <1>0 DEF LinksInv, ViewersOK, HoldsOK
  <2>2. Ending(c) \subseteq Ending(c)'
    BY <1>0, <1>1, <2>1, EndingKept
  <2>3. EncoderFits(c)'
    BY <1>0 DEF EncoderFits, PictureOK
  <2> QED
    BY <1>0, <2>2, <2>3, ViewKept
<1>3. CASE v = u
  <2> SUFFICES ASSUME c = dials + 1
               PROVE  /\ c \in gaps' \/ Chain(wire[c], Now(v), Ending(c))'
                      /\ StripesFit(c)' /\ EncoderFits(c)'
    BY <1>0, <1>3 DEF PictureOK, SpaceTypeOK
  <2>1. wire'[c] = <<>> /\ c # client /\ covered'[v] = 0 /\ shown'[v] = 0
    BY <1>0, <1>3 DEF LinksInv, ViewersOK, HoldsOK, Dial
  <2>2. Now(v)' \in Painted /\ Now(v)' \in Ending(c)'
    BY <1>0, <2>1 DEF Now, Painted, Ending
  <2>3. Chain(<<>>, Now(v)', Ending(c)')
    BY <2>2, ChainEmpty
  <2>4. Chain(wire[c], Now(v), Ending(c))' <=> Chain(wire'[c], Now(v)', Ending(c)')
    BY DEF Chain, Paints
  <2> QED
    BY <1>0, <2>1, <2>3, <2>4 DEF StripesFit, EncoderFits
<1> QED
  BY <1>2, <1>3

LEMMA ViewerLeaves ==
    ASSUME PictureInv, LinksInv', NEW u \in Viewer, Leave(u) \/ Vanish(u)
    PROVE  PictureInv'
<1> SUFFICES ASSUME NEW v \in Viewer, NEW c \in Conn PROVE PictureOK(v, c)'
  BY DEF PictureInv
<1>0. LinksInv /\ SpaceTypeOK /\ PictureOK(v, c) /\ Hangs(u) /\ waiting' = waiting
      /\ UNCHANGED <<client, acc, stripe, size, enc>> /\ 0 \notin Conn
  BY SpacedeskAssumption DEF PictureInv, LinksInv, Leave, Vanish, Hangs, server, thread, Conn
<1> SUFFICES ASSUME conn'[v] = c PROVE PictureOK(v, c)'
  BY DEF PictureOK
<1>1. v # u /\ conn[v] = c
  BY <1>0 DEF Hangs, SpaceTypeOK
<1>2. c # conn[u]
  BY <1>0, <1>1 DEF LinksInv, ViewersOK, HoldsOK
<1>3. wire'[c] = wire[c] /\ covered'[v] = covered[v] /\ shown'[v] = shown[v]
      /\ (c \in gaps' <=> c \in gaps) /\ (c \in resized' <=> c \in resized)
  BY <1>0, <1>1, <1>2 DEF Hangs, SpaceTypeOK
<1>4. Ending(c)' = Ending(c)
  BY <1>0 DEF Ending, Waiting, YStart
<1>5. EncoderFits(c)'
  BY <1>0, <1>1, <1>3 DEF EncoderFits, PictureOK
<1> QED
  BY <1>0, <1>1, <1>3, <1>4, <1>5, ViewKept

LEMMA PictureStep == PictureInv /\ [SpaceNext]_spaceVars => PictureInv'
<1> SUFFICES ASSUME PictureInv, [SpaceNext]_spaceVars PROVE PictureInv'
  OBVIOUS
<1> USE DEF server, thread, net, viewer, hist
<1>0. LinksInv /\ LinksInv' /\ (Busy => client \in Conn) /\ SpaceTypeOK /\ size.h \in Nat
      /\ SpaceTypeOK' /\ size'.h \in Nat
  BY LinksStep DEF PictureInv, LinksInv, SpaceTypeOK, ThreadsOK, Size
<1>k. ASSUME UNCHANGED <<wire, conn, covered, shown, client, waiting, gaps, resized, acc, stripe, size, enc>>
      PROVE  PictureInv'
  BY <1>0, <1>k, NothingSent
<1>c. ASSUME Busy, EndClient PROVE PictureInv'
  <2>1. Waiting' = Waiting
    BY <1>c DEF EndClient, Waiting
  <2> QED
    BY <1>0, <1>c, <2>1, ClientGone DEF EndClient, NoSession
<1>1. CASE UNCHANGED spaceVars \/ ThreadsJoined
  BY <1>1, <1>k DEF spaceVars, ThreadsJoined
<1>2. CASE Start
  <2>1. client = 0 /\ acc = "none"
    BY <1>0, <1>2 DEF Start, LinksInv, ThreadsOK, Busy
  <2> QED
    BY <1>0, <1>2, <2>1, ClientGone DEF Start, Waiting
<1>3. ASSUME ClosePort({}) \/ ClosePort({client}) PROVE Waiting' = {}
  BY <1>3 DEF ClosePort, Waiting
<1>4. CASE MainReturns
  <2> SUFFICES ASSUME NEW v \in Viewer, NEW c \in Conn PROVE PictureOK(v, c)'
    BY <1>0 DEF PictureInv
  <2>1. UNCHANGED <<wire, conn, covered, shown, client, gaps, resized, acc, stripe, size, enc>>
        /\ Waiting' = {}
    BY <1>3, <1>4 DEF MainReturns
  <2>2. Ending(c) \subseteq Ending(c)'
    BY <2>1, EndingKept
  <2>3. conn[v] = c => EncoderFits(c)'
    BY <2>1 DEF EncoderFits, PictureInv, PictureOK
  <2> QED
    BY <1>0, <2>1, <2>2, <2>3, ViewKept DEF PictureInv
<1>6. CASE Kill
  BY <1>0, <1>3, <1>6, ClientGone DEF Kill, Dies, NoSession
<1>8. CASE AcceptViewer
  <2> SUFFICES ASSUME NEW v \in Viewer, NEW c \in Conn PROVE PictureOK(v, c)'
    BY <1>0 DEF PictureInv
  <2>1. UNCHANGED <<wire, conn, covered, shown, gaps, resized>> /\ acc' = "hello"
    BY <1>8 DEF AcceptViewer, Go
  <2>2. client' \in Waiting /\ Waiting' \subseteq Waiting
    <3>1. waiting \in Seq(Conn) /\ waiting # <<>> /\ waiting' = Tail(waiting) /\ client' = Head(waiting)
      BY <1>0, <1>8 DEF AcceptViewer, SpaceTypeOK
    <3>2. Len(waiting) \in Nat /\ Len(waiting') = Len(waiting) - 1 /\ Head(waiting) = waiting[1]
          /\ \A i \in 1..Len(waiting') : waiting'[i] = waiting[i + 1] /\ i + 1 \in 1..Len(waiting)
          /\ 1 \in 1..Len(waiting)
      BY <3>1
    <3> QED
      BY <3>1, <3>2 DEF Waiting
  <2>3. Ending(c) \subseteq Ending(c)'
    BY <2>1, <2>2, EndingKept
  <2>4. EncoderFits(c)'
    BY <2>1 DEF EncoderFits
  <2> QED
    BY <1>0, <2>1, <2>3, <2>4, ViewKept DEF PictureInv
<1>9. CASE RunEnds \/ HelloArrives
  BY <1>0, <1>9, NothingSent DEF RunEnds, HelloArrives, Go
<1>10. CASE HelloFails \/ SourceFails \/ StripeFails
  BY <1>10, <1>c DEF HelloFails, SourceFails, StripeFails, Busy
<1>11. CASE SendOpen \/ Beat
  <2>1. Busy
    BY <1>11 DEF SendOpen, Beat, Busy
  <2>2. CASE EndClient
    BY <1>c, <2>1, <2>2
  <2>3. CASE ~EndClient
    <3>1. /\ SentTo(client, Control) /\ acc \in {"open", "top"} /\ acc' \in {"source", "frame"}
          /\ acc = "open" => acc' = "source"
          /\ UNCHANGED <<server, client, size, enc, stripe, link, said, viewer, hist>>
      BY <1>11, <2>3 DEF SendOpen, Beat, SendOrEnd, Go
    <3> QED
      BY <1>0, <2>1, <3>1, ControlSent
  <2> QED
    BY <2>2, <2>3
<1>12. CASE SourceStarts
  <2>1. size'.w = enc'.w /\ acc = "source" /\ acc' = "top"
        /\ UNCHANGED <<server, client, stripe, net, viewer, hist>>
    BY <1>12 DEF SourceStarts, Go
  <2> QED
    BY <1>0, <2>1, NothingSent
<1>13. CASE Top
  <2>1. CASE EndClient
    BY <1>13, <1>c, <2>1 DEF Top, Busy
  <2>2. CASE ~EndClient
    <3>1. acc = "top" /\ acc' = "frame" /\ UNCHANGED <<server, client, size, enc, stripe, net, viewer, hist>>
      BY <1>13, <2>2 DEF Top, Go
    <3> QED
      BY <1>0, <3>1, NothingSent
  <2> QED
    BY <2>1, <2>2
<1>p. ASSUME Busy, Pump
      PROVE  /\ resized \subseteq resized'
             /\ client \in resized' \/ (client \notin resized /\ size'.w = size.w)
  BY <1>p DEF Pump
<1>14. CASE GrabFrame
  <2>1. /\ acc = "frame" /\ acc' = "stripe" /\ stripe' = 0 /\ Pump
        /\ UNCHANGED <<server, client, enc, net, viewer, starts, dials, gaps>>
    BY <1>14 DEF GrabFrame, Go
  <2>2. Busy
    BY <2>1 DEF Busy
  <2> QED
    BY <1>0, <1>p, <2>1, <2>2, NothingSent
<1>15. CASE NothingNew
  <2>0. Busy
    BY <1>15 DEF NothingNew, Busy
  <2>1. CASE EndClient
    BY <1>c, <2>0, <2>1
  <2>2. CASE ~EndClient
    <3>1. /\ acc = "frame" /\ acc' = "top" /\ Pump
          /\ UNCHANGED <<server, client, enc, stripe, wire, said, viewer, starts, dials, gaps>>
      BY <1>15, <2>2 DEF NothingNew, Go
    <3> QED
      BY <1>0, <1>p, <2>0, <3>1, NothingSent
  <2> QED
    BY <2>1, <2>2
<1>16. CASE Stripe
  <2>0. Busy /\ acc = "stripe" /\ Encoder.h > 0
    BY <1>16 DEF Stripe, Busy
  <2>1. CASE EndClient
    BY <1>c, <2>0, <2>1
  <2>2. CASE SentTo(client, Picture) /\ NextStripe /\ UNCHANGED <<link, gaps>>
    BY <1>0, <2>0, <2>2, StripeSent
  <2>3. CASE gaps' = gaps \cup {client} /\ NextStripe /\ UNCHANGED <<link, wire>>
    BY <1>0, <2>0, <2>3, StripeLeftOut
  <2> QED
    BY <1>16, <2>1, <2>2, <2>3 DEF Stripe
<1>17. ASSUME NEW v \in Viewer, Hear(v) \/ SayHello(v) PROVE PictureInv'
  BY <1>17, <1>k DEF Hear, SayHello
<1>18. ASSUME NEW u \in Viewer, Dial(u) \/ ReadMessage(u) \/ Leave(u) \/ Vanish(u) PROVE PictureInv'
  BY <1>0, <1>18, ViewerDials, MessageRead, ViewerLeaves
<1>19. ASSUME NEW b \in Conn, KernelGivesUp(b) PROVE PictureInv'
  <2> SUFFICES ASSUME NEW v \in Viewer, NEW c \in Conn, conn[v] = c PROVE PictureOK(v, c)'
    BY <1>0, <1>19 DEF PictureInv, PictureOK, KernelGivesUp
  <2>1. c # b
    BY <1>0, <1>19, SpacedeskAssumption DEF LinksInv, ViewersOK, HoldsOK, KernelGivesUp, Conn
  <2>2. wire'[c] = wire[c] /\ Waiting' = Waiting
    BY <1>0, <1>19, <2>1 DEF KernelGivesUp, SpaceTypeOK, Waiting
  <2>3. UNCHANGED <<conn, covered, shown, client, gaps, resized, acc, stripe, size, enc>>
    BY <1>19 DEF KernelGivesUp
  <2>4. Ending(c) \subseteq Ending(c)'
    BY <1>0, <2>2, <2>3, EndingKept
  <2>5. EncoderFits(c)'
    BY <2>3 DEF EncoderFits, PictureInv, PictureOK
  <2> QED
    BY <1>0, <2>2, <2>3, <2>4, <2>5, ViewKept DEF PictureInv
<1> QED
  BY <1>1, <1>2, <1>4, <1>6, <1>8, <1>9, <1>10, <1>11, <1>12, <1>13, <1>14, <1>15, <1>16,
     <1>17, <1>18, <1>19
  DEF SpaceNext, Thread

LEMMA InitPicture == SpaceInit => PictureInv
<1> SUFFICES ASSUME SpaceInit PROVE PictureInv
  OBVIOUS
<1>1. \A v \in Viewer, c \in Conn : conn[v] # c
  BY SpacedeskAssumption DEF SpaceInit, Conn
<1> QED
  BY <1>1, InitLinks DEF PictureInv, PictureOK

\* Every variable of the server, of its accept thread, of the connections and
\* of the viewers stays in its type.
THEOREM SpaceTypeCorrect == SpaceSpec => []SpaceTypeOK
<1>1. LinksInv => SpaceTypeOK
  BY DEF LinksInv
<1> QED
  BY <1>1, InitLinks, LinksStep, PTL DEF SpaceSpec

\* What a viewer reads next continues the picture it has, in stripes of the
\* size the header says, over any number of viewers, connections, frames and
\* changes of the mode, unless the encoder refused a stripe, or the width of
\* the mode changed.
THEOREM PicturesAreWhole == SpaceSpec => []PicturesWhole
  BY InitPicture, PictureStep, PictureWhole, PTL DEF SpaceSpec
=============================================================================
