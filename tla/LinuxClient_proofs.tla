------------------------- MODULE LinuxClient_proofs -------------------------
(***************************************************************************)
(* Proofs about LinuxClient, for any certificates, settings and keys: the  *)
(* types, what the button says, and that the host has the settings of the  *)
(* user and holds down no key that the user does not.                      *)
(***************************************************************************)
EXTENDS LinuxClient, SequenceTheorems, TLAPS

-----------------------------------------------------------------------------
(* Types, in the parts that actions leave alone.                           *)

WindowOK ==
    /\ gui \in {"loop", "sending", "gone"} \cup Stopping \cup Changing
    /\ dialogs \in Seq(Dialog)
    /\ page \in {"idle", "video"}
    /\ connected \in BOOLEAN
    /\ settings \in Settings
    /\ pinned \in Cert \cup {NoCert}
NetOK ==
    /\ pc \in {"none", "start", "apply", "loop", "dial", "shake", "hello", "stream", "ping", "read",
              "close", "shut", "exit", "done"}
    /\ asked \in Shape \cup {NoShape}
    /\ taken \in IF pc = "apply" THEN Look ELSE {NoShape}
    /\ conn \in [state : {"none", "open", "bye", "eof", "reset"}, stalled : BOOLEAN]
SharedOK ==
    /\ events \in Seq(Event)
    /\ running \in BOOLEAN
    /\ look \in Look /\ stale \in BOOLEAN
    /\ channel \in BOOLEAN
    /\ host \in [up : BOOLEAN, cert : Cert]
    /\ aborted \in BOOLEAN
    /\ clicks \in Nat /\ faults \in Nat
InputOK ==
    /\ keys \subseteq Keys /\ hand \subseteq Keys /\ remote \subseteq Keys
    /\ focus \in {"in", "going", "out"}

LEMMA TypeParts == TypeOK <=> WindowOK /\ NetOK /\ SharedOK /\ InputOK
  BY DEF TypeOK, WindowOK, NetOK, SharedOK, InputOK

LEMMA TypePartsNext == TypeOK' <=> WindowOK' /\ NetOK' /\ SharedOK' /\ InputOK'
  BY DEF TypeOK, WindowOK, NetOK, SharedOK, InputOK

LEMMA WindowKept == WindowOK /\ UNCHANGED window => WindowOK'
  BY DEF WindowOK, window

LEMMA NetKept == NetOK /\ UNCHANGED net => NetOK'
  BY DEF NetOK, net

LEMMA NetMoved ==
    ASSUME NetOK, pc # "apply", UNCHANGED <<asked, taken>>, conn' = conn \/ conn' = Down,
           pc' \in {"start", "loop", "hello", "shut", "exit"}
    PROVE  NetOK'
<1>1. taken' \in IF pc' = "apply" THEN Look ELSE {NoShape}
  <2>1. pc' # "apply"
    OBVIOUS
  <2>2. taken \in {NoShape}
    BY DEF NetOK
  <2> QED
    BY <2>1, <2>2
<1>2. conn' \in [state : {"none", "open", "bye", "eof", "reset"}, stalled : BOOLEAN]
  <2>1. Down \in [state : {"none", "open", "bye", "eof", "reset"}, stalled : BOOLEAN]
    BY DEF Down
  <2>2. conn \in [state : {"none", "open", "bye", "eof", "reset"}, stalled : BOOLEAN]
    BY DEF NetOK
  <2> QED
    BY <2>1, <2>2
<1> QED
  <2>1. pc' \in {"none", "start", "apply", "loop", "dial", "shake", "hello", "stream", "ping", "read",
                "close", "shut", "exit", "done"}
    OBVIOUS
  <2>2. asked' \in Shape \cup {NoShape}
    BY DEF NetOK
  <2> QED
    BY <1>1, <1>2, <2>1, <2>2 DEF NetOK

LEMMA InputKept == InputOK /\ UNCHANGED input => InputOK'
  BY DEF InputOK, input

LEMMA FocusKept == InputOK /\ LoseFocus => InputOK'
  BY DEF InputOK, LoseFocus

LEMMA InitType == Init => TypeOK
<1> SUFFICES ASSUME Init PROVE TypeOK
  OBVIOUS
<1>1. WindowOK
  <2>1. dialogs = <<>> /\ dialogs \in Seq(Dialog)
    BY DEF Init
  <2>2. gui = "loop" /\ page = "idle" /\ connected \in BOOLEAN /\ settings \in Settings /\ pinned = NoCert
    BY DEF Init
  <2> QED
    BY <2>1, <2>2 DEF WindowOK
<1>2. NetOK
  BY DEF Init, NetOK, Down
<1>3. SharedOK
  <2>1. events = <<>> /\ events \in Seq(Event)
    BY DEF Init
  <2>2. running \in BOOLEAN /\ channel \in BOOLEAN /\ aborted \in BOOLEAN /\ clicks = 0 /\ faults = 0
    BY DEF Init
  <2>3. host \in [up : BOOLEAN, cert : Cert] /\ look \in Look /\ stale \in BOOLEAN
    BY DEF Init
  <2> QED
    BY <2>1, <2>2, <2>3 DEF SharedOK
<1>4. InputOK
  BY DEF Init, InputOK
<1> QED
  BY <1>1, <1>2, <1>3, <1>4, TypeParts

\* A stack of dialogs that is not empty has a last one, and a rest.
LEMMA Popped ==
    ASSUME NEW S, NEW s \in Seq(S), s # <<>>
    PROVE  Front(s) \in Seq(S) /\ Len(Front(s)) = Len(s) - 1 /\ Last(s) \in S
<1>1. Len(s) \in Nat /\ Len(s) # 0
  BY EmptySeq
<1>2. /\ SubSeq(s, 1, Len(s) - 1) \in Seq(S)
      /\ Len(SubSeq(s, 1, Len(s) - 1)) = Len(s) - 1
  <2>1. \A i \in 1 .. Len(s) - 1 : s[i] \in S
    BY <1>1
  <2>2. ASSUME NEW n \in Nat, n # 0
        PROVE  n - 1 \in Int /\ (IF 1 <= n - 1 THEN n - 1 - 1 + 1 ELSE 0) = n - 1
    <3>1. n - 1 \in Int
      BY <2>2
    <3>2. CASE n = 1
      BY <3>2
    <3>3. CASE n >= 2
      BY <2>2, <3>3
    <3> QED
      BY <2>2, <3>1, <3>2, <3>3
  <2> QED
    <3>1. /\ Len(s) - 1 \in Int
          /\ (IF 1 <= Len(s) - 1 THEN Len(s) - 1 - 1 + 1 ELSE 0) = Len(s) - 1
      BY <1>1, <2>2
    <3> QED
      BY <2>1, <3>1, SubSeqProperties
<1>3. s[Len(s)] \in S
  BY <1>1
<1> QED
  BY <1>2, <1>3 DEF Front, Last

LEMMA Kinds ==
    /\ [kind |-> "connect"] \in Dialog /\ [kind |-> "settings"] \in Dialog /\ [kind |-> "cert"] \in Dialog
    /\ \A c \in Cert : [kind |-> "code", cert |-> c] \in Dialog
  BY DEF Dialog

LEMMA StartType ==
    ASSUME StartSession, connected \in BOOLEAN, running \in BOOLEAN, aborted \in BOOLEAN,
           gui = "loop", NetOK, UNCHANGED <<asked, taken, conn>>
    PROVE  /\ gui' \in {"loop", "gone"} /\ connected' \in BOOLEAN /\ running' \in BOOLEAN
           /\ aborted' \in BOOLEAN
           /\ NetOK'
<1>1. CASE pc = "none"
  BY <1>1, NetMoved DEF StartSession
<1>2. CASE pc # "none"
  BY <1>2, NetKept DEF StartSession, net
<1> QED
  BY <1>1, <1>2

-----------------------------------------------------------------------------
(* Types: the user.                                                        *)

LEMMA DialogType ==
    ASSUME TypeOK, OnConnectAction \/ ConnectWith \/ EnterCode \/ Cancel \/ AnswerCert \/ OpenSettings
    PROVE  TypeOK'
<1>0. WindowOK /\ NetOK /\ SharedOK /\ InputOK
  BY TypeParts
<1>1. CASE OnConnectAction
  BY <1>0, <1>1, Kinds, NetKept, FocusKept, TypePartsNext DEF OnConnectAction, Click, Free, WindowOK, SharedOK, shown
<1>2. CASE OpenSettings
  BY <1>0, <1>2, Kinds, NetKept, FocusKept, TypePartsNext DEF OpenSettings, Click, Free, WindowOK, SharedOK, shown
<1>3. CASE Cancel
  BY <1>0, <1>3, Popped, NetKept, InputKept, TypePartsNext DEF Cancel, WindowOK, SharedOK, shown
<1>4. CASE AnswerCert
  BY <1>0, <1>4, Popped, NetKept, InputKept, TypePartsNext DEF AnswerCert, Active, WindowOK, SharedOK, shown
<1>5. CASE ConnectWith
  <2>1. /\ dialogs \in Seq(Dialog) /\ dialogs # <<>> /\ gui = "loop"
        /\ Front(dialogs) \in Seq(Dialog) /\ Append(dialogs, Probe) \in Seq(Dialog)
    BY <1>0, <1>5, Popped, Kinds DEF ConnectWith, Active, WindowOK, SharedOK, Probe
  <2>2. InputOK'
    BY <1>0, <1>5, InputKept DEF ConnectWith
  <2>3. CASE pinned # NoCert
    BY <1>0, <1>5, <2>1, <2>2, <2>3, StartType, TypePartsNext
       DEF ConnectWith, WindowOK, SharedOK, shown
  <2>4. CASE pinned = NoCert
    BY <1>0, <1>5, <2>1, <2>2, <2>4, TypePartsNext DEF ConnectWith, WindowOK, SharedOK, NetOK, shown
  <2> QED
    BY <2>3, <2>4
<1>6. CASE EnterCode
  <2>1. /\ dialogs \in Seq(Dialog) /\ dialogs # <<>> /\ gui = "loop"
        /\ Front(dialogs) \in Seq(Dialog) /\ host.cert \in Cert
    BY <1>0, <1>6, Popped DEF EnterCode, Active, WindowOK, SharedOK, shown
  <2>2. InputOK'
    BY <1>0, <1>6, InputKept DEF EnterCode
  <2>3. CASE Last(dialogs).cert = host.cert
    <3>1. dialogs' = Front(Front(dialogs)) /\ pinned' = host.cert /\ StartSession
      BY <1>6, <2>3 DEF EnterCode
    <3>2. dialogs' \in Seq(Dialog)
      BY <2>1, <3>1 DEF Front
    <3> QED
      BY <1>0, <1>6, <2>1, <2>2, <3>1, <3>2, StartType, TypePartsNext
         DEF EnterCode, WindowOK, SharedOK, shown
  <2>4. CASE Last(dialogs).cert # host.cert
    BY <1>0, <1>6, <2>1, <2>2, <2>4, TypePartsNext DEF EnterCode, WindowOK, SharedOK, NetOK, shown
  <2> QED
    BY <2>3, <2>4
<1> QED
  BY <1>1, <1>2, <1>3, <1>4, <1>5, <1>6

LEMMA StopType ==
    ASSUME TypeOK, OnDisconnectAction \/ Quit \/ \E s \in Settings : OnSettingsAction(s)
    PROVE  TypeOK'
<1>0. WindowOK /\ NetOK /\ SharedOK /\ InputOK
  BY TypeParts
<1>1. CASE OnDisconnectAction
  <2>1. WindowOK'
    BY <1>0, <1>1 DEF OnDisconnectAction, StopSession, Free, WindowOK, Stopping
  <2>2. SharedOK'
    <3>1. clicks' \in Nat /\ faults' \in Nat
      BY <1>0, <1>1 DEF OnDisconnectAction, Click, SharedOK, shown
    <3> QED
      BY <1>0, <1>1, <3>1 DEF OnDisconnectAction, StopSession, SharedOK, shown
  <2> QED
    BY <1>0, <1>1, <2>1, <2>2, NetKept, InputKept, TypePartsNext DEF OnDisconnectAction
<1>2. CASE Quit
  <2>1. gui' \in {"quit", "gone"} /\ running' \in BOOLEAN /\ channel' \in BOOLEAN /\ aborted' \in BOOLEAN
    BY <1>0, <1>2 DEF Quit, StopSession, SharedOK, shown
  <2>2. WindowOK'
    BY <1>0, <1>2, <2>1 DEF Quit, WindowOK, Stopping
  <2>3. SharedOK'
    BY <1>0, <1>2, <2>1 DEF Quit, Click, SharedOK, shown
  <2> QED
    BY <1>0, <1>2, <2>2, <2>3, NetKept, InputKept, TypePartsNext DEF Quit
<1>3. ASSUME NEW s \in Settings, OnSettingsAction(s)
      PROVE  TypeOK'
  <2>1. Front(dialogs) \in Seq(Dialog)
    BY <1>0, <1>3, Popped DEF OnSettingsAction, Active, WindowOK
  <2> QED
    BY <1>0, <1>3, <2>1, NetKept, InputKept, TypePartsNext
       DEF OnSettingsAction, WindowOK, SharedOK, Changing, shown
<1> QED
  BY <1>1, <1>2, <1>3

\* What the widget sends.
LEMMA SendType ==
    ASSUME NEW held \in SUBSET Keys, gui = "loop", Send(held), InputOK
    PROVE  remote' \subseteq Keys /\ gui' \in {"loop", "sending"}
  BY DEF Send, InputOK

LEMMA CaptureType ==
    ASSUME TypeOK,
           \/ \E k \in Keys : KeyPress(k) \/ KeyRelease(k) \/ KeyElsewhere(k)
           \/ TouchEvent \/ FocusIn \/ FocusGoes
    PROVE  TypeOK'
<1>0. WindowOK /\ NetOK /\ SharedOK /\ InputOK
  BY TypeParts
<1>1. ASSUME NEW k \in Keys, KeyPress(k) \/ KeyRelease(k)
      PROVE  TypeOK'
  <2>1. remote \cup {k} \in SUBSET Keys /\ remote \ {k} \in SUBSET Keys
    BY <1>0 DEF InputOK
  <2>2. remote' \subseteq Keys /\ gui' \in {"loop", "sending"}
    BY <1>0, <1>1, <2>1, SendType DEF KeyPress, KeyRelease, Capture, Free
  <2>3. InputOK'
    BY <1>0, <1>1, <2>2 DEF KeyPress, KeyRelease, InputOK
  <2> QED
    BY <1>0, <1>1, <2>2, <2>3, NetKept, TypePartsNext DEF KeyPress, KeyRelease, WindowOK, SharedOK, shown
<1>2. CASE TouchEvent
  <2>1. remote' \subseteq Keys /\ gui' \in {"loop", "sending"}
    BY <1>0, <1>2, SendType DEF TouchEvent, Capture, Free, InputOK
  <2> QED
    BY <1>0, <1>2, <2>1, NetKept, TypePartsNext DEF TouchEvent, WindowOK, SharedOK, InputOK, shown
<1>3. ASSUME NEW k \in Keys, KeyElsewhere(k)
      PROVE  TypeOK'
  <2>1. InputOK'
    BY <1>0, <1>3 DEF KeyElsewhere, InputOK
  <2> QED
    BY <1>0, <1>3, <2>1, WindowKept, NetKept, TypePartsNext DEF KeyElsewhere, SharedOK, shown
<1>4. CASE FocusIn
  <2>1. InputOK'
    BY <1>0, <1>4 DEF FocusIn, InputOK
  <2> QED
    BY <1>0, <1>4, <2>1, WindowKept, NetKept, TypePartsNext DEF FocusIn, SharedOK, shown
<1>5. CASE FocusGoes
  BY <1>0, <1>5, WindowKept, NetKept, FocusKept, TypePartsNext DEF FocusGoes, SharedOK, shown
<1> QED
  BY <1>1, <1>2, <1>3, <1>4, <1>5

-----------------------------------------------------------------------------
(* Types: the window, the network thread and the world.                    *)

LEMMA QueuedType ==
    ASSUME events \in Seq(Event), events # <<>>
    PROVE  Tail(events) \in Seq(Event) /\ Head(events) \in Event
  OBVIOUS

LEMMA WindowType == TypeOK /\ Window => TypeOK'
<1> SUFFICES ASSUME TypeOK, Window PROVE TypeOK'
  OBVIOUS
<1>0. WindowOK /\ NetOK /\ SharedOK /\ InputOK
  BY TypeParts
<1>1. CASE Joined
  <2>1. WindowOK' /\ running' \in BOOLEAN
    BY <1>0, <1>1 DEF Joined, WindowOK
  <2>2. NetOK'
    BY <1>0, <1>1 DEF Joined, NetOK
  <2> QED
    BY <1>0, <1>1, <2>1, <2>2, FocusKept, TypePartsNext DEF Joined, SharedOK, shown
<1>2. CASE Deliver
  <2>1. events' \in Seq(Event)
    BY <1>0, <1>2, QueuedType DEF Deliver, SharedOK, shown
  <2>2. Append(dialogs, [kind |-> "cert"]) \in Seq(Dialog)
    BY <1>0, Kinds DEF WindowOK
  <2>3. page' \in {"idle", "video"} /\ connected' \in BOOLEAN /\ dialogs' \in Seq(Dialog)
    BY <1>0, <1>2, <2>2 DEF Deliver, WindowOK, SharedOK, shown
  <2>4. InputOK'
    BY <1>0, <1>2, InputKept, FocusKept DEF Deliver
  <2> QED
    BY <1>0, <1>2, <2>1, <2>3, <2>4, NetKept, TypePartsNext DEF Deliver, WindowOK, SharedOK, shown
<1>3. CASE Sent
  BY <1>0, <1>3, NetKept, InputKept, TypePartsNext DEF Sent, WindowOK, SharedOK, shown
<1>4. CASE ApplySettings
  <2>1. settings.look \in Look
    BY <1>0 DEF WindowOK, Settings
  <2>2. running' \in BOOLEAN /\ channel' \in BOOLEAN /\ gui' \in {"restart", "loop"}
    BY <1>0, <1>4 DEF ApplySettings, StopSession, SharedOK
  <2> QED
    BY <1>0, <1>4, <2>1, <2>2, NetKept, InputKept, TypePartsNext
       DEF ApplySettings, WindowOK, SharedOK, Stopping
<1>5. CASE FocusOut
  <2>1. remote \ keys \in SUBSET Keys
    BY <1>0 DEF InputOK
  <2>2. remote' \subseteq Keys /\ gui' \in {"loop", "sending"}
    BY <1>0, <1>5, <2>1, SendType DEF FocusOut, InputOK
  <2> QED
    BY <1>0, <1>5, <2>2, NetKept, TypePartsNext DEF FocusOut, WindowOK, SharedOK, InputOK, shown
<1> QED
  BY <1>1, <1>2, <1>3, <1>4, <1>5 DEF Window

LEMMA PostType ==
    ASSUME events \in Seq(Event), NEW e \in Event, Post(e)
    PROVE  events' \in Seq(Event)
  BY DEF Post

LEMMA NetThreadType == TypeOK /\ NetThread => TypeOK'
<1> SUFFICES ASSUME TypeOK, NetThread PROVE TypeOK'
  OBVIOUS
<1>0. WindowOK /\ NetOK /\ SharedOK /\ InputOK
  BY TypeParts
<1>1. CASE ReadSettings
  <2>1. settings.shape \in Shape /\ settings.look \in Look
    BY <1>0 DEF WindowOK, Settings
  <2>2. NetOK'
    BY <1>0, <1>1, <2>1 DEF ReadSettings, NetOK
  <2> QED
    BY <1>0, <1>1, <2>2, WindowKept, InputKept, TypePartsNext DEF ReadSettings, SharedOK, shown
<1>2. CASE Loop
  BY <1>0, <1>2, WindowKept, InputKept, TypePartsNext DEF Loop, NetOK, SharedOK, shown
<1>3. CASE Dial
  <2>1. [Down EXCEPT !.state = "open"] \in [state : {"none", "open", "bye", "eof", "reset"}, stalled : BOOLEAN]
    BY DEF Down
  <2>2. NetOK'
    BY <1>0, <1>3, <2>1 DEF Dial, NetOK
  <2> QED
    BY <1>0, <1>3, <2>2, WindowKept, InputKept, TypePartsNext DEF Dial, SharedOK, shown
<1>4. CASE SendHello
  <2>1. InputOK'
    BY <1>0, <1>4 DEF SendHello, InputOK
  <2> QED
    BY <1>0, <1>4, <2>1, WindowKept, TypePartsNext DEF SendHello, NetOK, SharedOK, shown
<1>5. CASE Ping
  <2>1. [conn EXCEPT !.state = "reset"] \in [state : {"none", "open", "bye", "eof", "reset"}, stalled : BOOLEAN]
    BY <1>0 DEF NetOK
  <2> QED
    BY <1>0, <1>5, <2>1, WindowKept, InputKept, TypePartsNext DEF Ping, Leave, NetOK, SharedOK, shown
<1>6. CASE EndStream
  BY <1>0, <1>6, WindowKept, InputKept, TypePartsNext DEF EndStream, Leave, NetOK, SharedOK, shown
<1>7. CASE CloseChannel
  <2>1. events' \in Seq(Event)
    BY <1>0, <1>7, PostType DEF CloseChannel, SharedOK, Event
  <2>2. InputOK'
    BY <1>0, <1>7 DEF CloseChannel, InputOK
  <2>3. NetOK'
    <3>1. pc' \in {"shut", "loop"} /\ (conn' = conn \/ conn' = Down) /\ UNCHANGED <<asked, taken>>
      BY <1>7 DEF CloseChannel
    <3>2. pc # "apply"
      BY <1>7 DEF CloseChannel
    <3> QED
      BY <1>0, <3>1, <3>2, NetMoved
  <2> QED
    BY <1>0, <1>7, <2>1, <2>2, <2>3, WindowKept, TypePartsNext DEF CloseChannel, SharedOK, shown
<1>8. CASE Exit
  <2>1. events' \in Seq(Event)
    BY <1>0, <1>8, PostType DEF Exit, SharedOK, Event
  <2> QED
    BY <1>0, <1>8, <2>1, WindowKept, InputKept, TypePartsNext DEF Exit, NetOK, SharedOK, shown
<1>9. CASE ApplyLook
  <2>1. taken \in Look
    BY <1>0, <1>9 DEF ApplyLook, NetOK
  <2> QED
    BY <1>0, <1>9, <2>1, WindowKept, InputKept, TypePartsNext DEF ApplyLook, NetOK, SharedOK
<1>10. CASE Handshake
  <2>1. events' \in Seq(Event)
    BY <1>0, <1>10, PostType DEF Handshake, SharedOK, Event
  <2>2. NetOK'
    <3>1. pc = "shake" /\ pc' \in {"loop", "hello", "exit"} /\ (conn' = conn \/ conn' = Down)
          /\ UNCHANGED <<asked, taken>>
      BY <1>10 DEF Handshake
    <3> QED
      BY <1>0, <3>1, NetMoved
  <2> QED
    BY <1>0, <1>10, <2>1, <2>2, WindowKept, InputKept, TypePartsNext DEF Handshake, SharedOK, shown
<1>11. CASE Recv
  BY <1>0, <1>11, WindowKept, InputKept, TypePartsNext DEF Recv, NetOK, SharedOK, shown
<1> QED
  BY <1>1, <1>2, <1>3, <1>4, <1>5, <1>6, <1>7, <1>8, <1>9, <1>10, <1>11 DEF NetThread

LEMMA WorldType == TypeOK /\ World => TypeOK'
<1> SUFFICES ASSUME TypeOK, World PROVE TypeOK'
  OBVIOUS
<1>0. WindowOK /\ NetOK /\ SharedOK /\ InputOK
  BY TypeParts
<1>1. WindowOK' /\ InputOK'
  BY <1>0, WindowKept, InputKept DEF World, HostSaysBye, HostGoes, HostReturns, Stall, ReadsAgain
<1>2. NetOK'
  <2>1. CASE HostSaysBye
    BY <1>0, <2>1 DEF HostSaysBye, NetOK
  <2>2. CASE HostGoes
    <3>1. conn' \in [state : {"none", "open", "bye", "eof", "reset"}, stalled : BOOLEAN]
      BY <1>0, <2>2 DEF HostGoes, NetOK
    <3> QED
      BY <1>0, <2>2, <3>1 DEF HostGoes, NetOK
  <2>3. CASE HostReturns
    BY <1>0, <2>3, NetKept DEF HostReturns
  <2>4. CASE Stall
    <3>1. [conn EXCEPT !.stalled = TRUE] \in [state : {"none", "open", "bye", "eof", "reset"}, stalled : BOOLEAN]
      BY <1>0 DEF NetOK
    <3> QED
      BY <1>0, <2>4, <3>1 DEF Stall, NetOK
  <2>5. CASE ReadsAgain
    <3>1. [conn EXCEPT !.stalled = FALSE] \in [state : {"none", "open", "bye", "eof", "reset"}, stalled : BOOLEAN]
      BY <1>0 DEF NetOK
    <3> QED
      BY <1>0, <2>5, <3>1 DEF ReadsAgain, NetOK
  <2> QED
    BY <2>1, <2>2, <2>3, <2>4, <2>5 DEF World
<1>3. SharedOK'
  <2>1. CASE HostSaysBye
    BY <1>0, <2>1 DEF HostSaysBye, Fault, SharedOK, shown
  <2>2. CASE HostGoes
    <3>1. [host EXCEPT !.up = FALSE] \in [up : BOOLEAN, cert : Cert]
      BY <1>0 DEF SharedOK, shown
    <3> QED
      BY <1>0, <2>2, <3>1 DEF HostGoes, Fault, SharedOK, shown
  <2>3. CASE HostReturns
    <3>1. host' \in [up : BOOLEAN, cert : Cert]
      BY <2>3 DEF HostReturns
    <3> QED
      BY <1>0, <2>3, <3>1 DEF HostReturns, SharedOK, shown
  <2>4. CASE Stall
    BY <1>0, <2>4 DEF Stall, Fault, SharedOK, shown
  <2>5. CASE ReadsAgain
    BY <1>0, <2>5 DEF ReadsAgain, SharedOK, shown
  <2> QED
    BY <2>1, <2>2, <2>3, <2>4, <2>5 DEF World
<1> QED
  BY <1>1, <1>2, <1>3, TypePartsNext

LEMMA NextType == TypeOK /\ [Next]_vars => TypeOK'
<1>1. TypeOK /\ User => TypeOK'
  BY DialogType, StopType, CaptureType DEF User
<1>2. TypeOK /\ UNCHANGED vars => TypeOK'
  BY DEF vars, window, net, shown, input, TypeOK
<1> QED
  BY <1>1, <1>2, WindowType, NetThreadType, WorldType DEF Next

\* The variables keep their types, whatever the user, the threads and the host do.
THEOREM TypeCorrect == Spec => []TypeOK
  BY InitType, NextType, PTL DEF Spec

-----------------------------------------------------------------------------
(* What the button says.                                                   *)

\* No session's end is waiting to be delivered.
NoEnd == \A i \in 1 .. Len(events) : events[i] # "ended"

\* The button and running_ part only while a stop is under way, or the end of
\* a session is in the queue.
ButtonInv == gui \in {"loop", "sending"} \cup Changing /\ NoEnd => (connected <=> running)

LEMMA NoEndBefore ==
    ASSUME events \in Seq(Event), NEW e \in Event, Post(e), NoEnd'
    PROVE  NoEnd /\ e # "ended"
<1>1. /\ Len(events') = Len(events) + 1 /\ Len(events) \in Nat
      /\ events'[Len(events) + 1] = e
      /\ \A i \in 1 .. Len(events) : events'[i] = events[i]
  BY AppendProperties DEF Post
<1>2. e # "ended"
  BY <1>1 DEF NoEnd
<1>3. NoEnd
  BY <1>1 DEF NoEnd
<1> QED
  BY <1>2, <1>3

LEMMA NoEndTail ==
    ASSUME events \in Seq(Event), events # <<>>, events' = Tail(events), NoEnd', Head(events) # "ended"
    PROVE  NoEnd
<1>1. /\ Len(events) \in Nat /\ Len(events) # 0 /\ Len(events') = Len(events) - 1
      /\ Head(events) = events[1]
      /\ \A i \in 1 .. Len(events) - 1 : events'[i] = events[i + 1]
  BY HeadTailProperties
<1>2. ASSUME NEW i \in 1 .. Len(events)
      PROVE  events[i] # "ended"
  <2>1. CASE i = 1
    BY <1>1, <2>1
  <2>2. CASE i # 1
    <3>1. i - 1 \in 1 .. Len(events) - 1 /\ (i - 1) + 1 = i
      BY <1>1, <2>2
    <3> QED
      BY <1>1, <3>1 DEF NoEnd
  <2> QED
    BY <2>1, <2>2
<1> QED
  BY <1>2 DEF NoEnd

\* Most steps leave all three alone.
LEMMA ButtonKept ==
    ASSUME ButtonInv, connected' = connected, running' = running,
           gui' \in {"loop", "sending"} \cup Changing => gui \in {"loop", "sending"} \cup Changing,
           NoEnd' => NoEnd
    PROVE  ButtonInv'
  BY DEF ButtonInv

LEMMA StartButton ==
    ASSUME StartSession, gui = "loop", ButtonInv
    PROVE  ButtonInv'
  BY DEF StartSession, ButtonInv, Changing

LEMMA ButtonStep == TypeOK /\ ButtonInv /\ [Next]_vars => ButtonInv'
<1> SUFFICES ASSUME TypeOK, ButtonInv, [Next]_vars PROVE ButtonInv'
  OBVIOUS
<1>0. events \in Seq(Event) /\ connected \in BOOLEAN /\ running \in BOOLEAN
  BY DEF TypeOK
<1>1. CASE User
  <2>1. ASSUME OnConnectAction \/ Cancel \/ AnswerCert \/ OpenSettings
        PROVE  ButtonInv'
    BY <2>1, ButtonKept DEF OnConnectAction, Cancel, AnswerCert, OpenSettings, NoEnd
  <2>2. CASE ConnectWith
    <3>1. gui = "loop" /\ events' = events
      BY <2>2 DEF ConnectWith, Active
    <3>2. CASE StartSession
      BY <3>1, <3>2, StartButton
    <3>3. CASE UNCHANGED <<gui, running, connected>>
      BY <3>1, <3>3, ButtonKept DEF NoEnd
    <3> QED
      BY <2>2, <3>2, <3>3 DEF ConnectWith
  <2>3. CASE EnterCode
    <3>1. gui = "loop" /\ events' = events
      BY <2>3 DEF EnterCode, Active
    <3>2. CASE StartSession
      BY <3>1, <3>2, StartButton
    <3>3. CASE UNCHANGED <<gui, running, connected>>
      BY <3>1, <3>3, ButtonKept DEF NoEnd
    <3> QED
      BY <2>3, <3>2, <3>3 DEF EnterCode
  <2>4. CASE OnDisconnectAction
    BY <2>4 DEF OnDisconnectAction, StopSession, ButtonInv, Changing
  <2>5. CASE Quit
    BY <2>5 DEF Quit, StopSession, ButtonInv, Changing
  <2>6. ASSUME NEW s \in Settings, OnSettingsAction(s)
        PROVE  ButtonInv'
    BY <2>6, ButtonKept DEF OnSettingsAction, Active, Changing, ButtonInv, NoEnd
  <2>7. ASSUME \/ \E k \in Keys : KeyPress(k) \/ KeyRelease(k)
               \/ TouchEvent
        PROVE  ButtonInv'
    <3>1. gui = "loop" /\ UNCHANGED <<connected, running, events>>
      BY <2>7 DEF KeyPress, KeyRelease, TouchEvent, Capture, Free
    <3> QED
      BY <3>1, ButtonKept DEF NoEnd
  <2>8. ASSUME FocusIn \/ FocusGoes \/ \E k \in Keys : KeyElsewhere(k)
        PROVE  ButtonInv'
    BY <2>8, ButtonKept DEF FocusIn, FocusGoes, KeyElsewhere, window, NoEnd
  <2> QED
    BY <1>1, <2>1, <2>2, <2>3, <2>4, <2>5, <2>6, <2>7, <2>8 DEF User
<1>2. CASE Window
  <2>1. CASE Joined
    BY <2>1 DEF Joined, ButtonInv, Changing, Stopping
  <2>2. CASE Deliver
    <3>1. gui = "loop" /\ UNCHANGED <<gui, running>> /\ events # <<>> /\ events' = Tail(events)
      BY <2>2 DEF Deliver
    <3>2. CASE Head(events) = "ended"
      BY <2>2, <3>1, <3>2 DEF Deliver, ButtonInv
    <3>3. CASE Head(events) # "ended"
      BY <1>0, <2>2, <3>1, <3>3, NoEndTail, ButtonKept DEF Deliver
    <3> QED
      BY <3>2, <3>3
  <2>3. CASE Sent
    BY <2>3, ButtonKept DEF Sent, NoEnd
  <2>4. CASE FocusOut
    BY <2>4, ButtonKept DEF FocusOut, NoEnd
  <2>5. CASE ApplySettings
    <3>1. gui' = "restart" \/ (gui \in Changing /\ UNCHANGED <<running, connected, events>>)
      BY <2>5 DEF ApplySettings, StopSession
    <3>2. CASE gui' = "restart"
      BY <3>2 DEF ButtonInv, Changing
    <3>3. CASE gui \in Changing /\ UNCHANGED <<running, connected, events>>
      BY <3>3, ButtonKept DEF NoEnd
    <3> QED
      BY <3>1, <3>2, <3>3
  <2> QED
    BY <1>2, <2>1, <2>2, <2>3, <2>4, <2>5 DEF Window
<1>3. CASE NetThread
  <2>1. ASSUME ReadSettings \/ ApplyLook \/ Loop \/ Dial \/ SendHello \/ Ping \/ Recv \/ EndStream
        PROVE  ButtonInv'
    BY <2>1, ButtonKept
       DEF ReadSettings, ApplyLook, Loop, Dial, SendHello, Ping, Recv, EndStream, window, NoEnd
  <2>2. CASE Handshake
    <3>1. UNCHANGED <<gui, connected, running>>
      BY <2>2 DEF Handshake, window
    <3>2. NoEnd' => NoEnd
      BY <1>0, <2>2, NoEndBefore DEF Handshake, Event, NoEnd
    <3> QED
      BY <3>1, <3>2, ButtonKept
  <2>3. CASE CloseChannel
    <3>1. UNCHANGED <<gui, connected, running>>
      BY <2>3 DEF CloseChannel, window
    <3>2. NoEnd' => NoEnd
      BY <1>0, <2>3, NoEndBefore DEF CloseChannel, Event, NoEnd
    <3> QED
      BY <3>1, <3>2, ButtonKept
  <2>4. CASE Exit
    <3>1. ~NoEnd'
      BY <1>0, <2>4, NoEndBefore DEF Exit, Event
    <3> QED
      BY <3>1 DEF ButtonInv
  <2> QED
    BY <1>3, <2>1, <2>2, <2>3, <2>4 DEF NetThread
<1>4. CASE World
  BY <1>4, ButtonKept DEF World, HostSaysBye, HostGoes, HostReturns, Stall, ReadsAgain, window, NoEnd
<1>5. CASE UNCHANGED vars
  BY <1>5, ButtonKept DEF vars, window, NoEnd
<1> QED
  BY <1>1, <1>2, <1>3, <1>4, <1>5 DEF Next

\* When nothing is under way the button says whether a session runs: what a
\* replaced network thread queued last does not undo what the new session set.
THEOREM ButtonSaysRunning == Spec => []ButtonMatches
<1>1. Init => ButtonInv
  BY DEF Init, ButtonInv
<1>2. TypeOK /\ ButtonInv => ButtonMatches
  <2> SUFFICES ASSUME ButtonInv, gui = "loop", events = <<>> PROVE connected <=> running
    BY DEF ButtonMatches
  <2>1. NoEnd
    BY DEF NoEnd
  <2> QED
    BY <2>1 DEF ButtonInv
<1> QED
  BY <1>1, <1>2, TypeCorrect, ButtonStep, PTL DEF Spec

-----------------------------------------------------------------------------
(* What the host has of the user.                                          *)

\* Outside a stop, a session that is off has no thread under way: settings
\* that change then are read by the next one.
IdleInv == gui \notin Stopping \cup {"gone"} /\ ~running => pc \in {"none", "done"}
AskedInv ==
    pc \notin {"none", "start", "done"} /\ gui \notin {"changing", "restart"} => asked = settings.shape
LookInv ==
    gui \notin Changing /\ pc \notin {"none", "start", "apply"} => look = settings.look \/ stale
\* What the host holds the widget has recorded, and what it has recorded the user
\* holds, until the focus goes.
HeldInv ==
    /\ channel => remote \subseteq keys
    /\ focus = "in" => keys \subseteq hand
    /\ focus = "out" => keys = {}
HostInv == IdleInv /\ AskedInv /\ LookInv /\ HeldInv

LEMMA SetsApart ==
    /\ "loop" \notin Changing \cup Stopping /\ "sending" \notin Changing \cup Stopping
    /\ "gone" \notin Changing \cup Stopping /\ "restart" \in Stopping /\ "changing" \in Changing
    /\ \A g \in Changing : g \notin Stopping \cup {"gone", "loop", "sending", "restart"}
    /\ \A g \in Stopping : g \notin Changing \cup {"gone", "loop", "sending", "changing"}
  BY DEF Changing, Stopping

LEMMA HostKept ==
    ASSUME HostInv, UNCHANGED <<running, pc, asked, settings, look, stale, channel, remote, keys, hand, focus>>,
           gui' = gui
    PROVE  HostInv'
  BY DEF HostInv, IdleInv, AskedInv, LookInv, HeldInv

LEMMA FocusHeld == HeldInv /\ LoseFocus /\ channel' = channel => HeldInv'
  BY DEF HeldInv, LoseFocus

LEMMA StartHost ==
    ASSUME StartSession, gui = "loop", HostInv,
           UNCHANGED <<asked, settings, look, stale, channel, remote, keys, hand, focus>>
    PROVE  HostInv'
  BY SetsApart DEF StartSession, HostInv, IdleInv, AskedInv, LookInv, HeldInv

\* The part that the input leaves alone.
LEMMA TalkKept ==
    ASSUME HostInv, UNCHANGED <<running, pc, asked, settings, look, stale>>,
           gui' = gui \/ (gui = "loop" /\ gui' \in {"loop", "sending"})
    PROVE  IdleInv' /\ AskedInv' /\ LookInv'
  BY SetsApart DEF HostInv, IdleInv, AskedInv, LookInv

LEMMA InputHost ==
    ASSUME HostInv,
           \/ \E k \in Keys : KeyPress(k) \/ KeyRelease(k) \/ KeyElsewhere(k)
           \/ TouchEvent \/ FocusIn \/ FocusGoes \/ FocusOut
    PROVE  HostInv'
<1>1. IdleInv' /\ AskedInv' /\ LookInv'
  <2>1. UNCHANGED <<running, pc, asked, settings, look, stale>>
    BY DEF KeyPress, KeyRelease, KeyElsewhere, TouchEvent, FocusIn, FocusGoes, FocusOut, window, net, shown
  <2>2. gui' = gui \/ (gui = "loop" /\ gui' \in {"loop", "sending"})
    BY DEF KeyPress, KeyRelease, KeyElsewhere, TouchEvent, FocusIn, FocusGoes, FocusOut, Capture, Free,
           Send, window
  <2> QED
    BY <2>1, <2>2, TalkKept
<1>2. HeldInv'
  <2>0. HeldInv
    BY DEF HostInv
  <2>1. ASSUME NEW k \in Keys, KeyPress(k) \/ KeyRelease(k)
        PROVE  HeldInv'
    BY <2>0, <2>1 DEF KeyPress, KeyRelease, Send, HeldInv
  <2>2. ASSUME NEW k \in Keys, KeyElsewhere(k)
        PROVE  HeldInv'
    BY <2>0, <2>2 DEF KeyElsewhere, HeldInv
  <2>3. CASE TouchEvent
    BY <2>0, <2>3 DEF TouchEvent, Send, HeldInv
  <2>4. CASE FocusIn
    BY <2>0, <2>4 DEF FocusIn, HeldInv
  <2>5. CASE FocusGoes
    BY <2>0, <2>5, FocusHeld DEF FocusGoes
  <2>6. CASE FocusOut
    BY <2>0, <2>6 DEF FocusOut, Send, HeldInv
  <2> QED
    BY <2>1, <2>2, <2>3, <2>4, <2>5, <2>6
<1> QED
  BY <1>1, <1>2 DEF HostInv

LEMMA UserHost == TypeOK /\ HostInv /\ User => HostInv'
<1> SUFFICES ASSUME TypeOK, HostInv, User PROVE HostInv'
  OBVIOUS
<1>0. HeldInv
  BY DEF HostInv
<1>1. ASSUME Cancel \/ AnswerCert
      PROVE  HostInv'
  BY <1>1, HostKept DEF Cancel, AnswerCert, net, shown, input
<1>2. ASSUME OnConnectAction \/ OpenSettings
      PROVE  HostInv'
  <2>1. HeldInv'
    BY <1>0, <1>2, FocusHeld DEF OnConnectAction, OpenSettings
  <2>2. IdleInv' /\ AskedInv' /\ LookInv'
    BY <1>2, TalkKept DEF OnConnectAction, OpenSettings, net, shown
  <2> QED
    BY <2>1, <2>2 DEF HostInv
<1>3. CASE ConnectWith
  BY <1>3, HostKept, StartHost DEF ConnectWith, Active, input, shown
<1>4. CASE EnterCode
  BY <1>4, HostKept, StartHost DEF EnterCode, Active, input, shown
<1>5. ASSUME OnDisconnectAction \/ Quit
      PROVE  HostInv'
  <2>1. /\ gui = "loop" /\ gui' \in Stopping \cup {"gone"} /\ gui' # "restart"
        /\ UNCHANGED <<pc, asked, settings, look, stale, keys, hand, focus, remote>>
        /\ channel' => channel
    BY <1>5 DEF OnDisconnectAction, Quit, StopSession, Free, Stopping, net, shown, input
  <2>2. HeldInv'
    BY <1>0, <2>1 DEF HeldInv
  <2>3. IdleInv' /\ AskedInv' /\ LookInv'
    BY <2>1, SetsApart DEF HostInv, IdleInv, AskedInv, LookInv
  <2> QED
    BY <2>2, <2>3 DEF HostInv
<1>6. ASSUME NEW s \in Settings, OnSettingsAction(s)
      PROVE  HostInv'
  <2>1. /\ gui = "loop" /\ settings' = s
        /\ gui' \in Changing /\ (gui' = "changing" \/ s.shape = settings.shape)
        /\ UNCHANGED <<running, pc, asked, channel, keys, hand, focus, remote>>
    BY <1>6 DEF OnSettingsAction, Active, Changing, net, input
  <2>2. HeldInv'
    BY <1>0, <2>1 DEF HeldInv
  <2>3. IdleInv' /\ AskedInv' /\ LookInv'
    BY <2>1, SetsApart DEF HostInv, IdleInv, AskedInv, LookInv
  <2> QED
    BY <2>2, <2>3 DEF HostInv
<1> QED
  BY <1>1, <1>2, <1>3, <1>4, <1>5, <1>6, InputHost DEF User

LEMMA NetThreadHost == TypeOK /\ HostInv /\ NetThread => HostInv'
<1> SUFFICES ASSUME TypeOK, HostInv, NetThread PROVE HostInv'
  OBVIOUS
<1> USE DEF HostInv, IdleInv, AskedInv, LookInv, HeldInv
<1>1. CASE ReadSettings
  BY <1>1, SetsApart DEF ReadSettings, window, shown, input
<1>2. CASE ApplyLook
  BY <1>2 DEF ApplyLook, window, input
<1>3. CASE Loop
  BY <1>3 DEF Loop, window, shown, input
<1>4. CASE Dial \/ Handshake \/ Recv
  BY <1>4 DEF Dial, Handshake, Recv, window, shown, input
<1>5. CASE SendHello
  BY <1>5 DEF SendHello, window, shown
<1>6. CASE Ping
  BY <1>6 DEF Ping, Leave, window, shown, input
<1>7. CASE EndStream
  BY <1>7 DEF EndStream, Leave, window, shown, input
<1>8. CASE CloseChannel
  BY <1>8 DEF CloseChannel, window, shown
<1>9. CASE Exit
  BY <1>9 DEF Exit, window, shown, input
<1> QED
  BY <1>1, <1>2, <1>3, <1>4, <1>5, <1>6, <1>7, <1>8, <1>9 DEF NetThread

LEMMA WindowHost == TypeOK /\ HostInv /\ Window => HostInv'
<1> SUFFICES ASSUME TypeOK, HostInv, Window PROVE HostInv'
  OBVIOUS
<1>0. HeldInv
  BY DEF HostInv
<1>1. CASE Joined
  <2>1. HeldInv'
    BY <1>0, <1>1, FocusHeld DEF Joined
  <2>2. /\ gui' \in {"gone", "loop"} /\ pc' \in {"none", "start"}
        /\ ~running' => pc' = "none"
    BY <1>1 DEF Joined
  <2> QED
    BY <2>1, <2>2, SetsApart DEF HostInv, IdleInv, AskedInv, LookInv
<1>2. CASE Deliver
  <2>1. HeldInv'
    BY <1>0, <1>2, FocusHeld DEF Deliver, HeldInv, input
  <2>2. IdleInv' /\ AskedInv' /\ LookInv'
    BY <1>2, TalkKept DEF Deliver, net, shown
  <2> QED
    BY <2>1, <2>2 DEF HostInv
<1>3. CASE Sent
  BY <1>3, SetsApart DEF Sent, net, shown, input, HostInv, IdleInv, AskedInv, LookInv, HeldInv
<1>4. CASE ApplySettings
  <2>1. /\ gui \in Changing /\ look' = settings.look
        /\ UNCHANGED <<pc, asked, settings, keys, hand, focus, remote>>
        /\ channel' => channel
    BY <1>4 DEF ApplySettings, StopSession, net, input
  <2>2. HeldInv'
    BY <1>0, <2>1 DEF HeldInv
  <2>3. LookInv'
    BY <2>1 DEF LookInv
  <2>4. CASE gui = "changing" /\ running
    <3>1. gui' = "restart"
      BY <1>4, <2>4 DEF ApplySettings, StopSession
    <3> QED
      BY <2>2, <2>3, <3>1, SetsApart DEF HostInv, IdleInv, AskedInv
  <2>5. CASE ~(gui = "changing" /\ running)
    <3>1. gui' = "loop" /\ running' = running
      BY <1>4, <2>5 DEF ApplySettings
    <3>2. ~running => pc \in {"none", "done"}
      BY <2>1, SetsApart DEF HostInv, IdleInv
    <3> QED
      BY <2>1, <2>2, <2>3, <2>5, <3>1, <3>2, SetsApart DEF HostInv, IdleInv, AskedInv
  <2> QED
    BY <2>4, <2>5
<1> QED
  BY <1>1, <1>2, <1>3, <1>4, InputHost DEF Window

LEMMA HostStep == TypeOK /\ HostInv /\ [Next]_vars => HostInv'
<1> SUFFICES ASSUME TypeOK, HostInv, [Next]_vars PROVE HostInv'
  OBVIOUS
<1>1. CASE World
  BY <1>1, HostKept DEF World, HostSaysBye, HostGoes, HostReturns, Stall, ReadsAgain, window, net, shown, input
<1>2. CASE UNCHANGED vars
  BY <1>2, HostKept DEF vars, window, net, shown, input
<1> QED
  BY <1>1, <1>2, UserHost, NetThreadHost, WindowHost DEF Next

\* Whatever the thread reads while the window writes, outside a restart a stream was
\* asked for with the settings in force; it shows the look chosen last unless the
\* thread applied one that it had read before; and an open session leaves no key
\* down on the host that the user has let go, wherever the release went.
THEOREM UserOnTheHost == Spec => []HostHasTheUsers
<1>1. Init => HostInv
  BY DEF Init, HostInv, IdleInv, AskedInv, LookInv, HeldInv
<1>2. TypeOK /\ HostInv => HostHasTheUsers
  BY DEF TypeOK, HostInv, AskedInv, LookInv, HeldInv, HostHasTheUsers, SettingsInForce, NothingStuck
<1> QED
  BY <1>1, <1>2, TypeCorrect, HostStep, PTL DEF Spec
=============================================================================
