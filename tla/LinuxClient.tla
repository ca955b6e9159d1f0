---------------------------- MODULE LinuxClient ----------------------------
(***************************************************************************)
(* The desktop client: the window, whose thread also runs the dialogs      *)
(* (nested event loops) and the widget that captures input, and the        *)
(* network thread that dials, checks the certificate, streams and dials    *)
(* again (client/gui/main_window.cpp, client/src/transport_client.cpp).    *)
(* The threads share running_ and the channel behind sendLock_; the        *)
(* network thread posts to the window through a queue.                     *)
(***************************************************************************)
EXTENDS Integers, Sequences, SequencesExt, FiniteSets

CONSTANTS
    Cert,       \* certificates the host may present
    NoCert,     \* no pinned fingerprint
    Shape,      \* settings that a HELLO carries
    NoShape,    \* nothing read of them
    Look,       \* brightness, contrast: settings of the decoder alone
    Keys,       \* keys of the keyboard
    MaxClicks,  \* bound: what the user asks of the window
    MaxFaults   \* bound: what the host and the link do

ASSUME ClientAssumption ==
    /\ NoCert \notin Cert /\ NoShape \notin Shape \cup Look
    /\ MaxClicks \in Nat /\ MaxFaults \in Nat

VARIABLES
    gui,        \* what the window's thread is in
    dialogs,    \* the open dialogs, the active one last
    events,     \* queued calls from the network thread
    page,       \* stack_: the idle card or the video
    connected,  \* header_: the button offers Disconnect
    settings,   \* settings_
    pinned,     \* tlsTrust_, for the host
    pc,         \* where netThread_ is; "none": not joinable
    running,    \* running_
    asked,      \* what netThreadMain read of settings_
    taken,      \* the look that it read, until it applies it
    look,       \* the decoder's brightness and contrast
    channel,    \* client_->channel_ is set
    conn,       \* the connection
    host,       \* the host: whether it accepts, its certificate
    keys,       \* heldKeys_
    hand,       \* keys that the user holds down, until the video has lost the focus
    focus,      \* "going": lost, and focusOutEvent still to come
    remote,     \* keys that the host holds down, once it has read all that was sent
    aborted,    \* std::terminate
    stale,      \* history: the thread applied a look that was no longer the user's
    clicks, faults  \* bounds

window == <<gui, dialogs, page, connected, settings, pinned>>
net == <<pc, asked, taken, conn>>
shown == <<look, stale>>
input == <<keys, hand, focus, remote>>
vars == <<window, events, net, running, shown, channel, host, input, aborted, clicks, faults>>

Dialog == [kind : {"connect", "settings", "cert"}] \cup [kind : {"code"}, cert : Cert]
Event == {"streaming", "reconnecting", "cert", "ended"}
Settings == [shape : Shape, look : Look]
Stopping == {"leave", "restart", "quit"}
\* onSettingsAction after the write of settings_: what a HELLO carries has changed,
\* or only the look.
Changing == {"changing", "showing"}
Down == [state |-> "none", stalled |-> FALSE]

TypeOK ==
    /\ gui \in {"loop", "sending", "gone"} \cup Stopping \cup Changing
    /\ dialogs \in Seq(Dialog)
    /\ events \in Seq(Event)
    /\ page \in {"idle", "video"}
    /\ connected \in BOOLEAN
    /\ settings \in Settings
    /\ pinned \in Cert \cup {NoCert}
    /\ pc \in {"none", "start", "apply", "loop", "dial", "shake", "hello", "stream", "ping", "read",
              "close", "shut", "exit", "done"}
    /\ running \in BOOLEAN
    /\ asked \in Shape \cup {NoShape}
    /\ taken \in IF pc = "apply" THEN Look ELSE {NoShape}
    /\ look \in Look /\ stale \in BOOLEAN
    /\ channel \in BOOLEAN
    /\ conn \in [state : {"none", "open", "bye", "eof", "reset"}, stalled : BOOLEAN]
    /\ host \in [up : BOOLEAN, cert : Cert]
    /\ keys \subseteq Keys /\ hand \subseteq Keys /\ remote \subseteq Keys
    /\ focus \in {"in", "going", "out"}
    /\ aborted \in BOOLEAN
    /\ clicks \in Nat /\ faults \in Nat

Init ==
    /\ gui = "loop" /\ dialogs = <<>> /\ events = <<>>
    /\ page = "idle" /\ connected = FALSE
    /\ settings \in Settings
    /\ pinned = NoCert
    /\ pc = "none" /\ running = FALSE
    /\ asked = NoShape /\ taken = NoShape
    /\ look \in Look /\ stale = FALSE
    /\ channel = FALSE /\ conn = Down
    /\ host \in [up : {TRUE}, cert : Cert]
    /\ keys = {} /\ hand = {} /\ focus = "out" /\ remote = {}
    /\ aborted = FALSE
    /\ clicks = 0 /\ faults = 0

Click == clicks < MaxClicks /\ clicks' = clicks + 1
Fault == faults < MaxFaults /\ faults' = faults + 1
Active(kind) == gui = "loop" /\ dialogs # <<>> /\ Last(dialogs).kind = kind
Free == gui = "loop" /\ dialogs = <<>>

\* A dialog, and a page that is hidden, take the focus from the video.
LoseFocus ==
    /\ focus' = IF focus = "in" THEN "going" ELSE focus
    /\ UNCHANGED <<keys, hand, remote>>

\* The fingerprint of a connection and the pin of its host.
Trusted == host.up /\ pinned = host.cert
\* probe_pairing_code: the code stands for the certificate.
Probe == [kind |-> "code", cert |-> host.cert]

-----------------------------------------------------------------------------
(* The session, from the window.                                           *)

\* A thread object that is still joinable may not be assigned: the process
\* ends there.
StartSession ==
    IF pc = "none"
    THEN running' = TRUE /\ connected' = TRUE /\ pc' = "start" /\ UNCHANGED <<gui, aborted>>
    ELSE aborted' = TRUE /\ gui' = "gone" /\ UNCHANGED <<running, connected, pc>>

\* stopSession up to the join, which the window's thread waits in.
StopSession(then) ==
    /\ running' = FALSE
    /\ channel' = FALSE
    /\ gui' = then

OnConnectAction ==
    /\ Free /\ Click
    /\ ~connected \/ page = "idle"
    /\ ~running
    /\ dialogs' = <<[kind |-> "connect"]>>
    /\ LoseFocus
    /\ UNCHANGED <<gui, page, connected, settings, pinned, events, net, running, shown, channel, host, aborted, faults>>

\* A host of the list or a typed one: known ones are dialled at once, another
\* is probed for its certificate, and the user asked for the code.
ConnectWith ==
    /\ Active("connect")
    /\ \/ /\ pinned # NoCert
          /\ dialogs' = Front(dialogs)
          /\ StartSession
       \/ /\ pinned = NoCert
          /\ dialogs' = IF host.up THEN Append(dialogs, Probe) ELSE dialogs
          /\ UNCHANGED <<gui, running, connected, pc, aborted>>
    /\ UNCHANGED <<page, settings, pinned, events, asked, taken, conn, shown, channel, host, input, clicks, faults>>

\* The code that the PC shows is derived from its certificate.
EnterCode ==
    /\ Active("code")
    /\ IF Last(dialogs).cert = host.cert
       THEN /\ pinned' = host.cert
            /\ dialogs' = Front(Front(dialogs))
            /\ StartSession
       ELSE /\ dialogs' = Front(dialogs)
            /\ UNCHANGED <<gui, pinned, running, connected, pc, aborted>>
    /\ UNCHANGED <<page, settings, events, asked, taken, conn, shown, channel, host, input, clicks, faults>>

Cancel ==
    /\ gui = "loop" /\ dialogs # <<>>
    /\ dialogs' = Front(dialogs)
    /\ UNCHANGED <<gui, page, connected, settings, pinned, events, net, running, shown, channel, host, input, aborted, clicks, faults>>

\* The one button of the header; without a session nothing is to stop.
OnDisconnectAction ==
    /\ Free /\ Click
    /\ connected
    /\ running
    /\ StopSession("leave")
    /\ UNCHANGED <<dialogs, page, connected, settings, pinned, events, net, shown, host, input, aborted, faults>>

OpenSettings ==
    /\ Free /\ Click
    /\ dialogs' = <<[kind |-> "settings"]>>
    /\ LoseFocus
    /\ UNCHANGED <<gui, page, connected, settings, pinned, events, net, running, shown, channel, host, aborted, faults>>

\* The write of settings_, which the network thread reads without a lock.
OnSettingsAction(s) ==
    /\ Active("settings")
    /\ dialogs' = Front(dialogs)
    /\ settings' = s
    /\ gui' = IF s.shape # settings.shape THEN "changing" ELSE "showing"
    /\ UNCHANGED <<running, shown, channel, page, connected, pinned, events, net, host, input, aborted, clicks, faults>>

Bug_ApplySettings ==
    /\ gui \in Changing
    /\ look' = settings.look /\ stale' = FALSE
    /\ gui' = "loop"
    /\ UNCHANGED <<dialogs, running, channel, page, connected, settings, pinned, events, net, host, input, aborted, clicks, faults>>
\* The look is applied at once, what a HELLO carries by a new session.
ApplySettings ==
    /\ gui \in Changing
    /\ look' = settings.look /\ stale' = FALSE
    /\ IF gui = "changing" /\ running
       THEN StopSession("restart")
       ELSE gui' = "loop" /\ UNCHANGED <<running, channel>>
    /\ UNCHANGED <<dialogs, page, connected, settings, pinned, events, net, host, input, aborted, clicks, faults>>

\* The window is closed: its destructor stops the session, and may not
\* destroy a thread that is joinable.
Quit ==
    /\ Free /\ Click
    /\ IF running
       THEN StopSession("quit") /\ UNCHANGED aborted
       ELSE gui' = "gone" /\ aborted' = (pc # "none") /\ UNCHANGED <<running, channel>>
    /\ UNCHANGED <<dialogs, page, connected, settings, pinned, events, net, shown, host, input, faults>>

\* The join returns, and stopSession goes on.
Joined ==
    /\ gui \in Stopping
    /\ pc = "done"
    /\ page' = "idle"
    /\ gui' = IF gui = "quit" THEN "gone" ELSE "loop"
    /\ connected' = (gui = "restart")
    /\ running' = (gui = "restart")
    /\ pc' = IF gui = "restart" THEN "start" ELSE "none"
    /\ LoseFocus
    /\ UNCHANGED <<dialogs, settings, pinned, events, asked, taken, conn, shown, channel, host, aborted, clicks, faults>>

-----------------------------------------------------------------------------
(* Calls queued by the network thread; dialogs run them too.               *)

Bug_Deliver ==
    /\ gui = "loop" /\ events # <<>>
    /\ events' = Tail(events)
    /\ page' = IF Head(events) = "streaming" THEN "video" ELSE page
    /\ connected' = IF Head(events) = "ended" THEN FALSE ELSE connected
    /\ dialogs' = IF Head(events) = "cert" THEN Append(dialogs, [kind |-> "cert"]) ELSE dialogs
    /\ IF Head(events) = "cert" THEN LoseFocus ELSE UNCHANGED input
    /\ UNCHANGED <<gui, settings, pinned, net, running, shown, channel, host, aborted, clicks, faults>>
Deliver ==
    /\ gui = "loop" /\ events # <<>>
    /\ events' = Tail(events)
    /\ page' = IF Head(events) = "streaming" THEN "video" ELSE page
    /\ connected' = IF Head(events) = "ended" THEN running ELSE connected
    /\ dialogs' = IF Head(events) = "cert" THEN Append(dialogs, [kind |-> "cert"]) ELSE dialogs
    /\ IF Head(events) = "cert" THEN LoseFocus ELSE UNCHANGED input
    /\ UNCHANGED <<gui, settings, pinned, net, running, shown, channel, host, aborted, clicks, faults>>

\* "Re-pair?"
AnswerCert ==
    /\ Active("cert")
    /\ dialogs' = Front(dialogs)
    /\ pinned' = NoCert
    /\ UNCHANGED <<gui, page, connected, settings, events, net, running, shown, channel, host, input, aborted, clicks, faults>>

-----------------------------------------------------------------------------
(* The network thread.                                                     *)

Post(e) == events' = Append(events, e)

\* Nothing orders these reads and the write of the window: one that it overlaps is of
\* the old settings, of the new or of a mixture.
ReadSettings ==
    /\ pc = "start"
    /\ asked' \in IF gui = "changing" THEN Shape ELSE {settings.shape}
    /\ taken' \in IF gui \in Changing THEN Look ELSE {settings.look}
    /\ pc' = "apply"
    /\ UNCHANGED <<window, events, conn, running, shown, channel, host, input, aborted, clicks, faults>>

\* setBrightness, setContrast with what was read: the window may have set newer ones.
ApplyLook ==
    /\ pc = "apply"
    /\ look' = taken
    /\ taken' = NoShape
    /\ stale' = (taken # settings.look)
    /\ pc' = "loop"
    /\ UNCHANGED <<window, events, asked, conn, running, channel, host, input, aborted, clicks, faults>>

Bug_Loop ==
    /\ pc = "loop"
    /\ pc' = "dial"
    /\ UNCHANGED <<window, events, asked, taken, conn, running, shown, channel, host, input, aborted, clicks, faults>>
Loop ==
    /\ pc = "loop"
    /\ pc' = IF running THEN "dial" ELSE "exit"
    /\ UNCHANGED <<window, events, asked, taken, conn, running, shown, channel, host, input, aborted, clicks, faults>>

\* The connection to a host, within five seconds; one that fails is repeated after a
\* second.
Dial ==
    /\ pc = "dial"
    /\ \/ ~host.up /\ pc' = "loop" /\ UNCHANGED conn
       \/ host.up /\ pc' = "shake" /\ conn' = [Down EXCEPT !.state = "open"]
    /\ UNCHANGED <<window, events, asked, taken, running, shown, channel, host, input, aborted, clicks, faults>>

\* SSL_connect waits for the host as long as it keeps silent. A certificate that is
\* not the pinned one ends the thread.
Handshake ==
    /\ pc = "shake"
    /\ ~conn.stalled
    /\ \/ conn.state # "open" /\ pc' = "loop" /\ conn' = Down /\ UNCHANGED events
       \/ conn.state = "open" /\ Trusted /\ Post("streaming") /\ pc' = "hello" /\ UNCHANGED conn
       \/ conn.state = "open" /\ ~Trusted /\ Post("cert") /\ pc' = "exit" /\ conn' = Down
    /\ UNCHANGED <<window, asked, taken, running, shown, channel, host, input, aborted, clicks, faults>>

\* The HELLO opens a session on the host, with nothing held.
SendHello ==
    /\ pc = "hello"
    /\ IF conn.state = "reset"
       THEN pc' = "close" /\ UNCHANGED <<channel, remote>>
       ELSE pc' = "stream" /\ channel' = TRUE /\ remote' = {}
    /\ UNCHANGED <<window, events, asked, taken, conn, running, shown, host, keys, hand, focus, aborted, clicks, faults>>

Leave == pc' = "close" /\ channel' = FALSE

\* A ping (or the echo of one) under sendLock_. The first write after the
\* host has closed only earns a reset.
Ping ==
    /\ pc \in {"stream", "ping"}
    /\ gui # "sending"
    /\ \/ /\ conn.stalled
          /\ pc = "stream" /\ channel
          /\ pc' = "ping" /\ UNCHANGED <<conn, channel>>
       \/ /\ ~conn.stalled
          /\ pc = "ping" \/ conn.state = "eof"
          /\ IF ~channel \/ conn.state = "reset" THEN Leave ELSE pc' = "stream" /\ UNCHANGED channel
          /\ conn' = IF conn.state = "eof" THEN [conn EXCEPT !.state = "reset"] ELSE conn
       \/ /\ ~conn.stalled
          /\ pc = "stream" /\ (~channel \/ conn.state = "reset")
          /\ Leave /\ UNCHANGED conn
    /\ UNCHANGED <<window, events, asked, taken, running, shown, host, input, aborted, clicks, faults>>

\* SSL_read waits, too, for a record of which the host has sent a part.
Recv ==
    /\ \/ pc = "stream" /\ conn.stalled /\ pc' = "read"
       \/ pc = "read" /\ ~conn.stalled /\ pc' = "stream"
    /\ UNCHANGED <<window, events, asked, taken, conn, running, shown, channel, host, input, aborted, clicks, faults>>

Bug_NoByeEndStream ==
    /\ pc = "stream"
    /\ gui # "sending"
    /\ ~running \/ conn.state = "reset"
    /\ Leave
    /\ UNCHANGED <<window, events, asked, taken, conn, running, shown, host, input, aborted, clicks, faults>>
\* The end of a stream: running_ is off, the host says Bye, or recv fails. An
\* orderly end of the TLS stream reads as 0 bytes and is taken for no data.
EndStream ==
    /\ pc = "stream"
    /\ gui # "sending"
    /\ ~running \/ conn.state \in {"bye", "reset"}
    /\ Leave
    /\ UNCHANGED <<window, events, asked, taken, conn, running, shown, host, input, aborted, clicks, faults>>

\* SSL_shutdown writes, and waits for a host that does not read.
CloseChannel ==
    /\ pc \in {"close", "shut"}
    /\ \/ /\ conn.stalled /\ pc = "close"
          /\ pc' = "shut"
          /\ UNCHANGED <<conn, remote, events>>
       \/ /\ ~conn.stalled \/ pc = "close"
          /\ conn' = Down
          /\ remote' = {}
          /\ pc' = "loop"
          /\ IF running THEN Post("reconnecting") ELSE UNCHANGED events
    /\ UNCHANGED <<window, asked, taken, running, shown, channel, host, keys, hand, focus, aborted, clicks, faults>>

Exit ==
    /\ pc = "exit"
    /\ running' = FALSE
    /\ Post("ended")
    /\ pc' = "done"
    /\ asked' = NoShape
    /\ UNCHANGED <<window, taken, conn, shown, channel, host, input, aborted, clicks, faults>>

-----------------------------------------------------------------------------
(* Input of the video widget. A send blocks, with the lock, on a host that *)
(* does not read.                                                          *)

Send(held) ==
    IF channel
    THEN remote' = held /\ gui' = IF conn.stalled THEN "sending" ELSE gui
    ELSE UNCHANGED <<remote, gui>>

Capture == Free /\ page = "video" /\ pc # "ping"

\* A key counts as pressed or let go when the event is handled, here or elsewhere.
\* A key that is held repeats.
KeyPress(k) ==
    /\ Capture /\ focus = "in"
    /\ hand' = hand \cup {k}
    /\ keys' = keys \cup {k}
    /\ Send(remote \cup {k})
    /\ UNCHANGED <<dialogs, page, connected, settings, pinned, events, net, running, shown, channel, host, focus, aborted, clicks, faults>>

KeyRelease(k) ==
    /\ Capture /\ focus = "in" /\ k \in hand
    /\ hand' = hand \ {k}
    /\ keys' = keys \ {k}
    /\ Send(remote \ {k})
    /\ UNCHANGED <<dialogs, page, connected, settings, pinned, events, net, running, shown, channel, host, focus, aborted, clicks, faults>>

\* A release that another window gets, or no one while a dialog has the window blocked.
KeyElsewhere(k) ==
    /\ focus = "going" /\ k \in hand
    /\ hand' = hand \ {k}
    /\ UNCHANGED <<window, events, net, running, shown, channel, host, keys, focus, remote, aborted, clicks, faults>>

\* Touch, buttons and the wheel. (What they hold is left out: every message has all
\* contacts.)
TouchEvent ==
    /\ Capture
    /\ Send(remote)
    /\ UNCHANGED <<dialogs, page, connected, settings, pinned, events, net, running, shown, channel, host, keys, hand, focus, aborted, clicks, faults>>

FocusIn ==
    /\ Free /\ page = "video" /\ focus = "out"
    /\ focus' = "in"
    /\ hand' \in SUBSET Keys
    /\ UNCHANGED <<window, events, net, running, shown, channel, host, keys, remote, aborted, clicks, faults>>

\* Another window takes the focus.
FocusGoes ==
    /\ focus = "in"
    /\ LoseFocus
    /\ UNCHANGED <<window, events, net, running, shown, channel, host, aborted, clicks, faults>>

\* Keys that are held when the focus goes are sent as released; their own
\* release will not be seen.
FocusOut ==
    /\ gui = "loop" /\ focus = "going"
    /\ focus' = "out" /\ hand' = {}
    /\ keys' = {}
    /\ IF keys = {} THEN UNCHANGED <<remote, gui>>
       ELSE pc # "ping" /\ Send(remote \ keys)
    /\ UNCHANGED <<dialogs, page, connected, settings, pinned, events, net, running, shown, channel, host, aborted, clicks, faults>>

\* A blocked send returns: the host reads again, or the connection is gone.
Sent ==
    /\ gui = "sending" /\ ~conn.stalled
    /\ gui' = "loop"
    /\ UNCHANGED <<dialogs, page, connected, settings, pinned, events, net, running, shown, channel, host, input, aborted, clicks, faults>>

-----------------------------------------------------------------------------
(* The host and the link.                                                  *)

HostSaysBye ==
    /\ Fault /\ conn.state = "open" /\ pc # "shake"
    /\ conn' = [state |-> "bye", stalled |-> FALSE]
    /\ UNCHANGED <<window, events, pc, asked, taken, running, shown, channel, host, input, aborted, clicks>>

HostGoes ==
    /\ Fault /\ host.up
    /\ host' = [host EXCEPT !.up = FALSE]
    /\ conn' \in IF conn.state = "none" THEN {conn} ELSE [state : {"eof", "reset"}, stalled : {FALSE}]
    /\ UNCHANGED <<window, events, pc, asked, taken, running, shown, channel, input, aborted, clicks>>

HostReturns ==
    /\ ~host.up
    /\ host' \in [up : {TRUE}, cert : Cert]
    /\ UNCHANGED <<window, events, net, running, shown, channel, input, aborted, clicks, faults>>

\* The host is silent: it neither reads nor writes.
Stall ==
    /\ Fault /\ conn.state = "open" /\ ~conn.stalled /\ pc \in {"shake", "stream"}
    /\ conn' = [conn EXCEPT !.stalled = TRUE]
    /\ UNCHANGED <<window, events, pc, asked, taken, running, shown, channel, host, input, aborted, clicks>>

ReadsAgain ==
    /\ conn.stalled
    /\ conn' = [conn EXCEPT !.stalled = FALSE]
    /\ UNCHANGED <<window, events, pc, asked, taken, running, shown, channel, host, input, aborted, clicks, faults>>

-----------------------------------------------------------------------------
User ==
    \/ OnConnectAction \/ ConnectWith \/ EnterCode \/ Cancel \/ AnswerCert
    \/ OnDisconnectAction \/ OpenSettings \/ Quit
    \/ \E s \in Settings : OnSettingsAction(s)
    \/ \E k \in Keys : KeyPress(k) \/ KeyRelease(k) \/ KeyElsewhere(k)
    \/ TouchEvent \/ FocusIn \/ FocusGoes

Window == ApplySettings \/ Joined \/ Deliver \/ FocusOut \/ Sent

NetThread ==
    \/ ReadSettings \/ ApplyLook \/ Loop \/ Dial \/ Handshake \/ SendHello
    \/ Ping \/ Recv \/ EndStream \/ CloseChannel \/ Exit

World == HostSaysBye \/ HostGoes \/ HostReturns \/ Stall \/ ReadsAgain

Next == User \/ Window \/ NetThread \/ World

Spec == Init /\ [][Next]_vars

\* Threads run. A host that is silent may stay so.
Fairness ==
    /\ WF_vars(Window)
    /\ WF_vars(NetThread)

FairSpec == Spec /\ Fairness

-----------------------------------------------------------------------------
\* With nothing under way, the button says what running_ is: a call queued by
\* a thread that has been replaced must not undo what the new session set
\* (netThreadMain's last call).
ButtonMatches ==
    gui = "loop" /\ events = <<>> /\ pc # "exit" => (connected <=> running)

\* A stream was asked for with the settings in force, although the thread reads
\* settings_ while onSettingsAction may write them; and it shows the look that was
\* chosen last, unless the thread applied one that it had read before: see LookInForce.
SettingsInForce ==
    /\ gui \notin {"changing", "restart"} /\ pc \in {"hello", "stream", "ping", "read"} =>
           asked = settings.shape
    /\ gui \notin Changing /\ pc \notin {"none", "start", "apply"} => look = settings.look \/ stale

\* While a session is open the host holds down only keys that the user holds: those
\* whose release another window gets are released with the focus. (Between the loss of
\* the focus and its event one may be late.)
NothingStuck == channel /\ focus # "going" => remote \subseteq hand

\* The host has what the user set and what the user does.
HostHasTheUsers == SettingsInForce /\ NothingStuck

\* "brightness/contrast are pure display transforms: apply live" (main_window.cpp:153).
\* The code does not keep it: the thread of a new session may apply the look that it
\* read before the change, after the window has applied the new one.
LookInForce ==
    gui \notin Changing /\ pc \notin {"none", "start", "apply"} => look = settings.look

\* Disconnect, a change of settings and closing the window wait for the
\* network thread, and it ends, at the latest when the host is no longer silent.
StopReturns == gui \in Stopping ~> gui \notin Stopping \/ conn.stalled

\* "periodic wakeup to recheck isRunning()" (transport_client.cpp:108). The code does
\* not keep it: SSL_connect, SSL_read and the writes wait for a silent host without a
\* timeout, and the window with them.
StopReturnsAnyway == gui \in Stopping ~> gui \notin Stopping

\* A session that the user leaves on gets its stream back when the host is
\* there again with the certificate it was paired with, and answers.
StreamsAgain ==
    <>[](running /\ host.up /\ pinned = host.cert /\ ~conn.stalled)
        => []<>(pc = "stream" /\ conn.state = "open")

\* The network thread is joined before the next one is started and before the
\* window goes (transport_client.h: "run() must still be joined").
RunIsJoined == ~aborted
=============================================================================
