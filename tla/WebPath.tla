------------------------------ MODULE WebPath ------------------------------
(***************************************************************************)
(* The web front end: a streamer started with --web takes the connections  *)
(* of its port one at a time (web_frontend.cpp) until one is to stream: a  *)
(* native client, or a page (web/src/transport.ts) whose user enters the   *)
(* pairing code. The page gets back the settings that the GUI keeps for it *)
(* (main_window.cpp) before it sends HELLO. A connection carries frames in *)
(* order (ws_channel.cpp); the link may drop at any time. Settings are the *)
(* number of the edit that made them, 0 for none.                          *)
(***************************************************************************)
EXTENDS Integers, Sequences

CONSTANTS
    Pages,          \* pages of browsers
    MaxTries,       \* kWebPinMaxTries
    Extras,         \* kinds of the connections that are not of a page, one of each at a time
    MaxSockets,     \* bound: sockets of a page at a time, with the ones that the host still holds
    MaxQueue,       \* bound: connections that wait
    MaxEdits,       \* bound: edits of settings
    MaxFrames       \* bound: frames on the way to the host

ASSUME WebAssumption ==
    /\ MaxTries \in Nat \ {0} /\ MaxFrames \in Nat \ {0}
    /\ MaxSockets \in Nat /\ MaxQueue \in Nat /\ MaxEdits \in Nat
    /\ Extras \subseteq {"native", "request", "idle"}

VARIABLES
    conns,      \* the connections to the port, by name
    queue,      \* those that wait to be accepted
    host,       \* where the streamer is
    cur,        \* the connection that it serves, 0 for none
    pinTries,   \* tries of verify_web_pin
    loaded,     \* client_settings of main
    settings,   \* the settings in the HELLO of the session
    file,       \* web_client_settings.json
    lines,      \* "client-settings" lines on their way to the GUI
    writing,    \* the GUI has truncated the file
    stop,       \* g_stop
    page,       \* the pages: where they are, and what they show
    edits       \* edits made so far
webVars == <<conns, queue, host, cur, pinTries, loaded, settings, file, lines, writing, stop, page, edits>>
streamerVars == <<queue, host, cur, pinTries, loaded, settings>>
guiVars == <<file, lines, writing>>

\* A frame holds one message; "control" is a Ping or Pong of the WebSocket.
Frame(type, v) == [type |-> type, v |-> v]
Kinds == {"ws"} \cup Extras

\* The names of connections.
Sockets(p) == {p} \X (1 .. MaxSockets)
Conns == (UNION {Sockets(p) : p \in Pages}) \cup {<<kind, 0>> : kind \in Extras}
NoConn == <<"nobody", 0>>

\* up and down are the frames in flight; peer and ours, whether the ends are
\* open; wrong, the wrong codes entered on it, and right, whether the right one was then,
\* for the properties alone.
None == [kind |-> "none", up |-> <<>>, down |-> <<>>, peer |-> FALSE, ours |-> FALSE,
         wrong |-> 0, right |-> FALSE]
Fresh(kind) ==
    [kind |-> kind, up |-> IF kind = "native" THEN << Frame("Hello", 0) >> ELSE <<>>,
     down |-> <<>>, peer |-> TRUE, ours |-> TRUE, wrong |-> 0, right |-> FALSE]

\* link is the socket of the page (ws_); local, its settings;
\* hello, the arguments of HELLO; left, the tries it shows; timer, helloTimer;
\* handed, the settings that came back in time, for the properties alone.
NoLink(local) ==
    [local |-> local, link |-> NoConn, at |-> "closed", hello |-> 0, left |-> MaxTries,
     timer |-> FALSE, handed |-> 0]

WebTypeOK ==
    /\ \A i \in Conns :
          /\ conns[i].kind \in Kinds \cup {"none"}
          /\ Len(conns[i].up) <= MaxFrames
          /\ conns[i].peer \/ conns[i].ours <=> conns[i] # None
          /\ conns[i].ours <=> i = cur \/ \E k \in DOMAIN queue : queue[k] = i
    /\ host \in {"load", "accept", "blocked", "headers", "pin", "hello", "stream", "exit"}
    /\ cur \in Conns \cup {NoConn}
    /\ (host \in {"load", "accept", "exit"}) = (cur = NoConn)
    /\ pinTries \in 0 .. MaxTries - 1
    /\ {loaded, file, settings} \subseteq 0 .. edits
    /\ \A p \in Pages :
          /\ page[p].at \in {"closed", "waiting", "prompt", "paired", "live"}
          /\ page[p].link \in Conns \cup {NoConn}
          /\ page[p].left \in 0 .. MaxTries
          /\ page[p].timer => page[p].at = "paired"

WebInit ==
    /\ conns = [i \in Conns |-> None] /\ queue = <<>>
    /\ host = "load" /\ cur = NoConn /\ pinTries = 0 /\ loaded = 0 /\ settings = 0
    /\ file = 0 /\ lines = <<>> /\ writing = FALSE
    /\ stop = FALSE
    /\ page = [p \in Pages |-> NoLink(0)]
    /\ edits = 0

-----------------------------------------------------------------------------
(* Pages.                                                                  *)

\* What connection i becomes; its name is free when both ends are closed.
With(i, c) == [conns EXCEPT ![i] = IF c.peer \/ c.ours THEN c ELSE None]
Sent(i, frame) == [conns[i] EXCEPT !.up = Append(@, frame)]
Read(i) == [conns[i] EXCEPT !.down = Tail(@)]
Room(i) == conns[i].peer /\ Len(conns[i].up) < MaxFrames
Live(p) == page[p].at \in {"prompt", "paired", "live"}

Open(kind, i) ==
    /\ conns[i] = None /\ Len(queue) < MaxQueue
    /\ host # "exit"
    /\ conns' = With(i, Fresh(kind))
    /\ queue' = Append(queue, i)
    /\ UNCHANGED <<host, cur, pinTries, loaded, settings, guiVars, stop, edits>>

\* connect(): with the settings of now, when the page is loaded and from its button.
ConnectPage(p, i) ==
    /\ page[p].at = "closed"
    /\ \A j \in Sockets(p) : conns[j] = None => i[2] <= j[2]
    /\ Open("ws", i)
    /\ page' = [page EXCEPT ![p].at = "waiting", ![p].link = i, ![p].hello = page[p].local]

\* A code is entered.
SubmitPin(p, right) ==
    /\ page[p].at = "prompt"
    /\ Room(page[p].link)
    /\ LET c == Sent(page[p].link, Frame("Pair", right))
           more == IF c.right \/ right \/ c.wrong > MaxTries THEN c.wrong ELSE c.wrong + 1
       IN  conns' = With(page[p].link, [c EXCEPT !.wrong = more, !.right = @ \/ right])
    /\ UNCHANGED <<streamerVars, guiVars, stop, page, edits>>

\* The settings drawer: kept by the page, and sent to the host if there is a socket.
Edit(p) ==
    /\ edits < MaxEdits
    /\ Live(p) => Room(page[p].link)
    /\ edits' = edits + 1
    /\ page' = [page EXCEPT ![p].local = edits + 1]
    /\ conns' = IF Live(p) THEN With(page[p].link, Sent(page[p].link, Frame("Settings", edits + 1))) ELSE conns
    /\ UNCHANGED <<streamerVars, guiVars, stop>>

\* The browser does not keep what a page stores.
Forget(p) ==
    /\ page[p].at = "closed" /\ page[p].local # 0
    /\ page' = [page EXCEPT ![p].local = 0]
    /\ UNCHANGED <<conns, streamerVars, guiVars, stop, edits>>

\* sendHello.
HelloSent(p, hello) == Sent(page[p].link, Frame("Hello", hello))

\* helloTimer fires: the settings of the host are late.
HelloTimeout(p) ==
    /\ page[p].timer
    /\ Room(page[p].link)
    /\ page' = [page EXCEPT ![p].timer = FALSE, ![p].at = "live"]
    /\ conns' = With(page[p].link, HelloSent(p, page[p].hello))
    /\ UNCHANGED <<streamerVars, guiVars, stop, edits>>

Bug_OnPaired(p, i) ==
    /\ Room(i)
    /\ page' = [page EXCEPT ![p].at = "paired"]
    /\ conns' = With(i, [HelloSent(p, page[p].hello) EXCEPT !.down = Tail(@)])
\* PairResult, after the right code: HELLO waits for the settings.
OnPaired(p, i) ==
    /\ page' = [page EXCEPT ![p].at = "paired", ![p].timer = TRUE]
    /\ conns' = With(i, Read(i))

\* PairResult, after a wrong one.
OnRejected(p, i, left) ==
    /\ page' = [page EXCEPT ![p].left = left]
    /\ conns' = With(i, Read(i))

\* ClientSettings: merged, unless there are none, and then HELLO, though one may
\* have gone out already.
OnSettings(p, i, v) ==
    /\ Room(i)
    /\ LET hello == IF v = 0 THEN page[p].hello ELSE v IN
       /\ page' = [page EXCEPT ![p].timer = FALSE, ![p].at = "live", ![p].hello = hello,
                               ![p].handed = IF page[p].at = "paired" THEN v ELSE @,
                               ![p].local = IF v = 0 THEN @ ELSE v]
       /\ conns' = With(i, [HelloSent(p, hello) EXCEPT !.down = Tail(@)])

\* onopen, onmessage.
Receive(p) ==
    LET i == page[p].link IN
    /\ i # NoConn /\ conns[i].peer /\ conns[i].down # <<>>
    /\ LET f == Head(conns[i].down) IN
       \/ /\ f.type = "Open"
          /\ page' = [page EXCEPT ![p].at = "prompt"]
          /\ conns' = With(i, Read(i))
       \/ f.type = "Paired" /\ OnPaired(p, i)
       \/ f.type = "Rejected" /\ OnRejected(p, i, f.v)
       \/ f.type = "Settings" /\ OnSettings(p, i, f.v)
    /\ UNCHANGED <<streamerVars, guiVars, stop, edits>>

\* The page is back at its connect button. onclose, close().
Left(p, frames) ==
    /\ page' = [page EXCEPT ![p] = NoLink(page[p].local)]
    /\ LET c == conns[page[p].link] IN
       conns' = With(page[p].link, [c EXCEPT !.peer = FALSE, !.down = <<>>, !.up = @ \o frames])

Closed(p) ==
    /\ page[p].link # NoConn
    /\ ~conns[page[p].link].ours /\ conns[page[p].link].down = <<>>
    /\ Left(p, <<>>)
    /\ UNCHANGED <<streamerVars, guiVars, stop, edits>>

\* The link drops, or the tab is closed.
Drop(p) ==
    /\ page[p].link # NoConn
    /\ Left(p, <<>>)
    /\ UNCHANGED <<streamerVars, guiVars, stop, edits>>

\* The Disconnect button.
Disconnect(p) ==
    /\ Live(p) /\ Room(page[p].link)
    /\ Left(p, << Frame("Bye", 0) >>)
    /\ UNCHANGED <<streamerVars, guiVars, stop, edits>>

-----------------------------------------------------------------------------
(* Connections that are not of a page: a native client, a request for a     *)
(* file, one that a browser opens in advance.                              *)

OpenExtra(kind) ==
    /\ Open(kind, <<kind, 0>>)
    /\ UNCHANGED page

\* Their peer ends them.
CloseExtra(kind) ==
    /\ conns[<<kind, 0>>].peer
    /\ conns' = With(<<kind, 0>>, [conns[<<kind, 0>>] EXCEPT !.peer = FALSE])
    /\ UNCHANGED <<streamerVars, guiVars, stop, page, edits>>

\* A heartbeat of the browser or of a proxy.
Heartbeat(p) ==
    /\ page[p].at = "prompt" /\ conns[page[p].link].up = <<>>
    /\ conns[page[p].link].peer
    /\ conns' = With(page[p].link, Sent(page[p].link, Frame("control", 0)))
    /\ UNCHANGED <<streamerVars, guiVars, stop, page, edits>>

-----------------------------------------------------------------------------
(* The streamer.                                                           *)

\* The settings are read, and then a client is waited for.
LoadSettings ==
    /\ host = "load" /\ ~stop
    /\ host' = "accept"
    /\ loaded' = file
    /\ UNCHANGED <<conns, queue, cur, pinTries, settings, guiVars, stop, page, edits>>

\* Our end of connection i is closed, after the frames; only a page notices.
Shut(i, frames) ==
    IF conns[i].kind # "ws" THEN With(i, None)
    ELSE With(i, [conns[i] EXCEPT !.ours = FALSE, !.up = <<>>,
                                  !.down = IF conns[i].peer THEN @ \o frames ELSE <<>>])
Answered(i, frames) == With(i, [conns[i] EXCEPT !.down = @ \o frames])

\* accept4, SSL_accept and SSL_peek, which have no timeout.
Accept ==
    /\ host = "accept" /\ ~stop /\ queue # <<>>
    /\ queue' = Tail(queue)
    /\ LET i == Head(queue)
           c == conns[i]
           serve(stage) == host' = stage /\ cur' = i
       IN  \/ ~c.peer /\ conns' = Shut(i, <<>>) /\ UNCHANGED <<host, cur>>
           \/ c.peer /\ c.kind = "ws" /\ conns' = Answered(i, << Frame("Open", 0) >>) /\ serve("pin")
           \/ c.peer /\ c.kind = "native" /\ serve("hello") /\ UNCHANGED conns
           \/ c.peer /\ c.kind = "request" /\ serve("headers") /\ UNCHANGED conns
           \/ c.peer /\ c.kind = "idle" /\ serve("blocked") /\ UNCHANGED conns
    /\ UNCHANGED <<pinTries, loaded, settings, guiVars, stop, page, edits>>

\* The variables of a loop end with it.
GoTo(where) ==
    /\ host' = where
    /\ cur' = NoConn
    /\ conns' = Shut(cur, <<>>)
    /\ pinTries' = 0 /\ settings' = 0
    /\ loaded' = IF where = "accept" THEN loaded ELSE 0
    /\ UNCHANGED <<queue, guiVars, stop, page, edits>>

\* SSL_accept or SSL_peek fails when the peer goes away.
Unblock == host = "blocked" /\ ~conns[cur].peer /\ GoTo("accept")
\* A request is answered: config.json, ca.crt, a file. Or its headers do not come
\* within 10 s.
Respond == host = "headers" /\ GoTo("accept")

Arrived(type) == conns[cur].up # <<>> /\ Head(conns[cur].up).type = type
Consumed(frames) == With(cur, [conns[cur] EXCEPT !.up = Tail(@), !.down = IF conns[cur].peer THEN @ \o frames ELSE <<>>])

\* verify_web_pin: the right code; the settings follow the result.
RightPin ==
    /\ host = "pin" /\ ~stop
    /\ Arrived("Pair") /\ Head(conns[cur].up).v
    /\ host' = "hello" /\ pinTries' = 0
    /\ conns' = Consumed(<< Frame("Paired", 0), Frame("Settings", loaded) >>)
    /\ UNCHANGED <<queue, cur, loaded, settings, guiVars, stop, page, edits>>

Rejected(left) == << Frame("Rejected", left) >>
Bug_WrongPin ==
    /\ host = "pin" /\ ~stop
    /\ Arrived("Pair") /\ ~Head(conns[cur].up).v
    /\ IF pinTries = MaxTries
       THEN /\ host' = "accept" /\ cur' = NoConn /\ pinTries' = 0
            /\ conns' = Shut(cur, Rejected(0))
       ELSE /\ pinTries' = pinTries + 1
            /\ conns' = Consumed(Rejected(MaxTries - pinTries))
            /\ UNCHANGED <<host, cur>>
    /\ UNCHANGED <<queue, loaded, settings, guiVars, stop, page, edits>>
\* A wrong one. The last is answered too, and then the connection is closed.
WrongPin ==
    /\ host = "pin" /\ ~stop
    /\ Arrived("Pair") /\ ~Head(conns[cur].up).v
    /\ IF pinTries + 1 = MaxTries
       THEN /\ host' = "accept" /\ cur' = NoConn /\ pinTries' = 0
            /\ conns' = Shut(cur, Rejected(0))
       ELSE /\ pinTries' = pinTries + 1
            /\ conns' = Consumed(Rejected(MaxTries - pinTries'))
            /\ UNCHANGED <<host, cur>>
    /\ UNCHANGED <<queue, loaded, settings, guiVars, stop, page, edits>>

\* Other frames are passed over; they are lost to the session.
OtherAtPin ==
    /\ host = "pin" /\ ~stop
    /\ conns[cur].up # <<>> /\ ~Arrived("Pair") /\ ~Arrived("control")
    /\ conns' = Consumed(<<>>)
    /\ UNCHANGED <<streamerVars, guiVars, stop, page, edits>>

Bug_GiveUp ==
    /\ host = "pin"
    /\ ~conns[cur].peer \/ Arrived("control") \/ stop
    /\ GoTo("accept")
\* verify_web_pin gives up: 60 s of silence, the peer is gone, a frame without a
\* message (wait_readable says that there is nothing), or g_stop.
GiveUp ==
    /\ host = "pin"
    /\ conns[cur].up = <<>> \/ ~conns[cur].peer \/ Arrived("control") \/ stop
    /\ GoTo("accept")

\* read_hello: what comes before HELLO is passed over. Then the approval.
ReadHello ==
    /\ host = "hello" /\ conns[cur].up # <<>>
    /\ \/ ~Arrived("Hello") /\ UNCHANGED <<host, settings>>
       \/ Arrived("Hello") /\ host' = "stream" /\ settings' = Head(conns[cur].up).v
    /\ conns' = Consumed(<<>>)
    /\ UNCHANGED <<queue, cur, pinTries, loaded, guiVars, stop, page, edits>>

\* No HELLO within 10 s, the approval is refused, or the peer is gone.
NoHello ==
    /\ host = "hello"
    /\ conns[cur].up = <<>> \/ ~conns[cur].peer \/ Arrived("Hello")
    /\ GoTo("load")

\* poll_control.
Poll ==
    /\ host = "stream" /\ conns[cur].up # <<>>
    /\ IF Arrived("Bye") THEN GoTo("exit")
       ELSE /\ conns' = Consumed(<<>>)
            /\ lines' = IF Arrived("Settings") THEN Append(lines, Head(conns[cur].up).v) ELSE lines
            /\ UNCHANGED <<streamerVars, file, writing, stop, page, edits>>

\* run_until returns: the peer is gone, or g_stop.
EndSession ==
    /\ host = "stream"
    /\ ~conns[cur].peer \/ stop
    /\ GoTo("load")

Stop == ~stop /\ host # "exit" /\ stop' = TRUE /\ UNCHANGED <<conns, streamerVars, guiVars, page, edits>>

\* Every loop asks for g_stop where it begins.
Exit ==
    /\ host \in {"load", "accept"} /\ stop
    /\ host' = "exit"
    /\ UNCHANGED <<conns, queue, cur, pinTries, loaded, settings, guiVars, stop, page, edits>>

-----------------------------------------------------------------------------
(* The GUI writes the file, which another process reads.                   *)

Truncate ==
    /\ lines # <<>> /\ ~writing
    /\ writing' = TRUE /\ file' = 0
    /\ UNCHANGED <<conns, streamerVars, lines, stop, page, edits>>

Write ==
    /\ writing
    /\ writing' = FALSE /\ file' = Head(lines) /\ lines' = Tail(lines)
    /\ UNCHANGED <<conns, streamerVars, stop, page, edits>>

-----------------------------------------------------------------------------
PageStep(p) == (\E i \in Sockets(p) : ConnectPage(p, i)) \/ HelloTimeout(p) \/ Receive(p) \/ Closed(p)
HostStep == \/ LoadSettings \/ Accept \/ Unblock \/ Respond
            \/ RightPin \/ WrongPin \/ OtherAtPin \/ GiveUp \/ ReadHello \/ NoHello \/ Poll
            \/ EndSession \/ Exit

WebNext ==
    \/ \E p \in Pages : \/ PageStep(p) \/ Edit(p) \/ Forget(p) \/ Drop(p) \/ Disconnect(p) \/ Heartbeat(p)
                        \/ \E right \in BOOLEAN : SubmitPin(p, right)
    \/ \E kind \in Extras : OpenExtra(kind) \/ CloseExtra(kind)
    \/ HostStep
    \/ Stop
    \/ Truncate \/ Write

PageStreams(p) == host = "stream" /\ page[p].link = cur

\* The loops of the streamer run; a browser gives up the connection that it opened
\* in advance, and a client leaves its session at some time; frames arrive.
WebFairness ==
    /\ WF_webVars(HostStep)
    /\ WF_webVars(\E kind \in Extras : cur = <<kind, 0>> /\ CloseExtra(kind))
    /\ WF_webVars(\E p \in Pages : PageStreams(p) /\ Drop(p))
    /\ WF_webVars(\E p \in Pages : Receive(p))

WebSpec == WebInit /\ [][WebNext]_webVars /\ WebFairness
-----------------------------------------------------------------------------
(* Properties.                                                             *)

Serving(stage) == host \in stage /\ conns[cur].kind = "ws"

\* A page streams after the right code, and it was not entered after more wrong
\* ones than the code allows. (verify_web_pin.)
StreamNeedsCode ==
    Serving({"hello", "stream"}) => conns[cur].right /\ conns[cur].wrong < MaxTries

\* With no code and no answer on the way, a page shows the number of tries that it has.
TriesShown ==
    \A p \in Pages :
        /\ page[p].at = "prompt" /\ Serving({"pin"}) /\ cur = page[p].link
        /\ conns[cur].down = <<>> /\ \A k \in DOMAIN conns[cur].up : conns[cur].up[k].type # "Pair"
        => page[p].left = MaxTries - pinTries

\* The exchange of the code, over wrong codes and other frames in any order.
PinKept == StreamNeedsCode /\ TriesShown

\* A session begins with the settings that the host handed back, if the page had
\* them before it gave up waiting: not a session late. (kMsgClientSettings, helloTimer.)
HandedBackInTime ==
    \A p \in Pages : PageStreams(p) /\ page[p].handed # 0 => settings = page[p].handed

\* Who connects is served, if sessions end: nobody keeps the streamer from its queue
\* for ever, not an abandoned prompt, a request that is never finished, or a
\* connection opened in advance.
WaitersServed == []<>(cur = NoConn)

\* SIGTERM ends the streamer wherever it waits.
StopReturns == stop ~> host = "exit"

\* No client keeps the front end from the next client, nor from its end.
NobodyBlocks == WaitersServed /\ StopReturns

\* "so a reconnect must see the newest values" (stream_main.cpp), "Safe before/after
\* HELLO" (transport.ts): pairing does not take back what was edited.
EditsLast == [][\A p \in Pages : page[p].link # NoConn => page'[p].local >= page[p].local]_webVars
=============================================================================
