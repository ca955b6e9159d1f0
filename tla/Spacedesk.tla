------------------------------ MODULE Spacedesk ------------------------------
(***************************************************************************)
(* The spacedesk compatibility server: a second listener inside every       *)
(* droppix_stream process (spacedesk_server.cpp), for viewers that speak    *)
(* another product's protocol and see the screen as JPEG stripes.           *)
(*                                                                          *)
(* All processes of a machine want the same port, and only one that binds   *)
(* it at its start serves viewers, one at a time: this is such a process,   *)
(* and those that follow it. The accept thread waits in recv and send       *)
(* without a look at stopping_, and the main thread joins it when it        *)
(* returns.                                                                 *)
(*                                                                          *)
(* The viewer is spacedesk_client.cpp as spacedesk_probe drives it; the app *)
(* on a phone speaks the same protocol.                                     *)
(***************************************************************************)
EXTENDS Integers, Sequences, FiniteSets

CONSTANTS
  Viewer,
  ByIp,       \* the viewers that dial without discovery
  Mode,       \* the modes the compositor may set: records of w and h
  Cap,        \* bound: messages the sockets of a connection hold unread
  MaxStarts,  \* bound: starts of processes
  MaxDials,   \* bound: connections dialled
  MaxModes    \* bound: mode changes during sessions

ASSUME SpacedeskAssumption ==
  /\ ByIp \subseteq Viewer
  /\ Mode \subseteq [w : Nat, h : Nat]
  /\ {Cap, MaxStarts, MaxDials, MaxModes} \subseteq Nat

kStripes == 4
Backlog  == 5     \* listen(fd, 4) holds five
Conn     == 1..MaxDials

\* The host's end of a connection. "fin": the viewer closed; "rst": the next
\* recv reports an error and every send fails; "dead": the error has been
\* reported, recv returns 0; "lost": the viewer is gone and nothing tells the
\* host; "closed": the host closed it.
LinkState == {"up", "fin", "rst", "dead", "lost", "closed"}

VARIABLES
  main,       \* the main thread: off, run, stop
  listening,  \* listen_fd_: the server is up
  disc,       \* the discovery thread answers
  waiting,    \* the connections the kernel has not handed over
  acc,        \* where the accept thread is
  client,     \* the connection it serves, 0 if none
  size,       \* width_ and height_ of its capturer
  enc,        \* the size the stripe encoder is open with
  stripe,     \* i of the stripe loop
  link, wire, \* of each connection: its state, the messages not yet read
  said,       \* what the viewer has sent: nothing, hello, junk
  knows,      \* the viewers that have heard of the server
  conn,       \* the connection of each viewer, 0 if none
  covered,    \* the row up to which the last stripe went
  shown,      \* the display height of the last stripe
  starts, dials, modes,  \* history, for bounds
  gaps,       \* history: the connections with a stripe left out
  resized     \* history: the connections whose mode changed its width

server == <<main, listening, disc, waiting>>
thread == <<acc, client, size, enc, stripe>>
net    == <<link, wire, said>>
viewer == <<knows, conn, covered, shown>>
hist   == <<starts, dials, modes, gaps, resized>>
spaceVars   == <<server, thread, net, viewer, hist>>

NoSize == [w |-> 0, h |-> 0]

SpaceInit ==
  /\ main = "off" /\ listening = FALSE /\ disc = FALSE /\ waiting = <<>>
  /\ acc = "none" /\ client = 0
  /\ size = NoSize /\ enc = NoSize /\ stripe = 0
  /\ link = [c \in Conn |-> "up"] /\ wire = [c \in Conn |-> <<>>]
  /\ said = [c \in Conn |-> "nothing"]
  /\ knows = ByIp /\ conn = [v \in Viewer |-> 0] 
  /\ covered = [v \in Viewer |-> 0] /\ shown = covered
  /\ starts = 0 /\ dials = 0 /\ modes = 0 /\ gaps = {} /\ resized = {}

----------------------------------------------------------------------------
(* The process: start() and stop(). *)

\* A process starts. The server stays off when it was switched off, when the
\* session is over USB or when the port is taken, and is not tried again; a
\* UDP socket that cannot be bound only costs the discovery.
Start ==
  /\ main = "off" /\ starts < MaxStarts
  /\ starts' = starts + 1
  /\ main' = "run"
  /\ \/ UNCHANGED <<listening, disc, acc>>
     \/ listening' = TRUE /\ disc' \in BOOLEAN /\ acc' = "poll"
  /\ UNCHANGED <<waiting, client, size, enc, stripe, net, viewer, dials, modes, gaps, resized>>

Waiting == {waiting[i] : i \in 1..Len(waiting)}

\* The listener goes, and the kernel resets what waits in its queue.
ClosePort(cs) ==
  /\ listening' = FALSE /\ disc' = FALSE /\ waiting' = <<>>
  /\ link' = [c \in Conn |-> IF c \in cs \cup Waiting THEN "closed" ELSE link[c]]

\* main returns, after a BYE or a signal, and destroys the server: stop().
MainReturns ==
  /\ main = "run"
  /\ main' = IF listening THEN "stop" ELSE "off"
  /\ ClosePort({})
  /\ UNCHANGED <<thread, wire, said, viewer, hist>>

\* stop() has joined both threads. The discovery thread looks at stopping_
\* twice a second.
ThreadsJoined ==
  /\ main = "stop" /\ acc = "none"
  /\ main' = "off"
  /\ UNCHANGED <<listening, disc, waiting, thread, net, viewer, hist>>

NoSession ==
  /\ client' = 0 /\ size' = NoSize /\ enc' = NoSize /\ stripe' = 0

\* The process ends wherever its threads are.
Dies ==
  /\ main' = "off" /\ acc' = "none"
  /\ NoSession
  /\ ClosePort({client})
  /\ UNCHANGED <<wire, said, viewer, hist>>

\* The GUI closes stdin: _Exit after 1.5 s. A mode with more pixels than the
\* framebuffer, whose end the encoder reads past, may have the same effect.
Kill == main \in {"run", "stop"} /\ Dies

----------------------------------------------------------------------------
(* send_all and the end of a session. *)

Broken(c) == link[c] \in {"rst", "dead"}

Control == [kind |-> "control"]

\* A send that has room; with none left send_all waits. What is sent to a
\* viewer that is gone stays in the kernel, and is the same to everybody.
SentTo(c, m) ==
  /\ ~Broken(c) /\ Len(wire[c]) < Cap
  /\ wire' = [wire EXCEPT ![c] = Append(@, IF link[c] = "up" THEN m ELSE Control)]

\* serve_client returns and run() closes the connection.
EndClient ==
  /\ acc' = "poll"
  /\ NoSession
  /\ link' = [link EXCEPT ![client] = "closed"]
  /\ UNCHANGED <<server, wire, said, viewer, hist>>

Go(next) == acc' = next

\* One message to the viewer, and on to `next'; or the session is over.
SendOrEnd(m, next) ==
  \/ /\ SentTo(client, m)
     /\ Go(next)
     /\ UNCHANGED <<server, client, size, enc, stripe, link, said, viewer, hist>>
  \/ Broken(client) /\ EndClient

----------------------------------------------------------------------------
(* The accept thread: run() and serve_client(). *)

AcceptViewer ==
  /\ acc = "poll" /\ main = "run" /\ waiting # <<>>
  /\ client' = Head(waiting)
  /\ waiting' = Tail(waiting)
  /\ Go("hello")
  /\ UNCHANGED <<main, listening, disc, size, enc, stripe, net, viewer, hist>>

\* `while (!stopping_)'.
RunEnds ==
  /\ acc = "poll" /\ main = "stop"
  /\ Go("none")
  /\ UNCHANGED <<server, client, size, enc, stripe, net, viewer, hist>>

\* Bug: recv_exact without the poll and its 10 s.
Bug_HelloFails == acc = "hello" /\ said[client] = "junk" /\ EndClient

\* 10 s without a byte, the viewer gone, or no hello with a size in it.
HelloFails ==
  /\ acc = "hello" /\ said[client] # "hello"
  /\ EndClient

HelloArrives ==
  /\ acc = "hello" /\ said[client] = "hello"
  /\ Go("open")
  /\ UNCHANGED <<server, client, size, enc, stripe, net, viewer, hist>>

\* build_session_open: the five messages fit into an empty socket.
SendOpen == acc = "open" /\ SendOrEnd(Control, "source")

YStart(h, i) == (h \div kStripes) * i

\* Bug: four stripes of the same rows.
Bug_YEnd(h, i) == (h \div kStripes) * (i + 1)

\* stripe_bounds: the remainder goes into the last stripe.
YEnd(h, i) == IF i = kStripes - 1 THEN h ELSE (h \div kStripes) * (i + 1)
Rows(h, i) == YEnd(h, i) - YStart(h, i)

\* No source, or no mode within 12 s, or the encoder does not open.
SourceFails == acc = "source" /\ EndClient

\* The monitor is asked for in the viewer's size; the mode is what the
\* compositor sets. JpegStripeEncoder::open refuses a stripe of no rows.
SourceStarts ==
  /\ acc = "source"
  /\ \E m \in Mode :
       /\ Rows(m.h, 0) > 0
       /\ size' = m
       /\ enc' = [w |-> m.w, h |-> Rows(m.h, 0)]
  /\ Go("top")
  /\ UNCHANGED <<server, client, stripe, net, viewer, hist>>

Top ==
  /\ acc = "top"
  /\ \/ main = "stop" /\ EndClient
     \/ /\ main = "run" /\ Go("frame")
        /\ UNCHANGED <<server, client, size, enc, stripe, net, viewer, hist>>

\* Bug: no heartbeat in the stream.
Bug_Beat ==
  /\ acc = "top" /\ main = "run" /\ Go("frame")
  /\ UNCHANGED <<server, client, size, enc, stripe, net, viewer, hist>>

\* Every 10 s.
Beat == acc = "top" /\ main = "run" /\ SendOrEnd(Control, "frame")

\* Capturer::grab handles the events of the display: a new mode changes the
\* size of the frames, and leaves the framebuffer as it was registered.
Pump ==
  \/ UNCHANGED <<size, modes, resized>>
  \/ /\ modes < MaxModes
     /\ modes' = modes + 1
     /\ size' \in Mode
     /\ resized' = IF size'.w = size.w THEN resized ELSE resized \cup {client}

GrabFrame ==
  /\ acc = "frame"
  /\ Pump
  /\ stripe' = 0
  /\ Go("stripe")
  /\ UNCHANGED <<server, client, enc, net, viewer, starts, dials, gaps>>

\* next(16) without a frame: what the viewer sent is read and thrown away;
\* 0 ends the session, an error does not.
NothingNew ==
  /\ acc = "frame"
  /\ \/ /\ link[client] \notin {"fin", "dead"}
        /\ Pump
        /\ link' = IF link[client] = "rst" THEN [link EXCEPT ![client] = "dead"] ELSE link
        /\ Go("top")
        /\ UNCHANGED <<server, client, enc, stripe, wire, said, viewer, starts, dials,
                       gaps>>
     \/ link[client] \in {"fin", "dead"} /\ EndClient

\* The encoder is opened anew when the rows differ, and only then.
Encoder ==
  LET rows == Rows(size.h, stripe)
  IN  IF rows = enc.h THEN enc ELSE [w |-> size.w, h |-> rows]

\* build_frame_header, and the size of the JPEG behind it.
Picture ==
  [kind |-> "frame", w |-> size.w, h |-> size.h,
   y0 |-> YStart(size.h, stripe), y1 |-> YEnd(size.h, stripe),
   jpeg |-> Encoder]

NextStripe ==
  /\ stripe' = (stripe + 1) % kStripes
  /\ Go(IF stripe = kStripes - 1 THEN "top" ELSE "stripe")
  /\ enc' = Encoder
  /\ UNCHANGED <<server, client, size, said, viewer, starts, dials, modes, resized>>

\* Encoded and sent, or refused by the encoder: then the stripe is left out.
Stripe ==
  /\ acc = "stripe" /\ Encoder.h > 0
  /\ \/ SentTo(client, Picture) /\ NextStripe /\ UNCHANGED <<link, gaps>>
     \/ gaps' = gaps \cup {client} /\ NextStripe /\ UNCHANGED <<link, wire>>
     \/ Broken(client) /\ EndClient

\* The encoder does not open again.
StripeFails ==
  /\ acc = "stripe" /\ Encoder # enc
  /\ EndClient

----------------------------------------------------------------------------
(* The viewers. *)

\* An announcement, or the answer to a probe, arrives.
Hear(v) ==
  /\ disc /\ v \notin knows /\ conn[v] = 0
  /\ knows' = knows \cup {v}
  /\ UNCHANGED <<server, thread, net, conn, covered, shown, hist>>

Dial(v) ==
  /\ v \in knows /\ conn[v] = 0
  /\ listening /\ Len(waiting) < Backlog /\ dials < MaxDials
  /\ dials' = dials + 1
  /\ conn' = [conn EXCEPT ![v] = dials + 1]
  /\ waiting' = Append(waiting, dials + 1)
  /\ UNCHANGED <<main, listening, disc, thread, net, knows, covered, shown, starts,
                 modes, gaps, resized>>

\* build_client_hello; or what is no hello to the server.
SayHello(v) ==
  /\ conn[v] # 0 /\ link[conn[v]] = "up" /\ said[conn[v]] = "nothing"
  /\ \E h \in {"hello", "junk"} : said' = [said EXCEPT ![conn[v]] = h]
  /\ UNCHANGED <<server, thread, link, wire, viewer, hist>>

\* ClientParser::feed hands over the next message.
ReadMessage(v) ==
  LET c == conn[v] IN
  /\ c # 0 /\ wire[c] # <<>>
  /\ wire' = [wire EXCEPT ![c] = Tail(@)]
  /\ IF Head(wire[c]).kind = "frame"
       THEN /\ covered' = [covered EXCEPT ![v] = Head(wire[c]).y1]
            /\ shown' = [shown EXCEPT ![v] = Head(wire[c]).h]
       ELSE UNCHANGED <<covered, shown>>
  /\ UNCHANGED <<server, thread, link, said, knows, conn, hist>>

\* The next connection starts with a parser and a picture of its own; what
\* was sent and not read is lost with this one.
Hangs(v) ==
  /\ conn' = [conn EXCEPT ![v] = 0]
  /\ wire' = [wire EXCEPT ![conn[v]] = <<>>]
  /\ covered' = [covered EXCEPT ![v] = 0] /\ shown' = [shown EXCEPT ![v] = 0]
  /\ knows' = IF v \in ByIp THEN knows ELSE knows \ {v}
  /\ gaps' = gaps \ {conn[v]} /\ resized' = resized \ {conn[v]}
  /\ UNCHANGED <<server, thread, said, starts, dials, modes>>

\* The viewer closes, or sees that the host has; with something unread its
\* kernel resets the connection.
Leave(v) ==
  LET c == conn[v] IN
  /\ c # 0
  /\ \/ link[c] = "up" /\ \E l \in {"fin", "rst"} : link' = [link EXCEPT ![c] = l]
     \/ link[c] = "closed" /\ UNCHANGED link
  /\ Hangs(v)

\* It is switched off, or out of reach.
Vanish(v) ==
  /\ conn[v] # 0 /\ link[conn[v]] = "up"
  /\ link' = [link EXCEPT ![conn[v]] = "lost"]
  /\ Hangs(v)

\* What was sent to a viewer that is gone is answered with a reset, or never.
KernelGivesUp(c) ==
  /\ link[c] \in {"fin", "lost"} /\ wire[c] # <<>>
  /\ link' = [link EXCEPT ![c] = "rst"]
  /\ wire' = [wire EXCEPT ![c] = <<>>]
  /\ UNCHANGED <<server, thread, said, viewer, hist>>

----------------------------------------------------------------------------
Thread ==
  \/ AcceptViewer \/ RunEnds \/ HelloFails \/ HelloArrives \/ SendOpen
  \/ SourceFails \/ SourceStarts \/ Top \/ Beat \/ GrabFrame
  \/ NothingNew \/ Stripe \/ StripeFails

SpaceNext ==
  \/ Start \/ MainReturns \/ ThreadsJoined \/ Kill \/ Thread
  \/ \E v \in Viewer : \/ Hear(v) \/ Dial(v) \/ SayHello(v) \/ ReadMessage(v)
                       \/ Leave(v) \/ Vanish(v)
  \/ \E c \in Conn : KernelGivesUp(c)

SpaceSpec == SpaceInit /\ [][SpaceNext]_spaceVars

\* The threads run and the clock reaches the next heartbeat; the kernel gives
\* up on data nobody acknowledges. Of a viewer it is assumed that it does not
\* stop reading for ever: nothing in the code bounds that.
Fairness ==
  /\ WF_spaceVars(Thread) /\ WF_spaceVars(ThreadsJoined) /\ SF_spaceVars(Beat)
  /\ \A v \in Viewer : WF_spaceVars(ReadMessage(v))
  /\ \A c \in Conn : WF_spaceVars(KernelGivesUp(c))

FairSpec == SpaceSpec /\ Fairness

----------------------------------------------------------------------------
(* Properties. *)

Size    == [w : Nat, h : Nat]
Message == {Control} \cup
           [kind : {"frame"}, w : Nat, h : Nat, y0 : Nat, y1 : Nat, jpeg : Size]

SpaceTypeOK ==
  /\ main \in {"off", "run", "stop"} /\ listening \in BOOLEAN /\ disc \in BOOLEAN
  /\ waiting \in Seq(Conn)
  /\ acc \in {"none", "poll", "hello", "open", "source", "top", "frame", "stripe"}
  /\ client \in Conn \cup {0}
  /\ size \in Size /\ enc \in Size /\ stripe \in 0..(kStripes - 1)
  /\ link \in [Conn -> LinkState] /\ wire \in [Conn -> Seq(Message)]
  /\ said \in [Conn -> {"nothing", "hello", "junk"}]
  /\ knows \subseteq Viewer /\ conn \in [Viewer -> Conn \cup {0}]
  /\ covered \in [Viewer -> Nat] /\ shown \in [Viewer -> Nat]
  /\ starts \in 0..MaxStarts /\ dials \in 0..MaxDials /\ modes \in 0..MaxModes
  /\ gaps \subseteq Conn /\ resized \subseteq Conn

\* What a viewer reads next continues its picture: the stripe begins where
\* the last one ended, or begins a picture after one that was covered to the
\* last row, unless the encoder has refused a stripe; and the JPEG in it has
\* the size that the header gives the stripe. The encoder survives from stripe
\* to stripe and from frame to frame, and is opened anew only when the rows
\* differ, so only a mode of another width can leave it with the wrong size.
PicturesWhole ==
  \A v \in Viewer : LET c == conn[v] IN
    c # 0 /\ wire[c] # <<>> /\ Head(wire[c]).kind = "frame" =>
      LET m == Head(wire[c]) IN
      /\ c \in gaps \/ m.y0 = covered[v] \/ (m.y0 = 0 /\ covered[v] = shown[v])
      /\ m.y0 < m.y1 /\ m.jpeg.h = m.y1 - m.y0
      /\ c \in resized \/ m.jpeg.w = m.w

\* stop() returns: whatever the accept thread waits for when main returns, a
\* hello, a mode, room in a socket, it comes back to stopping_.
ServerStops == main = "stop" ~> main # "stop"

ViewerGone == client # 0 /\ link[client] \in {"fin", "rst", "dead", "lost"}

\* A viewer that is gone does not keep the server from the next one, on a
\* screen that moves or stands still, however it went: closed, reset, or
\* without a word.
GoneIsNoticed == ViewerGone ~> ~ViewerGone
=============================================================================
