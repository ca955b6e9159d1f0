---------------------------- MODULE StreamServer ----------------------------
(***************************************************************************)
(* One droppix_stream process: the reconnect loop of stream_main.cpp, one   *)
(* session of StreamDaemon::run_until per accepted connection, and the      *)
(* TransportServer, which OUTLIVES the sessions: its parser, its latches    *)
(* and its handlers are carried from one connection to the next.            *)
(*                                                                          *)
(* Around it are the devices that dial the listener (TransportClient and    *)
(* StreamActivity on Android, the Linux and web clients being the same      *)
(* without a sensor) and one TCP connection per dial.                       *)
(*                                                                          *)
(* A connection is numbered by the order it was dialled, which is the order *)
(* the kernel's accept queue hands it over, so `sess' counts accepts.       *)
(* Every message carries, as a history field, the connection it was written *)
(* on; no guard of the program reads it.                                    *)
(***************************************************************************)
EXTENDS Naturals, Sequences, FiniteSets

CONSTANTS
  Device,     \* the clients that may dial this streamer
  Dims,       \* the shape of each device's HELLO dimensions
  Legacy,     \* the devices whose protocol version may be below 4
  Code,       \* the ORIENTATION codes that occur, a subset of 0..3
  Rate,       \* the fps/bitrate pairs a client may ask for while it streams
  HelloRate,  \* the pair every session starts with
  Other,      \* the other control messages that occur: "key", "touch"
  Mirror,     \* cfg_.mirror
  MayStop,    \* bound: may the GUI close our stdin?
  Split,      \* may a received chunk end in the middle of a message?
  Misread,    \* the messages that bytes out of step may be taken for
  Garbled,    \* the other fields that a HELLO among them may have
  MaxConn,    \* bound: connections dialled in one behaviour
  MaxTurns,   \* bound: rotations of the devices
  MaxSends    \* bound: other messages written by the devices

Shape == {"landscape", "portrait", "square"}

\* "orient" carries a code, "params" a rate, "hello" the code of HELLO
\* (its dimensions are Dims[owner]); the others carry nothing.
MsgType == {"hello", "orient", "params", "key", "touch", "bye"}

ASSUME ServerAssumption ==
  /\ Dims \in [Device -> Shape]
  /\ Legacy \subseteq Device
  /\ Code \subseteq 0..3 /\ 0 \in Code
  /\ Rate \subseteq Nat \ {0} /\ HelloRate \in Nat \ {0}
  /\ Other \subseteq {"key", "touch"}
  /\ Misread \subseteq [type : MsgType, conn : {0}, val : Nat]
  /\ Garbled \subseteq [v4 : BOOLEAN, dims : Shape, rate : Nat \ {0}]
  /\ Mirror \in BOOLEAN /\ Split \in BOOLEAN /\ MayStop \in BOOLEAN
  /\ MaxConn \in Nat /\ MaxTurns \in Nat /\ MaxSends \in Nat

Conn == 1..MaxConn

\* A message nobody wrote, misread in bytes that are out of step, has conn 0.
Msg == [type : MsgType, conn : Conn \cup {0}, val : Nat]

\* "fin": the device closed its end; "rst": its kernel has reset the
\* connection, so a write fails at once (data already received can still be
\* read); "lost": it is gone and nothing tells the host.
Link == {"up", "fin", "rst", "lost"}

Phase == {"accept", "hello", "approve", "build",
          "loop", "frame", "poll", "dispatch", "flush", "exited"}

\* The phases between set_orientation_handler and the end of run_until.
Streaming == {"loop", "frame", "poll", "dispatch", "flush"}

VARIABLES
  phase,      \* where the streamer's main thread is
  stop,       \* g_stop: the GUI closed our stdin
  sess,       \* the last connection accepted, 0 before the first
  chan,       \* channel_ holds an open connection (which is sess)
  buf,        \* the complete messages in parser_
  cut,        \* the connection whose message parser_ holds a part of, or 0
  liveOri,    \* *cfg_.live_orientation: outlives the session
  hello,      \* the orientation code of the HELLO being served
  shape,      \* the shape the source was built with
  restart,    \* restart_for_orientation
  rate,       \* cur_fps/cur_bitrate
  torn,       \* the connections that were accepted on a misread HELLO
  pending,    \* params_ when params_pending_, else 0
  keyReq,     \* keyframe_requested_
  saidBye,    \* said_bye_
  orientH,    \* the session the orientation handler captured, 0 if null
  touchH      \* the session whose injector the touch handlers captured, 0 if null

NoCode == 4

VARIABLES
  old,        \* the devices whose protocol version is below 4
  owner,      \* the device of each connection, in dialling order
  conn,       \* the connection each device is on, 0 if none
  want,       \* StreamActivity.running: the device keeps dialling
  code,       \* OrientationMapper.currentCode() of each device
  echo,       \* the code onConfig has read and not yet handed to the sender
  link,       \* the state of each connection as the host's kernel sees it
  wire,       \* the messages of each connection the host has not received
  cfgs        \* the CONFIGs of each connection its device has not read

VARIABLES     \* history, read by properties and bounds only
  turns,      \* rotations so far
  sends,      \* other messages written so far
  restarted,  \* the last session ended by an orientation change, 0 if none
  asked,      \* the last rate written on each connection, 0 if none
  refused,    \* the encoder refused a live reopen in this session
  byes,       \* the connections a BYE was written on
  said,       \* the code of each connection's device when it dialled
  turned      \* the connections that a rotation of their device fell on

rx       == <<buf, cut>>
session  == <<liveOri, hello, shape, restart, rate, torn>>
latches  == <<pending, keyReq, saidBye>>
handlers == <<orientH, touchH>>
host     == <<phase, stop, sess, chan, rx, session, latches, handlers>>
device   == <<old, owner, conn, want, code, echo>>
net      == <<link, wire, cfgs>>
causes   == <<said, turned>>
hist     == <<turns, sends, restarted, asked, refused, byes, causes>>
vars     == <<host, device, net, hist>>

----------------------------------------------------------------------------
(* orientation.h *)

OrientationIsPortrait(c) == c \in {1, 3}

\* orient_dims: force the dimensions into the shape the code implies; a
\* square is left alone.
OrientDims(c, s) ==
  IF s = "square" THEN s
  ELSE IF OrientationIsPortrait(c) THEN "portrait" ELSE "landscape"

\* The test of the orientation handler: `h > w' of the session's source
\* against the shape the code implies.
WantsOtherShape(c) ==
  ~Mirror /\ OrientationIsPortrait(c) # (shape = "portrait")

----------------------------------------------------------------------------
Init ==
  /\ phase = "accept" /\ stop = FALSE /\ sess = 0 /\ chan = FALSE
  /\ buf = <<>> /\ cut = 0
  /\ liveOri = 0 /\ hello = 0 /\ shape = "landscape" /\ restart = FALSE
  /\ rate = HelloRate /\ torn = {} /\ pending = 0 /\ keyReq = FALSE /\ saidBye = FALSE
  /\ orientH = 0 /\ touchH = 0
  /\ old \in SUBSET Legacy
  /\ owner = <<>>
  /\ conn = [d \in Device |-> 0]
  /\ want = [d \in Device |-> TRUE]
  /\ code \in [Device -> Code]
  /\ echo = [d \in Device |-> NoCode]
  /\ link = [c \in Conn |-> "up"]
  /\ wire = [c \in Conn |-> <<>>]
  /\ cfgs = [c \in Conn |-> 0]
  /\ turns = 0 /\ sends = 0 /\ restarted = 0
  /\ asked = [c \in Conn |-> 0]
  /\ refused = FALSE
  /\ byes = {}
  /\ said = [c \in Conn |-> 0]
  /\ turned = {}

----------------------------------------------------------------------------
(* The devices. *)

\* The host's end of connection c is gone.
HostClosed(c) ==
  \/ phase = "exited"
  \/ c < sess
  \/ c = sess /\ ~chan

\* A write by device d reaches the wire while its socket is open and `out'
\* is set, which it is once the TLS handshake, hence the accept, is done.
Write(d, type, v) ==
  LET c == conn[d] IN
  IF c # 0 /\ c = sess /\ chan
    THEN wire' = [wire EXCEPT ![c] = Append(@, [type |-> type, conn |-> c, val |-> v])]
    ELSE UNCHANGED wire

\* The orientation field of a HELLO, which only version 4 and later has.
HelloCode(d) == IF d \in old THEN 0 ELSE code[d]

\* run(): connect, and write HELLO with the orientation read before dialling.
Dial(d) ==
  /\ want[d] /\ conn[d] = 0 /\ phase # "exited"
  /\ Len(owner) < MaxConn
  /\ LET c == Len(owner) + 1 IN
     /\ owner' = Append(owner, d)
     /\ conn' = [conn EXCEPT ![d] = c]
     /\ wire' = [wire EXCEPT ![c] =
                   <<[type |-> "hello", conn |-> c, val |-> HelloCode(d)]>>]
     /\ said' = [said EXCEPT ![c] = code[d]]
  /\ UNCHANGED <<host, old, want, code, echo, link, cfgs, turns, sends, restarted, asked,
                 refused, byes, turned>>

\* The pairing probe connects for the certificate and leaves without HELLO.
Probe(d) ==
  /\ conn[d] = 0 /\ phase # "exited"
  /\ Len(owner) < MaxConn
  /\ owner' = Append(owner, d)
  /\ link' = [link EXCEPT ![Len(owner) + 1] = "fin"]
  /\ said' = [said EXCEPT ![Len(owner) + 1] = code[d]]
  /\ UNCHANGED <<host, old, conn, want, code, echo, wire, cfgs, turns, sends, restarted,
                 asked, refused, byes, turned>>

\* The connections that a rotation of device d falls on: the one it is on or,
\* between two, all that it has dialled.
RotatedOn(d) ==
  IF conn[d] # 0 THEN {conn[d]} ELSE {c \in 1..Len(owner) : owner[c] = d}

\* The orientation listener settled on another code.
Rotate(d) ==
  /\ turns < MaxTurns
  /\ turns' = turns + 1
  /\ \E k \in Code \ {code[d]} :
       /\ code' = [code EXCEPT ![d] = k]
       /\ Write(d, "orient", k)
  /\ turned' = turned \cup RotatedOn(d)
  /\ UNCHANGED <<host, old, owner, conn, want, echo, link, cfgs, sends, restarted, asked,
                 refused, byes, said>>

\* Bug: the CONFIG is only shown to the decoder.
Bug_CodeRead(d) == NoCode

\* onConfig: the network thread reads the current orientation ...
CodeRead(d) == code[d]

OnConfig(d) ==
  /\ conn[d] # 0 /\ cfgs[conn[d]] > 0 /\ echo[d] = NoCode
  /\ cfgs' = [cfgs EXCEPT ![conn[d]] = @ - 1]
  /\ echo' = [echo EXCEPT ![d] = CodeRead(d)]
  /\ UNCHANGED <<host, old, owner, conn, want, code, link, wire, hist>>

\* ... and submits it, while the UI thread may have submitted a newer one.
SendEcho(d) ==
  /\ conn[d] # 0 /\ echo[d] # NoCode
  /\ Write(d, "orient", echo[d])
  /\ echo' = [echo EXCEPT ![d] = NoCode]
  /\ UNCHANGED <<host, old, owner, conn, want, code, link, cfgs, hist>>

Sending(d) ==
  /\ conn[d] # 0 /\ conn[d] = sess /\ chan
  /\ want[d]
  /\ sends < MaxSends
  /\ sends' = sends + 1

SendStreamParams(d) ==
  /\ Sending(d)
  /\ \E r \in Rate : /\ Write(d, "params", r)
                     /\ asked' = [asked EXCEPT ![conn[d]] = r]
  /\ UNCHANGED <<host, device, link, cfgs, turns, restarted, refused, byes, causes>>

SendOther(d) ==
  /\ Sending(d)
  /\ \E t \in Other : Write(d, t, 0)
  /\ UNCHANGED <<host, device, link, cfgs, turns, restarted, asked, refused, byes, causes>>

\* Disconnect: BYE leaves the device, then the Activity finishes.
SendBye(d) ==
  /\ Sending(d)
  /\ Write(d, "bye", 0)
  /\ byes' = byes \cup {conn[d]}
  /\ want' = [want EXCEPT ![d] = FALSE]
  /\ UNCHANGED <<host, old, owner, conn, code, echo, link, cfgs, turns, restarted, asked,
                 refused, causes>>

\* onPause/onResume: the app leaves and comes back without a BYE.
PauseOrResume(d) ==
  /\ sends < MaxSends
  /\ sends' = sends + 1
  /\ want' = [want EXCEPT ![d] = ~@]
  /\ UNCHANGED <<host, old, owner, conn, code, echo, net, turns, restarted, asked, refused,
                 byes, causes>>

\* The device closes its socket: it stopped, or the host closed first. With
\* video still unread, its kernel resets the connection instead.
Leave(d) ==
  LET c == conn[d] IN
  /\ c # 0
  /\ ~want[d] \/ HostClosed(c)
  /\ conn' = [conn EXCEPT ![d] = 0]
  /\ echo' = [echo EXCEPT ![d] = NoCode]
  /\ \E l \in {"fin", "rst"} : link' = [link EXCEPT ![c] = l]
  /\ UNCHANGED <<host, old, owner, want, code, wire, cfgs, hist>>

\* The link drops: whatever was in flight after some message is gone.
Drop(d) ==
  LET c == conn[d] IN
  /\ c # 0
  /\ sends < MaxSends
  /\ sends' = sends + 1
  /\ conn' = [conn EXCEPT ![d] = 0]
  /\ echo' = [echo EXCEPT ![d] = NoCode]
  /\ \E l \in {"rst", "lost"} : link' = [link EXCEPT ![c] = l]
  /\ \E n \in 0..Len(wire[c]) : wire' = [wire EXCEPT ![c] = SubSeq(@, 1, n)]
  /\ UNCHANGED <<host, old, owner, want, code, cfgs, turns, restarted, asked, refused,
                 byes, causes>>

\* The kernel gives up on a silent peer.
LostTimesOut(c) ==
  /\ link[c] = "lost"
  /\ link' = [link EXCEPT ![c] = "rst"]
  /\ UNCHANGED <<host, device, wire, cfgs, hist>>

----------------------------------------------------------------------------
(* TransportServer: receiving and sending on the session's connection. *)

\* channel_->recv and parser_.feed of one chunk. Aligned, the chunk completes
\* the first n messages and may hold a part of the next. When parser_ still
\* holds a part of an OLDER connection's message, the new bytes are taken as
\* its remainder and everything after it is read out of step. The first
\* message is lost in this, and n - 1 others may be; a message nobody wrote
\* may be read, as early as the first bytes; and the parser finds a boundary
\* again, before the k-th message, or never does.
Receive ==
  LET w == wire[sess] IN
  \/ /\ cut \in {0, sess}
     /\ \E n \in 0..Len(w), part \in BOOLEAN :
          /\ part => Split /\ n < Len(w)
          /\ n > 0 \/ (part /\ cut = 0)
          /\ buf' = buf \o SubSeq(w, 1, n)
          /\ wire' = [wire EXCEPT ![sess] = SubSeq(w, n + 1, Len(w))]
          /\ cut' = IF part THEN sess ELSE 0
  \/ /\ cut \notin {0, sess} /\ w # <<>>
     /\ \E n \in 0..Len(w) :
          /\ wire' = [wire EXCEPT ![sess] = SubSeq(w, n + 1, Len(w))]
          /\ \/ n > 0 /\ UNCHANGED <<buf, cut>>
             \/ /\ \E m \in Misread : buf' = Append(buf, m)
                /\ cut' = cut \/ (n > 0 /\ cut' = 0)
             \/ \E k \in 2..(n + 1) : buf' = buf \o SubSeq(w, k, n) /\ cut' = 0

\* recv returns 0 or an error once the data is drained and the peer is gone.
AtEof == wire[sess] = <<>> /\ link[sess] \in {"fin", "rst"}

\* send_all: on a reset connection the write fails and closes the channel;
\* a write to a peer that closed may provoke the reset.
Send ==
  \/ /\ link[sess] = "rst"
     /\ chan' = FALSE
     /\ UNCHANGED link
  \/ /\ link[sess] # "rst"
     /\ \E l \in {link[sess]} \cup (IF link[sess] = "fin" THEN {"rst"} ELSE {}) :
          link' = [link EXCEPT ![sess] = l]
     /\ UNCHANGED chan

SendNothing == UNCHANGED <<chan, link>>

----------------------------------------------------------------------------
(* One session: accept, HELLO, approval, source and encoder. *)

\* run_until returns false: the connection is closed and the reconnect loop
\* goes back to accept_client, which closes what is left.
EndWithoutStream == phase' = "accept" /\ chan' = FALSE

\* Bug: accept without waiting for the listener.
Bug_ClientWaiting == sess <= Len(owner)

\* A dialled connection waits in the listener's queue.
ClientWaiting == sess < Len(owner)

\* accept_client; the TLS handshake fails with a client that has gone.
AcceptClient ==
  /\ phase = "accept" /\ ~stop
  /\ ClientWaiting
  /\ sess' = sess + 1
  /\ \/ phase' = "hello" /\ chan' = TRUE
     \/ link[sess + 1] # "up" /\ EndWithoutStream
  /\ UNCHANGED <<stop, rx, session, latches, handlers, device, net, hist>>

\* read_hello with no complete message in parser_.
HelloReceive ==
  /\ phase = "hello" /\ buf = <<>>
  /\ Receive
  /\ UNCHANGED <<phase, stop, sess, chan, session, latches, handlers, device, link,
                 cfgs, hist>>

\* The peer closed, or 10 s pass without a byte: every client pings at
\* least every 2 s, so only a lost one is silent that long.
NothingMoreComes == wire[sess] = <<>> /\ link[sess] # "up"

HelloEnds ==
  /\ phase = "hello" /\ buf = <<>>
  /\ NothingMoreComes
  /\ EndWithoutStream
  /\ UNCHANGED <<stop, sess, rx, session, latches, handlers, device, net, hist>>

\* Bug: take whatever comes first for the HELLO.
Bug_IsHello(m) == TRUE

IsHello(m) == m.type = "hello"

\* `if (m.type != MsgType::Hello) continue;'
HelloDiscard ==
  /\ phase = "hello" /\ buf # <<>>
  /\ ~IsHello(Head(buf))
  /\ buf' = Tail(buf)
  /\ UNCHANGED <<phase, stop, sess, chan, cut, session, latches, handlers, device,
                 net, hist>>

\* decode_hello and select_session_params: every body of 16 bytes is accepted,
\* and of a misread one nothing is known.
HelloAccept ==
  /\ phase = "hello" /\ buf # <<>>
  /\ IsHello(Head(buf))
  /\ hello' = Head(buf).val
  /\ buf' = Tail(buf)
  /\ \/ Head(buf).conn # 0 /\ rate' = HelloRate /\ UNCHANGED torn
     \/ Head(buf).conn = 0 /\ rate' \in {g.rate : g \in Garbled} /\ torn' = torn \cup {sess}
  /\ phase' = "approve"
  /\ UNCHANGED <<stop, sess, chan, cut, liveOri, shape, restart, latches, handlers,
                 device, net, hist>>

\* cfg_.gate: allowed, or denied, or no answer within 60 s. A cable or
\* localhost peer is always allowed.
Approve ==
  /\ phase = "approve"
  /\ \/ phase' = "build" /\ UNCHANGED chan
     \/ EndWithoutStream
  /\ UNCHANGED <<stop, sess, rx, session, latches, handlers, device, net, hist>>

\* Bug: every session is built for its HELLO's orientation.
Bug_SessionCode(v4) == hello

\* The orientation the source is built for: a client of protocol 4 or later
\* seeds the slot with its HELLO's; an older one gets what the slot holds.
SessionCode(v4) == IF v4 THEN hello ELSE liveOri

\* The protocol and the shape that HELLO says.
Hellos ==
  IF sess \in torn THEN {[v4 |-> g.v4, dims |-> g.dims] : g \in Garbled}
                   ELSE {[v4 |-> owner[sess] \notin old, dims |-> Dims[owner[sess]]]}

\* The source or the encoder does not start, or CONFIG cannot be written.
BuildFails ==
  /\ phase = "build"
  /\ \E h \in Hellos : liveOri' = SessionCode(h.v4)
  /\ EndWithoutStream
  /\ UNCHANGED <<stop, sess, rx, hello, shape, restart, rate, torn, latches, handlers,
                 device, net, hist>>

\* Bug: the touch handlers of the session before are not cleared.
Bug_TouchHandlers == {touchH, sess}

\* The touch handlers are cleared, and set when the output was found and
\* uinput opened.
TouchHandlers == {0, sess}

\* The source starts, CONFIG is sent, the handlers are set anew.
Build ==
  /\ phase = "build" /\ link[sess] # "rst"
  /\ \E h \in Hellos :
       /\ liveOri' = SessionCode(h.v4)
       /\ shape' = IF Mirror THEN "landscape" ELSE OrientDims(SessionCode(h.v4), h.dims)
  /\ cfgs' = [cfgs EXCEPT ![sess] = @ + 1]
  /\ Send
  /\ restart' = FALSE
  /\ orientH' = sess
  /\ touchH' \in TouchHandlers
  /\ refused' = FALSE
  /\ phase' = "loop"
  /\ UNCHANGED <<stop, sess, rx, hello, rate, torn, latches, device, wire, turns, sends,
                 restarted, asked, byes, causes>>

----------------------------------------------------------------------------
(* The stream loop. *)

\* The loop's condition, then the overlay toggle and the audio chunks.
LoopTop ==
  /\ phase = "loop"
  /\ IF stop \/ restart \/ ~chan
       THEN phase' = "flush" /\ SendNothing
       ELSE phase' = "frame" /\ (Send \/ SendNothing)
  /\ UNCHANGED <<stop, sess, rx, session, latches, handlers, device, wire, cfgs,
                 hist>>

\* No valid frame, or the capture is skipped because the link is backed up:
\* neither latch is consumed.
SkipFrame ==
  /\ phase = "frame"
  /\ phase' = "poll"
  /\ UNCHANGED <<stop, sess, chan, rx, session, latches, handlers, device, net, hist>>

\* take_stream_params and the encoder's reopen, take_keyframe_request,
\* encode, and the packets, if there are any, to the client.
EncodeFrame ==
  /\ phase = "frame"
  /\ LET reopen == pending # 0 /\ pending # rate IN
     \E opened \in (IF reopen THEN BOOLEAN ELSE {FALSE}) :
       /\ rate' = IF opened THEN pending ELSE rate
       /\ refused' = IF pending = 0 THEN refused ELSE reopen /\ ~opened
       /\ cfgs' = IF opened /\ link[sess] # "rst" THEN [cfgs EXCEPT ![sess] = @ + 1]
                                                  ELSE cfgs
       /\ IF opened /\ chan THEN Send ELSE (Send \/ SendNothing)
  /\ pending' = 0
  /\ keyReq' = FALSE
  /\ phase' = "poll"
  /\ UNCHANGED <<stop, sess, rx, liveOri, hello, shape, restart, torn, saidBye, handlers,
                 device, wire, turns, sends, restarted, asked, byes, causes>>

----------------------------------------------------------------------------
(* poll_control: one chunk, then every complete message of parser_. *)

NotReadable == ~chan \/ (wire[sess] = <<>> /\ link[sess] \in {"up", "lost"})

PollIdle ==
  /\ phase = "poll"
  /\ NotReadable
  /\ phase' = "loop"
  /\ UNCHANGED <<stop, sess, chan, rx, session, latches, handlers, device, net, hist>>

PollReceive ==
  /\ phase = "poll" /\ chan
  /\ Receive
  /\ phase' = "dispatch"
  /\ UNCHANGED <<stop, sess, chan, session, latches, handlers, device, link, cfgs,
                 hist>>

\* The chunk holds the client's periodic PING and nothing else; the PONG is
\* one more write.
PollPing ==
  /\ phase = "poll" /\ chan
  /\ wire[sess] = <<>> /\ link[sess] = "up"
  /\ phase' = "dispatch"
  /\ UNCHANGED <<stop, sess, chan, rx, session, latches, handlers, device, net, hist>>

PollEof ==
  /\ phase = "poll" /\ chan
  /\ AtEof
  /\ chan' = FALSE
  /\ phase' = "loop"
  /\ UNCHANGED <<stop, sess, rx, session, latches, handlers, device, net, hist>>

Dispatched ==
  /\ phase = "dispatch" /\ buf = <<>>
  /\ phase' = "loop"
  /\ UNCHANGED <<stop, sess, chan, rx, session, latches, handlers, device, net, hist>>

\* parser_.next returns a message of this type.
Next1(type) ==
  /\ phase = "dispatch" /\ buf # <<>>
  /\ Head(buf).type = type
  /\ buf' = Tail(buf)

\* said_bye_ is set, the channel closed, and poll_control returns at once:
\* what follows the BYE stays in parser_.
HandleBye ==
  /\ Next1("bye")
  /\ saidBye' = TRUE
  /\ chan' = FALSE
  /\ phase' = "loop"
  /\ UNCHANGED <<stop, sess, cut, session, pending, keyReq, handlers, device, net,
                 hist>>

\* Bug: the first request of a burst is kept.
Bug_Latched(r) == IF pending # 0 THEN pending ELSE r

\* Coalesced by overwrite.
Latched(r) == r

HandleParams ==
  /\ Next1("params")
  /\ pending' = Latched(Head(buf).val)
  /\ UNCHANGED <<phase, stop, sess, chan, cut, session, keyReq, saidBye, handlers,
                 device, net, hist>>

HandleKeyframeRequest ==
  /\ Next1("key")
  /\ keyReq' = TRUE
  /\ UNCHANGED <<phase, stop, sess, chan, cut, session, pending, saidBye, handlers,
                 device, net, hist>>

\* The orientation handler: record the code, and restart when it implies the
\* other shape.
HandleOrientation ==
  /\ Next1("orient")
  /\ liveOri' = Head(buf).val
  /\ restart' = (restart \/ WantsOtherShape(Head(buf).val))
  /\ UNCHANGED <<phase, stop, sess, chan, cut, hello, shape, rate, torn, latches, handlers,
                 device, net, hist>>

\* Touch goes to the injector if a handler is set; a HELLO is no control
\* message. Neither changes the state kept here.
HandleOther ==
  /\ Next1("touch") \/ Next1("hello")
  /\ UNCHANGED <<phase, stop, sess, chan, cut, session, latches, handlers, device,
                 net, hist>>

\* Bug: a BYE is forgotten with its session.
Bug_AfterSession == IF stop THEN "exited" ELSE "accept"

\* BYE or stop ends the reconnect loop.
AfterSession == IF stop \/ saidBye THEN "exited" ELSE "accept"

\* After the loop: the encoder's last packets, the channel closed, and the
\* injector and the other locals of run_until destroyed with the handlers
\* still set.
Flush ==
  /\ phase = "flush"
  /\ chan' = FALSE
  /\ restarted' = IF restart THEN sess ELSE restarted
  /\ phase' = AfterSession
  /\ UNCHANGED <<stop, sess, rx, session, latches, handlers, device, net, turns,
                 sends, asked, refused, byes, causes>>

----------------------------------------------------------------------------
(* Stop: the GUI closes our stdin. *)

StdinEof ==
  /\ MayStop
  /\ ~stop /\ phase # "exited"
  /\ stop' = TRUE
  /\ UNCHANGED <<phase, sess, chan, rx, session, latches, handlers, device, net,
                 hist>>

\* The reconnect loop sees g_stop, or 1.5 s have passed and the stdin thread
\* calls _Exit wherever the main thread is.
Exit ==
  /\ stop /\ phase # "exited"
  /\ phase' = "exited"
  /\ chan' = FALSE
  /\ UNCHANGED <<stop, sess, rx, session, latches, handlers, device, net, hist>>

----------------------------------------------------------------------------
Session == \/ AcceptClient \/ HelloReceive \/ HelloEnds \/ HelloDiscard \/ HelloAccept
           \/ Approve \/ BuildFails \/ Build

Streamer == \/ LoopTop \/ SkipFrame \/ EncodeFrame
            \/ PollIdle \/ PollReceive \/ PollPing \/ PollEof
            \/ Dispatched \/ HandleBye \/ HandleParams \/ HandleKeyframeRequest
            \/ HandleOrientation \/ HandleOther
            \/ Flush

Devices ==
  \/ \E d \in Device : \/ Dial(d) \/ Probe(d) \/ Rotate(d) \/ OnConfig(d)
                       \/ SendEcho(d) \/ SendStreamParams(d) \/ SendOther(d) \/ SendBye(d)
                       \/ PauseOrResume(d) \/ Leave(d) \/ Drop(d)
  \/ \E c \in Conn : LostTimesOut(c)

Next == Session \/ Streamer \/ Devices \/ StdinEof \/ Exit

Spec == Init /\ [][Next]_vars

\* The main thread runs and the stdin thread's 1.5 s pass; a client pings
\* while it is connected, answers a CONFIG it reads, and closes a socket it
\* is done with; the kernel gives up on a lost peer.
Fairness ==
  /\ WF_vars(Session \/ Streamer)
  /\ WF_vars(Exit)
  /\ SF_vars(PollPing)
  /\ \A d \in Device : WF_vars(OnConfig(d)) /\ WF_vars(SendEcho(d)) /\ WF_vars(Leave(d))
  /\ \A c \in Conn : WF_vars(LostTimesOut(c))

FairSpec == Spec /\ Fairness

----------------------------------------------------------------------------
(* Properties. *)

HostTypeOK ==
  /\ phase \in Phase /\ stop \in BOOLEAN /\ chan \in BOOLEAN
  /\ sess \in 0..MaxConn
  /\ buf \in Seq(Msg) /\ cut \in 0..MaxConn
  /\ liveOri \in Nat /\ hello \in Nat /\ shape \in Shape /\ restart \in BOOLEAN
  /\ rate \in Nat /\ torn \subseteq Conn /\ pending \in Nat /\ keyReq \in BOOLEAN /\ saidBye \in BOOLEAN
  /\ orientH \in 0..MaxConn /\ touchH \in 0..MaxConn

DeviceTypeOK ==
  /\ old \subseteq Device
  /\ owner \in Seq(Device) /\ Len(owner) <= MaxConn
  /\ conn \in [Device -> 0..MaxConn]
  /\ want \in [Device -> BOOLEAN]
  /\ code \in [Device -> Code]
  /\ echo \in [Device -> Nat]

NetTypeOK ==
  /\ link \in [Conn -> Link]
  /\ wire \in [Conn -> Seq(Msg)]
  /\ cfgs \in [Conn -> Nat]

HistTypeOK ==
  /\ turns \in Nat /\ sends \in Nat /\ restarted \in 0..MaxConn
  /\ asked \in [Conn -> Nat]
  /\ refused \in BOOLEAN
  /\ byes \subseteq Conn
  /\ said \in [Conn -> Nat] /\ turned \subseteq Conn

\* The variables keep their types, and a connection is accepted after it was
\* dialled.
TypeOK ==
  HostTypeOK /\ DeviceTypeOK /\ NetTypeOK /\ HistTypeOK /\ sess <= Len(owner)

\* What poll_control is about to act on was written on the connection being
\* served: although parser_ is never reset, the messages an earlier client
\* left in it are thrown away by read_hello before the session begins, and a
\* PART of one swallows the new HELLO, so the connection is not served. Unless
\* a HELLO is misread in it: the session that follows is out of step (see
\* ServedOnOwnHello) and this is not promised of it.
OnlyOwnMessages ==
  phase \in Streaming /\ sess \notin torn => \A i \in 1..Len(buf) : buf[i].conn = sess

\* poll_control never calls into a session that is over: the handlers are
\* still set when run_until returns, its injector and its flag destroyed, but
\* the next session clears or replaces every one of them before it polls.
HandlersAreCurrent ==
  phase \in Streaming => orientH = sess /\ touchH \in {0, sess}

\* Connections c to sess are all of one device, no rotation fell on them, and
\* none was accepted on a misread HELLO, whose orientation is anything.
Steady(c) == \A e \in c..sess : owner[e] = owner[sess] /\ e \notin turned \cup torn

\* A session is torn down for orientation only when its device rotated after it
\* dialled, however drops and reconnects interleave: the reconnect never
\* rebuilds the shape that the device is going to reject. The HELLO of a client
\* older than version 4 does not say its orientation: the host then goes by the
\* one that ended a session before, so such a device is torn down twice in a
\* row only if it rotated, or another client was served, in between. (A square
\* screen has no shape that agrees with portrait, and is not promised this.)
NoRestartLoop ==
  phase \in Streaming /\ restart /\ Dims[owner[sess]] # "square" =>
    IF owner[sess] \in old THEN restarted = 0 \/ ~Steady(restarted)
                          ELSE ~Steady(sess)

\* Of a burst of StreamParams the newest wins: once nothing the client wrote
\* is left on its way, the stream runs at the rate it asked for last. A session
\* accepted on a misread HELLO may read its requests out of step, and lose them.
LatestParamsWin ==
  LET onTheWay == \/ pending # 0
                  \/ \E i \in 1..Len(buf) : buf[i].type = "params"
                  \/ \E i \in 1..Len(wire[sess]) : wire[sess][i].type = "params"
  IN  phase \in Streaming /\ sess \notin torn /\ chan /\ link[sess] = "up" =>
        asked[sess] = 0 \/ refused \/ onTheWay \/ rate = asked[sess]

\* A client that said BYE and was heard is the last one: no connection is
\* accepted afterwards.
ByeHeardIsFinal == [][saidBye => sess' = sess]_vars

\* BYE heard, the process ends; stdin closed, the process ends, wherever the
\* main thread is blocked.
ByeOrStopExits == (saidBye \/ stop) ~> phase = "exited"

\* The session a device is on is built in another shape than the device has,
\* and what the device says of it is read in step.
Mismatched(d) ==
  /\ phase \in Streaming /\ chan /\ conn[d] = sess /\ sess \notin torn
  /\ ~Mirror /\ Dims[d] # "square"
  /\ OrientationIsPortrait(code[d]) # (shape = "portrait")

\* A rotation reaches the host, even one that raced the dial, HELLO or the
\* rebuild of the source: no device is left watching the wrong shape.
RotationReachesHost == \A d \in Device : Mismatched(d) ~> ~Mismatched(d)

----------------------------------------------------------------------------
(* What documents and comments say, and the code does not do. *)

\* WIRE.md: HELLO is the client's capabilities and identity. The part of a HELLO
\* that an older connection left in parser_ is completed by the new client's
\* bytes and accepted, and the session is then served out of step.
ServedOnOwnHello == phase \in Streaming => sess \notin torn

\* WIRE.md: StreamParams applies to the RUNNING session. A latched request
\* outlives its session and is applied to the next client's.
ParamsAreOfThisSession ==
  phase \in Streaming /\ asked[sess] = 0 => rate = HelloRate

\* WIRE.md: Bye ends the reconnect loop. A BYE the host has not read when a
\* write fails, or that stays in parser_ behind the end of the connection,
\* is lost, and the next dial is served.
ByeEndsService ==
  [][phase = "build" /\ phase' = "loop" => byes \cap 1..(sess - 1) = {}]_vars
=============================================================================
