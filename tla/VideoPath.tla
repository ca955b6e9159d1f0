----------------------------- MODULE VideoPath -----------------------------
(***************************************************************************)
(* The video of one session: the capture loop of StreamDaemon::run_until,   *)
(* its pacing against the unacknowledged backlog (send_backlog.h), the      *)
(* encoder's GOP, the live change of fps and bitrate, the connection, and   *)
(* the client's decoder: VideoDecoder.kt on Android, decoder.ts on the web. *)
(*                                                                          *)
(* The connection neither loses nor reorders. A video packet carries its    *)
(* place in its GOP: 0 is the IDR, and the packet at k > 0 refers to the    *)
(* one at k-1.                                                              *)
(***************************************************************************)
EXTENDS Integers, Sequences

CONSTANTS
  Client,     \* the clients that occur: "android", "web"
  Param,      \* the fps/bitrate pairs that occur
  First,      \* the pair HELLO asked for
  Floor,      \* the floor of the backlog limit, in bytes
  DeltaSize, IdrSize,   \* bytes of a video packet
  AudioSize,  \* bytes of an audio chunk, 0 when the session has no audio
  Segment,    \* bytes one acknowledgement covers
  SendBuffer, \* bytes the kernel buffers before a send blocks
  MaxUnread,  \* bound: packets the client has not read
  MaxControl, \* bound: messages the host has not read
  MaxChanges  \* bound: live changes of the pair

ASSUME VideoAssumption ==
  /\ Client \subseteq {"android", "web"}
  /\ Param \subseteq [fps : Nat \ {0}, kbps : Nat] /\ First \in Param
  /\ Floor \in Nat /\ DeltaSize \in Nat /\ IdrSize \in Nat /\ AudioSize \in Nat
  /\ Segment \in Nat \ {0} /\ SendBuffer \in Nat
  /\ MaxUnread \in Nat /\ MaxControl \in Nat /\ MaxChanges \in Nat

VARIABLES
  param,      \* cur_fps and cur_bitrate
  limit,      \* backlog_limit
  dropping,   \* dropping_for_backlog
  gop,        \* the place in its GOP of the encoder's next packet
  keyReq,     \* keyframe_requested_
  latched,    \* <<params_>> when params_pending_, else <<>>
  pending,    \* bytes written and not acknowledged (SIOCOUTQ)
  stream,     \* the packets the client has not read
  control,    \* the client's messages the host has not read
  platform,   \* the client of this session
  place,      \* the place of the last packet decoded, or one of the three below
  quiet,      \* Android: less than 500 ms since the last request;
              \* web: dropUntilKey
  changes,    \* history: live changes so far
  waited      \* history: packets without an IDR among them since the last loss

host    == <<param, limit, dropping, gop, keyReq, latched>>
network == <<pending, stream, control>>
client  == <<platform, place, quiet>>
hist    == <<changes, waited>>
vars    == <<host, network, client, hist>>

Lost    == -1   \* the client dropped a packet and has had no IDR since
Fresh   == -2   \* a decoder that has had no packet
Smeared == -3   \* a packet came whose reference never did

Message == [type : {"key"}] \cup [type : {"params"}, param : Param]

----------------------------------------------------------------------------
(* send_backlog.h, and the codec contexts *)

\* 250 ms of the bitrate, in bytes, with a floor.
BacklogLimit(kbps) ==
  LET quarterSecond == ((kbps * 1000) \div 8) \div 4
  IN  IF quarterSecond > Floor THEN quarterSecond ELSE Floor

\* Bug: once dropping, drop for ever.
Bug_ShouldSkip(unacked, lim, already) == already \/ unacked > lim

\* Hysteresis: once dropping starts, until the backlog is half the limit.
ShouldSkip(unacked, lim, already) ==
  IF already THEN unacked > lim \div 2 ELSE unacked > lim

\* gop_size of every encoder: a scheduled keyframe every two seconds.
GopSize(fps) == fps * 2

\* The new context starts with an IDR.
Reopened == 0

\* Bug: a forgotten keyframe interval.
Bug_NextPlace(k, fps) == k + 1

NextPlace(k, fps) == (k + 1) % GopSize(fps)

VideoPacket(k)   == [kind |-> "video", place |-> k]
Config           == [kind |-> "config"]
Audio            == [kind |-> "audio"]
PacketSize(k)    == IF k = 0 THEN IdrSize ELSE DeltaSize

----------------------------------------------------------------------------
\* run_until has opened the encoder and sent CONFIG.
Init ==
  /\ param = First /\ limit = BacklogLimit(First.kbps) /\ dropping = FALSE
  /\ gop = 0 /\ keyReq = FALSE /\ latched = <<>>
  /\ pending = 0 /\ stream = <<Config>> /\ control = <<>>
  /\ platform \in Client /\ place = Fresh /\ quiet = FALSE
  /\ changes = 0 /\ waited = 0

----------------------------------------------------------------------------
(* The host's stream loop. *)

\* A send returns at once while the kernel can buffer it.
CanSend == pending < SendBuffer /\ Len(stream) < MaxUnread

\* Bug: the frame is encoded, and its packet thrown away.
Bug_AfterSkip == NextPlace(gop, param.fps)

\* The capture is dropped BEFORE the encoder sees it.
AfterSkip == gop

SkipFrame ==
  /\ ShouldSkip(pending, limit, dropping)
  /\ dropping' = TRUE
  /\ gop' = AfterSkip
  /\ UNCHANGED <<param, limit, keyReq, latched, network, client, hist>>

\* enc_.encode and send_video of its packet, of the encoder's place k. The
\* encoder behind enc_ is AutoEncoder, which leaves request_keyframe() to its
\* no-op default: the request is consumed, and the next IDR is the scheduled
\* one. An encoder may also return no packet.
EncodeAndSend(k, fps, before) ==
  \/ /\ stream' = before \o <<VideoPacket(k)>>
     /\ pending' = pending + PacketSize(k)
     /\ gop' = NextPlace(k, fps)
  \/ /\ stream' = before
     /\ gop' = k
     /\ UNCHANGED pending

\* Bug: the pacing threshold stays that of the first bitrate.
Bug_LimitFor(p) == limit

\* The live bitrate moves the pacing threshold with it.
LimitFor(p) == BacklogLimit(p.kbps)

\* A frame the link has room for: take_stream_params, the reopen with its
\* CONFIG when the pair differs, take_keyframe_request, encode, send. A failed
\* reopen leaves the encoder that is running.
EncodeFrame ==
  /\ ~ShouldSkip(pending, limit, dropping)
  /\ CanSend
  /\ dropping' = FALSE
  /\ keyReq' = FALSE
  /\ latched' = <<>>
  /\ \/ /\ latched # <<>> /\ latched[1] # param
        /\ param' = latched[1]
        /\ limit' = LimitFor(latched[1])
        /\ EncodeAndSend(Reopened, latched[1].fps, Append(stream, Config))
     \/ /\ EncodeAndSend(gop, param.fps, stream)
        /\ UNCHANGED <<param, limit>>
  /\ UNCHANGED <<control, client, hist>>

\* The chunks the capture thread queued, sent at the top of the loop whatever
\* the backlog is.
SendAudio ==
  /\ AudioSize > 0
  /\ CanSend
  /\ stream' = Append(stream, Audio)
  /\ pending' = pending + AudioSize
  /\ UNCHANGED <<host, control, client, hist>>

\* poll_control latches what the client sent.
PollControl ==
  /\ control # <<>>
  /\ control' = Tail(control)
  /\ IF Head(control).type = "key"
       THEN keyReq' = TRUE /\ UNCHANGED latched
       ELSE latched' = <<Head(control).param>> /\ UNCHANGED keyReq
  /\ UNCHANGED <<param, limit, dropping, gop, pending, stream, client, hist>>

----------------------------------------------------------------------------
(* The network and the client. *)

Android == platform = "android"

Acknowledge ==
  /\ pending > 0
  /\ pending' = IF pending > Segment THEN pending - Segment ELSE 0
  /\ UNCHANGED <<host, stream, control, client, hist>>

Received(kind) ==
  /\ stream # <<>>
  /\ Head(stream).kind = kind
  /\ stream' = Tail(stream)

\* Android's onConfig releases its decoder and creates another; the web client
\* keeps its own.
ReadConfig ==
  /\ Received("config")
  /\ IF Android THEN place' = Fresh /\ quiet' = FALSE ELSE UNCHANGED <<place, quiet>>
  /\ UNCHANGED <<host, pending, control, platform, hist>>

ReadAudio ==
  /\ Received("audio")
  /\ UNCHANGED <<host, pending, control, client, hist>>

\* The picture is whole after packet k.
Decodes(k) == k = 0 \/ k = place + 1

\* The web client discards everything up to the next keyframe once it has
\* dropped a packet, and before its first.
Skipped(k) == ~Android /\ k # 0 /\ (quiet \/ place = Fresh)

\* The decoder takes the packet.
Decode ==
  /\ Received("video")
  /\ LET k == Head(stream).place IN
     /\ ~Skipped(k)
     /\ place' = IF Decodes(k) THEN k ELSE IF place = Lost THEN Lost ELSE Smeared
     /\ quiet' = (quiet /\ (Android \/ k # 0))
     /\ waited' = IF k = 0 THEN 0 ELSE waited + 1
  /\ UNCHANGED <<host, pending, control, platform, changes>>

Discard ==
  /\ Received("video")
  /\ Skipped(Head(stream).place)
  /\ waited' = waited + 1
  /\ UNCHANGED <<host, pending, control, client, changes>>

\* No input buffer within 100 ms, a decode queue that is too long, or an
\* error: the packet is dropped, and unless it was done lately, a keyframe is
\* asked for. The web client never drops a keyframe for its queue.
DropPacket ==
  /\ Received("video")
  /\ LET k == Head(stream).place IN
     /\ ~Skipped(k)
     /\ Android \/ k # 0
  /\ Len(control) < MaxControl
  /\ place' = Lost
  /\ control' = IF quiet THEN control ELSE Append(control, [type |-> "key"])
  /\ quiet' = TRUE
  /\ waited' = 0
  /\ UNCHANGED <<host, pending, platform, changes>>

\* WebCodecs reports an error by a callback, which closes the decoder: the next
\* packet makes another, and nothing is asked of the host.
DecoderError ==
  /\ ~Android /\ place >= 0
  /\ place' = Fresh /\ quiet' = FALSE /\ waited' = 0
  /\ UNCHANGED <<host, network, platform, changes>>

\* 500 ms since the last request.
QuietEnds ==
  /\ Android /\ quiet
  /\ quiet' = FALSE
  /\ UNCHANGED <<host, network, platform, place, hist>>

\* The user changes the quality in the settings panel.
ChangeParams ==
  /\ changes < MaxChanges /\ Len(control) < MaxControl
  /\ changes' = changes + 1
  /\ \E p \in Param : control' = Append(control, [type |-> "params", param |-> p])
  /\ UNCHANGED <<host, pending, stream, client, waited>>

----------------------------------------------------------------------------
Loop == SkipFrame \/ EncodeFrame \/ SendAudio \/ PollControl

ClientStep == \/ ReadConfig \/ ReadAudio \/ Decode \/ Discard \/ DropPacket
              \/ DecoderError \/ QuietEnds \/ ChangeParams

Next == Loop \/ Acknowledge \/ ClientStep

Spec == Init /\ [][Next]_vars

\* The screen keeps changing, so the loop keeps getting frames; the link and
\* the client make progress; a decoder does not refuse every keyframe.
Fairness ==
  /\ WF_vars(SkipFrame \/ EncodeFrame)
  /\ SF_vars(EncodeFrame /\ Len(stream') > Len(stream))
  /\ WF_vars(Acknowledge)
  /\ WF_vars(ReadConfig \/ ReadAudio \/ Decode \/ Discard)
  /\ SF_vars(Decode /\ Head(stream).place = 0)

FairSpec == Spec /\ Fairness

----------------------------------------------------------------------------
(* Properties. *)

Packet == [kind : {"video"}, place : Nat] \cup [kind : {"config", "audio"}]

\* The variables keep their types, and the encoder's place is one of its GOP.
TypeOK ==
  /\ param \in Param /\ limit \in Nat /\ dropping \in BOOLEAN
  /\ gop \in 0..(GopSize(param.fps) - 1)
  /\ keyReq \in BOOLEAN
  /\ latched = <<>> \/ \E p \in Param : latched = <<p>>
  /\ pending \in Nat /\ stream \in Seq(Packet) /\ control \in Seq(Message)
  /\ platform \in Client
  /\ place \in {Lost, Fresh, Smeared} \cup Nat
  /\ quiet \in BOOLEAN
  /\ changes \in 0..MaxChanges /\ waited \in Nat

\* The picture degrades in frame rate only, never into corruption: whatever
\* the pacing skips, the encoder refuses or a live change restarts, a decoder
\* that dropped nothing gets every packet after the one it refers to, and a
\* decoder made for a new CONFIG gets an IDR first.
PictureNeverSmeared == place # Smeared

\* A client that dropped a packet is given an IDR within one GOP, across live
\* changes of the frame rate as well.
RecoversWithinGop == \E p \in Param : waited < GopSize(p.fps)

\* Bounded latency: no video is added to a backlog that is over 250 ms of the
\* bitrate in force. (Audio is.)
BacklogBounded ==
  [][Len(stream') > Len(stream) /\ stream'[Len(stream')].kind = "video" =>
       pending <= BacklogLimit(param.kbps)]_vars

\* While the screen changes and the link drains to half the limit again and again
\* (audio, which is not paced, can keep it from that), the pacing lets frames
\* through again and a missing or broken picture is repaired.
PictureRecovers ==
  []<>(CanSend /\ pending <= limit \div 2) => (place < 0 ~> place >= 0)

----------------------------------------------------------------------------
(* What the documents say, and the code does not do. *)

\* WIRE.md: KeyframeRequest makes the host force an IDR on the NEXT encoded
\* frame.
KeyframeHonoured ==
  [][keyReq /\ ~keyReq' /\ Len(stream') > Len(stream) =>
       stream'[Len(stream')] = VideoPacket(0)]_vars
============================================================================
