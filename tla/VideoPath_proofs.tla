-------------------------- MODULE VideoPath_proofs --------------------------
(***************************************************************************)
(* Proofs about VideoPath, for every pair of frame rate and bitrate, every  *)
(* size of a packet and every bound: the types, the bounded backlog, the    *)
(* picture that is never smeared, and the IDR a loss waits for.             *)
(***************************************************************************)
EXTENDS VideoPath, TLAPS

----------------------------------------------------------------------------
(* Arithmetic of the GOP and of the backlog limit. *)

\* The place after k is k + 1, or 0 at the end of the GOP.
LEMMA NextPlaceValue ==
  ASSUME NEW fps \in Nat \ {0}, NEW k \in 0..(GopSize(fps) - 1)
  PROVE  NextPlace(k, fps) = IF k + 1 = GopSize(fps) THEN 0 ELSE k + 1
<1>1. ASSUME NEW g \in Nat \ {0}, NEW n \in 1..g
      PROVE  n % g = IF n = g THEN 0 ELSE n
  BY <1>1, Z3
<1>2. GopSize(fps) \in Nat \ {0} /\ k + 1 \in 1..GopSize(fps)
  BY DEF GopSize
<1> QED
  BY <1>1, <1>2 DEF NextPlace

\* A limit is a number of bytes.
LEMMA LimitType ==
  ASSUME VideoAssumption, NEW p \in Param
  PROVE  /\ p.fps \in Nat \ {0} /\ p.kbps \in Nat
         /\ BacklogLimit(p.kbps) \in Nat
         /\ 0 \in 0..(GopSize(p.fps) - 1)
<1>1. p.fps \in Nat \ {0} /\ p.kbps \in Nat
  BY DEF VideoAssumption
<1>2. ((p.kbps * 1000) \div 8) \div 4 \in Nat
  BY <1>1
<1>3. BacklogLimit(p.kbps) \in Nat
  BY <1>2 DEF BacklogLimit, VideoAssumption
<1> QED
  BY <1>1, <1>3 DEF GopSize

\* The sequences of packets that the actions build.
LEMMA StreamType ==
  ASSUME NEW s \in Seq(Packet)
  PROVE  /\ Append(s, Config) \in Seq(Packet)
         /\ Append(s, Audio) \in Seq(Packet)
         /\ \A k \in Nat : s \o <<VideoPacket(k)>> \in Seq(Packet)
         /\ s # <<>> => Tail(s) \in Seq(Packet) /\ Head(s) \in Packet
<1>1. Config \in Packet /\ Audio \in Packet /\ \A k \in Nat : VideoPacket(k) \in Packet
  BY DEF Config, Audio, VideoPacket, Packet
<1> QED
  BY <1>1

----------------------------------------------------------------------------
(* Type correctness. *)

\* encode and send_video leave the types alone.
LEMMA EncodeAndSendType ==
  ASSUME VideoAssumption, TypeOK, NEW p \in Param, NEW k \in 0..(GopSize(p.fps) - 1),
         NEW s \in Seq(Packet), EncodeAndSend(k, p.fps, s)
  PROVE  gop' \in 0..(GopSize(p.fps) - 1) /\ stream' \in Seq(Packet) /\ pending' \in Nat
<1>1. p.fps \in Nat \ {0} /\ k \in Nat /\ PacketSize(k) \in Nat
  BY LimitType DEF VideoAssumption, PacketSize
<1>2. NextPlace(k, p.fps) \in 0..(GopSize(p.fps) - 1)
  <2>1. NextPlace(k, p.fps) = IF k + 1 = GopSize(p.fps) THEN 0 ELSE k + 1
    BY <1>1, NextPlaceValue
  <2>2. GopSize(p.fps) \in Nat \ {0}
    BY <1>1 DEF GopSize
  <2> QED
    BY <1>1, <2>1, <2>2
<1>3. s \o <<VideoPacket(k)>> \in Seq(Packet)
  BY <1>1, StreamType
<1>4. pending \in Nat
  BY DEF TypeOK
<1>5. CASE /\ stream' = s \o <<VideoPacket(k)>> /\ pending' = pending + PacketSize(k)
           /\ gop' = NextPlace(k, p.fps)
  <2>1. pending + PacketSize(k) \in Nat
    BY <1>1, <1>4
  <2> QED
    BY <1>2, <1>3, <1>5, <2>1, Zenon
<1>6. CASE stream' = s /\ gop' = k /\ pending' = pending
  BY <1>4, <1>6
<1> QED
  BY <1>5, <1>6 DEF EncodeAndSend

\* A step keeps the types.
LEMMA TypeStep ==
  ASSUME VideoAssumption, TypeOK, [Next]_vars
  PROVE  TypeOK'
<1> USE DEF vars, host, network, client, hist
<1>s. stream # <<>> => Tail(stream) \in Seq(Packet) /\ Head(stream) \in Packet
  BY StreamType DEF TypeOK
<1>c. control # <<>> => Tail(control) \in Seq(Message) /\ Head(control) \in Message
  BY DEF TypeOK
<1>0. param.fps \in Nat \ {0} /\ param.kbps \in Nat
  BY LimitType DEF TypeOK
<1>1. CASE SkipFrame
  BY <1>1 DEF SkipFrame, AfterSkip, TypeOK
<1>2. CASE EncodeFrame
  <2>1. CASE /\ latched # <<>> /\ param' = latched[1] /\ limit' = LimitFor(latched[1])
             /\ EncodeAndSend(Reopened, latched[1].fps, Append(stream, Config))
    <3>1. latched[1] \in Param
      BY <2>1 DEF TypeOK
    <3>2. Append(stream, Config) \in Seq(Packet)
      BY StreamType DEF TypeOK
    <3>3. Reopened \in 0..(GopSize(latched[1].fps) - 1) /\ BacklogLimit(latched[1].kbps) \in Nat
      BY <3>1, LimitType DEF Reopened
    <3>4. /\ gop' \in 0..(GopSize(latched[1].fps) - 1)
          /\ stream' \in Seq(Packet) /\ pending' \in Nat
      BY <2>1, <3>1, <3>2, <3>3, EncodeAndSendType
    <3> QED
      BY <1>2, <2>1, <3>1, <3>3, <3>4 DEF EncodeFrame, LimitFor, TypeOK
  <2>2. CASE EncodeAndSend(gop, param.fps, stream) /\ UNCHANGED <<param, limit>>
    <3>1. gop' \in 0..(GopSize(param.fps) - 1) /\ stream' \in Seq(Packet) /\ pending' \in Nat
      BY <2>2, EncodeAndSendType DEF TypeOK
    <3> QED
      BY <1>2, <2>2, <3>1 DEF EncodeFrame, TypeOK
  <2> QED
    BY <1>2, <2>1, <2>2 DEF EncodeFrame
<1>3. CASE SendAudio
  <2>1. stream' \in Seq(Packet) /\ pending' \in Nat
    BY <1>3, StreamType DEF SendAudio, TypeOK, VideoAssumption
  <2> QED
    BY <1>3, <2>1 DEF SendAudio, TypeOK
<1>4. CASE PollControl
  <2>1. Head(control).type # "key" => Head(control).param \in Param
    BY <1>4, <1>c DEF PollControl, Message
  <2> QED
    BY <1>4, <1>c, <2>1 DEF PollControl, TypeOK
<1>5. CASE Acknowledge
  <2>1. pending' \in Nat
    BY <1>5 DEF Acknowledge, TypeOK, VideoAssumption
  <2> QED
    BY <1>5, <2>1 DEF Acknowledge, TypeOK
<1>6. CASE ReadConfig
  BY <1>6, <1>s DEF ReadConfig, Received, TypeOK
<1>7. CASE ReadAudio
  BY <1>7, <1>s DEF ReadAudio, Received, TypeOK
<1>8. CASE Decode
  <2>1. Head(stream).place \in Nat
    BY <1>8, <1>s DEF Decode, Received, Packet
  <2>2. place' \in {Lost, Fresh, Smeared} \cup Nat
    BY <1>8, <2>1 DEF Decode, Decodes
  <2>3. quiet' \in BOOLEAN
    BY <1>8 DEF Decode, TypeOK, Android
  <2>4. waited' \in Nat
    BY <1>8 DEF Decode, TypeOK
  <2> QED
    BY <1>8, <1>s, <2>2, <2>3, <2>4 DEF Decode, Received, TypeOK
<1>9. CASE Discard
  BY <1>9, <1>s DEF Discard, Received, TypeOK
<1>10. CASE DropPacket
  <2>1. control' \in Seq(Message)
    BY <1>10 DEF DropPacket, TypeOK, Message
  <2> QED
    BY <1>10, <1>s, <2>1 DEF DropPacket, Received, TypeOK
<1>11. CASE DecoderError
  BY <1>11 DEF DecoderError, TypeOK
<1>12. CASE QuietEnds
  BY <1>12 DEF QuietEnds, TypeOK
<1>13. CASE ChangeParams
  <2>1. PICK p \in Param : control' = Append(control, [type |-> "params", param |-> p])
    BY <1>13 DEF ChangeParams
  <2>2. control' \in Seq(Message)
    BY <2>1 DEF TypeOK, Message
  <2>3. changes' \in 0..MaxChanges
    BY <1>13 DEF ChangeParams, TypeOK, VideoAssumption
  <2> QED
    BY <1>13, <2>2, <2>3 DEF ChangeParams, TypeOK
<1>14. CASE UNCHANGED vars
  BY <1>14 DEF TypeOK
<1> QED
  BY <1>1, <1>2, <1>3, <1>4, <1>5, <1>6, <1>7, <1>8, <1>9, <1>10, <1>11, <1>12, <1>13, <1>14
     DEF Next, Loop, ClientStep

\* The first states have the types.
LEMMA TypeInit ==
  ASSUME VideoAssumption, Init PROVE TypeOK
<1>1. <<Config>> \in Seq(Packet) /\ <<>> \in Seq(Message)
  BY DEF Config, Packet
<1>2. First \in Param
  BY DEF VideoAssumption
<1>3. BacklogLimit(First.kbps) \in Nat /\ 0 \in 0..(GopSize(First.fps) - 1)
  BY <1>2, LimitType
<1>4. 0 \in 0..MaxChanges
  BY DEF VideoAssumption
<1> QED
  BY <1>1, <1>2, <1>3, <1>4 DEF Init, TypeOK

\* Every variable keeps its type, and the encoder's place stays in its GOP,
\* through any live change of the frame rate.
THEOREM TypeCorrect == Spec => []TypeOK
<1> USE VideoAssumption
<1>1. Init => TypeOK
  BY TypeInit
<1>2. TypeOK /\ [Next]_vars => TypeOK'
  BY TypeStep
<1> QED
  BY <1>1, <1>2, PTL DEF Spec

----------------------------------------------------------------------------
(* The bounded backlog. *)

\* The threshold of the pacing is that of the bitrate in force.
LimitCurrent == limit = BacklogLimit(param.kbps)

PacedInv == TypeOK /\ LimitCurrent

\* Only a live change of the pair moves the threshold, and it moves both.
LEMMA PacedStep ==
  ASSUME VideoAssumption, PacedInv, [Next]_vars
  PROVE  PacedInv'
<1> USE DEF vars, host, network, client, hist, PacedInv
<1>1. TypeOK'
  BY TypeStep
<1>2. CASE EncodeFrame
  BY <1>1, <1>2 DEF EncodeFrame, LimitFor, LimitCurrent
<1>3. CASE Next /\ ~EncodeFrame
  BY <1>1, <1>3 DEF Next, Loop, ClientStep, LimitCurrent, SkipFrame, SendAudio, PollControl,
     Acknowledge, ReadConfig, ReadAudio, Decode, Discard, DropPacket, DecoderError, QuietEnds,
     ChangeParams
<1>4. CASE UNCHANGED vars
  BY <1>1, <1>4 DEF LimitCurrent
<1> QED
  BY <1>2, <1>3, <1>4

\* The step property of BacklogBounded.
PacedVideo ==
  Len(stream') > Len(stream) /\ stream'[Len(stream')].kind = "video" =>
    pending <= BacklogLimit(param.kbps)

\* Only EncodeFrame appends video, behind the guard of the pacing; dropping or
\* not, that guard is no weaker than the limit.
LEMMA PacedVideoStep ==
  ASSUME VideoAssumption, PacedInv, Next
  PROVE  PacedVideo
<1> USE DEF network, PacedInv
<1>t. stream \in Seq(Packet) /\ limit \in Nat /\ pending \in Nat
  BY DEF TypeOK
<1>1. CASE EncodeFrame
  <2>1. limit \div 2 <= limit
    BY <1>t
  <2>2. pending <= limit
    BY <1>1, <1>t, <2>1 DEF EncodeFrame, ShouldSkip
  <2> QED
    BY <2>2 DEF PacedVideo, LimitCurrent
<1>2. CASE SendAudio
  <2>1. stream' = Append(stream, Audio) /\ Audio \in Packet
    BY <1>2 DEF SendAudio, Audio, Packet
  <2>2. stream'[Len(stream')] = Audio
    BY <1>t, <2>1
  <2> QED
    BY <2>2 DEF PacedVideo, Audio
<1>3. ASSUME NEW kind, Received(kind)
      PROVE  PacedVideo
  <2>1. Len(stream') = Len(stream) - 1
    BY <1>3, <1>t DEF Received
  <2> QED
    BY <1>t, <2>1 DEF PacedVideo
<1>4. CASE ReadConfig \/ ReadAudio \/ Decode \/ Discard \/ DropPacket
  BY <1>3, <1>4 DEF ReadConfig, ReadAudio, Decode, Discard, DropPacket
<1>5. CASE UNCHANGED stream
  BY <1>5, <1>t DEF PacedVideo
<1>6. CASE SkipFrame \/ PollControl \/ Acknowledge \/ DecoderError \/ QuietEnds \/ ChangeParams
  BY <1>5, <1>6 DEF SkipFrame, PollControl, Acknowledge, DecoderError, QuietEnds, ChangeParams
<1> QED
  BY <1>1, <1>2, <1>4, <1>6 DEF Next, Loop, ClientStep

\* No video is added to a backlog over 250 ms of the bitrate in force, however
\* the live changes and the acknowledgements interleave with the frames.
THEOREM Paced == Spec => BacklogBounded
<1> USE VideoAssumption
<1>1. Init => PacedInv
  BY TypeInit DEF Init, PacedInv, LimitCurrent
<1>2. PacedInv /\ [Next]_vars => PacedInv'
  BY PacedStep
<1>3. PacedInv /\ [Next]_vars => [PacedVideo]_vars
  BY PacedVideoStep
<1> QED
  BY <1>1, <1>2, <1>3, PTL DEF Spec, BacklogBounded, PacedVideo

----------------------------------------------------------------------------
(* The chain of references. *)

\* Position i of the stream is where the packet at place k can be decoded: the
\* video before it is the packet it refers to, or none is left and the decoder
\* has that one, or discards up to an IDR.
Follows(i, k) ==
  \/ \E j \in 1..(i - 1) : /\ stream[j] = VideoPacket(k - 1)
                         /\ \A m \in (j + 1)..(i - 1) : stream[m] = Audio
  \/ /\ \A m \in 1..(i - 1) : stream[m] = Audio
     /\ place \in {Lost, k - 1} \/ (~Android /\ place = Fresh)

\* Every packet on the way follows the one it refers to.
StreamIntact ==
  \A i \in 1..Len(stream) :
    stream[i].kind = "video" /\ stream[i].place # 0 => Follows(i, stream[i].place)

\* The packet the encoder makes next would, too.
EncoderIntact == gop # 0 => Follows(Len(stream) + 1, gop)

\* A web client that discards has lost a packet.
QuietIsLost == ~Android /\ quiet => place = Lost

ChainInv == TypeOK /\ StreamIntact /\ EncoderIntact /\ QuietIsLost /\ PictureNeverSmeared

\* What was appended does not concern the positions before it.
LEMMA FollowsKept ==
  ASSUME NEW i, \A m \in 1..(i - 1) : stream'[m] = stream[m], UNCHANGED client,
         NEW k, Follows(i, k)
  PROVE  Follows(i, k)'
<1>2. CASE \E j \in 1..(i - 1) : /\ stream[j] = VideoPacket(k - 1)
                               /\ \A m \in (j + 1)..(i - 1) : stream[m] = Audio
  <2>1. PICK j \in 1..(i - 1) : /\ stream[j] = VideoPacket(k - 1)
                               /\ \A m \in (j + 1)..(i - 1) : stream[m] = Audio
    BY <1>2
  <2>2. \A m \in (j + 1)..(i - 1) : m \in 1..(i - 1)
    BY <2>1
  <2>3. stream'[j] = VideoPacket(k - 1) /\ \A m \in (j + 1)..(i - 1) : stream'[m] = Audio
    BY <2>1, <2>2
  <2> QED
    BY <2>3 DEF Follows, VideoPacket, Audio
<1>3. CASE /\ \A m \in 1..(i - 1) : stream[m] = Audio
           /\ place \in {Lost, k - 1} \/ (~Android /\ place = Fresh)
  BY <1>3 DEF Follows, Audio, Android, client, Lost, Fresh
<1> QED
  BY <1>2, <1>3 DEF Follows

\* What was appended keeps the packets that were there.
LEMMA AppendIntact ==
  ASSUME ChainInv, NEW i \in 1..Len(stream), \A m \in 1..i : stream'[m] = stream[m],
         UNCHANGED client, stream[i].kind = "video", stream[i].place # 0
  PROVE  Follows(i, stream[i].place)'
<1>1. i \in Nat /\ (\A m \in 1..(i - 1) : stream'[m] = stream[m]) /\ stream'[i] = stream[i]
  BY SMTT(30) DEF ChainInv, TypeOK
<1>2. PICK k : k = stream[i].place
  OBVIOUS
<1>3. Follows(i, k)
  BY <1>2 DEF ChainInv, StreamIntact
<1>4. Follows(i, k)'
  BY <1>1, <1>3, FollowsKept
<1> QED
  BY <1>1, <1>2, <1>4

\* Audio may come between a packet and the one that follows it.
LEMMA FollowsAudio ==
  ASSUME stream \in Seq(Packet), stream' = Append(stream, Audio), UNCHANGED client,
         NEW n, n = Len(stream), NEW k, Follows(n + 1, k)
  PROVE  Follows(n + 2, k)'
<1>1. n \in Nat /\ stream'[n + 1] = Audio /\ \A m \in 1..n : stream'[m] = stream[m]
  OBVIOUS
<1>2. (n + 1) - 1 = n /\ (n + 2) - 1 = n + 1
  BY <1>1
<1>3. ASSUME NEW j \in 1..n, stream[j] = VideoPacket(k - 1),
             \A m \in (j + 1)..n : stream[m] = Audio
      PROVE  Follows(n + 2, k)'
  <2>1. j \in 1..(n + 1) /\ stream'[j] = VideoPacket(k - 1)
    BY <1>1, <1>3
  <2>2. \A m \in (j + 1)..(n + 1) : stream'[m] = Audio
    BY <1>1, <1>3
  <2> QED
    BY <1>2, <2>1, <2>2 DEF Follows, VideoPacket, Audio
<1>4. CASE /\ \A m \in 1..n : stream[m] = Audio
           /\ place \in {Lost, k - 1} \/ (~Android /\ place = Fresh)
  <2>1. \A m \in 1..(n + 1) : stream'[m] = Audio
    BY <1>1, <1>4
  <2> QED
    BY <1>2, <1>4, <2>1 DEF Follows, Audio, Android, client, Lost, Fresh
<1> QED
  BY <1>2, <1>3, <1>4 DEF Follows

\* A packet is followed by the next one of its GOP.
LEMMA FollowsVideo ==
  ASSUME NEW s \in Seq(Packet), NEW k \in Nat, stream' = s \o <<VideoPacket(k)>>
  PROVE  Follows(Len(s) + 2, k + 1)'
<1>1. Len(s) + 1 \in 1..((Len(s) + 2) - 1) /\ stream'[Len(s) + 1] = VideoPacket((k + 1) - 1)
  BY DEF VideoPacket
<1>2. ((Len(s) + 1) + 1)..((Len(s) + 2) - 1) = {}
  OBVIOUS
<1> QED
  BY <1>1, <1>2 DEF Follows, VideoPacket

\* What the client has read leaves what follows it in reach of the decoder.
LEMMA FollowsTail ==
  ASSUME stream \in Seq(Packet), stream # <<>>, stream' = Tail(stream), UNCHANGED platform,
         Head(stream) = Audio => UNCHANGED place,
         Head(stream).kind = "video" =>
           place' \in {Lost, Head(stream).place} \/ (~Android /\ place' = Fresh),
         NEW i \in 2..(Len(stream) + 1), NEW k \in Nat, Follows(i, k)
  PROVE  Follows(i - 1, k)'
<1>1. \A m \in 1..(Len(stream) - 1) : stream'[m] = stream[m + 1]
  OBVIOUS
<1>2. stream[1] = Head(stream) /\ Len(stream) \in Nat /\ 1 \in 1..(i - 1)
  OBVIOUS
<1>3. ASSUME NEW j \in 1..(i - 1), stream[j] = VideoPacket(k - 1),
             \A m \in (j + 1)..(i - 1) : stream[m] = Audio
      PROVE  Follows(i - 1, k)'
  <2>1. \A m \in j..((i - 1) - 1) : stream'[m] = Audio
    BY <1>1, <1>3
  <2>2. CASE j = 1
    <3>1. Head(stream) = VideoPacket(k - 1)
      BY <1>2, <1>3, <2>2
    <3>2. place' \in {Lost, k - 1} \/ (~Android' /\ place' = Fresh)
      BY <3>1 DEF VideoPacket, Android
    <3> QED
      BY <2>1, <2>2, <3>2 DEF Follows, Lost, Fresh, Audio
  <2>3. CASE j # 1
    <3>1. j - 1 \in 1..((i - 1) - 1) /\ stream'[j - 1] = VideoPacket(k - 1)
      BY <1>1, <1>3, <2>3
    <3>2. \A m \in ((j - 1) + 1)..((i - 1) - 1) : stream'[m] = Audio
      BY <2>1
    <3> QED
      BY <3>1, <3>2 DEF Follows, VideoPacket, Audio
  <2> QED
    BY <2>2, <2>3
<1>4. CASE /\ \A m \in 1..(i - 1) : stream[m] = Audio
           /\ place \in {Lost, k - 1} \/ (~Android /\ place = Fresh)
  <2>1. UNCHANGED place
    BY <1>2, <1>4
  <2>2. \A m \in 1..((i - 1) - 1) : stream'[m] = Audio
    BY <1>1, <1>4
  <2> QED
    BY <1>4, <2>1, <2>2 DEF Follows, Audio, Android, Lost, Fresh
<1> QED
  BY <1>3, <1>4 DEF Follows

\* Reading a packet keeps the chain.
LEMMA ReadChain ==
  ASSUME ChainInv, TypeOK', NEW kind, Received(kind), UNCHANGED <<platform, gop>>,
         Head(stream) = Audio => UNCHANGED place,
         Head(stream).kind = "video" =>
           place' \in {Lost, Head(stream).place} \/ (~Android /\ place' = Fresh)
  PROVE  StreamIntact' /\ EncoderIntact'
<1>1. stream \in Seq(Packet) /\ stream # <<>> /\ stream' = Tail(stream)
  BY DEF ChainInv, TypeOK, Received
<1>2. Len(stream') = Len(stream) - 1 /\ Len(stream) \in Nat \ {0}
      /\ \A i \in 1..Len(stream') : stream'[i] = stream[i + 1]
  BY <1>1
<1>3. ASSUME NEW i \in 1..Len(stream'), stream'[i].kind = "video", stream'[i].place # 0
      PROVE  Follows(i, stream[i].place)'
  <2>1. PICK h : h = i + 1 /\ h \in 2..Len(stream)
    BY <1>2
  <2>2. PICK k \in Nat : k = stream[h].place
    BY <1>1, <1>2, <1>3, <2>1 DEF Packet
  <2>3. Follows(h, k)
    BY <1>2, <1>3, <2>1, <2>2 DEF ChainInv, StreamIntact
  <2>4. Follows(h - 1, k)'
    BY <1>1, <2>1, <2>3, FollowsTail
  <2> QED
    BY <1>2, <2>1, <2>2, <2>4, SMTT(30)
<1>4. ASSUME gop' # 0 PROVE Follows(Len(stream) + 1, gop)'
  <2>1. PICK h : h = Len(stream) + 1 /\ h \in 2..(Len(stream) + 1)
    BY <1>2
  <2>2. PICK k \in Nat : k = gop
    BY DEF ChainInv, TypeOK
  <2>3. Follows(h, k)
    BY <1>4, <2>1, <2>2 DEF ChainInv, EncoderIntact
  <2>4. Follows(h - 1, k)'
    BY <1>1, <2>1, <2>3, FollowsTail
  <2> QED
    BY <1>2, <2>1, <2>2, <2>4
<1> QED
  BY <1>3, <1>4 DEF StreamIntact, EncoderIntact

\* A frame keeps the chain: the packet is the encoder's next one, or the first
\* of a new context behind its CONFIG.
LEMMA EncodeChain ==
  ASSUME VideoAssumption, ChainInv, TypeOK', EncodeFrame
  PROVE  StreamIntact' /\ EncoderIntact'
<1> USE DEF client, hist
<1>t. stream \in Seq(Packet) /\ gop \in Nat /\ Len(stream) \in Nat /\ UNCHANGED client
  BY DEF ChainInv, TypeOK, EncodeFrame
<1>p. Config \in Packet /\ \A k \in Nat : VideoPacket(k) \in Packet
  BY DEF Config, VideoPacket, Packet
<1>1. ASSUME NEW p \in Param, NEW k \in 0..(GopSize(p.fps) - 1),
             NEW s \in Seq(Packet), NEW g, g = NextPlace(k, p.fps),
             stream' = s \o <<VideoPacket(k)>>, gop' = g
      PROVE  EncoderIntact'
  <2>1. g = 0 \/ g = k + 1
    BY <1>1, NextPlaceValue, LimitType
  <2>2. k \in Nat /\ Len(stream') = Len(s) + 1
    BY <1>1
  <2>3. Follows(Len(s) + 2, k + 1)'
    BY <1>1, <2>2, FollowsVideo
  <2>4. Len(s) + 2 = Len(stream') + 1
    BY <1>1, <2>2
  <2> QED
    BY <1>1, <2>1, <2>3, <2>4 DEF EncoderIntact
<1>2. ASSUME NEW i \in 1..Len(stream), \A m \in 1..Len(stream) : stream'[m] = stream[m],
             stream'[i].kind = "video", stream'[i].place # 0
      PROVE  Follows(i, stream[i].place)'
  <2>1. \A m \in 1..i : m \in 1..Len(stream)
    BY <1>t
  <2> QED
    BY <1>2, <1>t, <2>1, AppendIntact
<1>3. CASE EncodeAndSend(gop, param.fps, stream) /\ UNCHANGED <<param, limit>>
  <2>1. CASE stream' = stream /\ gop' = gop
    <3>1. \A i, k : Follows(i, k) => Follows(i, k)'
      BY <1>t, <2>1 DEF Follows, Android, Lost, Fresh, Audio, VideoPacket
    <3> QED
      BY <2>1, <3>1 DEF ChainInv, StreamIntact, EncoderIntact
  <2>2. CASE stream' = stream \o <<VideoPacket(gop)>> /\ gop' = NextPlace(gop, param.fps)
    <3>1. EncoderIntact'
      <4>1. PICK p \in Param, s \in Seq(Packet), k \in Nat : p = param /\ s = stream /\ k = gop
        BY <1>t DEF ChainInv, TypeOK
      <4>2. k \in 0..(GopSize(p.fps) - 1)
        BY <4>1 DEF ChainInv, TypeOK
      <4> QED
        BY <1>1, <2>2, <4>1, <4>2
    <3>2. /\ Len(stream') = Len(stream) + 1 /\ stream'[Len(stream) + 1] = VideoPacket(gop)
          /\ \A m \in 1..Len(stream) : stream'[m] = stream[m]
      BY <1>t, <1>p, <2>2
    <3>3. ASSUME NEW i \in 1..Len(stream'), stream'[i].kind = "video", stream'[i].place # 0
          PROVE  Follows(i, stream[i].place)'
      <4>1. CASE i \in 1..Len(stream)
        BY <1>2, <3>2, <3>3, <4>1
      <4>2. CASE i = Len(stream) + 1
        <5>1. PICK k \in Nat : k = gop
          BY <1>t
        <5>2. k # 0 /\ stream'[i].place = k
          BY <3>2, <3>3, <4>2, <5>1 DEF VideoPacket
        <5>3. Follows(i, k)
          BY <4>2, <5>1, <5>2 DEF ChainInv, EncoderIntact
        <5>4. \A m \in 1..(i - 1) : stream'[m] = stream[m]
          BY <1>t, <3>2, <4>2
        <5>5. Follows(i, k)'
          BY <1>t, <5>3, <5>4, FollowsKept
        <5> QED
          BY <5>2, <5>5
      <4> QED
        BY <1>t, <3>2, <4>1, <4>2
    <3> QED
      BY <3>1, <3>3 DEF StreamIntact
  <2> QED
    BY <1>3, <2>1, <2>2 DEF EncodeAndSend
<1>4. CASE /\ latched # <<>>
           /\ EncodeAndSend(Reopened, latched[1].fps, Append(stream, Config))
  <2>1. latched[1] \in Param
    BY <1>4 DEF ChainInv, TypeOK
  <2>2. PICK p \in Param : p = latched[1]
    BY <2>1, Zenon
  <2>3. Append(stream, Config) \in Seq(Packet)
    BY <1>t, StreamType
  <2>4. PICK s \in Seq(Packet) : s = Append(stream, Config)
    BY <2>3, Zenon
  <2>5. /\ Len(s) = Len(stream) + 1 /\ s[Len(stream) + 1] = Config
        /\ \A m \in 1..Len(stream) : s[m] = stream[m]
    BY <1>t, <1>p, <2>4
  <2>6. ASSUME EncoderIntact', \A m \in 1..Len(stream) : stream'[m] = stream[m],
               \A i \in 1..Len(stream') : i \in 1..Len(stream) \/ stream'[i] = Config
                                                       \/ stream'[i] = VideoPacket(0)
        PROVE  StreamIntact' /\ EncoderIntact'
    <3>1. ASSUME NEW i \in 1..Len(stream'), stream'[i].kind = "video", stream'[i].place # 0
          PROVE  Follows(i, stream[i].place)'
      <4>1. i \in 1..Len(stream)
        BY <2>6, <3>1 DEF Config, VideoPacket
      <4> QED
        BY <1>2, <2>6, <3>1, <4>1
    <3> QED
      BY <2>6, <3>1 DEF StreamIntact
  <2>7. CASE stream' = s /\ gop' = 0
    <3>1. EncoderIntact'
      BY <2>7 DEF EncoderIntact
    <3>2. \A i \in 1..Len(stream') : i \in 1..Len(stream) \/ stream'[i] = Config
      BY <1>t, <2>5, <2>7
    <3> QED
      BY <2>5, <2>6, <2>7, <3>1, <3>2
  <2>8. CASE stream' = s \o <<VideoPacket(0)>> /\ gop' = NextPlace(0, p.fps)
    <3>1. EncoderIntact'
      BY <1>1, <2>8, LimitType
    <3>2. /\ Len(stream') = Len(s) + 1 /\ stream'[Len(s) + 1] = VideoPacket(0)
          /\ \A m \in 1..Len(s) : stream'[m] = s[m]
      <4>1. s \in Seq(Packet) /\ VideoPacket(0) \in Packet
        BY <1>p
      <4> HIDE <2>4
      <4> QED
        BY <2>8, <4>1
    <3>3. \A m \in 1..Len(stream) : stream'[m] = stream[m]
      BY <1>t, <2>5, <3>2
    <3>4. \A i \in 1..Len(stream') : i \in 1..Len(stream) \/ stream'[i] = Config
                                                      \/ stream'[i] = VideoPacket(0)
      BY <1>t, <2>5, <3>2
    <3> QED
      BY <2>6, <3>1, <3>3, <3>4
  <2> QED
    BY <1>4, <2>2, <2>4, <2>7, <2>8 DEF EncodeAndSend, Reopened
<1> QED
  BY <1>3, <1>4 DEF EncodeFrame

\* A step that moves neither the packets nor the encoder keeps the chain when
\* the decoder stays, or is a new one of the web client.
LEMMA ClientChain ==
  ASSUME ChainInv, UNCHANGED <<stream, gop, platform>>,
         UNCHANGED place \/ (~Android /\ place' = Fresh)
  PROVE  StreamIntact' /\ EncoderIntact'
<1>1. \A i, k : Follows(i, k) => Follows(i, k)'
  BY DEF Follows, Android, Lost, Fresh, Audio, VideoPacket
<1> QED
  BY <1>1 DEF ChainInv, StreamIntact, EncoderIntact

\* A step keeps the chain.
LEMMA ChainStep ==
  ASSUME VideoAssumption, ChainInv, [Next]_vars
  PROVE  ChainInv'
<1> USE DEF vars, host, network, client, hist, ChainInv
<1>t. TypeOK /\ TypeOK'
  BY TypeStep
<1>s. stream \in Seq(Packet) /\ (stream # <<>> => Head(stream) \in Packet)
  BY <1>t, StreamType DEF TypeOK
<1>k. Head(stream) = Audio => Head(stream).kind = "audio"
  BY DEF Audio
<1>1. CASE EncodeFrame
  <2>1. UNCHANGED client
    BY <1>1 DEF EncodeFrame
  <2> QED
    BY <1>1, <1>t, <2>1, EncodeChain DEF PictureNeverSmeared, QuietIsLost, Android, Lost, Smeared
<1>2. CASE SendAudio
  <2>1. /\ stream' = Append(stream, Audio) /\ UNCHANGED client /\ gop' = gop
        /\ Len(stream) \in Nat /\ Audio \in Packet
    BY <1>2, <1>s DEF SendAudio, Audio, Packet
  <2>2. Len(stream') = Len(stream) + 1 /\ stream'[Len(stream) + 1] = Audio
        /\ \A m \in 1..Len(stream) : stream'[m] = stream[m]
    BY <1>s, <2>1
  <2>3. ASSUME NEW i \in 1..Len(stream'), stream'[i].kind = "video", stream'[i].place # 0
        PROVE  Follows(i, stream[i].place)'
    <3>1. i \in 1..Len(stream) /\ \A m \in 1..i : m \in 1..Len(stream)
      BY <2>1, <2>2, <2>3 DEF Audio
    <3> QED
      BY <2>1, <2>2, <2>3, <3>1, AppendIntact
  <2>4. ASSUME gop' # 0 PROVE Follows(Len(stream) + 1, gop)'
    <3>1. PICK n \in Nat, k \in Nat : n = Len(stream) /\ k = gop
      BY <1>t, <2>1 DEF TypeOK
    <3>2. Follows(n + 1, k)
      BY <2>1, <2>4, <3>1 DEF EncoderIntact
    <3>3. Follows(n + 2, k)'
      BY <1>s, <2>1, <3>1, <3>2, FollowsAudio
    <3>4. n + 2 = Len(stream') + 1
      BY <2>2, <3>1
    <3> QED
      BY <2>1, <3>1, <3>3, <3>4
  <2> QED
    BY <1>t, <2>1, <2>3, <2>4
       DEF StreamIntact, EncoderIntact, QuietIsLost, PictureNeverSmeared, Android, Lost, Smeared
<1>3. CASE ReadConfig
  <2>1. Received("config") /\ Head(stream).kind = "config" /\ UNCHANGED <<platform, gop>>
    BY <1>3 DEF ReadConfig, Received
  <2>2. StreamIntact' /\ EncoderIntact'
    BY <1>k, <1>t, <2>1, ReadChain
  <2> QED
    BY <1>3, <1>t, <2>2 DEF ReadConfig, QuietIsLost, PictureNeverSmeared, Android, Lost, Fresh, Smeared
<1>4. CASE ReadAudio
  <2>1. Received("audio") /\ Head(stream).kind = "audio" /\ UNCHANGED client /\ gop' = gop
    BY <1>4 DEF ReadAudio, Received
  <2>2. StreamIntact' /\ EncoderIntact'
    BY <1>t, <2>1, ReadChain
  <2> QED
    BY <1>t, <2>1, <2>2 DEF QuietIsLost, PictureNeverSmeared, Android, Lost, Smeared
<1>5. ASSUME Received("video")
      PROVE  Head(stream).kind = "video" /\ Head(stream).place \in Nat /\ Head(stream) # Audio
  BY <1>5, <1>s, <1>k DEF Received, Packet
<1>6. CASE Decode
  <2>1. Received("video") /\ ~Skipped(Head(stream).place) /\ UNCHANGED <<platform, gop>>
    BY <1>6 DEF Decode
  <2>2. Head(stream).place = 0 \/ Follows(1, Head(stream).place)
    <3>1. stream # <<>> /\ stream[1] = Head(stream) /\ 1 \in 1..Len(stream)
      BY <1>s, <2>1 DEF Received
    <3> QED
      BY <1>5, <2>1, <3>1 DEF StreamIntact
  <2>3. \/ Head(stream).place = 0 \/ place \in {Lost, Head(stream).place - 1}
        \/ (~Android /\ place = Fresh)
    BY <2>2 DEF Follows
  <2>4. place' \in {Lost, Head(stream).place}
    BY <1>5, <1>6, <2>1, <2>3 DEF Decode, Decodes, Skipped, Lost, Fresh, Smeared
  <2>5. StreamIntact' /\ EncoderIntact'
    BY <1>5, <1>t, <2>1, <2>4, ReadChain
  <2>6. PictureNeverSmeared'
    BY <1>5, <2>1, <2>4 DEF PictureNeverSmeared, Lost, Smeared
  <2>7. QuietIsLost'
    BY <1>6, <2>1 DEF QuietIsLost, Decode, Skipped, Decodes, Android
  <2> QED
    BY <1>t, <2>5, <2>6, <2>7
<1>7. CASE Discard
  <2>1. /\ Received("video") /\ Skipped(Head(stream).place) /\ UNCHANGED client /\ gop' = gop
    BY <1>7 DEF Discard
  <2>2. place' = Lost \/ (~Android /\ place' = Fresh)
    BY <2>1 DEF Skipped, QuietIsLost
  <2>3. StreamIntact' /\ EncoderIntact'
    BY <1>5, <1>t, <2>1, <2>2, ReadChain
  <2> QED
    BY <1>t, <2>1, <2>3 DEF QuietIsLost, PictureNeverSmeared, Android, Lost, Smeared
<1>8. CASE DropPacket
  <2>1. Received("video") /\ place' = Lost /\ UNCHANGED <<platform, gop>>
    BY <1>8 DEF DropPacket
  <2>2. StreamIntact' /\ EncoderIntact'
    BY <1>5, <1>t, <2>1, ReadChain
  <2> QED
    BY <1>t, <2>1, <2>2 DEF QuietIsLost, PictureNeverSmeared, Lost, Smeared
<1>9. CASE DecoderError
  <2>1. ~Android /\ place' = Fresh /\ quiet' = FALSE /\ UNCHANGED <<stream, gop, platform>>
    BY <1>9 DEF DecoderError
  <2> QED
    BY <1>t, <2>1, ClientChain DEF QuietIsLost, PictureNeverSmeared, Fresh, Smeared
<1>10. ASSUME UNCHANGED <<stream, gop, platform, place>>, Android \/ UNCHANGED quiet
       PROVE  ChainInv'
  BY <1>10, <1>t, ClientChain DEF QuietIsLost, PictureNeverSmeared, Android, Lost, Smeared
<1>11. CASE SkipFrame \/ PollControl \/ Acknowledge \/ QuietEnds \/ ChangeParams \/ UNCHANGED vars
  BY <1>10, <1>11 DEF SkipFrame, AfterSkip, PollControl, Acknowledge, QuietEnds, ChangeParams
<1> QED
  BY <1>1, <1>2, <1>3, <1>4, <1>6, <1>7, <1>8, <1>9, <1>11 DEF Next, Loop, ClientStep

\* The chain of references is whole when the session starts: there is no video.
LEMMA ChainInit ==
  ASSUME VideoAssumption, Init PROVE ChainInv
<1>1. stream = <<Config>> /\ gop = 0 /\ quiet = FALSE /\ place = Fresh
  BY DEF Init
<1>2. StreamIntact
  BY <1>1 DEF StreamIntact, Config
<1> QED
  BY <1>1, <1>2, TypeInit DEF ChainInv, EncoderIntact, QuietIsLost, PictureNeverSmeared, Fresh, Smeared

\* Whatever the pacing skips, the encoder refuses or a live change restarts, a
\* decoder never gets a packet without the one it refers to, unless it dropped
\* that one itself.
THEOREM NeverSmeared == Spec => []PictureNeverSmeared
<1> USE VideoAssumption
<1>1. Init => ChainInv
  BY ChainInit
<1>2. ChainInv /\ [Next]_vars => ChainInv'
  BY ChainStep
<1>3. ChainInv => PictureNeverSmeared
  BY DEF ChainInv
<1> QED
  BY <1>1, <1>2, <1>3, PTL DEF Spec
----------------------------------------------------------------------------
(* The wait for an IDR. *)

\* No video comes before position i of the stream.
FirstVideo(i) == \A m \in 1..(i - 1) : stream[m] = Audio

\* Every packet on the way has a place in the GOP of a pair that occurs.
PlacesInGop ==
  \A i \in 1..Len(stream) :
    stream[i].kind = "video" => \E p \in Param : stream[i].place < GopSize(p.fps)

\* The packet the client reads next counts less than its place, and so does the
\* one the encoder makes next when there is none.
WaitShort ==
  /\ \A i \in 1..Len(stream) :
       stream[i].kind = "video" /\ stream[i].place # 0 /\ FirstVideo(i) =>
         waited < stream[i].place
  /\ gop # 0 /\ FirstVideo(Len(stream) + 1) => waited < gop

WaitInv == ChainInv /\ PlacesInGop /\ WaitShort /\ RecoversWithinGop

\* Positions before an appended packet look as they did.
LEMMA FirstVideoKept ==
  ASSUME NEW i, \A m \in 1..(i - 1) : stream'[m] = stream[m]
  PROVE  FirstVideo(i)' <=> FirstVideo(i)
BY DEF FirstVideo, Audio

\* Reading the packet at the head uncovers no later one that has counted less:
\* behind audio the same packet is next, behind a CONFIG only an IDR is, and
\* behind a video packet the one after it, which may have counted one more.
LEMMA ReadFirst ==
  ASSUME stream \in Seq(Packet), stream # <<>>, stream' = Tail(stream),
         NEW i \in 2..(Len(stream) + 1), NEW k \in Nat, Follows(i, k), FirstVideo(i - 1)'
  PROVE  \/ Head(stream) = Audio /\ FirstVideo(i)
         \/ Head(stream) = VideoPacket(k - 1)
<1>1. stream[1] = Head(stream) /\ \A m \in 1..(Len(stream) - 1) : stream'[m] = stream[m + 1]
  OBVIOUS
<1>2. \A m \in 2..(i - 1) : stream[m] = Audio
  <2>1. ASSUME NEW m \in 2..(i - 1) PROVE stream[m] = Audio
    <3>1. m - 1 \in 1..((i - 1) - 1) /\ m - 1 \in 1..(Len(stream) - 1) /\ (m - 1) + 1 = m
      OBVIOUS
    <3>2. stream'[m - 1] = Audio /\ stream'[m - 1] = stream[m]
      BY <1>1, <3>1 DEF FirstVideo, Audio
    <3> QED
      BY <3>2
  <2> QED
    BY <2>1
<1>3. 1 \in 1..(i - 1)
  OBVIOUS
<1>4. ASSUME NEW j \in 1..(i - 1), stream[j] = VideoPacket(k - 1)
      PROVE  Head(stream) = VideoPacket(k - 1)
  <2>1. j = 1
    <3>1. VideoPacket(k - 1) # Audio
      BY DEF VideoPacket, Audio
    <3> QED
      BY <1>2, <1>4, <3>1
  <2> QED
    BY <1>1, <1>4, <2>1
<1>5. CASE \A m \in 1..(i - 1) : stream[m] = Audio
  BY <1>1, <1>3, <1>5 DEF FirstVideo
<1> QED
  BY <1>4, <1>5 DEF Follows

\* Reading the packet at the head keeps the count short: it is one more after
\* a packet that counted less than its place.
LEMMA ReadWait ==
  ASSUME VideoAssumption, WaitInv, NEW kind, Received(kind), UNCHANGED gop,
         Head(stream).kind # "video" => UNCHANGED waited,
         Head(stream).kind = "video" =>
           waited' = 0 \/ (Head(stream).place # 0 /\ waited' = waited + 1)
  PROVE  PlacesInGop' /\ WaitShort' /\ RecoversWithinGop'
<1> USE DEF WaitInv, ChainInv
<1>1. stream \in Seq(Packet) /\ stream # <<>> /\ stream' = Tail(stream)
  BY DEF TypeOK, Received
<1>2. /\ Len(stream) \in Nat \ {0} /\ Len(stream') = Len(stream) - 1
      /\ stream[1] = Head(stream) /\ 1 \in 1..Len(stream)
      /\ \A i \in 1..Len(stream') : stream'[i] = stream[i + 1]
  BY <1>1
<1>3. gop \in Nat /\ waited \in Nat
  BY DEF TypeOK
<1>h. Head(stream).kind = "video" => Head(stream).place \in Nat
  BY <1>1 DEF Packet
<1>4. ASSUME Head(stream).kind = "video" PROVE waited' \in 0..Head(stream).place
  <2>1. CASE waited' = 0
    BY <1>4, <1>h, <2>1
  <2>2. CASE Head(stream).place # 0 /\ waited' = waited + 1
    <3>1. FirstVideo(1)
      BY DEF FirstVideo
    <3>2. waited < Head(stream).place
      BY <1>2, <1>4, <2>2, <3>1 DEF WaitShort
    <3> QED
      BY <1>3, <1>4, <1>h, <2>2, <3>2
  <2> QED
    BY <1>4, <2>1, <2>2
<1>5. ASSUME NEW i \in 2..(Len(stream) + 1), NEW k \in Nat, k # 0, Follows(i, k),
             FirstVideo(i - 1)', FirstVideo(i) => waited < k
      PROVE  waited' < k
  <2>1. CASE Head(stream) = Audio /\ FirstVideo(i)
    BY <1>5, <2>1 DEF Audio
  <2>2. CASE Head(stream) = VideoPacket(k - 1)
    <3>1. waited' \in 0..(k - 1)
      BY <1>4, <2>2 DEF VideoPacket
    <3> QED
      BY <3>1
  <2> QED
    BY <1>1, <1>5, <2>1, <2>2, ReadFirst
<1>6. PlacesInGop'
  <2>1. ASSUME NEW i \in 1..Len(stream'), stream'[i].kind = "video"
        PROVE  \E p \in Param : stream'[i].place < GopSize(p.fps)
    <3>1. i + 1 \in 1..Len(stream) /\ stream'[i] = stream[i + 1]
      BY <1>2
    <3> QED
      BY <2>1, <3>1 DEF PlacesInGop
  <2> QED
    BY <2>1 DEF PlacesInGop, GopSize
<1>7. ASSUME NEW i \in 1..Len(stream'), stream'[i].kind = "video", stream'[i].place # 0,
             FirstVideo(i)'
      PROVE  waited' < stream'[i].place
  <2>1. PICK h : h = i + 1 /\ h \in 2..Len(stream) /\ h - 1 = i
    BY <1>2
  <2>2. stream'[i] = stream[h]
    BY <1>2, <2>1
  <2>3. PICK k \in Nat : k = stream[h].place
    BY <1>1, <1>7, <2>1, <2>2 DEF Packet
  <2>4. Follows(h, k) /\ (FirstVideo(h) => waited < k)
    BY <1>7, <1>2, <2>1, <2>2, <2>3 DEF StreamIntact, WaitShort
  <2>5. FirstVideo(h - 1)' /\ h \in 2..(Len(stream) + 1)
    BY <1>2, <1>7, <2>1
  <2> QED
    BY <1>5, <1>7, <2>2, <2>3, <2>4, <2>5
<1>8. ASSUME gop' # 0, FirstVideo(Len(stream) + 1)' PROVE waited' < gop'
  <2>1. PICK h : h = Len(stream) + 1 /\ h \in 2..(Len(stream) + 1) /\ h - 1 = Len(stream') + 1
    BY <1>2
  <2>2. PICK k \in Nat : k = gop
    BY <1>3
  <2>3. Follows(h, k) /\ (FirstVideo(h) => waited < k)
    BY <1>8, <2>1, <2>2 DEF EncoderIntact, WaitShort
  <2>4. FirstVideo(h - 1)'
    BY <1>8, <2>1
  <2> QED
    BY <1>5, <1>8, <2>1, <2>2, <2>3, <2>4
<1>9. RecoversWithinGop'
  <2>1. CASE Head(stream).kind = "video"
    <3>1. PICK p \in Param : Head(stream).place < GopSize(p.fps)
      BY <1>2, <2>1 DEF PlacesInGop
    <3>2. GopSize(p.fps) \in Nat
      BY LimitType DEF GopSize
    <3>3. waited' < GopSize(p.fps)
      BY <1>4, <1>h, <2>1, <3>1, <3>2
    <3> QED
      BY <3>3 DEF RecoversWithinGop, GopSize
  <2>2. CASE Head(stream).kind # "video"
    BY <2>2 DEF RecoversWithinGop, GopSize
  <2> QED
    BY <2>1, <2>2
<1> QED
  BY <1>6, <1>7, <1>8, <1>9 DEF WaitShort

\* A frame keeps the count short: the packet after the last has a place that
\* the count is below, and a new context starts with an IDR.
LEMMA EncodeWait ==
  ASSUME VideoAssumption, WaitInv, EncodeFrame
  PROVE  PlacesInGop' /\ WaitShort'
<1> USE DEF client, hist, WaitInv, ChainInv
<1>t. /\ stream \in Seq(Packet) /\ Len(stream) \in Nat /\ gop \in 0..(GopSize(param.fps) - 1)
      /\ param \in Param /\ waited' = waited
  BY DEF TypeOK, EncodeFrame
<1>p. Config \in Packet /\ \A k \in Nat : VideoPacket(k) \in Packet
  BY DEF Config, VideoPacket, Packet
<1>g. ASSUME NEW p \in Param PROVE GopSize(p.fps) \in Nat \ {0}
  BY LimitType DEF GopSize
\* What is in front keeps its places and its count; what is added must have both.
<1>1. ASSUME Len(stream') \in Nat, \A m \in 1..Len(stream) : stream'[m] = stream[m],
             \A i \in 1..Len(stream') : i \in 1..Len(stream) \/
               (stream'[i].kind = "video" =>
                  /\ \E p \in Param : stream'[i].place < GopSize(p.fps)
                  /\ stream'[i].place # 0 /\ FirstVideo(i)' => waited < stream'[i].place),
             gop' # 0 /\ FirstVideo(Len(stream) + 1)' => waited < gop'
      PROVE  PlacesInGop' /\ WaitShort'
  <2>1. PlacesInGop'
    <3>1. ASSUME NEW i \in 1..Len(stream'), stream'[i].kind = "video"
          PROVE  \E p \in Param : stream'[i].place < GopSize(p.fps)
      BY <1>1, <3>1 DEF PlacesInGop
    <3> QED
      BY <3>1 DEF PlacesInGop, GopSize
  <2>2. ASSUME NEW i \in 1..Len(stream'), stream'[i].kind = "video", stream'[i].place # 0,
               FirstVideo(i)'
        PROVE  waited' < stream'[i].place
    <3>1. CASE i \in 1..Len(stream)
      <4>1. stream'[i] = stream[i] /\ \A m \in 1..(i - 1) : m \in 1..Len(stream)
        BY <1>1, <1>t, <3>1
      <4>2. FirstVideo(i)
        BY <1>1, <2>2, <4>1, FirstVideoKept
      <4> QED
        BY <1>t, <2>2, <3>1, <4>1, <4>2 DEF WaitShort
    <3>2. CASE i \notin 1..Len(stream)
      BY <1>1, <1>t, <2>2, <3>2
    <3> QED
      BY <3>1, <3>2
  <2> QED
    BY <1>1, <1>t, <2>1, <2>2 DEF WaitShort
<1>2. CASE EncodeAndSend(gop, param.fps, stream) /\ UNCHANGED <<param, limit>>
  <2>1. CASE stream' = stream /\ gop' = gop
    <3>1. FirstVideo(Len(stream) + 1)' => FirstVideo(Len(stream) + 1)
      BY <2>1 DEF FirstVideo, Audio
    <3> QED
      BY <1>1, <1>t, <2>1, <3>1 DEF WaitShort
  <2>2. CASE stream' = stream \o <<VideoPacket(gop)>>
    <3>1. /\ Len(stream') = Len(stream) + 1 /\ stream'[Len(stream) + 1] = VideoPacket(gop)
          /\ \A m \in 1..Len(stream) : stream'[m] = stream[m]
      <4>1. VideoPacket(gop) \in Packet
        BY <1>p, <1>t, <1>g
      <4> QED
        BY <1>t, <2>2, <4>1
    <3>2. ~FirstVideo(Len(stream) + 1)'
      <4>1. VideoPacket(gop) # Audio /\ Len(stream) + 1 \in 1..((Len(stream') + 1) - 1)
        BY <1>t, <3>1 DEF VideoPacket, Audio
      <4> QED
        BY <3>1, <4>1 DEF FirstVideo, Audio
    <3>3. gop < GopSize(param.fps)
      BY <1>t, <1>g
    <3>4. FirstVideo(Len(stream) + 1) /\ gop # 0 => waited < gop
      BY DEF WaitShort
    <3>5. ASSUME NEW i \in 1..Len(stream'), i \notin 1..Len(stream)
          PROVE  /\ stream'[i].place = gop
                 /\ FirstVideo(i)' => FirstVideo(Len(stream) + 1)
      <4>1. PICK n : n = Len(stream) + 1
        OBVIOUS
      <4>2. i = n /\ stream'[n] = VideoPacket(gop) /\ n - 1 = Len(stream)
        BY <1>t, <3>1, <3>5, <4>1
      <4>3. FirstVideo(n)' <=> FirstVideo(n)
        BY <3>1, <4>2, FirstVideoKept
      <4> QED
        BY <4>1, <4>2, <4>3 DEF VideoPacket
    <3> QED
      BY <1>1, <1>t, <3>1, <3>2, <3>3, <3>4, <3>5
  <2> QED
    BY <1>2, <2>1, <2>2 DEF EncodeAndSend
<1>3. CASE /\ latched # <<>>
           /\ EncodeAndSend(Reopened, latched[1].fps, Append(stream, Config))
  <2>1. PICK s \in Seq(Packet) : s = Append(stream, Config)
    BY <1>t, StreamType, Zenon
  <2>2. /\ Len(s) = Len(stream) + 1 /\ s[Len(stream) + 1] = Config
        /\ \A m \in 1..Len(stream) : s[m] = stream[m]
    BY <1>t, <1>p, <2>1
  <2>3. ASSUME Len(stream') \in Nat, Len(stream') > Len(stream),
               \A m \in 1..(Len(stream) + 1) : stream'[m] = s[m],
               \A i \in 1..Len(stream') : i \in 1..Len(s) \/ stream'[i] = VideoPacket(0)
        PROVE  PlacesInGop' /\ WaitShort'
    <3>1. \A m \in 1..Len(stream) : stream'[m] = stream[m]
      BY <1>t, <2>2, <2>3
    <3>2. stream'[Len(stream) + 1] = Config
      BY <1>t, <2>2, <2>3
    <3>3. ~FirstVideo(Len(stream) + 1)'
      <4>1. Config # Audio /\ Len(stream) + 1 \in 1..((Len(stream') + 1) - 1)
        BY <1>t, <2>3 DEF Config, Audio
      <4> QED
        BY <3>2, <4>1 DEF FirstVideo, Audio
    <3>4. ASSUME NEW i \in 1..Len(stream'), i \notin 1..Len(stream), stream'[i].kind = "video"
          PROVE  stream'[i].place = 0
      <4>1. stream'[i] = Config \/ stream'[i] = VideoPacket(0)
        BY <1>t, <2>2, <2>3, <3>2, <3>4
      <4> QED
        BY <3>4, <4>1 DEF Config, VideoPacket
    <3>5. 0 < GopSize(param.fps)
      BY <1>t, <1>g
    <3> QED
      BY <1>1, <1>t, <2>3, <3>1, <3>3, <3>4, <3>5
  <2>4. CASE stream' = s
    BY <1>t, <2>2, <2>3, <2>4
  <2>5. CASE stream' = s \o <<VideoPacket(0)>>
    <3>1. /\ Len(stream') = Len(s) + 1 /\ stream'[Len(s) + 1] = VideoPacket(0)
          /\ \A m \in 1..Len(s) : stream'[m] = s[m]
      <4>1. s \in Seq(Packet) /\ VideoPacket(0) \in Packet
        BY <1>p
      <4> HIDE <2>1
      <4> QED
        BY <2>5, <4>1
    <3> QED
      BY <1>t, <2>2, <2>3, <3>1
  <2> QED
    BY <1>3, <2>1, <2>4, <2>5 DEF EncodeAndSend, Reopened
<1> QED
  BY <1>2, <1>3 DEF EncodeFrame

\* A step keeps the count short.
LEMMA WaitStep ==
  ASSUME VideoAssumption, WaitInv, [Next]_vars
  PROVE  WaitInv'
<1> USE DEF vars, host, network, client, hist, WaitInv
<1>c. ChainInv'
  BY ChainStep
<1>t. stream \in Seq(Packet) /\ (stream # <<>> => Head(stream) \in Packet) /\ waited \in Nat
  BY StreamType DEF ChainInv, TypeOK
<1>v. Received("video") => Head(stream).place \in Nat /\ Head(stream).kind = "video"
  BY <1>t DEF Received, Packet
<1>1. CASE EncodeFrame
  <2>1. RecoversWithinGop'
    BY <1>1 DEF EncodeFrame, RecoversWithinGop, GopSize
  <2> QED
    BY <1>1, <1>c, <2>1, EncodeWait
<1>2. CASE SendAudio
  <2>1. /\ stream' = Append(stream, Audio) /\ UNCHANGED <<gop, waited>>
        /\ Len(stream) \in Nat /\ Audio \in Packet
    BY <1>2, <1>t DEF SendAudio, Audio, Packet
  <2>2. Len(stream') = Len(stream) + 1 /\ stream'[Len(stream) + 1] = Audio
        /\ \A m \in 1..Len(stream) : stream'[m] = stream[m]
    BY <1>t, <2>1
  <2>3. ASSUME NEW i \in 1..Len(stream'), stream'[i].kind = "video"
        PROVE  /\ i \in 1..Len(stream) /\ stream'[i] = stream[i]
               /\ FirstVideo(i)' <=> FirstVideo(i)
    <3>1. i \in 1..Len(stream) /\ \A m \in 1..(i - 1) : m \in 1..Len(stream)
      BY <2>1, <2>2, <2>3 DEF Audio
    <3> QED
      BY <2>2, <3>1, FirstVideoKept
  <2>4. PlacesInGop'
    BY <2>3 DEF PlacesInGop, GopSize
  <2>5. FirstVideo(Len(stream) + 1)' => FirstVideo(Len(stream) + 1)
    <3>1. \A m \in 1..((Len(stream) + 1) - 1) : m \in 1..((Len(stream') + 1) - 1)
                                                /\ stream'[m] = stream[m]
      BY <2>1, <2>2
    <3> QED
      BY <3>1 DEF FirstVideo, Audio
  <2>6. WaitShort'
    BY <2>1, <2>3, <2>5 DEF WaitShort
  <2> QED
    BY <1>c, <2>1, <2>4, <2>6 DEF RecoversWithinGop, GopSize
<1>3. CASE ReadConfig
  BY <1>3, <1>c, ReadWait DEF ReadConfig, Received
<1>4. CASE ReadAudio
  BY <1>4, <1>c, ReadWait DEF ReadAudio, Received
<1>5. CASE Decode
  <2>1. /\ Received("video") /\ UNCHANGED gop
        /\ waited' = IF Head(stream).place = 0 THEN 0 ELSE waited + 1
    BY <1>5 DEF Decode
  <2> QED
    BY <1>c, <1>v, <2>1, ReadWait
<1>6. CASE Discard
  <2>1. Received("video") /\ UNCHANGED gop /\ Head(stream).place # 0 /\ waited' = waited + 1
    BY <1>6 DEF Discard, Skipped
  <2> QED
    BY <1>c, <1>v, <2>1, ReadWait
<1>7. CASE DropPacket
  <2>1. Received("video") /\ UNCHANGED gop /\ waited' = 0
    BY <1>7 DEF DropPacket
  <2> QED
    BY <1>c, <1>v, <2>1, ReadWait
<1>8. CASE DecoderError
  <2>1. UNCHANGED <<stream, gop>> /\ waited' = 0
    BY <1>8 DEF DecoderError
  <2>2. \A i : FirstVideo(i)' <=> FirstVideo(i)
    BY <2>1 DEF FirstVideo, Audio
  <2>3. gop \in Nat /\ \A i \in 1..Len(stream) :
          stream[i].kind = "video" => stream[i].place \in Nat
    BY <1>t DEF Packet, ChainInv, TypeOK
  <2>4. WaitShort'
    BY <2>1, <2>3 DEF WaitShort
  <2>5. \E p \in Param : 0 < GopSize(p.fps)
    BY LimitType DEF VideoAssumption, GopSize
  <2> QED
    BY <1>c, <2>1, <2>4, <2>5 DEF PlacesInGop, RecoversWithinGop, GopSize
<1>9. ASSUME UNCHANGED <<stream, gop, waited>>
      PROVE  WaitInv'
  BY <1>9, <1>c DEF PlacesInGop, WaitShort, FirstVideo, Audio, RecoversWithinGop, GopSize
<1>10. CASE SkipFrame \/ PollControl \/ Acknowledge \/ QuietEnds \/ ChangeParams \/ UNCHANGED vars
  BY <1>9, <1>10 DEF SkipFrame, AfterSkip, PollControl, Acknowledge, QuietEnds, ChangeParams
<1> QED
  BY <1>1, <1>2, <1>3, <1>4, <1>5, <1>6, <1>7, <1>8, <1>10 DEF Next, Loop, ClientStep

\* Nothing was lost and nothing is on the way when the session starts.
LEMMA WaitInit ==
  ASSUME VideoAssumption, Init PROVE WaitInv
<1>1. stream = <<Config>> /\ gop = 0 /\ waited = 0 /\ Config.kind # "video"
  BY DEF Init, Config
<1>2. PlacesInGop /\ WaitShort
  BY <1>1 DEF PlacesInGop, WaitShort
<1>3. First \in Param /\ 0 < GopSize(First.fps)
  BY LimitType DEF VideoAssumption, GopSize
<1> QED
  BY <1>1, <1>2, <1>3, ChainInit DEF WaitInv, RecoversWithinGop

\* A client that dropped a packet reads fewer packets than a GOP has before the
\* next IDR, whatever the pacing skips, the encoder refuses, the client drops
\* again or a live change of the frame rate does to the GOP on the way.
THEOREM Recovers == Spec => []RecoversWithinGop
<1> USE VideoAssumption
<1>1. Init => WaitInv
  BY WaitInit
<1>2. WaitInv /\ [Next]_vars => WaitInv'
  BY WaitStep
<1>3. WaitInv => RecoversWithinGop
  BY DEF WaitInv
<1> QED
  BY <1>1, <1>2, <1>3, PTL DEF Spec
=============================================================================
