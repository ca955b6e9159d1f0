------------------------- MODULE StreamServer_proofs -------------------------
(***************************************************************************)
(* Safety of StreamServer for every number of devices, connections,         *)
(* rotations and messages, every code and rate, aligned or split chunks.    *)
(***************************************************************************)
EXTENDS StreamServer, SequenceTheorems, TLAPS

----------------------------------------------------------------------------
(* Receiving. *)

\* The main thread works on a connection whenever it is not between two.
Serving == phase \notin {"accept", "exited"} => sess \in Conn

TypeInv == TypeOK /\ Serving

\* A slice of a sequence is a sequence of the same elements.
LEMMA SliceType ==
  ASSUME NEW S, NEW s \in Seq(S), NEW m \in Nat \ {0}, NEW n \in 0..Len(s)
  PROVE  /\ SubSeq(s, m, n) \in Seq(S)
         /\ Len(SubSeq(s, m, n)) = IF m <= n THEN n - m + 1 ELSE 0
         /\ \A i \in 1..(n - m + 1) : SubSeq(s, m, n)[i] = s[m + i - 1]
<1>1. \A i \in m..n : s[i] \in S
  BY ElementOfSeq
<1>2. m \in Int /\ n \in Int
  BY LenProperties
<1> QED
  BY <1>1, <1>2, SubSeqProperties

\* A message nobody wrote is a message.
LEMMA MisreadType ==
  ASSUME NEW m \in Misread
  PROVE  m \in Msg /\ m.conn = 0
BY ServerAssumption DEF Msg

\* One chunk moves complete messages from the wire to the parser, or puts one
\* there that nobody wrote.
LEMMA ReceiveType ==
  ASSUME TypeOK, sess \in Conn, Receive
  PROVE  buf' \in Seq(Msg) /\ wire' \in [Conn -> Seq(Msg)] /\ cut' \in 0..MaxConn
<1> DEFINE w == wire[sess]
<1>1. w \in Seq(Msg) /\ buf \in Seq(Msg) /\ Len(w) \in Nat /\ sess \in 0..MaxConn
  <2>1. w \in Seq(Msg)
    BY DEF TypeOK, HostTypeOK, DeviceTypeOK, NetTypeOK, HistTypeOK
  <2> QED
    BY <2>1, LenProperties DEF TypeOK, HostTypeOK, DeviceTypeOK, NetTypeOK, HistTypeOK
<1>2. ASSUME NEW k \in Nat \ {0}, NEW n \in 0..Len(w)
      PROVE  SubSeq(w, k, n) \in Seq(Msg) /\ buf \o SubSeq(w, k, n) \in Seq(Msg)
  BY <1>1, <1>2, SliceType, ConcatProperties
<1>3. ASSUME NEW n \in 0..Len(w)
      PROVE  [wire EXCEPT ![sess] = SubSeq(w, n + 1, Len(w))] \in [Conn -> Seq(Msg)]
  <2>1. SubSeq(w, n + 1, Len(w)) \in Seq(Msg)
    BY <1>1, <1>2
  <2> QED
    BY <2>1 DEF TypeOK, HostTypeOK, DeviceTypeOK, NetTypeOK, HistTypeOK
<1>4. CASE cut \in {0, sess}
  <2>1. PICK n \in 0..Len(w), part \in BOOLEAN :
          /\ buf' = buf \o SubSeq(w, 1, n)
          /\ wire' = [wire EXCEPT ![sess] = SubSeq(w, n + 1, Len(w))]
          /\ cut' = IF part THEN sess ELSE 0
    BY <1>4 DEF Receive
  <2> QED
    BY <1>1, <1>2, <1>3, <2>1, ServerAssumption
<1>5. CASE cut \notin {0, sess}
  <2>1. PICK n \in 0..Len(w) :
          /\ wire' = [wire EXCEPT ![sess] = SubSeq(w, n + 1, Len(w))]
          /\ \/ UNCHANGED <<buf, cut>>
             \/ \E m \in Misread : buf' = Append(buf, m) /\ cut' \in {0, cut}
             \/ \E k \in 2..(n + 1) : buf' = buf \o SubSeq(w, k, n) /\ cut' = 0
    BY <1>5 DEF Receive
  <2>2. wire' \in [Conn -> Seq(Msg)]
    BY <1>1, <1>3, <2>1
  <2>3. CASE UNCHANGED <<buf, cut>>
    BY <1>1, <2>2, <2>3 DEF TypeOK, HostTypeOK, DeviceTypeOK, NetTypeOK, HistTypeOK
  <2>4. ASSUME NEW k \in 2..(n + 1), buf' = buf \o SubSeq(w, k, n) /\ cut' = 0
        PROVE  buf' \in Seq(Msg) /\ cut' \in 0..MaxConn
    BY <1>1, <1>2, <2>4, ServerAssumption
  <2>5. ASSUME NEW m \in Misread, buf' = Append(buf, m) /\ cut' \in {0, cut}
        PROVE  buf' \in Seq(Msg) /\ cut' \in 0..MaxConn
    <3>1. m \in Msg
      BY MisreadType
    <3> QED
      BY <1>1, <2>5, <3>1, ServerAssumption DEF TypeOK, HostTypeOK
  <2> QED
    BY <2>1, <2>2, <2>3, <2>4, <2>5
<1> QED
  BY <1>4, <1>5

\* A write appends one message to a wire, or is lost.
LEMMA WriteType ==
  ASSUME TypeOK, NEW d \in Device, NEW type \in MsgType, NEW v \in Nat, Write(d, type, v)
  PROVE  wire' \in [Conn -> Seq(Msg)]
<1>1. CASE conn[d] # 0 /\ conn[d] = sess /\ chan
  <2> DEFINE m == [type |-> type, conn |-> conn[d], val |-> v]
  <2>1. conn[d] \in Conn /\ m \in Msg
    BY <1>1 DEF TypeOK, HostTypeOK, DeviceTypeOK, NetTypeOK, HistTypeOK, Conn, Msg
  <2>2. Append(wire[conn[d]], m) \in Seq(Msg)
    BY <2>1 DEF TypeOK, HostTypeOK, DeviceTypeOK, NetTypeOK, HistTypeOK
  <2> QED
    BY <1>1, <2>1, <2>2 DEF TypeOK, HostTypeOK, DeviceTypeOK, NetTypeOK, HistTypeOK, Write
<1>2. CASE ~(conn[d] # 0 /\ conn[d] = sess /\ chan)
  BY <1>2 DEF TypeOK, HostTypeOK, DeviceTypeOK, NetTypeOK, HistTypeOK, Write
<1> QED
  BY <1>1, <1>2

\* A send changes the channel and the session's link only.
LEMMA SendType ==
  ASSUME TypeOK, Send
  PROVE  chan' \in BOOLEAN /\ link' \in [Conn -> Link]
BY DEF TypeOK, HostTypeOK, DeviceTypeOK, NetTypeOK, HistTypeOK, Send, Link

----------------------------------------------------------------------------
(* Type correctness. *)

\* A step of a device or of the network keeps the types.
LEMMA DevicesType ==
  ASSUME TypeInv, Devices
  PROVE  TypeInv'
<1> USE ServerAssumption
<1>a. /\ HostTypeOK /\ DeviceTypeOK /\ NetTypeOK /\ HistTypeOK /\ sess <= Len(owner)
      /\ Serving
  BY DEF TypeInv, TypeOK
<1>b. ASSUME UNCHANGED host PROVE HostTypeOK' /\ Serving' /\ sess' = sess
  BY <1>a, <1>b DEF HostTypeOK, Serving, host, rx, session, latches, handlers
<1>c. ASSUME UNCHANGED hist PROVE HistTypeOK'
  BY <1>a, <1>c DEF HistTypeOK, hist, causes
<1>d. ASSUME UNCHANGED device PROVE DeviceTypeOK' /\ Len(owner') = Len(owner)
  BY <1>a, <1>d DEF DeviceTypeOK, device
<1>e. (\A k \in Code : k \in Nat) /\ (\A r \in Rate : r \in Nat)
  BY ServerAssumption
<1>f. ASSUME NEW d \in Device PROVE code[d] \in Nat
  BY <1>a, <1>e DEF DeviceTypeOK
<1>g. ASSUME NEW d \in Device, conn[d] # 0 PROVE conn[d] \in Conn
  BY <1>a, <1>g DEF DeviceTypeOK, Conn
<1>h. ASSUME NEW d \in Device, NEW c,
             said' = [said EXCEPT ![c] = code[d]],
             UNCHANGED <<turns, sends, restarted, asked, refused, byes, turned>>
      PROVE  HistTypeOK'
  BY <1>a, <1>f, <1>h DEF HistTypeOK
<1>1. ASSUME NEW d \in Device, Dial(d)
      PROVE  TypeInv'
  <2> DEFINE c == Len(owner) + 1
             m == [type |-> "hello", conn |-> c, val |-> HelloCode(d)]
  <2>1. c \in Conn /\ Len(owner) \in Nat
    BY <1>1, <1>a, LenProperties DEF Dial, DeviceTypeOK, Conn
  <2>2. HelloCode(d) \in Nat
    BY <1>f DEF HelloCode
  <2>3. <<m>> \in Seq(Msg)
    BY <2>1, <2>2 DEF Msg, MsgType
  <2>4. Append(owner, d) \in Seq(Device) /\ Len(Append(owner, d)) = c
    BY <1>a DEF DeviceTypeOK
  <2>5. /\ owner' = Append(owner, d) /\ conn' = [conn EXCEPT ![d] = c]
        /\ wire' = [wire EXCEPT ![c] = <<m>>]
        /\ UNCHANGED host /\ UNCHANGED <<old, want, code, echo, link, cfgs>>
        /\ said' = [said EXCEPT ![c] = code[d]]
        /\ UNCHANGED <<turns, sends, restarted, asked, refused, byes, turned>>
    BY <1>1 DEF Dial
  <2> HIDE DEF c, m
  <2>6. DeviceTypeOK' /\ sess' <= Len(owner')
    BY <1>a, <1>b, <2>1, <2>4, <2>5, SMTT(30) DEF DeviceTypeOK, Conn, HostTypeOK, c
  <2>7. NetTypeOK'
    BY <1>a, <2>3, <2>5 DEF NetTypeOK
  <2>8. HistTypeOK'
    BY <1>h, <2>5
  <2> QED
    BY <1>b, <2>5, <2>6, <2>7, <2>8 DEF TypeInv, TypeOK
<1>2. ASSUME NEW d \in Device, Probe(d)
      PROVE  TypeInv'
  <2>1. /\ owner' = Append(owner, d) /\ Len(owner) < MaxConn
        /\ link' = [link EXCEPT ![Len(owner) + 1] = "fin"]
        /\ UNCHANGED host /\ UNCHANGED <<old, conn, want, code, echo, wire, cfgs>>
        /\ said' = [said EXCEPT ![Len(owner) + 1] = code[d]]
        /\ UNCHANGED <<turns, sends, restarted, asked, refused, byes, turned>>
    BY <1>2 DEF Probe
  <2>2. Append(owner, d) \in Seq(Device) /\ Len(Append(owner, d)) = Len(owner) + 1
    BY <1>a DEF DeviceTypeOK
  <2>3. DeviceTypeOK' /\ sess' <= Len(owner')
    BY <1>a, <1>b, <2>1, <2>2, LenProperties, SMTT(30) DEF DeviceTypeOK, HostTypeOK
  <2>4. NetTypeOK'
    BY <1>a, <2>1 DEF NetTypeOK, Link
  <2>5. HistTypeOK'
    BY <1>h, <2>1
  <2> QED
    BY <1>b, <2>1, <2>3, <2>4, <2>5 DEF TypeInv, TypeOK
<1>w. ASSUME NEW d \in Device, NEW type \in MsgType, NEW v \in Nat, Write(d, type, v),
             UNCHANGED <<link, cfgs>>
      PROVE  NetTypeOK'
  <2>1. wire' \in [Conn -> Seq(Msg)]
    BY <1>w, WriteType DEF TypeInv
  <2> QED
    BY <1>a, <1>w, <2>1 DEF NetTypeOK
<1>3. ASSUME NEW d \in Device, Rotate(d)
      PROVE  TypeInv'
  <2>1. PICK k \in Code \ {code[d]} :
          code' = [code EXCEPT ![d] = k] /\ Write(d, "orient", k)
    BY <1>3 DEF Rotate
  <2>2. turns' = turns + 1 /\ UNCHANGED host /\ UNCHANGED <<old, owner, conn, want, echo>>
        /\ UNCHANGED <<link, cfgs>> /\ UNCHANGED <<sends, restarted, asked, refused, byes, said>>
        /\ turned' = turned \cup RotatedOn(d)
    BY <1>3 DEF Rotate
  <2>3. DeviceTypeOK' /\ sess' <= Len(owner')
    BY <1>a, <1>b, <2>1, <2>2 DEF DeviceTypeOK
  <2>4. NetTypeOK'
    BY <1>w, <2>1, <2>2 DEF MsgType
  <2>5. HistTypeOK'
    <3>1. 1..Len(owner) \subseteq Conn
      BY <1>a, LenProperties DEF DeviceTypeOK, Conn
    <3>2. RotatedOn(d) \subseteq Conn
      BY <1>g, <3>1 DEF RotatedOn
    <3> QED
      BY <1>a, <2>2, <3>2 DEF HistTypeOK
  <2> QED
    BY <1>b, <2>2, <2>3, <2>4, <2>5 DEF TypeInv, TypeOK
<1>4. ASSUME NEW d \in Device, OnConfig(d)
      PROVE  TypeInv'
  <2>1. /\ conn[d] # 0 /\ cfgs[conn[d]] > 0 /\ cfgs' = [cfgs EXCEPT ![conn[d]] = @ - 1]
        /\ echo' = [echo EXCEPT ![d] = code[d]]
        /\ UNCHANGED host /\ UNCHANGED <<old, owner, conn, want, code>> /\ UNCHANGED <<link, wire>>
        /\ UNCHANGED hist
    BY <1>4 DEF OnConfig, CodeRead
  <2>2. code[d] \in Nat /\ conn[d] \in Conn
    BY <1>f, <1>g, <2>1
  <2>3. NetTypeOK'
    <3>1. cfgs[conn[d]] - 1 \in Nat
      BY <1>a, <2>1, <2>2 DEF NetTypeOK
    <3> QED
      BY <1>a, <2>1, <3>1 DEF NetTypeOK
  <2>4. DeviceTypeOK' /\ sess' <= Len(owner')
    BY <1>a, <1>b, <2>1, <2>2 DEF DeviceTypeOK
  <2> QED
    BY <1>b, <1>c, <2>1, <2>3, <2>4 DEF TypeInv, TypeOK
<1>12. ASSUME NEW d \in Device, SendEcho(d)
       PROVE  TypeInv'
  <2>1. /\ Write(d, "orient", echo[d]) /\ echo' = [echo EXCEPT ![d] = NoCode]
        /\ UNCHANGED host /\ UNCHANGED <<old, owner, conn, want, code>> /\ UNCHANGED <<link, cfgs>>
        /\ UNCHANGED hist
    BY <1>12 DEF SendEcho
  <2>2. NetTypeOK'
    BY <1>a, <1>w, <2>1 DEF MsgType, DeviceTypeOK
  <2>3. DeviceTypeOK' /\ sess' <= Len(owner')
    BY <1>a, <1>b, <2>1 DEF DeviceTypeOK, NoCode
  <2> QED
    BY <1>b, <1>c, <2>1, <2>2, <2>3 DEF TypeInv, TypeOK
<1>5. ASSUME NEW d \in Device, SendStreamParams(d)
      PROVE  TypeInv'
  <2>1. PICK r \in Rate : Write(d, "params", r) /\ asked' = [asked EXCEPT ![conn[d]] = r]
    BY <1>5 DEF SendStreamParams
  <2>2. /\ sends' = sends + 1 /\ UNCHANGED host /\ UNCHANGED device
        /\ UNCHANGED <<link, cfgs>> /\ UNCHANGED <<turns, restarted, refused, byes, causes>>
    BY <1>5 DEF SendStreamParams, Sending
  <2>3. NetTypeOK'
    BY <1>w, <2>1, <2>2 DEF MsgType
  <2>4. HistTypeOK'
    <3>1. r \in Nat
      BY <1>e
    <3>2. asked' \in [Conn -> Nat]
      BY <1>a, <2>1, <3>1 DEF HistTypeOK
    <3> QED
      BY <1>a, <2>2, <3>2 DEF HistTypeOK, causes
  <2> QED
    BY <1>a, <1>b, <1>d, <2>2, <2>3, <2>4 DEF TypeInv, TypeOK
<1>6. ASSUME NEW d \in Device, SendOther(d)
      PROVE  TypeInv'
  <2>1. PICK t \in Other : Write(d, t, 0)
    BY <1>6 DEF SendOther
  <2>2. /\ sends' = sends + 1 /\ UNCHANGED host /\ UNCHANGED device
        /\ UNCHANGED <<link, cfgs>> /\ UNCHANGED <<turns, restarted, asked, refused, byes, causes>>
    BY <1>6 DEF SendOther, Sending
  <2>3. NetTypeOK'
    BY <1>w, <2>1, <2>2 DEF MsgType
  <2>4. HistTypeOK'
    BY <1>a, <2>2 DEF HistTypeOK, causes
  <2> QED
    BY <1>a, <1>b, <1>d, <2>2, <2>3, <2>4 DEF TypeInv, TypeOK
<1>7. ASSUME NEW d \in Device, SendBye(d)
      PROVE  TypeInv'
  <2>1. /\ sends' = sends + 1 /\ UNCHANGED host /\ UNCHANGED <<old, owner, conn, code, echo>>
        /\ want' = [want EXCEPT ![d] = FALSE] /\ Write(d, "bye", 0)
        /\ byes' = byes \cup {conn[d]} /\ conn[d] # 0
        /\ UNCHANGED <<link, cfgs>> /\ UNCHANGED <<turns, restarted, asked, refused, causes>>
    BY <1>7 DEF SendBye, Sending
  <2>2. NetTypeOK'
    BY <1>w, <2>1 DEF MsgType
  <2>3. HistTypeOK'
    BY <1>a, <1>g, <2>1 DEF HistTypeOK, causes
  <2>4. DeviceTypeOK' /\ sess' <= Len(owner')
    BY <1>a, <1>b, <2>1 DEF DeviceTypeOK
  <2> QED
    BY <1>b, <2>1, <2>2, <2>3, <2>4 DEF TypeInv, TypeOK
<1>8. ASSUME NEW d \in Device, PauseOrResume(d)
      PROVE  TypeInv'
  <2>1. /\ sends' = sends + 1 /\ UNCHANGED host /\ UNCHANGED <<old, owner, conn, code, echo>>
        /\ want' = [want EXCEPT ![d] = ~@] /\ UNCHANGED net
        /\ UNCHANGED <<turns, restarted, asked, refused, byes, causes>>
    BY <1>8 DEF PauseOrResume
  <2>2. NetTypeOK' /\ HistTypeOK'
    BY <1>a, <2>1 DEF HistTypeOK, causes, NetTypeOK, net
  <2>3. DeviceTypeOK' /\ sess' <= Len(owner')
    BY <1>a, <1>b, <2>1 DEF DeviceTypeOK
  <2> QED
    BY <1>b, <2>1, <2>2, <2>3 DEF TypeInv, TypeOK
<1>9. ASSUME NEW d \in Device, Leave(d)
      PROVE  TypeInv'
  <2>1. PICK l \in {"fin", "rst"} : link' = [link EXCEPT ![conn[d]] = l]
    BY <1>9 DEF Leave
  <2>2. /\ conn' = [conn EXCEPT ![d] = 0] /\ echo' = [echo EXCEPT ![d] = NoCode] /\ UNCHANGED host
        /\ UNCHANGED <<old, owner, want, code>> /\ UNCHANGED <<wire, cfgs>> /\ UNCHANGED hist
    BY <1>9 DEF Leave
  <2>3. NetTypeOK'
    BY <1>a, <2>1, <2>2 DEF NetTypeOK, Link
  <2>4. DeviceTypeOK' /\ sess' <= Len(owner')
    BY <1>a, <1>b, <2>2 DEF DeviceTypeOK, NoCode
  <2> QED
    BY <1>b, <1>c, <2>2, <2>3, <2>4 DEF TypeInv, TypeOK
<1>10. ASSUME NEW d \in Device, Drop(d)
       PROVE  TypeInv'
  <2>1. PICK l \in {"rst", "lost"} : link' = [link EXCEPT ![conn[d]] = l]
    BY <1>10 DEF Drop
  <2>2. PICK n \in 0..Len(wire[conn[d]]) :
          wire' = [wire EXCEPT ![conn[d]] = SubSeq(@, 1, n)]
    BY <1>10 DEF Drop
  <2>3. /\ conn[d] # 0 /\ sends' = sends + 1
        /\ conn' = [conn EXCEPT ![d] = 0] /\ echo' = [echo EXCEPT ![d] = NoCode] /\ UNCHANGED host
        /\ UNCHANGED <<old, owner, want, code>> /\ UNCHANGED cfgs
        /\ UNCHANGED <<turns, restarted, asked, refused, byes, causes>>
    BY <1>10 DEF Drop
  <2>4. SubSeq(wire[conn[d]], 1, n) \in Seq(Msg)
    <3>1. wire[conn[d]] \in Seq(Msg)
      BY <1>a, <2>3 DEF NetTypeOK, DeviceTypeOK, Conn
    <3> QED
      BY <3>1, SliceType
  <2>5. NetTypeOK'
    BY <1>a, <2>1, <2>2, <2>3, <2>4 DEF NetTypeOK, Link
  <2>6. DeviceTypeOK' /\ sess' <= Len(owner')
    BY <1>a, <1>b, <2>3 DEF DeviceTypeOK, NoCode
  <2>7. HistTypeOK'
    BY <1>a, <2>3 DEF HistTypeOK, causes
  <2> QED
    BY <1>b, <2>3, <2>5, <2>6, <2>7 DEF TypeInv, TypeOK
<1>11. ASSUME NEW c \in Conn, LostTimesOut(c)
       PROVE  TypeInv'
  <2>1. /\ link' = [link EXCEPT ![c] = "rst"] /\ UNCHANGED host /\ UNCHANGED device
        /\ UNCHANGED <<wire, cfgs>> /\ UNCHANGED hist
    BY <1>11 DEF LostTimesOut
  <2>2. NetTypeOK'
    BY <1>a, <2>1 DEF NetTypeOK, Link
  <2> QED
    BY <1>a, <1>b, <1>c, <1>d, <2>1, <2>2 DEF TypeInv, TypeOK
<1> QED
  BY <1>1, <1>2, <1>3, <1>4, <1>5, <1>6, <1>7, <1>8, <1>9, <1>10, <1>11,
     <1>12 DEF Devices

\* A step of the main thread or of the stdin thread keeps the types.
LEMMA StreamerType ==
  ASSUME TypeInv, Session \/ Streamer \/ StdinEof \/ Exit
  PROVE  TypeInv'
<1> USE ServerAssumption
<1>a. /\ HostTypeOK /\ DeviceTypeOK /\ NetTypeOK /\ HistTypeOK /\ sess <= Len(owner)
      /\ Serving
  BY DEF TypeInv, TypeOK
<1>b. ASSUME UNCHANGED net PROVE NetTypeOK'
  BY <1>a, <1>b DEF NetTypeOK, net
<1>c. ASSUME UNCHANGED hist PROVE HistTypeOK'
  BY <1>a, <1>c DEF HistTypeOK, hist, causes
<1>d. ASSUME UNCHANGED device, UNCHANGED sess PROVE DeviceTypeOK' /\ sess' <= Len(owner')
  BY <1>a, <1>d DEF DeviceTypeOK, device
<1>m. ASSUME buf # <<>>
      PROVE  Head(buf) \in Msg /\ Tail(buf) \in Seq(Msg) /\ Head(buf).val \in Nat
  <2>1. Head(buf) \in Msg /\ Tail(buf) \in Seq(Msg)
    BY <1>a, <1>m, HeadTailProperties DEF HostTypeOK
  <2> QED
    BY <2>1 DEF Msg
<1>n. ASSUME Send PROVE chan' \in BOOLEAN /\ link' \in [Conn -> Link]
  BY <1>n, SendType DEF TypeInv
<1>1. CASE HelloEnds
  <2>1. HostTypeOK' /\ Serving'
    BY <1>1, <1>a DEF HelloEnds, HostTypeOK, Serving, Phase, rx, session, latches, handlers, EndWithoutStream
  <2>2. DeviceTypeOK' /\ sess' <= Len(owner')
    BY <1>1, <1>d DEF HelloEnds
  <2>3. NetTypeOK' /\ HistTypeOK'
    BY <1>1, <1>b, <1>c DEF HelloEnds
  <2> QED
    BY <2>1, <2>2, <2>3 DEF TypeInv, TypeOK
<1>2. CASE HelloDiscard
  <2>1. HostTypeOK' /\ Serving'
    BY <1>2, <1>a, <1>m DEF HelloDiscard, HostTypeOK, Serving, Phase, rx, session, latches, handlers
  <2>2. DeviceTypeOK' /\ sess' <= Len(owner')
    BY <1>2, <1>d DEF HelloDiscard
  <2>3. NetTypeOK' /\ HistTypeOK'
    BY <1>2, <1>b, <1>c DEF HelloDiscard
  <2> QED
    BY <2>1, <2>2, <2>3 DEF TypeInv, TypeOK
<1>3. CASE HelloAccept
  <2>1. HostTypeOK' /\ Serving'
    <3>1. sess \in Conn
      BY <1>3, <1>a DEF HelloAccept, Serving
    <3>2. rate' \in Nat /\ torn' \subseteq Conn
      BY <1>3, <1>a, <3>1 DEF HelloAccept, HostTypeOK
    <3> QED
      BY <1>3, <1>a, <1>m, <3>2 DEF HelloAccept, HostTypeOK, Serving, Phase, rx, session, latches, handlers
  <2>2. DeviceTypeOK' /\ sess' <= Len(owner')
    BY <1>3, <1>d DEF HelloAccept
  <2>3. NetTypeOK' /\ HistTypeOK'
    BY <1>3, <1>b, <1>c DEF HelloAccept
  <2> QED
    BY <2>1, <2>2, <2>3 DEF TypeInv, TypeOK
<1>4. CASE Approve
  <2>1. HostTypeOK' /\ Serving'
    BY <1>4, <1>a DEF Approve, HostTypeOK, Serving, Phase, rx, session, latches, handlers, EndWithoutStream
  <2>2. DeviceTypeOK' /\ sess' <= Len(owner')
    BY <1>4, <1>d DEF Approve
  <2>3. NetTypeOK' /\ HistTypeOK'
    BY <1>4, <1>b, <1>c DEF Approve
  <2> QED
    BY <2>1, <2>2, <2>3 DEF TypeInv, TypeOK
<1>5. CASE BuildFails
  <2>1. HostTypeOK' /\ Serving'
    <3>1. liveOri' \in Nat
      BY <1>5, <1>a DEF BuildFails, SessionCode, HostTypeOK
    <3> QED
      BY <1>5, <1>a, <3>1 DEF BuildFails, HostTypeOK, Serving, Phase, rx, session, latches, handlers, EndWithoutStream
  <2>2. DeviceTypeOK' /\ sess' <= Len(owner')
    BY <1>5, <1>d DEF BuildFails
  <2>3. NetTypeOK' /\ HistTypeOK'
    BY <1>5, <1>b, <1>c DEF BuildFails
  <2> QED
    BY <2>1, <2>2, <2>3 DEF TypeInv, TypeOK
<1>6. CASE SkipFrame
  <2>1. HostTypeOK' /\ Serving'
    BY <1>6, <1>a DEF SkipFrame, HostTypeOK, Serving, Phase, rx, session, latches, handlers
  <2>2. DeviceTypeOK' /\ sess' <= Len(owner')
    BY <1>6, <1>d DEF SkipFrame
  <2>3. NetTypeOK' /\ HistTypeOK'
    BY <1>6, <1>b, <1>c DEF SkipFrame
  <2> QED
    BY <2>1, <2>2, <2>3 DEF TypeInv, TypeOK
<1>7. CASE PollIdle
  <2>1. HostTypeOK' /\ Serving'
    BY <1>7, <1>a DEF PollIdle, HostTypeOK, Serving, Phase, rx, session, latches, handlers
  <2>2. DeviceTypeOK' /\ sess' <= Len(owner')
    BY <1>7, <1>d DEF PollIdle
  <2>3. NetTypeOK' /\ HistTypeOK'
    BY <1>7, <1>b, <1>c DEF PollIdle
  <2> QED
    BY <2>1, <2>2, <2>3 DEF TypeInv, TypeOK
<1>8. CASE PollPing
  <2>1. HostTypeOK' /\ Serving'
    BY <1>8, <1>a DEF PollPing, HostTypeOK, Serving, Phase, rx, session, latches, handlers
  <2>2. DeviceTypeOK' /\ sess' <= Len(owner')
    BY <1>8, <1>d DEF PollPing
  <2>3. NetTypeOK' /\ HistTypeOK'
    BY <1>8, <1>b, <1>c DEF PollPing
  <2> QED
    BY <2>1, <2>2, <2>3 DEF TypeInv, TypeOK
<1>9. CASE PollEof
  <2>1. HostTypeOK' /\ Serving'
    BY <1>9, <1>a DEF PollEof, HostTypeOK, Serving, Phase, rx, session, latches, handlers
  <2>2. DeviceTypeOK' /\ sess' <= Len(owner')
    BY <1>9, <1>d DEF PollEof
  <2>3. NetTypeOK' /\ HistTypeOK'
    BY <1>9, <1>b, <1>c DEF PollEof
  <2> QED
    BY <2>1, <2>2, <2>3 DEF TypeInv, TypeOK
<1>10. CASE Dispatched
  <2>1. HostTypeOK' /\ Serving'
    BY <1>10, <1>a DEF Dispatched, HostTypeOK, Serving, Phase, rx, session, latches, handlers
  <2>2. DeviceTypeOK' /\ sess' <= Len(owner')
    BY <1>10, <1>d DEF Dispatched
  <2>3. NetTypeOK' /\ HistTypeOK'
    BY <1>10, <1>b, <1>c DEF Dispatched
  <2> QED
    BY <2>1, <2>2, <2>3 DEF TypeInv, TypeOK
<1>11. CASE HandleBye
  <2>1. HostTypeOK' /\ Serving'
    BY <1>11, <1>a, <1>m DEF HandleBye, HostTypeOK, Serving, Phase, rx, session, latches, handlers, Next1
  <2>2. DeviceTypeOK' /\ sess' <= Len(owner')
    BY <1>11, <1>d DEF HandleBye, Next1
  <2>3. NetTypeOK' /\ HistTypeOK'
    BY <1>11, <1>b, <1>c DEF HandleBye
  <2> QED
    BY <2>1, <2>2, <2>3 DEF TypeInv, TypeOK
<1>12. CASE HandleParams
  <2>1. HostTypeOK' /\ Serving'
    BY <1>12, <1>a, <1>m DEF HandleParams, HostTypeOK, Serving, Phase, rx, session, latches, handlers, Next1, Latched
  <2>2. DeviceTypeOK' /\ sess' <= Len(owner')
    BY <1>12, <1>d DEF HandleParams, Next1
  <2>3. NetTypeOK' /\ HistTypeOK'
    BY <1>12, <1>b, <1>c DEF HandleParams
  <2> QED
    BY <2>1, <2>2, <2>3 DEF TypeInv, TypeOK
<1>13. CASE HandleKeyframeRequest
  <2>1. HostTypeOK' /\ Serving'
    BY <1>13, <1>a, <1>m DEF HandleKeyframeRequest, HostTypeOK, Serving, Phase, rx, session, latches, handlers, Next1
  <2>2. DeviceTypeOK' /\ sess' <= Len(owner')
    BY <1>13, <1>d DEF HandleKeyframeRequest, Next1
  <2>3. NetTypeOK' /\ HistTypeOK'
    BY <1>13, <1>b, <1>c DEF HandleKeyframeRequest
  <2> QED
    BY <2>1, <2>2, <2>3 DEF TypeInv, TypeOK
<1>14. CASE HandleOrientation
  <2>1. HostTypeOK' /\ Serving'
    BY <1>14, <1>a, <1>m DEF HandleOrientation, HostTypeOK, Serving, Phase, rx, session, latches, handlers, Next1, WantsOtherShape
  <2>2. DeviceTypeOK' /\ sess' <= Len(owner')
    BY <1>14, <1>d DEF HandleOrientation, Next1
  <2>3. NetTypeOK' /\ HistTypeOK'
    BY <1>14, <1>b, <1>c DEF HandleOrientation
  <2> QED
    BY <2>1, <2>2, <2>3 DEF TypeInv, TypeOK
<1>15. CASE HandleOther
  <2>1. HostTypeOK' /\ Serving'
    BY <1>15, <1>a, <1>m DEF HandleOther, HostTypeOK, Serving, Phase, rx, session, latches, handlers, Next1
  <2>2. DeviceTypeOK' /\ sess' <= Len(owner')
    BY <1>15, <1>d DEF HandleOther, Next1
  <2>3. NetTypeOK' /\ HistTypeOK'
    BY <1>15, <1>b, <1>c DEF HandleOther
  <2> QED
    BY <2>1, <2>2, <2>3 DEF TypeInv, TypeOK
<1>16. CASE StdinEof
  <2>1. HostTypeOK' /\ Serving'
    BY <1>16, <1>a DEF StdinEof, HostTypeOK, Serving, Phase, rx, session, latches, handlers
  <2>2. DeviceTypeOK' /\ sess' <= Len(owner')
    BY <1>16, <1>d DEF StdinEof
  <2>3. NetTypeOK' /\ HistTypeOK'
    BY <1>16, <1>b, <1>c DEF StdinEof
  <2> QED
    BY <2>1, <2>2, <2>3 DEF TypeInv, TypeOK
<1>17. CASE Exit
  <2>1. HostTypeOK' /\ Serving'
    BY <1>17, <1>a DEF Exit, HostTypeOK, Serving, Phase, rx, session, latches, handlers
  <2>2. DeviceTypeOK' /\ sess' <= Len(owner')
    BY <1>17, <1>d DEF Exit
  <2>3. NetTypeOK' /\ HistTypeOK'
    BY <1>17, <1>b, <1>c DEF Exit
  <2> QED
    BY <2>1, <2>2, <2>3 DEF TypeInv, TypeOK
<1>18. CASE AcceptClient
  <2>0. sess' = sess + 1 /\ sess' \in Conn /\ sess' \in 0..MaxConn
    BY <1>18, <1>a, LenProperties
    DEF AcceptClient, ClientWaiting, DeviceTypeOK, HostTypeOK, Conn
  <2>1. HostTypeOK' /\ Serving'
    BY <1>18, <1>a, <2>0 DEF AcceptClient, EndWithoutStream, HostTypeOK, Serving, Phase, rx, session, latches, handlers
  <2>2. DeviceTypeOK' /\ sess' <= Len(owner')
    BY <1>18, <1>a, LenProperties DEF AcceptClient, ClientWaiting, DeviceTypeOK, HostTypeOK, device
  <2>3. NetTypeOK' /\ HistTypeOK'
    BY <1>18, <1>b, <1>c DEF AcceptClient
  <2> QED
    BY <2>1, <2>2, <2>3 DEF TypeInv, TypeOK
<1>19. CASE HelloReceive
  <2>0. buf' \in Seq(Msg) /\ wire' \in [Conn -> Seq(Msg)] /\ cut' \in 0..MaxConn
    BY <1>19, <1>a, ReceiveType DEF HelloReceive, Serving, TypeInv
  <2>1. HostTypeOK' /\ Serving'
    BY <1>19, <1>a, <2>0 DEF HelloReceive, HostTypeOK, Serving, Phase, rx, session, latches, handlers
  <2>2. DeviceTypeOK' /\ sess' <= Len(owner')
    BY <1>19, <1>d DEF HelloReceive
  <2>3. NetTypeOK' /\ HistTypeOK'
    BY <1>19, <1>a, <1>c, <2>0 DEF HelloReceive, NetTypeOK
  <2> QED
    BY <2>1, <2>2, <2>3 DEF TypeInv, TypeOK
<1>20. CASE PollReceive
  <2>0. buf' \in Seq(Msg) /\ wire' \in [Conn -> Seq(Msg)] /\ cut' \in 0..MaxConn
    BY <1>20, <1>a, ReceiveType DEF PollReceive, Serving, TypeInv
  <2>1. HostTypeOK' /\ Serving'
    BY <1>20, <1>a, <2>0 DEF PollReceive, HostTypeOK, Serving, Phase, rx, session, latches, handlers
  <2>2. DeviceTypeOK' /\ sess' <= Len(owner')
    BY <1>20, <1>d DEF PollReceive
  <2>3. NetTypeOK' /\ HistTypeOK'
    BY <1>20, <1>a, <1>c, <2>0 DEF PollReceive, NetTypeOK
  <2> QED
    BY <2>1, <2>2, <2>3 DEF TypeInv, TypeOK
<1>21. CASE Build
  <2>0. Dims[owner[sess]] \in Shape
    <3>1. sess \in 1..Len(owner)
      BY <1>21, <1>a, LenProperties DEF Build, Serving, Conn, DeviceTypeOK
    <3>2. owner[sess] \in Device
      BY <1>a, <3>1, ElementOfSeq DEF DeviceTypeOK
    <3> QED
      BY <3>2
  <2>c. shape' \in Shape /\ liveOri' \in Nat
    <3>1. PICK h \in Hellos :
            /\ liveOri' = SessionCode(h.v4)
            /\ shape' = IF Mirror THEN "landscape" ELSE OrientDims(SessionCode(h.v4), h.dims)
      BY <1>21 DEF Build
    <3>2. h.dims \in Shape
      BY <2>0 DEF Hellos
    <3>3. liveOri' \in Nat
      BY <1>a, <3>1 DEF SessionCode, HostTypeOK
    <3> QED
      BY <3>1, <3>2, <3>3 DEF OrientDims, Shape
  <2>1. HostTypeOK' /\ Serving'
    <3>1. orientH' \in 0..MaxConn /\ touchH' \in 0..MaxConn
      BY <1>21, <1>a DEF Build, TouchHandlers, HostTypeOK
    <3>2. phase' = "loop" /\ UNCHANGED <<stop, sess, rx, hello, rate, torn, latches>>
          /\ restart' = FALSE /\ chan' \in BOOLEAN /\ sess \in Conn
      BY <1>21, <1>a, <1>n DEF Build, Serving
    <3> QED
      BY <1>a, <2>c, <3>1, <3>2 DEF HostTypeOK, Serving, Phase, rx, latches
  <2>2. DeviceTypeOK' /\ sess' <= Len(owner')
    BY <1>21, <1>d DEF Build
  <2>3. NetTypeOK' /\ HistTypeOK'
    <3>1. cfgs' \in [Conn -> Nat]
      BY <1>21, <1>a DEF Build, NetTypeOK, Serving
    <3> QED
      BY <1>21, <1>a, <1>n, <3>1 DEF Build, NetTypeOK, HistTypeOK, causes
  <2> QED
    BY <2>1, <2>2, <2>3 DEF TypeInv, TypeOK
<1>22. CASE LoopTop
  <2>1. HostTypeOK' /\ Serving'
    BY <1>22, <1>a, <1>n DEF LoopTop, SendNothing, HostTypeOK, Serving, Phase, rx, session, latches, handlers
  <2>2. DeviceTypeOK' /\ sess' <= Len(owner')
    BY <1>22, <1>d DEF LoopTop
  <2>3. NetTypeOK' /\ HistTypeOK'
    BY <1>22, <1>a, <1>c, <1>n DEF LoopTop, SendNothing, NetTypeOK
  <2> QED
    BY <2>1, <2>2, <2>3 DEF TypeInv, TypeOK
<1>23. CASE EncodeFrame
  <2>1. HostTypeOK' /\ Serving'
    BY <1>23, <1>a, <1>n DEF EncodeFrame, SendNothing, HostTypeOK, Serving, Phase, rx, session, latches, handlers
  <2>2. DeviceTypeOK' /\ sess' <= Len(owner')
    BY <1>23, <1>d DEF EncodeFrame
  <2>3. NetTypeOK' /\ HistTypeOK'
    <3>1. cfgs' \in [Conn -> Nat]
      BY <1>23, <1>a DEF EncodeFrame, NetTypeOK, Serving
    <3>2. refused' \in BOOLEAN
      BY <1>23, <1>a DEF EncodeFrame, HistTypeOK
    <3> QED
      BY <1>23, <1>a, <1>n, <3>1, <3>2 DEF EncodeFrame, SendNothing, NetTypeOK, HistTypeOK, causes
  <2> QED
    BY <2>1, <2>2, <2>3 DEF TypeInv, TypeOK
<1>24. CASE Flush
  <2>1. HostTypeOK' /\ Serving'
    BY <1>24, <1>a DEF Flush, AfterSession, HostTypeOK, Serving, Phase, rx, session, latches, handlers
  <2>2. DeviceTypeOK' /\ sess' <= Len(owner')
    BY <1>24, <1>d DEF Flush
  <2>3. NetTypeOK' /\ HistTypeOK'
    BY <1>24, <1>a, <1>b DEF Flush, HistTypeOK, HostTypeOK, causes
  <2> QED
    BY <2>1, <2>2, <2>3 DEF TypeInv, TypeOK
<1> QED
  BY <1>1, <1>2, <1>3, <1>4, <1>5, <1>6, <1>7, <1>8, <1>9, <1>10, <1>11,
     <1>12, <1>13, <1>14, <1>15, <1>16, <1>17, <1>18, <1>19, <1>20, <1>21, <1>22, <1>23, <1>24 DEF Session, Streamer

\* The initial state has the types, and every step keeps them.
LEMMA TypeInit == Init => TypeInv
<1> USE ServerAssumption
<1>0. <<>> \in Seq(Msg) /\ 0 \in 0..MaxConn
  BY EmptySeq
<1>1. ASSUME Init PROVE HostTypeOK
  BY <1>0, <1>1 DEF Init, HostTypeOK, Phase, Shape
<1>2. ASSUME Init PROVE DeviceTypeOK /\ sess <= Len(owner)
  BY <1>2 DEF Init, DeviceTypeOK, NoCode
<1>3. ASSUME Init PROVE NetTypeOK /\ HistTypeOK
  <2>1. wire \in [Conn -> Seq(Msg)]
    BY <1>0, <1>3 DEF Init
  <2>2. NetTypeOK
    BY <1>3, <2>1 DEF Init, NetTypeOK, Link
  <2>3. HistTypeOK
    BY <1>0, <1>3 DEF Init, HistTypeOK
  <2> QED
    BY <2>2, <2>3
<1>4. ASSUME Init PROVE Serving
  BY <1>4 DEF Init, Serving
<1> QED
  BY <1>1, <1>2, <1>3, <1>4 DEF TypeInv, TypeOK

\* Every step keeps the types.
LEMMA TypeStep == TypeInv /\ [Next]_vars => TypeInv'
<1>1. ASSUME TypeInv, Next PROVE TypeInv'
  BY <1>1, DevicesType, StreamerType DEF Next
<1>2. ASSUME TypeInv, UNCHANGED vars PROVE TypeInv'
  BY <1>2 DEF TypeInv, TypeOK, HostTypeOK, DeviceTypeOK, NetTypeOK, HistTypeOK, causes, Serving,
              vars, host, rx, session, latches, handlers, device, net, hist
<1> QED
  BY <1>1, <1>2

\* The variables of the streamer, the devices and the network always have
\* their types, and a connection is never accepted before it is dialled.
THEOREM TypeCorrect == Spec => []TypeOK
<1>1. TypeInv => TypeOK
  BY DEF TypeInv
<1> QED
  BY <1>1, TypeInit, TypeStep, PTL DEF Spec

----------------------------------------------------------------------------
(* BYE and the handlers. *)

\* Nothing a device or a link does touches the host's state.
LEMMA DevicesKeepHost == Devices => UNCHANGED host
BY DEF Devices, Dial, Probe, Rotate, OnConfig, SendEcho, SendStreamParams, SendOther,
       SendBye, PauseOrResume, Leave, Drop, LostTimesOut

\* Once BYE was heard the channel is closed and the main thread can only
\* leave the loop.
ByeInv == saidBye => phase \in {"loop", "flush", "exited"} /\ ~chan

\* After a BYE was heard no connection is accepted, whatever the devices do.
THEOREM ByeIsFinal == Spec => ByeHeardIsFinal
<1>1. Init => ByeInv
  BY DEF Init, ByeInv
<1>2. ByeInv /\ [Next]_vars => ByeInv'
  <2> SUFFICES ASSUME ByeInv, [Next]_vars PROVE ByeInv'
    OBVIOUS
  <2>1. CASE Session
    BY <2>1 DEF Session, ByeInv, latches, AcceptClient, HelloReceive, HelloEnds, HelloDiscard,
                HelloAccept, Approve, BuildFails, Build
  <2>2. CASE Streamer
    <3>1. CASE LoopTop
      BY <3>1 DEF ByeInv, latches, LoopTop, SendNothing
    <3>2. CASE EncodeFrame
      BY <3>2 DEF ByeInv, EncodeFrame
    <3>3. CASE HandleBye
      BY <3>3 DEF ByeInv, HandleBye
    <3>4. CASE Flush
      BY <3>4 DEF ByeInv, latches, Flush, AfterSession
    <3>5. CASE SkipFrame \/ PollIdle \/ PollReceive \/ PollPing \/ PollEof \/ Dispatched
      BY <3>5 DEF ByeInv, latches, SkipFrame, PollIdle, PollReceive, PollPing, PollEof,
                  Dispatched
    <3>6. CASE HandleParams \/ HandleKeyframeRequest \/ HandleOrientation \/ HandleOther
      BY <3>6 DEF ByeInv, latches, HandleParams, HandleKeyframeRequest, HandleOrientation,
                  HandleOther, Next1
    <3> QED
      BY <2>2, <3>1, <3>2, <3>3, <3>4, <3>5, <3>6 DEF Streamer
  <2>3. CASE Devices
    BY <2>3, DevicesKeepHost DEF ByeInv, host, latches
  <2>4. CASE StdinEof \/ Exit
    BY <2>4 DEF ByeInv, latches, StdinEof, Exit
  <2>5. CASE UNCHANGED vars
    BY <2>5 DEF ByeInv, vars, host, latches
  <2> QED
    BY <2>1, <2>2, <2>3, <2>4, <2>5 DEF Next
<1>3. ByeInv /\ [Next]_vars => [saidBye => sess' = sess]_vars
  <2> SUFFICES ASSUME ByeInv, Next, saidBye PROVE sess' = sess
    OBVIOUS
  <2>1. CASE Session
    BY <2>1 DEF Session, ByeInv, AcceptClient, HelloReceive, HelloEnds, HelloDiscard,
                HelloAccept, Approve, BuildFails, Build
  <2>2. CASE Streamer
    BY <2>2 DEF Streamer, LoopTop, SkipFrame, EncodeFrame, PollIdle, PollReceive, PollPing,
                PollEof, Dispatched, HandleBye, HandleParams, HandleKeyframeRequest,
                HandleOrientation, HandleOther, Flush
  <2>3. CASE Devices
    BY <2>3, DevicesKeepHost DEF host
  <2>4. CASE StdinEof \/ Exit
    BY <2>4 DEF StdinEof, Exit
  <2> QED
    BY <2>1, <2>2, <2>3, <2>4 DEF Next
<1> QED
  BY <1>1, <1>2, <1>3, PTL DEF Spec, ByeHeardIsFinal

\* Whenever a message is dispatched, the handlers are those of the session
\* being served, never of one whose objects are gone.
THEOREM HandlersCurrent == Spec => []HandlersAreCurrent
<1>1. Init => HandlersAreCurrent
  BY DEF Init, HandlersAreCurrent, Streaming
<1>2. HandlersAreCurrent /\ [Next]_vars => HandlersAreCurrent'
  <2> SUFFICES ASSUME HandlersAreCurrent, [Next]_vars PROVE HandlersAreCurrent'
    OBVIOUS
  <2> USE DEF HandlersAreCurrent, Streaming, handlers
  <2>1. CASE Session
    BY <2>1 DEF Session, AcceptClient, HelloReceive, HelloEnds, HelloDiscard,
                HelloAccept, Approve, BuildFails, Build, EndWithoutStream, TouchHandlers
  <2>2. CASE Streamer
    BY <2>2 DEF Streamer, LoopTop, SkipFrame, EncodeFrame, PollIdle, PollReceive, PollPing,
                PollEof, Dispatched, HandleBye, HandleParams, HandleKeyframeRequest,
                HandleOrientation, HandleOther, Flush, AfterSession, Next1
  <2>3. CASE Devices
    BY <2>3, DevicesKeepHost DEF host
  <2>4. CASE StdinEof \/ Exit
    BY <2>4 DEF StdinEof, Exit
  <2>5. CASE UNCHANGED vars
    BY <2>5 DEF vars, host
  <2> QED
    BY <2>1, <2>2, <2>3, <2>4, <2>5 DEF Next
<1> QED
  BY <1>1, <1>2, PTL DEF Spec

----------------------------------------------------------------------------
(* Messages of another connection never reach a session. *)

\* A HELLO that was misread, of connection 0, is no HELLO of anybody.
From(s, c)    == \A i \in 1..Len(s) : s[i].conn = c
HelloFree(s)  == \A i \in 1..Len(s) : s[i].conn # 0 => s[i].type # "hello"
HelloFirst(s) == \A i \in 1..Len(s) : s[i].type = "hello" => i = 1

\* A slice comes from the same connection, and without its first message a
\* sequence whose HELLO is first has none.
LEMMA SliceFrom ==
  ASSUME NEW s \in Seq(Msg), NEW m \in Nat \ {0}, NEW n \in 0..Len(s), NEW c
  PROVE  /\ From(s, c) => From(SubSeq(s, m, n), c)
         /\ HelloFree(s) => HelloFree(SubSeq(s, m, n))
         /\ HelloFirst(s) => HelloFirst(SubSeq(s, m, n))
         /\ HelloFirst(s) /\ m > 1 => HelloFree(SubSeq(s, m, n))
<1> DEFINE t == SubSeq(s, m, n)
<1>1. Len(s) \in Nat /\ Len(t) = (IF m <= n THEN n - m + 1 ELSE 0)
  BY SliceType, LenProperties
<1>2. ASSUME NEW i \in 1..Len(t)
      PROVE  t[i] = s[m + i - 1] /\ m + i - 1 \in 1..Len(s) /\ m + i - 1 >= m
  <2>1. i \in 1..(n - m + 1)
    BY <1>1
  <2> QED
    BY <1>1, <2>1, SliceType
<1> HIDE DEF t
<1>3. From(s, c) => From(t, c)
  BY <1>2 DEF From
<1>4. HelloFree(s) => HelloFree(t)
  BY <1>2 DEF HelloFree
<1>5. HelloFirst(s) => HelloFirst(t)
  <2>1. ASSUME HelloFirst(s), NEW i \in 1..Len(t), t[i].type = "hello" PROVE i = 1
    <3>1. m + i - 1 = 1
      BY <1>2, <2>1 DEF HelloFirst
    <3> QED
      BY <1>1, <3>1
  <2> QED
    BY <2>1 DEF HelloFirst
<1>6. HelloFirst(s) /\ m > 1 => HelloFree(t)
  BY <1>1, <1>2, SMTT(30) DEF HelloFirst, HelloFree
<1> QED
  BY <1>3, <1>4, <1>5, <1>6 DEF t

\* Messages of one connection, after others of it, are of it.
LEMMA ConcatFrom ==
  ASSUME NEW s \in Seq(Msg), NEW t \in Seq(Msg), NEW c
  PROVE  /\ From(s, c) /\ From(t, c) => From(s \o t, c)
         /\ HelloFree(s) /\ HelloFree(t) => HelloFree(s \o t)
         /\ s = <<>> => s \o t = t
<1>1. Len(s) \in Nat /\ Len(t) \in Nat /\ Len(s \o t) = Len(s) + Len(t)
  BY ConcatProperties, LenProperties
<1>2. ASSUME NEW i \in 1..Len(s \o t)
      PROVE  \/ i \in 1..Len(s) /\ (s \o t)[i] = s[i]
             \/ i - Len(s) \in 1..Len(t) /\ (s \o t)[i] = t[i - Len(s)]
  BY <1>1, ConcatProperties
<1>3. s = <<>> => s \o t = t
  BY ConcatEmptySeq
<1>4. From(s, c) /\ From(t, c) => From(s \o t, c)
  BY <1>2 DEF From
<1>5. HelloFree(s) /\ HelloFree(t) => HelloFree(s \o t)
  BY <1>2 DEF HelloFree
<1> QED
  BY <1>3, <1>4, <1>5

\* Dropping the first message keeps where the others are from.
LEMMA TailFrom ==
  ASSUME NEW s \in Seq(Msg), s # <<>>, NEW c
  PROVE  /\ From(s, c) => From(Tail(s), c) /\ Head(s).conn = c
         /\ HelloFree(s) => HelloFree(Tail(s)) /\ (IsHello(Head(s)) => Head(s).conn = 0)
         /\ HelloFirst(s) => HelloFirst(Tail(s)) /\ HelloFree(Tail(s))
<1>1. Len(s) \in Nat \ {0} /\ Len(Tail(s)) = Len(s) - 1 /\ Head(s) = s[1]
  BY HeadTailProperties, EmptySeq
<1>2. ASSUME NEW i \in 1..Len(Tail(s))
      PROVE  Tail(s)[i] = s[i + 1] /\ i + 1 \in 1..Len(s) /\ i + 1 # 1
  BY <1>1, HeadTailProperties
<1>3. 1 \in 1..Len(s)
  BY <1>1
<1> QED
  BY <1>1, <1>2, <1>3 DEF From, HelloFree, HelloFirst, IsHello

\* A message of a connection at the end of its own keeps where they are from.
LEMMA AppendFrom ==
  ASSUME NEW s \in Seq(Msg), NEW m \in Msg, NEW c, m.conn = c, m.type # "hello"
  PROVE  /\ From(s, c) => From(Append(s, m), c)
         /\ HelloFree(s) => HelloFree(Append(s, m))
         /\ HelloFirst(s) => HelloFirst(Append(s, m))
<1>1. Len(s) \in Nat /\ Len(Append(s, m)) = Len(s) + 1
  BY LenProperties
<1>2. ASSUME NEW i \in 1..Len(Append(s, m))
      PROVE  \/ i \in 1..Len(s) /\ Append(s, m)[i] = s[i]
             \/ Append(s, m)[i] = m
  BY <1>1
<1> QED
  BY <1>2 DEF From, HelloFree, HelloFirst

Served == {"approve", "build"} \cup Streaming

\* Every wire holds messages of its own connection, HELLO at its head.
WireInv == \A c \in Conn : From(wire[c], c) /\ HelloFirst(wire[c])

\* Outside of read_hello no HELLO is left to parse; while a session is served on
\* its own HELLO its messages are the only ones, and its HELLO is behind it.
BufInv ==
  /\ phase \notin {"hello", "exited"} => HelloFree(buf)
  /\ phase \in Served /\ sess \notin torn => From(buf, sess) /\ HelloFree(wire[sess])

\* In read_hello, what is parsed is either all of this connection, or what an
\* earlier client left or nobody wrote, and that holds no HELLO of a client.
HelloInv ==
  phase = "hello" =>
    \/ HelloFree(buf)
    \/ From(buf, sess) /\ HelloFirst(buf) /\ HelloFree(wire[sess])

\* What parser_ holds a part of is an older connection's message.
Stale == cut \notin {0, sess}

\* The remainder of an older connection's message swallows the HELLO of this
\* one, so a session that is served on its own HELLO receives aligned.
CutInv ==
  /\ phase = "hello" /\ Stale => HelloFree(buf)
  /\ phase \in Served /\ sess \notin torn => ~Stale

\* What nobody wrote is alone in the parser, and acted on before anything else
\* is received; while one is about, this connection's HELLO has been swallowed,
\* or will be.
Misreading == \E i \in 1..Len(buf) : buf[i].conn = 0

MisreadInv ==
  /\ Misreading => Tail(buf) = <<>> /\ phase \in {"hello", "dispatch", "exited"}
  /\ phase \in Served /\ Stale =>
       buf = <<>> \/ (phase = "dispatch" /\ Tail(buf) = <<>>)
  /\ phase \in Served \/ (phase = "hello" /\ Misreading) => HelloFree(wire[sess]) \/ Stale

OwnInv == WireInv /\ BufInv /\ HelloInv /\ CutInv /\ MisreadInv

\* What one chunk does to the wire and to the parser, in step and out of it.
LEMMA ReceiveCases ==
  ASSUME TypeInv, sess \in Conn, Receive
  PROVE  LET w == wire[sess] IN \E n \in 0..Len(w) :
           /\ wire' = [wire EXCEPT ![sess] = SubSeq(w, n + 1, Len(w))]
           /\ wire'[sess] = SubSeq(w, n + 1, Len(w))
           /\ n = 0 => wire'[sess] = w
           /\ \/ ~Stale /\ cut' \in {0, sess} /\ buf' = buf \o SubSeq(w, 1, n)
              \/ Stale /\ n > 0 /\ buf' = buf /\ cut' = cut
              \/ /\ Stale /\ cut' \in {0, cut} /\ (n > 0 \/ cut' = cut)
                 /\ \E m \in Misread : buf' = Append(buf, m)
              \/ /\ Stale /\ n > 0 /\ cut' = 0
                 /\ \E k \in 2..(n + 1) : buf' = buf \o SubSeq(w, k, n)
<1> DEFINE w == wire[sess]
<1>1. w \in Seq(Msg) /\ Len(w) \in Nat
  BY LenProperties DEF TypeInv, TypeOK, NetTypeOK
<1>2. ASSUME NEW n \in 0..Len(w), wire' = [wire EXCEPT ![sess] = SubSeq(w, n + 1, Len(w))]
      PROVE  /\ wire'[sess] = SubSeq(w, n + 1, Len(w))
             /\ n = 0 => wire'[sess] = w
  <2>1. wire'[sess] = SubSeq(w, n + 1, Len(w))
    BY <1>2 DEF TypeInv, TypeOK, NetTypeOK
  <2>2. n = 0 => SubSeq(w, n + 1, Len(w)) = w
    BY <1>1, SubSeqFull
  <2> QED
    BY <2>1, <2>2
<1>3. CASE cut \in {0, sess}
  <2>1. PICK n \in 0..Len(w) :
          /\ wire' = [wire EXCEPT ![sess] = SubSeq(w, n + 1, Len(w))]
          /\ buf' = buf \o SubSeq(w, 1, n) /\ cut' \in {0, sess}
    BY <1>3 DEF Receive
  <2> QED
    BY <1>2, <1>3, <2>1 DEF Stale
<1>4. CASE cut \notin {0, sess}
  <2>1. PICK n \in 0..Len(w) :
          /\ wire' = [wire EXCEPT ![sess] = SubSeq(w, n + 1, Len(w))]
          /\ \/ n > 0 /\ buf' = buf /\ cut' = cut
             \/ /\ \E m \in Misread : buf' = Append(buf, m)
                /\ cut' = cut \/ (n > 0 /\ cut' = 0)
             \/ \E k \in 2..(n + 1) : buf' = buf \o SubSeq(w, k, n) /\ cut' = 0
    BY <1>4 DEF Receive
  <2>2. (\E k \in 2..(n + 1) : TRUE) => n > 0
    BY <1>1
  <2> QED
    BY <1>2, <1>4, <2>1, <2>2 DEF Stale
<1> QED
  BY <1>3, <1>4

\* What one chunk brings in step is of this connection; a HELLO in it was the
\* head of the wire, and then none is left there. Out of step it brings no HELLO
\* of a client, and takes the one on the wire away with the first message.
LEMMA ReceiveFrom ==
  ASSUME TypeInv, WireInv, sess \in Conn, Receive
  PROVE  /\ WireInv'
         /\ HelloFree(wire[sess]) => HelloFree(wire'[sess])
         /\ ~Stale /\ From(buf, sess) => From(buf', sess)
         /\ (HelloFree(wire[sess]) \/ Stale) /\ HelloFree(buf) => HelloFree(buf')
         /\ ~Stale /\ buf = <<>> =>
              HelloFirst(buf') /\ (HelloFree(buf') \/ HelloFree(wire'[sess]))
         /\ Stale => HelloFree(wire'[sess]) \/ (cut' = cut /\ wire'[sess] = wire[sess])
<1> DEFINE w == wire[sess]
<1>1. /\ w \in Seq(Msg) /\ buf \in Seq(Msg) /\ Len(w) \in Nat
      /\ From(w, sess) /\ HelloFirst(w)
  BY LenProperties DEF TypeInv, TypeOK, HostTypeOK, NetTypeOK, WireInv
<1>2. PICK n \in 0..Len(w) :
        /\ wire' = [wire EXCEPT ![sess] = SubSeq(w, n + 1, Len(w))]
        /\ wire'[sess] = SubSeq(w, n + 1, Len(w))
        /\ n = 0 => wire'[sess] = w
        /\ \/ ~Stale /\ buf' = buf \o SubSeq(w, 1, n)
           \/ Stale /\ n > 0 /\ buf' = buf
           \/ /\ Stale /\ (n > 0 \/ cut' = cut)
              /\ \E m \in Misread : buf' = Append(buf, m)
           \/ Stale /\ n > 0 /\ \E k \in 2..(n + 1) : buf' = buf \o SubSeq(w, k, n)
  BY ReceiveCases
<1>4. /\ From(wire'[sess], sess) /\ HelloFirst(wire'[sess])
      /\ HelloFree(w) => HelloFree(wire'[sess])
      /\ n > 0 => HelloFree(wire'[sess])
  <2>1. n + 1 \in Nat \ {0} /\ Len(w) \in 0..Len(w)
    BY <1>1
  <2>2. n > 0 => n + 1 > 1
    OBVIOUS
  <2> QED
    BY <1>1, <1>2, <2>1, <2>2, SliceFrom
<1>5. WireInv'
  <2>1. ASSUME NEW c \in Conn, c # sess PROVE wire'[c] = wire[c]
    BY <1>2, <2>1 DEF TypeInv, TypeOK, NetTypeOK
  <2> QED
    BY <1>4, <2>1 DEF WireInv
<1>6. CASE Stale /\ n > 0 /\ buf' = buf
  BY <1>4, <1>5, <1>6
<1>7. ASSUME NEW k \in 1..(n + 1), buf' = buf \o SubSeq(w, k, n)
      PROVE  /\ From(buf, sess) => From(buf', sess)
             /\ (HelloFree(w) \/ k > 1) /\ HelloFree(buf) => HelloFree(buf')
             /\ buf = <<>> => HelloFirst(buf') /\ (HelloFree(buf') \/ HelloFree(wire'[sess]))
  <2> DEFINE t == SubSeq(w, k, n)
  <2>1. /\ From(t, sess) /\ HelloFirst(t) /\ t \in Seq(Msg)
        /\ HelloFree(w) \/ k > 1 => HelloFree(t)
    BY <1>1, <1>7, SliceFrom, SliceType
  <2>2. n = 0 => t = <<>>
    BY <1>7, SubSeqEmpty
  <2>3. HelloFree(t) \/ HelloFree(wire'[sess])
    <3>1. n = 0 => Len(t) = 0
      BY <2>2
    <3> QED
      BY <1>4, <3>1 DEF HelloFree
  <2>4. /\ From(buf, sess) /\ From(t, sess) => From(buf \o t, sess)
        /\ HelloFree(buf) /\ HelloFree(t) => HelloFree(buf \o t)
        /\ buf = <<>> => buf \o t = t
    BY <1>1, <2>1, ConcatFrom
  <2> QED
    BY <1>7, <2>1, <2>3, <2>4
<1>8. CASE ~Stale /\ buf' = buf \o SubSeq(w, 1, n)
  <2>1. 1 \in 1..(n + 1)
    BY <1>1
  <2> QED
    BY <1>4, <1>5, <1>7, <1>8, <2>1
<1>9. CASE Stale /\ n > 0 /\ \E k \in 2..(n + 1) : buf' = buf \o SubSeq(w, k, n)
  <2>1. PICK k \in 2..(n + 1) : buf' = buf \o SubSeq(w, k, n)
    BY <1>9
  <2>2. k \in 1..(n + 1) /\ k > 1
    BY <1>1
  <2> QED
    BY <1>4, <1>5, <1>7, <1>9, <2>1, <2>2
<1>10. CASE /\ Stale /\ (n > 0 \/ cut' = cut)
            /\ \E m \in Misread : buf' = Append(buf, m)
  <2>1. HelloFree(buf) => HelloFree(buf')
    <3>1. PICK m \in Misread : buf' = Append(buf, m)
      BY <1>10
    <3>2. m \in Msg /\ m.conn = 0
      BY MisreadType
    <3>3. Len(buf) \in Nat /\ Len(buf') = Len(buf) + 1
      BY <1>1, <3>1, <3>2, LenProperties, AppendProperties
    <3>4. \A i \in 1..Len(buf') : (i \in 1..Len(buf) /\ buf'[i] = buf[i]) \/ buf'[i] = m
      BY <1>1, <3>1, <3>2, <3>3, AppendProperties
    <3> QED
      BY <3>2, <3>4 DEF HelloFree
  <2> QED
    BY <1>2, <1>4, <1>5, <1>10, <2>1
<1> QED
  BY <1>2, <1>6, <1>8, <1>9, <1>10

\* A chunk that is received while nothing misread is about, and nothing at all
\* when it is received out of step, brings at most one thing nobody wrote.
LEMMA ReceiveMisread ==
  ASSUME TypeInv, WireInv, sess \in Conn, Receive, UNCHANGED sess,
         ~Misreading, Stale => buf = <<>>
  PROVE  /\ Misreading' => Stale /\ Tail(buf') = <<>>
         /\ Stale' => Stale /\ (buf' = <<>> \/ Tail(buf') = <<>>)
<1> DEFINE w == wire[sess]
<1>1. /\ w \in Seq(Msg) /\ buf \in Seq(Msg) /\ Len(w) \in Nat /\ Len(buf) \in Nat
      /\ From(w, sess) /\ sess # 0
  BY LenProperties, SMTT(30) DEF TypeInv, TypeOK, HostTypeOK, NetTypeOK, WireInv, Conn
<1>2. PICK n \in 0..Len(w) :
        \/ ~Stale /\ cut' \in {0, sess} /\ buf' = buf \o SubSeq(w, 1, n)
        \/ Stale /\ buf' = buf /\ cut' = cut
        \/ Stale /\ \E m \in Misread : buf' = Append(buf, m)
        \/ Stale /\ n > 0 /\ cut' = 0 /\ \E k \in 2..(n + 1) : buf' = buf \o SubSeq(w, k, n)
  BY ReceiveCases
<1>3. ASSUME NEW k \in 1..(n + 1), buf' = buf \o SubSeq(w, k, n) PROVE ~Misreading'
  <2> DEFINE t == SubSeq(w, k, n)
  <2>1. t \in Seq(Msg) /\ From(t, sess)
    BY <1>1, <1>3, SliceFrom, SliceType
  <2> HIDE DEF t
  <2>2. Len(t) \in Nat /\ Len(buf \o t) = Len(buf) + Len(t)
    BY <1>1, <2>1, ConcatProperties, LenProperties
  <2>3. ASSUME NEW i \in 1..Len(buf \o t)
        PROVE  \/ i \in 1..Len(buf) /\ (buf \o t)[i] = buf[i]
               \/ i - Len(buf) \in 1..Len(t) /\ (buf \o t)[i] = t[i - Len(buf)]
    BY <1>1, <2>1, <2>2, ConcatProperties
  <2>4. \A i \in 1..Len(buf \o t) : (buf \o t)[i].conn # 0
    BY <1>1, <2>1, <2>3 DEF From, Misreading
  <2>5. buf' = buf \o t
    BY <1>3 DEF t
  <2> QED
    BY <2>4, <2>5 DEF Misreading
<1>4. CASE ~Stale /\ cut' \in {0, sess} /\ buf' = buf \o SubSeq(w, 1, n)
  <2>1. 1 \in 1..(n + 1)
    BY <1>1
  <2> QED
    BY <1>3, <1>4, <2>1 DEF Stale
<1>5. CASE Stale /\ buf' = buf /\ cut' = cut
  BY <1>5 DEF Misreading
<1>6. CASE Stale /\ \E m \in Misread : buf' = Append(buf, m)
  <2>1. PICK m \in Misread : buf' = Append(buf, m)
    BY <1>6
  <2>2. buf' = <<m>> /\ Tail(<<m>>) = <<>>
    BY <1>6, <2>1
  <2> QED
    BY <1>6, <2>2
<1>7. CASE Stale /\ n > 0 /\ cut' = 0 /\ \E k \in 2..(n + 1) : buf' = buf \o SubSeq(w, k, n)
  <2>1. PICK k \in 2..(n + 1) : buf' = buf \o SubSeq(w, k, n)
    BY <1>7
  <2>2. k \in 1..(n + 1)
    BY <1>1
  <2> QED
    BY <1>3, <1>7, <2>1, <2>2 DEF Stale
<1> QED
  BY <1>2, <1>4, <1>5, <1>6, <1>7

\* A write puts a message of the session's connection, and no HELLO, behind
\* those of its wire.
LEMMA WriteFrom ==
  ASSUME TypeInv, WireInv, NEW d \in Device, NEW type \in MsgType \ {"hello"}, NEW v \in Nat,
         Write(d, type, v)
  PROVE  /\ WireInv'
         /\ \A c \in Conn : HelloFree(wire[c]) => HelloFree(wire'[c])
<1>1. CASE conn[d] # 0 /\ conn[d] = sess /\ chan
  <2> DEFINE m == [type |-> type, conn |-> conn[d], val |-> v]
  <2>1. conn[d] \in Conn /\ m \in Msg /\ m.conn = conn[d] /\ m.type # "hello"
    BY <1>1 DEF TypeInv, TypeOK, DeviceTypeOK, Conn, Msg
  <2>2. wire' = [wire EXCEPT ![conn[d]] = Append(@, m)]
    BY <1>1 DEF Write
  <2> HIDE DEF m
  <2>3. ASSUME NEW c \in Conn
        PROVE  /\ From(wire'[c], c) /\ HelloFirst(wire'[c])
               /\ HelloFree(wire[c]) => HelloFree(wire'[c])
    <3>1. wire[c] \in Seq(Msg) /\ From(wire[c], c) /\ HelloFirst(wire[c])
      BY DEF TypeInv, TypeOK, NetTypeOK, WireInv
    <3>2. CASE c = conn[d]
      <4>1. wire'[c] = Append(wire[c], m)
        BY <2>2, <3>2 DEF TypeInv, TypeOK, NetTypeOK
      <4> QED
        BY <2>1, <3>1, <3>2, <4>1, AppendFrom
    <3>3. CASE c # conn[d]
      BY <2>2, <3>1, <3>3 DEF TypeInv, TypeOK, NetTypeOK
    <3> QED
      BY <3>2, <3>3
  <2> QED
    BY <2>3 DEF WireInv
<1>2. CASE ~(conn[d] # 0 /\ conn[d] = sess /\ chan)
  BY <1>2 DEF WireInv, Write
<1> QED
  BY <1>1, <1>2

\* A step of a device or of the network keeps OwnInv.
LEMMA DevicesOwn ==
  ASSUME TypeInv, OwnInv, Devices
  PROVE  OwnInv'
<1> USE DEF OwnInv
<1>1. SUFFICES ASSUME UNCHANGED <<phase, sess, buf>>
               PROVE  /\ WireInv'
                      /\ HelloFree(wire[sess]) /\ sess \in Conn => HelloFree(wire'[sess])
  <2>1. UNCHANGED <<phase, sess, buf>> /\ UNCHANGED <<cut, torn>>
    BY DevicesKeepHost DEF host, rx, session
  <2>2. phase = "hello" \/ phase \in Served => sess \in Conn
    BY DEF TypeInv, Serving, Served, Streaming
  <2>3. Misreading' <=> Misreading
    BY <2>1 DEF Misreading
  <2>4. BufInv' /\ HelloInv' /\ CutInv'
    BY <1>1, <2>1, <2>2 DEF BufInv, HelloInv, CutInv, Stale
  <2>5. MisreadInv'
    BY <1>1, <2>1, <2>2, <2>3 DEF MisreadInv, Stale
  <2> QED
    BY <1>1, <2>1, <2>4, <2>5
<1>2. ASSUME NEW d \in Device, Dial(d)
      PROVE  WireInv' /\ (HelloFree(wire[sess]) /\ sess \in Conn => HelloFree(wire'[sess]))
  <2> DEFINE c == Len(owner) + 1
             m == [type |-> "hello", conn |-> c, val |-> HelloCode(d)]
  <2>1. wire' = [wire EXCEPT ![c] = <<m>>] /\ sess # c
    BY <1>2, LenProperties DEF Dial, TypeInv, TypeOK, HostTypeOK, DeviceTypeOK
  <2>2. m.conn = c
    OBVIOUS
  <2> HIDE DEF m, c
  <2>3. From(<<m>>, c) /\ HelloFirst(<<m>>)
    BY <2>2 DEF From, HelloFirst
  <2> QED
    BY <2>1, <2>3 DEF WireInv, TypeInv, TypeOK, NetTypeOK
<1>3. ASSUME NEW d \in Device, Rotate(d) \/ SendStreamParams(d) \/ SendOther(d) \/ SendBye(d)
                               \/ SendEcho(d)
      PROVE  WireInv' /\ (HelloFree(wire[sess]) /\ sess \in Conn => HelloFree(wire'[sess]))
  <2>1. \E type \in MsgType \ {"hello"}, v \in Nat : Write(d, type, v)
    <3>1. CASE Rotate(d)
      <4>1. \A k \in Code : k \in Nat
        BY ServerAssumption
      <4> QED
        BY <3>1, <4>1 DEF Rotate, MsgType
    <3>2. CASE SendStreamParams(d)
      <4>1. \A r \in Rate : r \in Nat
        BY ServerAssumption
      <4> QED
        BY <3>2, <4>1 DEF SendStreamParams, MsgType
    <3>3. CASE SendOther(d)
      BY <3>3, ServerAssumption DEF SendOther, MsgType
    <3>4. CASE SendBye(d)
      BY <3>4 DEF SendBye, MsgType
    <3>5. CASE SendEcho(d)
      BY <3>5 DEF SendEcho, MsgType, TypeInv, TypeOK, DeviceTypeOK
    <3> QED
      BY <1>3, <3>1, <3>2, <3>3, <3>4, <3>5
  <2> QED
    BY <2>1, WriteFrom
<1>4. ASSUME NEW d \in Device, Drop(d)
      PROVE  WireInv' /\ (HelloFree(wire[sess]) /\ sess \in Conn => HelloFree(wire'[sess]))
  <2>1. PICK n \in 0..Len(wire[conn[d]]) :
          wire' = [wire EXCEPT ![conn[d]] = SubSeq(wire[conn[d]], 1, n)]
    BY <1>4 DEF Drop
  <2>2. ASSUME NEW c \in Conn
        PROVE  /\ From(wire'[c], c) /\ HelloFirst(wire'[c])
               /\ HelloFree(wire[c]) => HelloFree(wire'[c])
    <3>1. wire[c] \in Seq(Msg) /\ From(wire[c], c) /\ HelloFirst(wire[c])
      BY DEF TypeInv, TypeOK, NetTypeOK, WireInv
    <3>2. CASE c = conn[d]
      <4>1. wire'[c] = SubSeq(wire[c], 1, n) /\ n \in 0..Len(wire[c])
        BY <2>1, <3>2 DEF TypeInv, TypeOK, NetTypeOK
      <4>2. /\ From(wire[c], c) => From(SubSeq(wire[c], 1, n), c)
            /\ HelloFree(wire[c]) => HelloFree(SubSeq(wire[c], 1, n))
            /\ HelloFirst(wire[c]) => HelloFirst(SubSeq(wire[c], 1, n))
        BY <3>1, <4>1, 1 \in Nat \ {0}, SliceFrom
      <4> QED
        BY <3>1, <4>1, <4>2
    <3>3. CASE c # conn[d]
      BY <2>1, <3>1, <3>3 DEF TypeInv, TypeOK, NetTypeOK
    <3> QED
      BY <3>2, <3>3
  <2> QED
    BY <2>2 DEF WireInv
<1>5. ASSUME UNCHANGED wire
      PROVE  WireInv' /\ (HelloFree(wire[sess]) /\ sess \in Conn => HelloFree(wire'[sess]))
  BY <1>5 DEF WireInv
<1>6. ASSUME NEW d \in Device, Probe(d) \/ OnConfig(d) \/ PauseOrResume(d) \/ Leave(d)
      PROVE  UNCHANGED wire
  BY <1>6 DEF Probe, OnConfig, PauseOrResume, Leave, net
<1>7. ASSUME NEW c \in Conn, LostTimesOut(c)
      PROVE  UNCHANGED wire
  BY <1>7 DEF LostTimesOut
<1> QED
  BY <1>2, <1>3, <1>4, <1>5, <1>6, <1>7 DEF Devices

\* A step of the main thread or of the stdin thread keeps OwnInv.
LEMMA StreamerOwn ==
  ASSUME TypeInv, OwnInv, Session \/ Streamer \/ StdinEof \/ Exit
  PROVE  OwnInv'
<1> USE DEF OwnInv
<1>a. buf \in Seq(Msg) /\ (phase \notin {"accept", "exited"} => sess \in Conn)
  BY DEF TypeInv, TypeOK, HostTypeOK, Serving
<1>m. ASSUME buf # <<>>
      PROVE  /\ From(buf, sess) => From(Tail(buf), sess) /\ Head(buf).conn = sess
             /\ HelloFree(buf) => HelloFree(Tail(buf)) /\ (IsHello(Head(buf)) => Head(buf).conn = 0)
             /\ HelloFirst(buf) => HelloFirst(Tail(buf)) /\ HelloFree(Tail(buf))
  BY <1>a, <1>m, TailFrom
<1>e. ~Misreading => \A i \in 1..Len(buf) : buf[i].conn # 0
  BY DEF Misreading
\* Dropping the head leaves nothing misread behind.
<1>d. ASSUME buf # <<>>, buf' = Tail(buf)
      PROVE  ~Misreading' /\ (Head(buf).conn = 0 => Misreading)
  <2>1. Len(buf) \in Nat \ {0} /\ Len(Tail(buf)) = Len(buf) - 1 /\ Head(buf) = buf[1]
    BY <1>a, <1>d, HeadTailProperties, EmptySeq
  <2>2. \A i \in 1..Len(Tail(buf)) : Tail(buf)[i] = buf[i + 1] /\ i + 1 \in 1..Len(buf)
    BY <1>a, <1>d, <2>1, HeadTailProperties
  <2>3. Head(buf).conn = 0 => Misreading
    <3>1. 1 \in 1..Len(buf)
      BY <2>1
    <3> QED
      BY <2>1, <3>1 DEF Misreading
  <2>4. CASE Misreading
    <3>1. Tail(buf) = <<>> /\ Len(<<>>) = 0
      BY <2>4 DEF MisreadInv
    <3>2. Len(buf') = 0
      <4>1. buf' = <<>>
        BY <1>d, <3>1
      <4> QED
        BY <3>1, <4>1
    <3>3. ~Misreading'
      BY <3>2 DEF Misreading
    <3> QED
      BY <2>3, <3>3
  <2>5. CASE ~Misreading
    BY <1>d, <2>2, <2>3, <2>5 DEF Misreading
  <2> QED
    BY <2>4, <2>5
\* The invariant of what is misread follows from those of before when the
\* parser is left alone and the phase does not enter a session.
<1>k. ASSUME UNCHANGED <<sess, cut, buf, wire, torn>>,
             \/ phase' = phase
             \/ phase' = "accept" /\ phase \in Served \ {"dispatch"}
             \/ phase = "hello" /\ phase' = "accept" /\ buf = <<>>
             \/ phase' = "exited"
             \/ phase \in {"approve", "build"} /\ phase' \in Served
             \/ phase \in Streaming \ {"dispatch"} /\ phase' \in Streaming
             \/ phase = "dispatch" /\ phase' \in Streaming /\ buf = <<>>
      PROVE  OwnInv'
  <2>0. Misreading' <=> Misreading
    BY <1>k DEF Misreading
  <2>1. Misreading => buf # <<>>
    BY DEF Misreading
  <2>2. WireInv'
    BY <1>k DEF WireInv
  <2>3. phase' \in Served => phase \in Served
    BY <1>k DEF Served, Streaming
  <2>4. phase' # phase => phase' # "hello"
    BY <1>k DEF Served, Streaming
  <2>5. phase' \notin {"hello", "exited"} => HelloFree(buf)
    <3>1. CASE phase \notin {"hello", "exited"}
      BY <3>1 DEF BufInv
    <3>2. CASE phase' = phase
      BY <3>2 DEF BufInv
    <3>3. CASE buf = <<>>
      BY <3>3 DEF HelloFree
    <3> QED
      BY <1>k, <3>1, <3>2, <3>3 DEF Served, Streaming
  <2>6. BufInv' /\ HelloInv' /\ CutInv'
    BY <1>k, <2>3, <2>4, <2>5 DEF BufInv, HelloInv, CutInv, Stale
  <2>7. MisreadInv'
    BY <1>k, <2>0, <2>1, <2>3, <2>4 DEF MisreadInv, Stale, Served, Streaming
  <2> QED
    BY <2>2, <2>6, <2>7
<1>1. CASE AcceptClient
  <2>1. /\ phase = "accept" /\ phase' \in {"hello", "accept", "exited"}
        /\ UNCHANGED <<cut, buf, wire, torn>>
    BY <1>1 DEF AcceptClient, EndWithoutStream, rx, session, net
  <2>2. HelloFree(buf) /\ ~Misreading /\ ~Misreading'
    BY <2>1 DEF BufInv, MisreadInv, Misreading
  <2>3. phase' \notin Served
    BY <2>1 DEF Served, Streaming
  <2> QED
    BY <2>1, <2>2, <2>3 DEF WireInv, BufInv, HelloInv, CutInv, MisreadInv
<1>2. CASE HelloReceive
  <2>1. /\ Receive /\ buf = <<>> /\ UNCHANGED <<phase, sess>> /\ phase = "hello" /\ sess \in Conn
        /\ phase' \notin Served
    BY <1>2, <1>a DEF HelloReceive, Served, Streaming
  <2>2. From(<<>>, sess) /\ HelloFree(<<>>) /\ ~Misreading
    BY <2>1 DEF From, HelloFree, Misreading
  <2>3. /\ Misreading' => Stale /\ Tail(buf') = <<>>
        /\ Stale' => Stale
    BY <2>1, <2>2, ReceiveMisread
  <2>4. /\ WireInv'
        /\ ~Stale => From(buf', sess) /\ HelloFirst(buf')
        /\ ~Stale => HelloFree(buf') \/ HelloFree(wire'[sess])
        /\ Stale => HelloFree(buf')
        /\ Stale => HelloFree(wire'[sess]) \/ cut' = cut
    BY <2>1, <2>2, ReceiveFrom
  <2>5. BufInv' /\ HelloInv' /\ CutInv'
    BY <2>1, <2>3, <2>4 DEF BufInv, HelloInv, CutInv
  <2>6. MisreadInv'
    BY <2>1, <2>3, <2>4 DEF MisreadInv, Stale
  <2> QED
    BY <2>4, <2>5, <2>6
<1>4. CASE HelloDiscard
  <2>1. /\ phase = "hello" /\ phase' = "hello" /\ buf # <<>> /\ buf' = Tail(buf)
        /\ UNCHANGED <<sess, cut, wire, torn>>
    BY <1>4 DEF HelloDiscard, session, net
  <2>2. ~Misreading' /\ phase' \notin Served
    BY <1>d, <2>1 DEF Served, Streaming
  <2> QED
    BY <1>m, <2>1, <2>2 DEF WireInv, BufInv, HelloInv, CutInv, MisreadInv, Stale
<1>5. CASE HelloAccept
  <2>1. /\ phase = "hello" /\ phase' = "approve" /\ buf # <<>> /\ buf' = Tail(buf)
        /\ IsHello(Head(buf)) /\ UNCHANGED <<sess, cut, wire>>
        /\ sess \notin torn' => Head(buf).conn # 0
    BY <1>5 DEF HelloAccept, net
  <2>2. ~Misreading' /\ (Head(buf).conn = 0 => Misreading)
    BY <1>d, <2>1
  <2>3. Head(buf).conn # 0 =>
          From(Tail(buf), sess) /\ HelloFree(Tail(buf)) /\ HelloFree(wire[sess]) /\ ~Stale
    BY <1>m, <2>1 DEF HelloInv, CutInv
  <2>4. Head(buf).conn = 0 => Tail(buf) = <<>> /\ (HelloFree(wire[sess]) \/ Stale)
    BY <2>1, <2>2 DEF MisreadInv
  <2>5. HelloFree(<<>>)
    BY DEF HelloFree
  <2>6. WireInv' /\ BufInv' /\ HelloInv' /\ CutInv'
    BY <2>1, <2>3, <2>4, <2>5 DEF WireInv, BufInv, HelloInv, CutInv, Stale
  <2>7. MisreadInv'
    BY <2>1, <2>2, <2>3, <2>4 DEF MisreadInv, Stale
  <2> QED
    BY <2>6, <2>7
<1>8. CASE PollReceive
  <2>1. /\ Receive /\ UNCHANGED <<sess, torn>> /\ phase = "poll" /\ phase' = "dispatch"
        /\ sess \in Conn /\ phase \in Served
    BY <1>8, <1>a DEF PollReceive, session, Served, Streaming
  <2>2. ~Misreading /\ (Stale => buf = <<>>) /\ HelloFree(buf) /\ (HelloFree(wire[sess]) \/ Stale)
    BY <2>1 DEF BufInv, MisreadInv
  <2>3. /\ Misreading' => Tail(buf') = <<>>
        /\ Stale' => Stale /\ (buf' = <<>> \/ Tail(buf') = <<>>)
    BY <2>1, <2>2, ReceiveMisread
  <2>4. /\ WireInv' /\ HelloFree(buf')
        /\ HelloFree(wire[sess]) => HelloFree(wire'[sess])
        /\ ~Stale /\ From(buf, sess) => From(buf', sess)
        /\ Stale => HelloFree(wire'[sess]) \/ cut' = cut
    BY <2>1, <2>2, ReceiveFrom
  <2>5. BufInv' /\ HelloInv' /\ CutInv'
    BY <2>1, <2>3, <2>4 DEF BufInv, HelloInv, CutInv
  <2>6. MisreadInv'
    BY <2>1, <2>2, <2>3, <2>4 DEF MisreadInv, Stale
  <2> QED
    BY <2>4, <2>5, <2>6
<1>9. CASE HandleBye \/ HandleParams \/ HandleKeyframeRequest \/ HandleOrientation \/ HandleOther
  <2>1. /\ phase = "dispatch" /\ phase' \in {"dispatch", "loop"} /\ buf # <<>> /\ buf' = Tail(buf)
        /\ UNCHANGED <<sess, cut, wire, torn>>
    BY <1>9 DEF HandleBye, HandleParams, HandleKeyframeRequest, HandleOrientation,
                HandleOther, Next1, session, net
  <2>2. ~Misreading' /\ phase \in Served /\ phase' \in Served
    BY <1>d, <2>1 DEF Served, Streaming
  <2>3. Stale => Tail(buf) = <<>>
    BY <2>1, <2>2 DEF MisreadInv
  <2>4. WireInv' /\ BufInv' /\ HelloInv' /\ CutInv'
    BY <1>m, <2>1, <2>2 DEF WireInv, BufInv, HelloInv, CutInv, Stale
  <2>5. MisreadInv'
    BY <2>1, <2>2, <2>3 DEF MisreadInv, Stale
  <2> QED
    BY <2>4, <2>5
<1>3. CASE HelloEnds
  BY <1>3, <1>k DEF HelloEnds, EndWithoutStream, rx, session, net
<1>6. CASE Approve \/ BuildFails \/ Build
  BY <1>6, <1>k DEF Approve, BuildFails, Build, EndWithoutStream, rx, session, net, Served, Streaming
<1>7. CASE LoopTop \/ SkipFrame \/ EncodeFrame \/ PollIdle \/ PollPing \/ PollEof \/ Dispatched
  BY <1>7, <1>k DEF LoopTop, SkipFrame, EncodeFrame, PollIdle, PollPing, PollEof, Dispatched,
                    rx, session, net, Streaming
<1>10. CASE Flush
  BY <1>10, <1>k DEF Flush, AfterSession, rx, session, net, Served, Streaming
<1>11. CASE StdinEof \/ Exit
  BY <1>11, <1>k DEF StdinEof, Exit, rx, session, net
<1> QED
  BY <1>1, <1>2, <1>3, <1>4, <1>5, <1>6, <1>7, <1>8, <1>9, <1>10, <1>11
  DEF Session, Streamer

\* Every message poll_control acts on was written on the connection being
\* served, although parser_ is never reset: what an earlier client left there
\* holds no HELLO, so read_hello throws it away before a session begins, and
\* the remainder of a message swallows the new HELLO. Only where that remainder
\* is misread as a HELLO does a session begin that this is not promised of.
THEOREM OwnMessages == Spec => []OnlyOwnMessages
<1>1. Init => TypeInv /\ OwnInv
  <2>1. ASSUME Init PROVE OwnInv
    BY <2>1 DEF Init, OwnInv, WireInv, BufInv, HelloInv, CutInv, MisreadInv, Misreading, Stale,
                Served, Streaming, From, HelloFree, HelloFirst
  <2> QED
    BY <2>1, TypeInit
<1>2. TypeInv /\ OwnInv /\ [Next]_vars => (TypeInv /\ OwnInv)'
  <2>1. ASSUME TypeInv, OwnInv, Next PROVE OwnInv'
    BY <2>1, DevicesOwn, StreamerOwn DEF Next
  <2>2. ASSUME OwnInv, UNCHANGED vars PROVE OwnInv'
    BY <2>2 DEF OwnInv, WireInv, BufInv, HelloInv, CutInv, MisreadInv, Misreading, Stale,
                vars, host, rx, session, net
  <2> QED
    BY <2>1, <2>2, TypeStep
<1>3. OwnInv => OnlyOwnMessages
  BY DEF OwnInv, BufInv, Served, OnlyOwnMessages, From
<1> QED
  BY <1>1, <1>2, <1>3, PTL DEF Spec

----------------------------------------------------------------------------
(* The newest of a burst of StreamParams wins. *)

\* No StreamParams in s; the last StreamParams in s asks for r.
Free(s) == \A i \in 1..Len(s) : s[i].type # "params"
Carries(s, r) ==
  \E i \in 1..Len(s) : /\ s[i].type = "params" /\ s[i].val = r
                       /\ \A j \in 1..Len(s) : j > i => s[j].type # "params"

\* Splitting a sequence: what it asks for last is in the later part, or in the
\* earlier one and the later one asks for nothing.
LEMMA SliceParams ==
  ASSUME NEW s \in Seq(Msg), NEW n \in 0..Len(s), NEW r
  PROVE  LET t == SubSeq(s, 1, n)
             u == SubSeq(s, n + 1, Len(s))
         IN  /\ Free(s) => Free(t) /\ Free(u)
             /\ Carries(s, r) => Carries(u, r) \/ (Free(u) /\ Carries(t, r))
<1> DEFINE t == SubSeq(s, 1, n)
           u == SubSeq(s, n + 1, Len(s))
<1>1. Len(s) \in Nat /\ n \in Nat /\ n + 1 \in Nat \ {0} /\ Len(s) \in 0..Len(s)
  BY LenProperties
<1>2. Len(t) = n /\ \A i \in 1..n : t[i] = s[i]
  <2>1. /\ Len(t) = IF 1 <= n THEN n - 1 + 1 ELSE 0
        /\ \A i \in 1..(n - 1 + 1) : t[i] = s[1 + i - 1]
    BY <1>1, SliceType, 1 \in Nat \ {0}
  <2> QED
    BY <1>1, <2>1
<1>3. Len(u) = Len(s) - n /\ \A i \in 1..(Len(s) - n) : u[i] = s[n + i]
  <2>1. /\ Len(u) = IF n + 1 <= Len(s) THEN Len(s) - (n + 1) + 1 ELSE 0
        /\ \A i \in 1..(Len(s) - (n + 1) + 1) : u[i] = s[n + 1 + i - 1]
    BY <1>1, SliceType
  <2> QED
    BY <1>1, <2>1
<1> HIDE DEF t, u
<1>4. \A i \in 1..Len(u) : u[i] = s[n + i] /\ n + i \in 1..Len(s) /\ n + i > n
  BY <1>1, <1>3
<1>5. \A i \in 1..Len(t) : t[i] = s[i] /\ i \in 1..Len(s)
  BY <1>1, <1>2
<1>6. Free(s) => Free(t) /\ Free(u)
  BY <1>4, <1>5 DEF Free
<1>7. ASSUME NEW i \in 1..Len(s), s[i].type = "params", s[i].val = r,
             \A j \in 1..Len(s) : j > i => s[j].type # "params"
      PROVE  Carries(u, r) \/ (Free(u) /\ Carries(t, r))
  <2>1. CASE i <= n
    <3>1. Free(u)
      <4>1. \A j \in 1..Len(u) : n + j > i
        BY <1>1, <2>1
      <4> QED
        BY <1>4, <1>7, <4>1 DEF Free
    <3>2. Carries(t, r)
      <4>1. i \in 1..Len(t) /\ t[i] = s[i]
        BY <1>1, <1>2, <2>1
      <4>2. \A j \in 1..Len(t) : j > i => t[j].type # "params"
        BY <1>5, <1>7
      <4> QED
        BY <1>7, <4>1, <4>2 DEF Carries
    <3> QED
      BY <3>1, <3>2
  <2>2. CASE i > n
    <3>1. i - n \in 1..Len(u) /\ u[i - n] = s[i]
      BY <1>1, <1>3, <2>2
    <3>2. \A j \in 1..Len(u) : j > i - n => u[j].type # "params"
      BY <1>1, <1>4, <1>7
    <3> QED
      BY <1>7, <3>1, <3>2 DEF Carries
  <2> QED
    BY <1>1, <2>1, <2>2
<1> QED
  BY <1>6, <1>7 DEF Carries, t, u

\* Of two sequences in a row, the later one is asked first.
LEMMA ConcatParams ==
  ASSUME NEW s \in Seq(Msg), NEW t \in Seq(Msg), NEW r
  PROVE  /\ Free(s) /\ Free(t) => Free(s \o t)
         /\ Carries(t, r) => Carries(s \o t, r)
         /\ Carries(s, r) /\ Free(t) => Carries(s \o t, r)
<1> DEFINE q == s \o t
<1>1. /\ Len(s) \in Nat /\ Len(t) \in Nat /\ Len(q) = Len(s) + Len(t)
      /\ \A i \in 1..Len(s) : q[i] = s[i]
      /\ \A i \in 1..Len(t) : q[Len(s) + i] = t[i]
  BY ConcatProperties, LenProperties
<1>2. \A i \in 1..Len(q) :
        \/ i \in 1..Len(s) /\ q[i] = s[i]
        \/ i > Len(s) /\ i - Len(s) \in 1..Len(t) /\ q[i] = t[i - Len(s)]
  BY <1>1
<1> HIDE DEF q
<1>3. Free(s) /\ Free(t) => Free(q)
  BY <1>2 DEF Free
<1>4. ASSUME NEW i \in 1..Len(t), t[i].type = "params", t[i].val = r,
             \A j \in 1..Len(t) : j > i => t[j].type # "params"
      PROVE  Carries(q, r)
  <2>1. Len(s) + i \in 1..Len(q) /\ q[Len(s) + i] = t[i]
    BY <1>1
  <2>2. ASSUME NEW j \in 1..Len(q), j > Len(s) + i PROVE q[j].type # "params"
    <3>1. ~(j \in 1..Len(s)) /\ j - Len(s) > i
      BY <1>1, <2>2
    <3> QED
      BY <1>2, <1>4, <3>1
  <2> QED
    BY <1>4, <2>1, <2>2 DEF Carries
<1>5. ASSUME NEW i \in 1..Len(s), s[i].type = "params", s[i].val = r,
             \A j \in 1..Len(s) : j > i => s[j].type # "params", Free(t)
      PROVE  Carries(q, r)
  <2>1. i \in 1..Len(q) /\ q[i] = s[i]
    BY <1>1
  <2>2. \A j \in 1..Len(q) : j > i => q[j].type # "params"
    BY <1>2, <1>5 DEF Free
  <2> QED
    BY <1>5, <2>1, <2>2 DEF Carries
<1> QED
  BY <1>3, <1>4, <1>5 DEF Carries, q

\* The head of a sequence is what it asks for only if nothing behind it asks.
LEMMA TailParams ==
  ASSUME NEW s \in Seq(Msg), s # <<>>, NEW r
  PROVE  /\ Free(s) => Free(Tail(s)) /\ Head(s).type # "params"
         /\ Carries(s, r) =>
              \/ Carries(Tail(s), r)
              \/ Free(Tail(s)) /\ Head(s).type = "params" /\ Head(s).val = r
<1>1. Len(s) \in Nat \ {0} /\ Len(Tail(s)) = Len(s) - 1 /\ Head(s) = s[1]
  BY HeadTailProperties, EmptySeq
<1>2. \A i \in 1..Len(Tail(s)) : Tail(s)[i] = s[i + 1] /\ i + 1 \in 1..Len(s) /\ i + 1 > 1
  BY <1>1, HeadTailProperties
<1>3. 1 \in 1..Len(s)
  BY <1>1
<1>4. Free(s) => Free(Tail(s)) /\ Head(s).type # "params"
  BY <1>1, <1>2, <1>3, SMT DEF Free
<1>5. ASSUME NEW i \in 1..Len(s), s[i].type = "params", s[i].val = r,
             \A j \in 1..Len(s) : j > i => s[j].type # "params"
      PROVE  \/ Carries(Tail(s), r)
             \/ Free(Tail(s)) /\ Head(s).type = "params" /\ Head(s).val = r
  <2>1. CASE i = 1
    BY <1>1, <1>2, <1>5, <2>1 DEF Free
  <2>2. CASE i > 1
    <3>1. i - 1 \in 1..Len(Tail(s)) /\ Tail(s)[i - 1] = s[i]
      BY <1>1, <1>2, <2>2
    <3>2. \A j \in 1..Len(Tail(s)) : j > i - 1 => Tail(s)[j].type # "params"
      BY <1>1, <1>2, <1>5
    <3> QED
      BY <1>5, <3>1, <3>2 DEF Carries
  <2> QED
    BY <1>1, <2>1, <2>2
<1> QED
  BY <1>4, <1>5 DEF Carries

\* A message appended asks last, or changes nothing of what is asked.
LEMMA AppendParams ==
  ASSUME NEW s \in Seq(Msg), NEW m \in Msg, NEW r
  PROVE  /\ m.type = "params" => Carries(Append(s, m), m.val)
         /\ m.type # "params" /\ Free(s) => Free(Append(s, m))
         /\ m.type # "params" /\ Carries(s, r) => Carries(Append(s, m), r)
<1> DEFINE q == Append(s, m)
<1>1. /\ Len(s) \in Nat /\ Len(q) = Len(s) + 1 /\ q[Len(q)] = m
      /\ \A i \in 1..Len(s) : q[i] = s[i]
  BY LenProperties
<1> HIDE DEF q
<1>2. m.type = "params" => Carries(q, m.val)
  <2>1. Len(q) \in 1..Len(q) /\ \A j \in 1..Len(q) : ~(j > Len(q))
    BY <1>1
  <2> QED
    BY <1>1, <2>1 DEF Carries
<1>3. \A i \in 1..Len(q) : i \in 1..Len(s) \/ q[i] = m
  BY <1>1
<1>4. m.type # "params" /\ Free(s) => Free(q)
  BY <1>1, <1>3 DEF Free
<1>5. m.type # "params" /\ Carries(s, r) => Carries(q, r)
  <2>1. 1..Len(s) \subseteq 1..Len(q)
    BY <1>1
  <2> QED
    BY <1>1, <1>3, <2>1 DEF Carries
<1> QED
  BY <1>2, <1>4, <1>5 DEF q

\* A connection the streamer has not accepted was asked for nothing on.
WantInv == \A c \in Conn : c > sess => asked[c] = 0

\* Where the rate r, asked for last, is: behind everything on the wire, or
\* behind everything parsed, or latched, or applied, or refused by the encoder;
\* or the HELLO is lost and this connection will never be streamed to, but on
\* one that is misread.
RateOnItsWay(r) ==
  \/ r = 0
  \/ Carries(wire[sess], r)
  \/ Free(wire[sess]) /\ Carries(buf, r) /\ (phase = "hello" => IsHello(Head(buf)))
  \/ phase = "hello" /\ HelloFree(wire[sess]) /\ HelloFree(buf)
  \/ /\ phase \in Streaming /\ Free(wire[sess]) /\ Free(buf)
     /\ \/ pending = r
        \/ pending = 0 /\ (rate = r \/ refused)

Promised == phase = "hello" \/ (phase \in Served /\ sess \notin torn)

RateInv == Promised /\ chan /\ link[sess] = "up" => RateOnItsWay(asked[sess])

ParamsInv == WantInv /\ RateInv

\* An aligned chunk moves what is asked from the wire to the parser.
LEMMA ReceiveParams ==
  ASSUME TypeInv, sess \in Conn, Receive, cut \in {0, sess}, NEW r
  PROVE  /\ cut' \in {0, sess}
         /\ Free(wire[sess]) => Free(wire'[sess])
         /\ Free(wire[sess]) /\ Free(buf) => Free(buf')
         /\ Free(wire[sess]) /\ Carries(buf, r) => Carries(buf', r)
         /\ Carries(wire[sess], r) =>
              Carries(wire'[sess], r) \/ (Free(wire'[sess]) /\ Carries(buf', r))
<1> DEFINE w == wire[sess]
<1>1. w \in Seq(Msg) /\ buf \in Seq(Msg) /\ Len(w) \in Nat
  BY LenProperties DEF TypeInv, TypeOK, HostTypeOK, NetTypeOK
<1>2. PICK n \in 0..Len(w), part \in BOOLEAN :
        /\ buf' = buf \o SubSeq(w, 1, n)
        /\ wire' = [wire EXCEPT ![sess] = SubSeq(w, n + 1, Len(w))]
        /\ cut' = IF part THEN sess ELSE 0
  BY DEF Receive
<1>3. wire'[sess] = SubSeq(w, n + 1, Len(w))
  BY <1>2 DEF TypeInv, TypeOK, NetTypeOK
<1> DEFINE t == SubSeq(w, 1, n)
<1>4. t \in Seq(Msg)
  BY <1>1, SliceType, 1 \in Nat \ {0}
<1>5. /\ Free(w) => Free(t) /\ Free(wire'[sess])
      /\ Carries(w, r) => Carries(wire'[sess], r) \/ (Free(wire'[sess]) /\ Carries(t, r))
  BY <1>1, <1>3, SliceParams
<1>6. /\ Free(buf) /\ Free(t) => Free(buf')
      /\ Carries(t, r) => Carries(buf', r)
      /\ Carries(buf, r) /\ Free(t) => Carries(buf', r)
  BY <1>1, <1>2, <1>4, ConcatParams
<1> HIDE DEF t
<1> QED
  BY <1>2, <1>5, <1>6

\* A step that only moves the wire, keeping what it asks for, keeps RateInv.
LEMMA RateKept ==
  ASSUME RateInv, UNCHANGED <<phase, sess, torn, chan, buf, pending, rate, refused>>,
         phase \in Served \cup {"hello"} =>
           /\ asked'[sess] = asked[sess]
           /\ link'[sess] = "up" =>
                /\ link[sess] = "up"
                /\ Free(wire[sess]) => Free(wire'[sess])
                /\ HelloFree(wire[sess]) => HelloFree(wire'[sess])
                /\ Carries(wire[sess], asked[sess]) => Carries(wire'[sess], asked[sess])
  PROVE  RateInv'
<1> SUFFICES ASSUME Promised, chan, link'[sess] = "up"
             PROVE  RateOnItsWay(asked[sess])'
  BY DEF RateInv, Promised
<1>2. phase \in Served \cup {"hello"}
  BY DEF Promised
<1>1. RateOnItsWay(asked[sess])
  BY <1>2 DEF RateInv
<1> QED
  BY <1>1, <1>2 DEF RateOnItsWay

\* A write of something else asks for nothing.
LEMMA WriteParams ==
  ASSUME TypeInv, NEW d \in Device, NEW type \in MsgType \ {"hello", "params"}, NEW v \in Nat,
         Write(d, type, v), NEW c \in Conn, NEW r
  PROVE  /\ Free(wire[c]) => Free(wire'[c])
         /\ HelloFree(wire[c]) => HelloFree(wire'[c])
         /\ Carries(wire[c], r) => Carries(wire'[c], r)
<1>1. CASE conn[d] # 0 /\ conn[d] = sess /\ chan /\ c = conn[d]
  <2> DEFINE m == [type |-> type, conn |-> conn[d], val |-> v]
  <2>1. m \in Msg /\ m.type # "hello" /\ m.type # "params"
    BY <1>1 DEF TypeInv, TypeOK, DeviceTypeOK, Conn, Msg
  <2>2. wire' = [wire EXCEPT ![conn[d]] = Append(@, m)]
    BY <1>1 DEF Write
  <2> HIDE DEF m
  <2>3. wire[c] \in Seq(Msg) /\ wire'[c] = Append(wire[c], m)
    BY <1>1, <2>2 DEF TypeInv, TypeOK, NetTypeOK
  <2>4. HelloFree(wire[c]) => HelloFree(Append(wire[c], m))
    BY <2>1, <2>3, AppendFrom
  <2> QED
    BY <2>1, <2>3, <2>4, AppendParams
<1>2. CASE ~(conn[d] # 0 /\ conn[d] = sess /\ chan /\ c = conn[d])
  <2>1. wire'[c] = wire[c]
    BY <1>2 DEF Write, TypeInv, TypeOK, NetTypeOK
  <2> QED
    BY <2>1
<1> QED
  BY <1>1, <1>2

\* A step of a device or of the network keeps ParamsInv.
LEMMA DevicesParams ==
  ASSUME TypeInv, ParamsInv, Devices
  PROVE  ParamsInv'
<1>h. UNCHANGED <<phase, sess, torn, chan, buf, cut, pending, rate>>
  BY DevicesKeepHost DEF host, rx, session, latches
<1>s. phase \in Served \cup {"hello"} => sess \in Conn
  BY DEF TypeInv, Serving, Served, Streaming
<1> USE DEF ParamsInv
<1>1. ASSUME NEW d \in Device, Dial(d)
      PROVE  WantInv' /\ RateInv'
  <2> DEFINE c == Len(owner) + 1
             m == [type |-> "hello", conn |-> c, val |-> HelloCode(d)]
  <2>1. wire' = [wire EXCEPT ![c] = <<m>>] /\ UNCHANGED <<link, asked, refused>> /\ sess # c
    BY <1>1, LenProperties DEF Dial, TypeInv, TypeOK, HostTypeOK, DeviceTypeOK, hist
  <2> HIDE DEF m, c
  <2>2. sess \in Conn => wire'[sess] = wire[sess]
    BY <2>1 DEF TypeInv, TypeOK, NetTypeOK
  <2> QED
    BY <1>h, <1>s, <2>1, <2>2, RateKept DEF WantInv
<1>2. ASSUME NEW d \in Device, SendStreamParams(d)
      PROVE  WantInv' /\ RateInv'
  <2>1. PICK r \in Rate : Write(d, "params", r) /\ asked' = [asked EXCEPT ![conn[d]] = r]
    BY <1>2 DEF SendStreamParams
  <2>2. conn[d] # 0 /\ conn[d] = sess /\ chan /\ r \in Nat /\ sess \in Conn
    BY <1>2, ServerAssumption
    DEF SendStreamParams, Sending, TypeInv, TypeOK, HostTypeOK, Conn
  <2> DEFINE m == [type |-> "params", conn |-> conn[d], val |-> r]
  <2>3. m \in Msg /\ m.type = "params" /\ m.val = r
    BY <2>2 DEF Msg, MsgType
  <2>4. wire' = [wire EXCEPT ![conn[d]] = Append(@, m)]
    BY <2>1, <2>2 DEF Write
  <2> HIDE DEF m
  <2>5. wire'[sess] = Append(wire[sess], m) /\ wire[sess] \in Seq(Msg) /\ asked'[sess] = r
    BY <2>1, <2>2, <2>4 DEF TypeInv, TypeOK, NetTypeOK, HistTypeOK
  <2>6. Carries(wire'[sess], asked'[sess])
    BY <2>3, <2>5, AppendParams
  <2>7. RateInv'
    BY <1>h, <2>6 DEF RateInv, Promised, RateOnItsWay
  <2>8. WantInv'
    BY <1>h, <2>1, <2>2 DEF WantInv, TypeInv, TypeOK, HistTypeOK, Conn, HostTypeOK
  <2> QED
    BY <2>7, <2>8
<1>3. ASSUME NEW d \in Device, Rotate(d) \/ SendOther(d) \/ SendBye(d) \/ SendEcho(d)
      PROVE  WantInv' /\ RateInv'
  <2>1. \E type \in MsgType \ {"hello", "params"}, v \in Nat : Write(d, type, v)
    <3>1. CASE Rotate(d)
      <4>1. \A k \in Code : k \in Nat
        BY ServerAssumption
      <4> QED
        BY <3>1, <4>1 DEF Rotate, MsgType
    <3>2. CASE SendOther(d)
      BY <3>2, ServerAssumption DEF SendOther, MsgType
    <3>3. CASE SendBye(d)
      BY <3>3 DEF SendBye, MsgType
    <3>4. CASE SendEcho(d)
      BY <3>4 DEF SendEcho, MsgType, TypeInv, TypeOK, DeviceTypeOK
    <3> QED
      BY <1>3, <3>1, <3>2, <3>3, <3>4
  <2>2. UNCHANGED <<link, asked, refused>>
    BY <1>3 DEF Rotate, SendOther, SendBye, SendEcho, hist
  <2>3. ASSUME sess \in Conn
        PROVE  /\ Free(wire[sess]) => Free(wire'[sess])
               /\ HelloFree(wire[sess]) => HelloFree(wire'[sess])
               /\ Carries(wire[sess], asked[sess]) => Carries(wire'[sess], asked[sess])
    BY <2>1, <2>3, WriteParams
  <2> QED
    BY <1>h, <1>s, <2>2, <2>3, RateKept DEF WantInv
<1>4. ASSUME NEW d \in Device, Drop(d)
      PROVE  WantInv' /\ RateInv'
  <2>1. PICK n \in 0..Len(wire[conn[d]]) :
          wire' = [wire EXCEPT ![conn[d]] = SubSeq(wire[conn[d]], 1, n)]
    BY <1>4 DEF Drop
  <2>2. PICK l \in {"rst", "lost"} : link' = [link EXCEPT ![conn[d]] = l]
    BY <1>4 DEF Drop
  <2>3. UNCHANGED <<asked, refused>>
    BY <1>4 DEF Drop
  <2>4. sess \in Conn /\ link'[sess] = "up" => link[sess] = "up" /\ wire'[sess] = wire[sess]
    BY <2>1, <2>2 DEF TypeInv, TypeOK, NetTypeOK
  <2> QED
    BY <1>h, <1>s, <2>3, <2>4, RateKept DEF WantInv
<1>5. ASSUME UNCHANGED <<wire, asked, refused>>,
             sess \in Conn /\ link'[sess] = "up" => link[sess] = "up"
      PROVE  WantInv' /\ RateInv'
  BY <1>5, <1>h, <1>s, RateKept DEF WantInv
<1>6. ASSUME NEW d \in Device, Probe(d) \/ OnConfig(d) \/ PauseOrResume(d) \/ Leave(d)
      PROVE  /\ UNCHANGED <<wire, asked, refused>>
             /\ sess \in Conn /\ link'[sess] = "up" => link[sess] = "up"
  BY <1>6 DEF Probe, OnConfig, PauseOrResume, Leave, net, hist, TypeInv, TypeOK, NetTypeOK
<1>7. ASSUME NEW c \in Conn, LostTimesOut(c)
      PROVE  /\ UNCHANGED <<wire, asked, refused>>
             /\ sess \in Conn /\ link'[sess] = "up" => link[sess] = "up"
  BY <1>7 DEF LostTimesOut, hist, TypeInv, TypeOK, NetTypeOK
<1> QED
  BY <1>1, <1>2, <1>3, <1>4, <1>5, <1>6, <1>7 DEF Devices

\* A send never opens the channel nor revives a link.
LEMMA SendKeeps ==
  ASSUME TypeInv, Send \/ SendNothing
  PROVE  (chan' => chan) /\ (sess \in Conn /\ link'[sess] = "up" => link[sess] = "up")
BY DEF Send, SendNothing, TypeInv, TypeOK, NetTypeOK

\* A chunk that is received with the HELLO at the head of the wire begins with it.
LEMMA HelloLeads ==
  ASSUME TypeInv, sess \in Conn, Receive, cut \in {0, sess}, buf = <<>>,
         HelloFirst(wire[sess]), ~HelloFree(wire[sess])
  PROVE  buf' # <<>> => IsHello(Head(buf'))
<1> DEFINE w == wire[sess]
<1>1. w \in Seq(Msg) /\ Len(w) \in Nat
  BY LenProperties DEF TypeInv, TypeOK, NetTypeOK
<1>2. PICK n \in 0..Len(w) : buf' = buf \o SubSeq(w, 1, n)
  BY DEF Receive
<1>3. SubSeq(w, 1, n) \in Seq(Msg) /\ \A i \in 1..(n - 1 + 1) : SubSeq(w, 1, n)[i] = w[1 + i - 1]
  BY <1>1, SliceType, 1 \in Nat \ {0}
<1>4. buf' = SubSeq(w, 1, n)
  BY <1>2, <1>3, ConcatEmptySeq
<1>5. CASE n = 0
  BY <1>4, <1>5, SubSeqEmpty
<1>6. CASE n > 0
  <2>1. 1 \in 1..(n - 1 + 1) /\ 1 + 1 - 1 = 1
    BY <1>6
  <2>2. buf'[1] = w[1]
    BY <1>3, <1>4, <2>1
  <2>3. w[1].type = "hello"
    BY DEF HelloFirst, HelloFree
  <2>4. Head(buf') = buf'[1]
    OBVIOUS
  <2> QED
    BY <2>2, <2>3, <2>4 DEF IsHello
<1> QED
  BY <1>1, <1>5, <1>6

\* A step of the main thread or of the stdin thread keeps ParamsInv.
LEMMA StreamerParams ==
  ASSUME TypeInv, OwnInv, ParamsInv, Session \/ Streamer \/ StdinEof \/ Exit
  PROVE  ParamsInv'
<1>a. /\ buf \in Seq(Msg) /\ sess \in 0..MaxConn
      /\ phase \notin {"accept", "exited"} => sess \in Conn
  BY DEF TypeInv, TypeOK, HostTypeOK, Serving
<1>t. ASSUME buf # <<>>
      PROVE  /\ HelloFree(buf) => HelloFree(Tail(buf)) /\ (IsHello(Head(buf)) => Head(buf).conn = 0)
             /\ Free(buf) => Free(Tail(buf)) /\ Head(buf).type # "params"
             /\ \A r : Carries(buf, r) =>
                  \/ Carries(Tail(buf), r)
                  \/ Free(Tail(buf)) /\ Head(buf).type = "params" /\ Head(buf).val = r
  BY <1>a, <1>t, TailFrom, TailParams
<1>e. ~Carries(<<>>, asked[sess])
  BY DEF Carries
<1>f. ASSUME UNCHANGED <<sess, asked>> PROVE WantInv'
  BY <1>f DEF ParamsInv, WantInv
<1> USE DEF ParamsInv
<1>1. CASE AcceptClient
  <2>0. sess' = sess + 1 /\ UNCHANGED <<asked, buf, cut>> /\ phase = "accept"
    BY <1>1 DEF AcceptClient, hist, rx
  <2>1. sess' = sess + 1 /\ sess' \in Conn /\ UNCHANGED <<asked, buf, cut>> /\ phase = "accept"
    <3>1. sess < Len(owner) /\ Len(owner) \in Nat /\ Len(owner) <= MaxConn
      BY <1>1, LenProperties DEF AcceptClient, ClientWaiting, TypeInv, TypeOK, DeviceTypeOK
    <3> QED
      BY <1>a, <2>0, <3>1, ServerAssumption DEF Conn
  <2>2. WantInv'
    BY <1>a, <2>1 DEF WantInv, Conn
  <2>3. asked'[sess'] = 0
    BY <1>a, <2>1 DEF WantInv, Conn
  <2>4. RateInv'
    BY <2>3 DEF RateInv, RateOnItsWay
  <2> QED
    BY <2>2, <2>4
<1>2. CASE HelloReceive
  <2>1. /\ Receive /\ buf = <<>> /\ phase = "hello" /\ sess \in Conn /\ WireInv
        /\ UNCHANGED <<phase, sess, chan, link, asked>>
    BY <1>2, <1>a DEF HelloReceive, hist, OwnInv
  <2>2. HelloFree(<<>>)
    BY DEF HelloFree
  <2>3. CASE HelloFree(wire[sess])
    <3>1. HelloFree(wire'[sess]) /\ HelloFree(buf')
      BY <2>1, <2>2, <2>3, ReceiveFrom
    <3> QED
      BY <1>f, <2>1, <3>1 DEF RateInv, RateOnItsWay
  <2>4. CASE ~HelloFree(wire[sess])
    <3>1. ASSUME chan, link[sess] = "up", asked[sess] # 0
          PROVE  RateOnItsWay(asked[sess])'
      <4>1. Carries(wire[sess], asked[sess])
        BY <1>e, <2>1, <2>4, <3>1 DEF RateInv, Promised, RateOnItsWay, Streaming
      <4>2. CASE Stale
        <5>1. HelloFree(buf')
          BY <2>1, <2>2, <4>2, ReceiveFrom
        <5>2. HelloFree(wire'[sess]) \/ wire'[sess] = wire[sess]
          BY <2>1, <4>2, ReceiveFrom
        <5> QED
          BY <2>1, <4>1, <5>1, <5>2 DEF RateOnItsWay
      <4>3. CASE ~Stale
        <5>1. cut \in {0, sess}
          BY <4>3 DEF Stale
        <5>2. \/ Carries(wire'[sess], asked[sess])
              \/ Free(wire'[sess]) /\ Carries(buf', asked[sess])
          BY <2>1, <4>1, <5>1, ReceiveParams
        <5>3. buf' # <<>> => IsHello(Head(buf'))
          BY <2>1, <2>4, <5>1, HelloLeads DEF WireInv
        <5>4. Carries(buf', asked[sess]) => buf' # <<>>
          BY <1>e
        <5> QED
          BY <2>1, <5>2, <5>3, <5>4 DEF RateOnItsWay
      <4> QED
        BY <4>2, <4>3
    <3>2. RateInv'
      BY <2>1, <3>1 DEF RateInv, RateOnItsWay
    <3> QED
      BY <1>f, <2>1, <3>2
  <2> QED
    BY <2>3, <2>4
<1>3. CASE HelloEnds \/ Exit
  BY <1>3, <1>f DEF HelloEnds, Exit, EndWithoutStream, hist, RateInv, Promised, Served, Streaming
<1>4. CASE HelloDiscard
  <2>1. /\ buf # <<>> /\ ~IsHello(Head(buf)) /\ buf' = Tail(buf) /\ phase = "hello"
        /\ UNCHANGED <<phase, sess, torn, chan, cut, link, wire, asked>>
    BY <1>4 DEF HelloDiscard, hist, net, session
  <2>2. RateInv'
    BY <1>t, <2>1 DEF RateInv, Promised, RateOnItsWay, Streaming
  <2> QED
    BY <1>f, <2>1, <2>2
<1>5. CASE HelloAccept
  <2>1. /\ buf # <<>> /\ IsHello(Head(buf)) /\ buf' = Tail(buf)
        /\ phase = "hello" /\ phase' = "approve"
        /\ UNCHANGED <<sess, chan, link, wire, asked>>
        /\ sess \notin torn' => Head(buf).conn # 0
    BY <1>5 DEF HelloAccept, hist, net
  <2>2. Promised' => ~HelloFree(buf)
    BY <1>t, <2>1 DEF Promised
  <2>3. RateInv'
    BY <1>t, <2>1, <2>2 DEF RateInv, Promised, RateOnItsWay, Streaming, Served, IsHello
  <2> QED
    BY <1>f, <2>1, <2>3
<1>6. CASE Approve \/ BuildFails \/ Build
  <2>1. /\ phase \in {"approve", "build"} /\ UNCHANGED <<sess, torn, buf, cut, wire, asked>>
        /\ chan' => chan
        /\ link'[sess] = "up" => link[sess] = "up"
        /\ phase' \in Served \cup {"accept"} /\ (phase' = "accept" => ~chan')
    BY <1>6, <1>a, SendKeeps
    DEF Approve, BuildFails, Build, EndWithoutStream, hist, net, rx, session, Served, Streaming
  <2>2. RateInv'
    BY <2>1 DEF RateInv, Promised, RateOnItsWay, Served, Streaming
  <2> QED
    BY <1>f, <2>1, <2>2
<1>7. CASE LoopTop \/ SkipFrame \/ PollIdle \/ PollPing \/ PollEof \/ Dispatched \/ StdinEof
  <2>1. /\ UNCHANGED <<sess, torn, buf, cut, wire, asked, pending, rate, refused>>
        /\ chan' => chan
        /\ sess \in Conn /\ link'[sess] = "up" => link[sess] = "up"
        /\ phase' = phase \/ (phase \in Streaming /\ phase' \in Streaming)
    BY <1>7, SendKeeps
    DEF LoopTop, SkipFrame, PollIdle, PollPing, PollEof, Dispatched, StdinEof,
        hist, net, rx, session, latches, Streaming
  <2>2. RateInv'
    BY <1>a, <2>1 DEF RateInv, Promised, RateOnItsWay, Served, Streaming
  <2> QED
    BY <1>f, <2>1, <2>2
<1>8. CASE EncodeFrame
  <2>1. /\ UNCHANGED <<sess, torn, buf, cut, wire, asked>>
        /\ chan' => chan
        /\ link'[sess] = "up" => link[sess] = "up"
        /\ phase = "frame" /\ phase' = "poll" /\ pending' = 0
    BY <1>8, <1>a, SendKeeps DEF EncodeFrame, rx
  <2>2. ASSUME NEW r \in Nat \ {0}, pending = r \/ (pending = 0 /\ (rate = r \/ refused))
        PROVE  rate' = r \/ refused'
    <3>1. PICK opened \in BOOLEAN :
            /\ opened => pending # 0 /\ pending # rate
            /\ rate' = IF opened THEN pending ELSE rate
            /\ refused' = IF pending = 0 THEN refused
                                        ELSE pending # 0 /\ pending # rate /\ ~opened
      BY <1>8 DEF EncodeFrame
    <3>2. CASE pending = 0
      BY <2>2, <3>1, <3>2
    <3>3. CASE pending = r /\ opened
      BY <3>1, <3>3
    <3>4. CASE pending = r /\ ~opened
      <4>1. pending # 0
        BY <2>2, <3>4
      <4>2. rate' = rate /\ (refused' <=> pending # rate)
        BY <3>1, <3>4, <4>1
      <4> QED
        BY <3>4, <4>2
    <3> QED
      BY <2>2, <3>2, <3>3, <3>4
  <2>3. asked[sess] \in Nat
    BY <1>a, <2>1 DEF TypeInv, TypeOK, HistTypeOK
  <2>4. RateInv'
    BY <2>1, <2>2, <2>3 DEF RateInv, Promised, RateOnItsWay, Served, Streaming
  <2> QED
    BY <1>f, <2>1, <2>4
<1>9. CASE PollReceive
  <2>1. /\ Receive /\ phase = "poll" /\ phase' = "dispatch" /\ sess \in Conn
        /\ UNCHANGED <<sess, torn, chan, link, asked, pending, rate, refused>>
    BY <1>9, <1>a DEF PollReceive, hist, session, latches
  <2>2. ASSUME sess \notin torn
        PROVE  /\ Free(wire[sess]) => Free(wire'[sess])
               /\ Free(wire[sess]) /\ Free(buf) => Free(buf')
               /\ Free(wire[sess]) /\ Carries(buf, asked[sess]) => Carries(buf', asked[sess])
               /\ Carries(wire[sess], asked[sess]) =>
                    Carries(wire'[sess], asked[sess])
                    \/ (Free(wire'[sess]) /\ Carries(buf', asked[sess]))
    <3>1. cut \in {0, sess}
      BY <2>1, <2>2 DEF OwnInv, CutInv, Stale, Served, Streaming
    <3> QED
      BY <2>1, <3>1, ReceiveParams
  <2>3. RateInv'
    BY <2>1, <2>2 DEF RateInv, Promised, RateOnItsWay, Served, Streaming
  <2> QED
    BY <1>f, <2>1, <2>3
<1>10. CASE HandleBye
  BY <1>10, <1>f DEF HandleBye, Next1, hist, RateInv, Promised, Served, Streaming
<1>11. CASE HandleParams
  <2>1. /\ buf # <<>> /\ Head(buf).type = "params" /\ buf' = Tail(buf)
        /\ phase = "dispatch" /\ pending' = Head(buf).val
        /\ UNCHANGED <<phase, sess, torn, chan, cut, link, wire, asked, rate, refused>>
    BY <1>11 DEF HandleParams, Next1, Latched, hist, net, session
  <2>2. RateInv'
    BY <1>t, <2>1 DEF RateInv, Promised, RateOnItsWay, Served, Streaming
  <2> QED
    BY <1>f, <2>1, <2>2
<1>12. CASE HandleKeyframeRequest \/ HandleOrientation \/ HandleOther
  <2>1. /\ buf # <<>> /\ Head(buf).type # "params" /\ buf' = Tail(buf) /\ phase = "dispatch"
        /\ UNCHANGED <<phase, sess, torn, chan, cut, link, wire, asked, rate, pending, refused>>
    BY <1>12 DEF HandleKeyframeRequest, HandleOrientation, HandleOther, Next1, hist, net,
                 session, latches
  <2>2. RateInv'
    BY <1>t, <2>1 DEF RateInv, Promised, RateOnItsWay, Served, Streaming
  <2> QED
    BY <1>f, <2>1, <2>2
<1>13. CASE Flush
  BY <1>13, <1>f DEF Flush, AfterSession, RateInv, Promised, Served, Streaming
<1> QED
  BY <1>1, <1>2, <1>3, <1>4, <1>5, <1>6, <1>7, <1>8, <1>9, <1>10, <1>11, <1>12, <1>13
  DEF Session, Streamer

\* Once nothing the client asked for is on its way, the stream runs at the rate
\* it asked for last, unless the encoder refused it: through drops, bursts,
\* split chunks and reconnects, no request overtakes a later one. This holds of
\* every session that began on its client's HELLO, also when a part of an older
\* connection's message was left in the parser.
THEOREM LatestWins == Spec => []LatestParamsWin
<1> DEFINE IInv == TypeInv /\ OwnInv /\ ParamsInv
<1>1. Init => IInv
  <2>1. ASSUME Init PROVE OwnInv
    BY <2>1 DEF Init, OwnInv, WireInv, BufInv, HelloInv, CutInv, MisreadInv, Misreading, Stale,
                Served, Streaming, From, HelloFree, HelloFirst
  <2>2. ASSUME Init PROVE ParamsInv
    BY <2>2 DEF Init, ParamsInv, WantInv, RateInv, Promised, Served, Streaming
  <2> QED
    BY <2>1, <2>2, TypeInit
<1>2. IInv /\ [Next]_vars => IInv'
  <2>1. ASSUME TypeInv, OwnInv, ParamsInv, Next PROVE OwnInv' /\ ParamsInv'
    BY <2>1, DevicesOwn, StreamerOwn, DevicesParams, StreamerParams DEF Next
  <2>2. ASSUME OwnInv, ParamsInv, UNCHANGED vars PROVE OwnInv' /\ ParamsInv'
    <3>1. UNCHANGED <<phase, sess, torn, chan, buf, cut, pending, rate, refused, link, wire, asked>>
      BY <2>2 DEF vars, host, rx, session, latches, net, hist
    <3>2. OwnInv'
      BY <2>2, <3>1 DEF OwnInv, WireInv, BufInv, HelloInv, CutInv, MisreadInv, Misreading, Stale
    <3>3. ParamsInv'
      BY <2>2, <3>1 DEF ParamsInv, WantInv, RateInv, Promised, RateOnItsWay
    <3> QED
      BY <3>2, <3>3
  <2> QED
    BY <2>1, <2>2, TypeStep
<1>3. IInv => LatestParamsWin
  BY DEF ParamsInv, RateInv, Promised, RateOnItsWay, Carries, LatestParamsWin, Served, Streaming
<1> QED
  BY <1>1, <1>2, <1>3, PTL DEF Spec

----------------------------------------------------------------------------
(* No restart without a rotation. *)

Elems(s) == {s[i] : i \in 1..Len(s)}

\* Slices, remainders and concatenations hold no message of their own.
LEMMA SliceElems ==
  ASSUME NEW s \in Seq(Msg), NEW m \in Nat \ {0}, NEW n \in 0..Len(s)
  PROVE  Elems(SubSeq(s, m, n)) \subseteq Elems(s)
<1> DEFINE t == SubSeq(s, m, n)
<1>1. Len(s) \in Nat /\ Len(t) = (IF m <= n THEN n - m + 1 ELSE 0)
  BY SliceType, LenProperties
<1>2. ASSUME NEW i \in 1..Len(t) PROVE t[i] \in Elems(s)
  <2>1. i \in 1..(n - m + 1)
    BY <1>1, <1>2
  <2>2. t[i] = s[m + i - 1] /\ m + i - 1 \in 1..Len(s)
    BY <1>1, <2>1, SliceType
  <2> QED
    BY <2>2 DEF Elems
<1> QED
  BY <1>2 DEF Elems

LEMMA ConcatElems ==
  ASSUME NEW s \in Seq(Msg), NEW t \in Seq(Msg)
  PROVE  Elems(s \o t) \subseteq Elems(s) \cup Elems(t)
<1>1. Len(s) \in Nat /\ Len(t) \in Nat /\ Len(s \o t) = Len(s) + Len(t)
  BY ConcatProperties, LenProperties
<1>2. ASSUME NEW i \in 1..Len(s \o t)
      PROVE  \/ i \in 1..Len(s) /\ (s \o t)[i] = s[i]
             \/ i - Len(s) \in 1..Len(t) /\ (s \o t)[i] = t[i - Len(s)]
  BY <1>1, ConcatProperties
<1> QED
  BY <1>2 DEF Elems

LEMMA TailElems ==
  ASSUME NEW s \in Seq(Msg), s # <<>>
  PROVE  Head(s) \in Elems(s) /\ Elems(Tail(s)) \subseteq Elems(s)
<1>1. Len(s) \in Nat \ {0} /\ Len(Tail(s)) = Len(s) - 1 /\ Head(s) = s[1]
  BY HeadTailProperties, EmptySeq
<1>2. \A i \in 1..Len(Tail(s)) : Tail(s)[i] = s[i + 1] /\ i + 1 \in 1..Len(s)
  BY <1>1, HeadTailProperties
<1>3. 1 \in 1..Len(s)
  BY <1>1
<1> QED
  BY <1>1, <1>2, <1>3 DEF Elems

\* A chunk brings the parser messages of the wire, and at most one of nobody.
LEMMA ReceiveElems ==
  ASSUME TypeInv, sess \in Conn, Receive
  PROVE  /\ \A m \in Elems(buf') : m \in Elems(buf) \cup Elems(wire[sess]) \/ m.conn = 0
         /\ \A c \in Conn : Elems(wire'[c]) \subseteq Elems(wire[c])
<1> DEFINE w == wire[sess]
<1>1. w \in Seq(Msg) /\ buf \in Seq(Msg) /\ Len(w) \in Nat
  BY LenProperties DEF TypeInv, TypeOK, HostTypeOK, NetTypeOK
<1>2. PICK n \in 0..Len(w) :
        /\ wire' = [wire EXCEPT ![sess] = SubSeq(w, n + 1, Len(w))]
        /\ wire'[sess] = SubSeq(w, n + 1, Len(w))
        /\ \/ buf' = buf \o SubSeq(w, 1, n)
           \/ buf' = buf
           \/ \E m \in Misread : buf' = Append(buf, m)
           \/ \E k \in 2..(n + 1) : buf' = buf \o SubSeq(w, k, n)
  BY ReceiveCases
<1>3. ASSUME NEW k \in 1..(n + 1), buf' = buf \o SubSeq(w, k, n)
      PROVE  Elems(buf') \subseteq Elems(buf) \cup Elems(w)
  <2>1. SubSeq(w, k, n) \in Seq(Msg) /\ Elems(SubSeq(w, k, n)) \subseteq Elems(w)
    BY <1>1, SliceElems, SliceType
  <2>2. Elems(buf') \subseteq Elems(buf) \cup Elems(SubSeq(w, k, n))
    BY <1>1, <1>3, <2>1, ConcatElems
  <2> QED
    BY <2>1, <2>2
<1>4. ASSUME NEW c \in Conn PROVE Elems(wire'[c]) \subseteq Elems(wire[c])
  <2>1. CASE c = sess
    <3>1. n + 1 \in Nat \ {0} /\ Len(w) \in 0..Len(w)
      BY <1>1
    <3> QED
      BY <1>1, <1>2, <2>1, <3>1, SliceElems
  <2>2. CASE c # sess
    BY <1>2, <2>2 DEF TypeInv, TypeOK, NetTypeOK
  <2> QED
    BY <2>1, <2>2
<1>5. ASSUME NEW m \in Misread, buf' = Append(buf, m)
      PROVE  \A q \in Elems(buf') : q \in Elems(buf) \/ q.conn = 0
  <2>1. m \in Msg /\ m.conn = 0
    BY MisreadType
  <2>2. Len(buf) \in Nat /\ Len(buf') = Len(buf) + 1
    BY <1>1, <1>5, <2>1, LenProperties, AppendProperties
  <2>3. \A i \in 1..Len(buf') : (i \in 1..Len(buf) /\ buf'[i] = buf[i]) \/ buf'[i] = m
    BY <1>1, <1>5, <2>1, <2>2, AppendProperties
  <2> QED
    BY <2>1, <2>3 DEF Elems
<1>6. \A m \in Elems(buf') : m \in Elems(buf) \cup Elems(w) \/ m.conn = 0
  <2>1. 1 \in 1..(n + 1) /\ 2..(n + 1) \subseteq 1..(n + 1)
    BY <1>1
  <2> QED
    BY <1>2, <1>3, <1>5, <2>1
<1> QED
  BY <1>4, <1>6

\* A write adds its message to the wire of the session's connection, or nothing.
LEMMA WriteElems ==
  ASSUME TypeInv, NEW d \in Device, NEW type \in MsgType, NEW v \in Nat, Write(d, type, v),
         NEW c \in Conn, NEW m \in Elems(wire'[c])
  PROVE  \/ m \in Elems(wire[c])
         \/ conn[d] # 0 /\ m = [type |-> type, conn |-> conn[d], val |-> v]
<1>1. CASE conn[d] # 0 /\ conn[d] = sess /\ chan /\ c = conn[d]
  <2> DEFINE q == [type |-> type, conn |-> conn[d], val |-> v]
  <2>1. wire' = [wire EXCEPT ![conn[d]] = Append(@, q)]
    BY <1>1 DEF Write
  <2>2. q \in Msg
    BY <1>1 DEF TypeInv, TypeOK, DeviceTypeOK, Conn, Msg
  <2> HIDE DEF q
  <2>3. wire[c] \in Seq(Msg) /\ wire'[c] = Append(wire[c], q)
    BY <1>1, <2>1 DEF TypeInv, TypeOK, NetTypeOK
  <2>4. Len(wire[c]) \in Nat /\ Len(wire'[c]) = Len(wire[c]) + 1
    BY <2>3, LenProperties
  <2>5. \A i \in 1..Len(wire'[c]) : \/ i \in 1..Len(wire[c]) /\ wire'[c][i] = wire[c][i]
                                    \/ wire'[c][i] = q
    BY <2>2, <2>3, <2>4
  <2>6. m \in Elems(wire[c]) \/ m = q
    BY <2>5 DEF Elems
  <2> QED
    BY <1>1, <2>6 DEF q
<1>2. CASE ~(conn[d] # 0 /\ conn[d] = sess /\ chan /\ c = conn[d])
  <2>1. wire'[c] = wire[c]
    BY <1>2 DEF Write, TypeInv, TypeOK, NetTypeOK
  <2> QED
    BY <2>1
<1> QED
  BY <1>1, <1>2

\* HELLO says the code the device had when it dialled, and so does every
\* ORIENTATION on a connection that no rotation fell on; what nobody wrote
\* says nothing.
Told(m) == m.conn # 0 =>
  /\ m.conn \in 1..Len(owner)
  /\ m.type = "hello" => m.val = IF owner[m.conn] \in old THEN 0 ELSE said[m.conn]
  /\ m.type = "orient" /\ m.conn \notin turned => m.val = said[m.conn]

ToldInv ==
  /\ \A c \in Conn : \A m \in Elems(wire[c]) : Told(m)
  /\ \A m \in Elems(buf) : Told(m)

\* A device is on the last connection it dialled, and what it echoes is what it
\* said when it dialled, or a rotation fell on it since.
ConnInv == \A d \in Device :
  /\ conn[d] # 0 =>
       /\ conn[d] \in 1..Len(owner) /\ owner[conn[d]] = d
       /\ \A c \in 1..Len(owner) : owner[c] = d => c <= conn[d]
       /\ conn[d] \notin turned => echo[d] \in {NoCode, said[conn[d]]}
  /\ conn[d] = 0 => echo[d] = NoCode

\* No rotation fell on a connection of d from c on.
Quiet(d, c) == \A e \in c..Len(owner) : owner[e] = d => e \notin turned

\* Without a rotation a device says the same on every connection.
SaidInv ==
  /\ \A c \in 1..Len(owner) : Quiet(owner[c], c) => said[c] = code[owner[c]]
  /\ \A c, e \in 1..Len(owner) :
       c < e /\ (\A f \in c..e : owner[f] = owner[e] /\ f \notin turned) => said[c] = said[e]
  /\ turned \subseteq 1..Len(owner) /\ restarted <= sess

\* What the host knows: the code of the HELLO being served; after a restart,
\* the code that caused it, while the same old device is all it serves.
SeenInv ==
  /\ phase \in Served /\ sess \notin torn /\ owner[sess] \notin old => hello = said[sess]
  /\ phase \in Streaming /\ restart => ~Mirror
  /\ phase \in Streaming /\ restart /\ sess \notin turned \cup torn => liveOri = said[sess]
  /\ restarted # 0 /\ owner[sess] \in old /\ Steady(restarted) => liveOri = said[restarted]

\* The session's source was built for the code the device says.
Agrees ==
  /\ Dims[owner[sess]] # "square" /\ ~Mirror /\ sess \notin turned \cup torn
  /\ owner[sess] \in old => restarted # 0 /\ Steady(restarted)

ShapeInv ==
  phase \in Streaming /\ Agrees =>
    ~restart /\ (shape = "portrait" <=> OrientationIsPortrait(said[sess]))

LoopInv == ToldInv /\ ConnInv /\ SaidInv /\ SeenInv /\ ShapeInv

\* What a device's step leaves of the past.
LEMMA DevicesPast ==
  ASSUME TypeInv, Devices
  PROVE  /\ UNCHANGED <<old, restarted>> /\ UNCHANGED host
         /\ Len(owner) \in Nat /\ Len(owner') \in Nat /\ Len(owner') >= Len(owner)
         /\ \A c \in 1..Len(owner) : owner'[c] = owner[c] /\ said'[c] = said[c]
         /\ turned \subseteq turned'
<1>1. UNCHANGED host
  BY DevicesKeepHost
<1>2. owner \in Seq(Device) /\ Len(owner) \in Nat /\ said \in [Conn -> Nat]
  BY LenProperties DEF TypeInv, TypeOK, DeviceTypeOK, HistTypeOK
<1>3. ASSUME NEW d \in Device, Dial(d) \/ Probe(d)
      PROVE  /\ UNCHANGED <<old, restarted>>
             /\ Len(owner') \in Nat /\ Len(owner') >= Len(owner)
             /\ \A c \in 1..Len(owner) : owner'[c] = owner[c] /\ said'[c] = said[c]
             /\ turned \subseteq turned'
  <2>1. /\ owner' = Append(owner, d) /\ UNCHANGED <<old, restarted, turned>>
        /\ said' = [said EXCEPT ![Len(owner) + 1] = code[d]]
    BY <1>3 DEF Dial, Probe
  <2>2. Len(owner') = Len(owner) + 1 /\ \A c \in 1..Len(owner) : owner'[c] = owner[c]
    BY <1>2, <2>1
  <2>3. \A c \in 1..Len(owner) : said'[c] = said[c]
    <3>1. \A c \in 1..Len(owner) : c # Len(owner) + 1
      BY <1>2
    <3>2. Len(owner) <= MaxConn
      BY DEF TypeInv, TypeOK, DeviceTypeOK
    <3>3. 1..Len(owner) \subseteq Conn
      BY <1>2, <3>2, ServerAssumption DEF Conn
    <3> QED
      BY <1>2, <2>1, <3>1, <3>3
  <2> QED
    BY <1>2, <2>1, <2>2, <2>3
<1>4. ASSUME NEW d \in Device, Rotate(d)
      PROVE  UNCHANGED <<old, restarted, owner, said>> /\ turned \subseteq turned'
  BY <1>4 DEF Rotate
<1>5. ASSUME NEW d \in Device,
             \/ OnConfig(d) \/ SendEcho(d) \/ SendStreamParams(d) \/ SendOther(d) \/ SendBye(d)
             \/ PauseOrResume(d) \/ Leave(d) \/ Drop(d)
      PROVE  UNCHANGED <<old, restarted, owner, said, turned>>
  BY <1>5 DEF OnConfig, SendEcho, SendStreamParams, SendOther, SendBye, PauseOrResume, Leave,
              Drop, device, hist, causes
<1>6. ASSUME NEW c \in Conn, LostTimesOut(c)
      PROVE  UNCHANGED <<old, restarted, owner, said, turned>>
  BY <1>6 DEF LostTimesOut, device, hist, causes
<1> QED
  BY <1>1, <1>2, <1>3, <1>4, <1>5, <1>6 DEF Devices

\* What was told stays told.
LEMMA ToldKept ==
  ASSUME TypeInv, Devices, NEW m, Told(m)
  PROVE  Told(m)'
BY DevicesPast DEF Told

\* What a device's step puts on a wire is told.
LEMMA DevicesTold ==
  ASSUME TypeInv, ToldInv, ConnInv, SaidInv, Devices
  PROVE  ToldInv'
<1>b. UNCHANGED buf
  BY DevicesPast DEF host, rx
<1>k. ASSUME NEW m, Told(m) PROVE Told(m)'
  BY <1>k, ToldKept
<1>w. SUFFICES ASSUME NEW c \in Conn, NEW m \in Elems(wire'[c]), m \notin Elems(wire[c])
               PROVE  Told(m)'
  BY <1>b, <1>k DEF ToldInv
<1>1. ASSUME NEW d \in Device, Dial(d)
      PROVE  Told(m)'
  <2> DEFINE n == Len(owner) + 1
             q == [type |-> "hello", conn |-> n, val |-> HelloCode(d)]
  <2>1. /\ wire' = [wire EXCEPT ![n] = <<q>>] /\ owner' = Append(owner, d)
        /\ said' = [said EXCEPT ![n] = code[d]] /\ UNCHANGED old
        /\ n <= MaxConn
    BY <1>1, LenProperties, ServerAssumption DEF Dial, TypeInv, TypeOK, DeviceTypeOK
  <2>2. owner \in Seq(Device) /\ Len(owner) \in Nat /\ n \in Conn
    BY <2>1, LenProperties DEF TypeInv, TypeOK, DeviceTypeOK, Conn
  <2>3. n \in 1..Len(owner') /\ owner'[n] = d
    BY <2>1, <2>2
  <2>4. said'[n] = code[d]
    BY <2>1, <2>2 DEF TypeInv, TypeOK, HistTypeOK
  <2>5. q.conn = n /\ q.type = "hello" /\ q.val = IF d \in old THEN 0 ELSE code[d]
    BY DEF HelloCode
  <2> HIDE DEF n, q
  <2>6. c = n /\ wire'[c] = <<q>>
    BY <1>w, <2>1 DEF TypeInv, TypeOK, NetTypeOK
  <2>7. m = q
    BY <2>6 DEF Elems
  <2> QED
    BY <2>1, <2>3, <2>4, <2>5, <2>7 DEF Told
<1>2. ASSUME NEW d \in Device, Rotate(d)
      PROVE  Told(m)'
  <2>1. PICK k \in Code : Write(d, "orient", k)
    BY <1>2 DEF Rotate
  <2>2. k \in Nat /\ "orient" \in MsgType
    BY ServerAssumption DEF MsgType
  <2>3. conn[d] # 0 /\ m = [type |-> "orient", conn |-> conn[d], val |-> k]
    BY <1>w, <2>1, <2>2, WriteElems
  <2>4. conn[d] \in turned' /\ UNCHANGED owner
    BY <1>2, <2>3 DEF Rotate, RotatedOn
  <2> QED
    BY <2>3, <2>4 DEF Told, ConnInv
<1>3. ASSUME NEW d \in Device, SendEcho(d)
      PROVE  Told(m)'
  <2>1. Write(d, "orient", echo[d]) /\ echo[d] # NoCode /\ UNCHANGED <<owner, said, turned>>
    BY <1>3 DEF SendEcho, hist, causes
  <2>2. echo[d] \in Nat /\ "orient" \in MsgType
    BY DEF MsgType, TypeInv, TypeOK, DeviceTypeOK
  <2>3. conn[d] # 0 /\ m = [type |-> "orient", conn |-> conn[d], val |-> echo[d]]
    BY <1>w, <2>1, <2>2, WriteElems
  <2> QED
    BY <2>1, <2>3 DEF Told, ConnInv
<1>4. ASSUME NEW d \in Device, SendStreamParams(d) \/ SendOther(d) \/ SendBye(d)
      PROVE  Told(m)'
  <2>1. PICK type \in {"params", "key", "touch", "bye"}, v \in Nat : Write(d, type, v)
    <3>1. CASE SendStreamParams(d)
      <4>1. \A r \in Rate : r \in Nat
        BY ServerAssumption
      <4> QED
        BY <3>1, <4>1 DEF SendStreamParams
    <3>2. CASE SendOther(d)
      BY <3>2, ServerAssumption DEF SendOther
    <3>3. CASE SendBye(d)
      BY <3>3 DEF SendBye
    <3> QED
      BY <1>4, <3>1, <3>2, <3>3
  <2>2. type \in MsgType
    BY DEF MsgType
  <2>3. conn[d] # 0 /\ m = [type |-> type, conn |-> conn[d], val |-> v]
    BY <1>w, <2>1, <2>2, WriteElems
  <2>4. UNCHANGED owner
    BY <1>4 DEF SendStreamParams, SendOther, SendBye, device
  <2> QED
    BY <2>3, <2>4 DEF Told, ConnInv
<1>5. ASSUME NEW d \in Device, Drop(d)
      PROVE  FALSE
  <2>1. PICK n \in 0..Len(wire[conn[d]]) :
          wire' = [wire EXCEPT ![conn[d]] = SubSeq(wire[conn[d]], 1, n)]
    BY <1>5 DEF Drop
  <2>2. CASE c = conn[d]
    <3>1. wire'[c] = SubSeq(wire[c], 1, n) /\ wire[c] \in Seq(Msg)
      BY <2>1, <2>2 DEF TypeInv, TypeOK, NetTypeOK
    <3> QED
      BY <1>w, <2>1, <2>2, <3>1, SliceElems, 1 \in Nat \ {0}
  <2>3. CASE c # conn[d]
    BY <1>w, <2>1, <2>3 DEF TypeInv, TypeOK, NetTypeOK
  <2> QED
    BY <2>2, <2>3
<1>6. ASSUME NEW d \in Device, Probe(d) \/ OnConfig(d) \/ PauseOrResume(d) \/ Leave(d)
      PROVE  FALSE
  BY <1>w, <1>6 DEF Probe, OnConfig, PauseOrResume, Leave, net
<1>7. ASSUME NEW e \in Conn, LostTimesOut(e)
      PROVE  FALSE
  BY <1>w, <1>7 DEF LostTimesOut
<1> QED
  BY <1>1, <1>2, <1>3, <1>4, <1>5, <1>6, <1>7 DEF Devices

\* A device's step keeps where the devices are.
LEMMA DevicesConn ==
  ASSUME TypeInv, ConnInv, SaidInv, Devices
  PROVE  ConnInv'
<1>t. /\ owner \in Seq(Device) /\ Len(owner) \in Nat /\ said \in [Conn -> Nat]
      /\ conn \in [Device -> 0..MaxConn] /\ echo \in [Device -> Nat] /\ code \in [Device -> Code]
  BY LenProperties DEF TypeInv, TypeOK, DeviceTypeOK, HistTypeOK
<1>1. ASSUME NEW d \in Device, Dial(d)
      PROVE  ConnInv'
  <2> DEFINE n == Len(owner) + 1
  <2>1. /\ owner' = Append(owner, d) /\ conn' = [conn EXCEPT ![d] = n] /\ conn[d] = 0
        /\ said' = [said EXCEPT ![n] = code[d]] /\ UNCHANGED <<echo, turned>>
    BY <1>1 DEF Dial
  <2>2. Len(owner') = n /\ owner'[n] = d /\ \A c \in 1..Len(owner) : owner'[c] = owner[c]
    BY <1>t, <2>1
  <2>3. \A c \in 1..n : c # n => c \in 1..Len(owner)
    BY <1>t
  <2>l. Len(owner) \in Nat
    BY <1>t
  <2>4. n \in 1..n /\ n # 0 /\ (\A c \in 1..n : c <= n) /\ (\A c \in 1..Len(owner) : c \in 1..n /\ c # n)
    <3>1. n \in Nat \ {0}
      BY <1>t
    <3>2. \A c \in 1..Len(owner) : c # n
      BY <1>t
    <3>3. \A c \in 1..Len(owner) : c \in 1..n
      BY <2>l
    <3> HIDE DEF n
    <3> QED
      BY <3>1, <3>2, <3>3
  <2>5. \A c \in 1..Len(owner) : said'[c] = said[c]
    BY <1>1, <2>1, DevicesPast DEF Devices
  <2> HIDE DEF n
  <2>6. ASSUME NEW e \in Device, e = d
        PROVE  /\ conn'[e] \in 1..Len(owner') /\ owner'[conn'[e]] = e
               /\ \A c \in 1..Len(owner') : owner'[c] = e => c <= conn'[e]
               /\ echo'[e] = NoCode /\ conn'[e] # 0
    BY <1>t, <2>1, <2>2, <2>4, <2>6 DEF ConnInv
  <2>7. ASSUME NEW e \in Device, e # d
        PROVE  /\ conn'[e] # 0 =>
                    /\ conn'[e] \in 1..Len(owner') /\ owner'[conn'[e]] = e
                    /\ \A c \in 1..Len(owner') : owner'[c] = e => c <= conn'[e]
                    /\ conn'[e] \notin turned' => echo'[e] \in {NoCode, said'[conn'[e]]}
               /\ conn'[e] = 0 => echo'[e] = NoCode
    <3>1. conn'[e] = conn[e] /\ echo'[e] = echo[e] /\ turned' = turned
      BY <1>t, <2>1, <2>7
    <3>2. \A c \in 1..n : owner'[c] = e => c \in 1..Len(owner) /\ owner[c] = e
      BY <2>2, <2>3, <2>7
    <3> QED
      BY <2>2, <2>4, <2>5, <3>1, <3>2 DEF ConnInv
  <2> QED
    BY <2>6, <2>7 DEF ConnInv
<1>2. ASSUME NEW d \in Device, Probe(d)
      PROVE  ConnInv'
  <2> DEFINE n == Len(owner) + 1
  <2>1. /\ owner' = Append(owner, d) /\ conn[d] = 0 /\ UNCHANGED <<conn, echo, turned>>
    BY <1>2 DEF Probe
  <2>2. Len(owner') = n /\ owner'[n] = d /\ \A c \in 1..Len(owner) : owner'[c] = owner[c]
    BY <1>t, <2>1
  <2>3. /\ \A c \in 1..n : c # n => c \in 1..Len(owner)
        /\ \A c \in 1..Len(owner) : c \in 1..n
    <3>1. Len(owner) \in Nat
      BY <1>t
    <3>2. \A c \in 1..n : c # n => c \in 1..Len(owner)
      BY <3>1
    <3> QED
      BY <3>1, <3>2
  <2>5. \A c \in 1..Len(owner) : said'[c] = said[c]
    BY <1>2, <2>1, DevicesPast DEF Devices
  <2> HIDE DEF n
  <2>6. ASSUME NEW e \in Device, conn[e] # 0
        PROVE  \A c \in 1..n : owner'[c] = e => c \in 1..Len(owner) /\ owner[c] = e
    BY <2>1, <2>2, <2>3, <2>6
  <2> QED
    BY <2>1, <2>2, <2>3, <2>5, <2>6 DEF ConnInv
<1>3. ASSUME NEW d \in Device, Rotate(d)
      PROVE  ConnInv'
  <2>1. UNCHANGED <<owner, conn, echo, said>> /\ turned \subseteq turned'
    BY <1>3 DEF Rotate
  <2> QED
    BY <2>1 DEF ConnInv
<1>4. ASSUME NEW d \in Device, OnConfig(d)
      PROVE  ConnInv'
  <2>1. UNCHANGED <<owner, conn, said, turned>> /\ echo' = [echo EXCEPT ![d] = code[d]]
        /\ conn[d] # 0
    BY <1>4 DEF OnConfig, CodeRead, hist, causes
  <2>2. conn[d] \notin turned => said[conn[d]] = code[d]
    <3>1. conn[d] \in 1..Len(owner) /\ owner[conn[d]] = d
      BY <2>1 DEF ConnInv
    <3>2. \A e \in conn[d]..Len(owner) : owner[e] = d => e = conn[d]
      <4>1. \A c \in 1..Len(owner) : owner[c] = d => c <= conn[d]
        BY <2>1 DEF ConnInv
      <4> QED
        BY <1>t, <3>1, <4>1
    <3> QED
      BY <3>1, <3>2 DEF SaidInv, Quiet
  <2>3. \A e \in Device : e # d => echo'[e] = echo[e]
    BY <1>t, <2>1
  <2>4. echo'[d] = code[d]
    BY <1>t, <2>1
  <2> QED
    BY <2>1, <2>2, <2>3, <2>4 DEF ConnInv
<1>5. ASSUME NEW d \in Device, SendEcho(d)
      PROVE  ConnInv'
  <2>1. UNCHANGED <<owner, conn, said, turned>> /\ echo' = [echo EXCEPT ![d] = NoCode]
    BY <1>5 DEF SendEcho, hist, causes
  <2> QED
    BY <1>t, <2>1 DEF ConnInv
<1>6. ASSUME NEW d \in Device, Leave(d) \/ Drop(d)
      PROVE  ConnInv'
  <2>1. /\ UNCHANGED <<owner, said, turned>> /\ echo' = [echo EXCEPT ![d] = NoCode]
        /\ conn' = [conn EXCEPT ![d] = 0]
    BY <1>6 DEF Leave, Drop, hist, causes
  <2> QED
    BY <1>t, <2>1 DEF ConnInv
<1>7. ASSUME NEW d \in Device, SendStreamParams(d) \/ SendOther(d) \/ SendBye(d) \/ PauseOrResume(d)
      PROVE  ConnInv'
  <2>1. UNCHANGED <<owner, conn, echo, said, turned>>
    BY <1>7 DEF SendStreamParams, SendOther, SendBye, PauseOrResume, device, causes
  <2> QED
    BY <2>1 DEF ConnInv
<1>8. ASSUME NEW c \in Conn, LostTimesOut(c)
      PROVE  ConnInv'
  <2>1. UNCHANGED <<owner, conn, echo, said, turned>>
    BY <1>8 DEF LostTimesOut, device, hist, causes
  <2> QED
    BY <2>1 DEF ConnInv
<1> QED
  BY <1>1, <1>2, <1>3, <1>4, <1>5, <1>6, <1>7, <1>8 DEF Devices

\* A device's step keeps what is said without a rotation.
LEMMA DevicesSaid ==
  ASSUME TypeInv, ConnInv, SaidInv, Devices
  PROVE  SaidInv'
<1>t. /\ owner \in Seq(Device) /\ Len(owner) \in Nat /\ said \in [Conn -> Nat]
      /\ conn \in [Device -> 0..MaxConn] /\ code \in [Device -> Code]
      /\ \A c \in 1..Len(owner) : owner[c] \in Device
  BY LenProperties, ElementOfSeq DEF TypeInv, TypeOK, DeviceTypeOK, HistTypeOK
<1>p. /\ UNCHANGED <<restarted, sess>>
      /\ \A c \in 1..Len(owner) : owner'[c] = owner[c] /\ said'[c] = said[c]
  BY DevicesPast DEF host
<1>1. ASSUME NEW d \in Device, Dial(d) \/ Probe(d)
      PROVE  SaidInv'
  <2> DEFINE n == Len(owner) + 1
  <2>1. /\ owner' = Append(owner, d) /\ said' = [said EXCEPT ![n] = code[d]]
        /\ UNCHANGED <<code, turned>> /\ n <= MaxConn
    BY <1>1, <1>t, ServerAssumption DEF Dial, Probe
  <2>2. Len(owner') = n /\ owner'[n] = d
    BY <1>t, <2>1
  <2>3. n \in Nat /\ n \in Conn
    BY <1>t, <2>1 DEF Conn
  <2>4. said'[n] = code[d]
    BY <1>t, <2>1, <2>3
  <2>5. \A c \in 1..n : c = n \/ c \in 1..Len(owner)
    BY <1>t
  <2>6. (\A c \in 1..Len(owner) : c \in 1..n) /\ n \in 1..n
    BY <1>t
  <2>7. \A c \in 1..Len(owner) : c..Len(owner) \subseteq c..n /\ c..Len(owner) \subseteq 1..Len(owner) /\ n \in c..n /\ c < n
    BY <1>t
  <2> HIDE DEF n
  <2>8. \A c \in 1..Len(owner) : Quiet(owner[c], c)' => Quiet(owner[c], c)
    BY <1>p, <2>1, <2>2, <2>7 DEF Quiet
  <2>9. ASSUME NEW c \in 1..n, Quiet(owner[c], c)'
        PROVE  said'[c] = code'[owner'[c]]
    BY <1>p, <2>1, <2>2, <2>4, <2>5, <2>8, <2>9 DEF SaidInv
  <2>10. ASSUME NEW c \in 1..n, NEW e \in 1..n, c < e,
                \A f \in c..e : owner'[f] = owner'[e] /\ f \notin turned'
         PROVE  said'[c] = said'[e]
    <3>1. c \in 1..Len(owner)
      BY <1>t, <2>3, <2>5, <2>10
    <3>2. CASE e = n
      <4>1. Quiet(owner[c], c)
        <5>1. \A f \in c..Len(owner) : f \in c..e
          BY <2>7, <3>1, <3>2
        <5> QED
          BY <2>1, <2>10, <5>1 DEF Quiet
      <4>2. owner[c] = d
        <5>1. c \in c..e
          BY <2>10
        <5> QED
          BY <1>p, <2>2, <2>10, <3>1, <3>2, <5>1
      <4> QED
        BY <1>p, <2>4, <3>1, <3>2, <4>1, <4>2 DEF SaidInv
    <3>3. CASE e \in 1..Len(owner)
      <4>1. \A f \in c..e : f \in 1..Len(owner)
        BY <1>t, <3>1, <3>3
      <4> QED
        BY <1>p, <2>1, <2>10, <3>1, <3>3, <4>1 DEF SaidInv
    <3> QED
      BY <2>5, <3>2, <3>3
  <2>11. turned' \subseteq 1..n /\ restarted' <= sess'
    BY <1>p, <2>1, <2>6 DEF SaidInv
  <2> QED
    BY <2>2, <2>9, <2>10, <2>11 DEF SaidInv
<1>2. ASSUME NEW d \in Device, Rotate(d)
      PROVE  SaidInv'
  <2>1. /\ UNCHANGED <<owner, said>> /\ turned' = turned \cup RotatedOn(d)
        /\ \A e \in Device : e # d => code'[e] = code[e]
    BY <1>2, <1>t DEF Rotate
  <2>2. RotatedOn(d) \subseteq 1..Len(owner)
    BY DEF RotatedOn, ConnInv
  <2>3. ASSUME NEW c \in 1..Len(owner), Quiet(owner[c], c)'
        PROVE  said'[c] = code'[owner'[c]]
    <3>1. Quiet(owner[c], c)
      BY <2>1, <2>3 DEF Quiet
    <3>2. owner[c] # d
      <4>1. CASE conn[d] = 0
        <5>1. c \in c..Len(owner)
          BY <1>t
        <5> QED
          BY <2>1, <2>3, <4>1, <5>1 DEF RotatedOn, Quiet
      <4>2. CASE conn[d] # 0
        <5>1. ASSUME owner[c] = d PROVE FALSE
          <6>1. /\ conn[d] \in 1..Len(owner) /\ owner[conn[d]] = d /\ c <= conn[d]
                /\ conn[d] \in turned'
            BY <2>1, <4>2, <5>1 DEF ConnInv, RotatedOn
          <6>2. conn[d] \in c..Len(owner)
            BY <1>t, <6>1
          <6> QED
            BY <2>1, <2>3, <5>1, <6>1, <6>2 DEF Quiet
        <5> QED
          BY <5>1
      <4> QED
        BY <4>1, <4>2
    <3> QED
      BY <1>t, <2>1, <3>1, <3>2 DEF SaidInv
  <2>4. ASSUME NEW c \in 1..Len(owner), NEW e \in 1..Len(owner), c < e,
               \A f \in c..e : owner'[f] = owner'[e] /\ f \notin turned'
        PROVE  said'[c] = said'[e]
    BY <2>1, <2>4 DEF SaidInv
  <2> QED
    BY <1>p, <2>1, <2>2, <2>3, <2>4, ZenonT(40) DEF SaidInv
<1>3. ASSUME UNCHANGED <<owner, code, said, turned>>
      PROVE  SaidInv'
  BY <1>p, <1>3 DEF SaidInv, Quiet
<1>4. ASSUME NEW d \in Device,
             \/ OnConfig(d) \/ SendEcho(d) \/ SendStreamParams(d) \/ SendOther(d) \/ SendBye(d)
             \/ PauseOrResume(d) \/ Leave(d) \/ Drop(d)
      PROVE  UNCHANGED <<owner, code, said, turned>>
  BY <1>4 DEF OnConfig, SendEcho, SendStreamParams, SendOther, SendBye, PauseOrResume, Leave,
              Drop, device, hist, causes
<1>5. ASSUME NEW c \in Conn, LostTimesOut(c)
      PROVE  UNCHANGED <<owner, code, said, turned>>
  BY <1>5 DEF LostTimesOut, device, hist, causes
<1> QED
  BY <1>1, <1>2, <1>3, <1>4, <1>5 DEF Devices

\* A device's step keeps what the host knows.
LEMMA DevicesSeen ==
  ASSUME TypeInv, SaidInv, SeenInv, ShapeInv, Devices
  PROVE  SeenInv' /\ ShapeInv'
<1>p. /\ UNCHANGED <<phase, sess, torn, hello, liveOri, restart, shape, old, restarted>>
      /\ \A c \in 1..Len(owner) : owner'[c] = owner[c] /\ said'[c] = said[c]
      /\ turned \subseteq turned'
  BY DevicesPast DEF host, session
<1>t. /\ sess \in Nat /\ restarted \in Nat /\ Len(owner) \in Nat /\ sess <= Len(owner)
      /\ restarted <= sess
      /\ phase \in Served => sess # 0
  BY LenProperties, ServerAssumption
  DEF TypeInv, TypeOK, HostTypeOK, DeviceTypeOK, HistTypeOK, SaidInv, Serving, Served,
      Streaming, Conn
<1>1. sess # 0 => sess \in 1..Len(owner)
  BY <1>t
<1>2. restarted # 0 => restarted \in 1..Len(owner) /\ sess # 0
                       /\ \A e \in restarted..sess : e \in 1..Len(owner)
  BY <1>t
<1>3. restarted # 0 /\ Steady(restarted)' => Steady(restarted)
  BY <1>p, <1>1, <1>2 DEF Steady
<1>4. SeenInv'
  BY <1>p, <1>t, <1>1, <1>2, <1>3 DEF SeenInv, Served
<1>5. ShapeInv'
  BY <1>p, <1>t, <1>1, <1>2, <1>3 DEF ShapeInv, Agrees, Served
<1> QED
  BY <1>4, <1>5

\* What the host parses next was told, and belongs to the session it serves.
LEMMA HeadTold ==
  ASSUME TypeInv, OwnInv, ToldInv, buf # <<>>,
         \/ phase \in Served /\ sess \notin torn
         \/ phase = "hello" /\ IsHello(Head(buf)) /\ Head(buf).conn # 0
  PROVE  Told(Head(buf)) /\ Head(buf).conn = sess
<1>1. buf \in Seq(Msg)
  BY DEF TypeInv, TypeOK, HostTypeOK
<1>2. Told(Head(buf))
  BY <1>1, TailElems DEF ToldInv
<1>3. (phase \in Served /\ sess \notin torn) \/ (phase = "hello" /\ ~HelloFree(buf)) => From(buf, sess)
  BY DEF OwnInv, BufInv, HelloInv
<1>4. IsHello(Head(buf)) /\ Head(buf).conn # 0 => ~HelloFree(buf)
  BY <1>1, TailFrom
<1>5. From(buf, sess)
  BY <1>3, <1>4
<1> QED
  BY <1>1, <1>2, <1>5, TailFrom

\* A HELLO that is not misread says what its client is.
LEMMA OwnHello ==
  ASSUME sess \notin torn, NEW h \in Hellos
  PROVE  (h.v4 <=> owner[sess] \notin old) /\ h.dims = Dims[owner[sess]]
<1> DEFINE k == [v4 |-> owner[sess] \notin old, dims |-> Dims[owner[sess]]]
<1>1. h = k
  BY DEF Hellos
<1>2. (k.v4 <=> owner[sess] \notin old) /\ k.dims = Dims[owner[sess]]
  OBVIOUS
<1> QED
  BY <1>1, <1>2

\* A step of the main thread or of the stdin thread keeps LoopInv.
LEMMA StreamerLoop ==
  ASSUME TypeInv, OwnInv, LoopInv, Session \/ Streamer \/ StdinEof \/ Exit
  PROVE  LoopInv'
<1> USE DEF LoopInv
<1>t. /\ sess \in Nat /\ restarted \in Nat /\ Len(owner) \in Nat /\ sess <= Len(owner)
      /\ restarted <= sess /\ buf \in Seq(Msg)
      /\ phase \in Served => sess # 0
      /\ phase \notin {"accept", "exited"} => sess \in Conn
  BY LenProperties, ServerAssumption
  DEF TypeInv, TypeOK, HostTypeOK, DeviceTypeOK, HistTypeOK, SaidInv, Serving, Served,
      Streaming, Conn
<1>p. /\ UNCHANGED <<old, owner, conn, code, echo, said, turned>>
      /\ UNCHANGED restarted \/ (restarted' = sess /\ UNCHANGED sess)
      /\ UNCHANGED sess \/ sess' = sess + 1
  BY DEF Session, AcceptClient, HelloReceive, HelloEnds, HelloDiscard, HelloAccept, Approve,
         BuildFails, Build, Streamer, LoopTop, SkipFrame, EncodeFrame, PollIdle, PollReceive,
         PollPing, PollEof, Dispatched, HandleBye, HandleParams, HandleKeyframeRequest,
         HandleOrientation, HandleOther, Next1, Flush, StdinEof, Exit, device, hist, causes
<1>1. ConnInv'
  BY <1>p DEF ConnInv
<1>2. SaidInv'
  BY <1>p, <1>t DEF SaidInv, Quiet
<1>3. ToldInv'
  <2>1. \A m : Told(m) => Told(m)'
    BY <1>p DEF Told
  <2>2. CASE HelloReceive \/ PollReceive
    <3>1. Receive /\ sess \in Conn
      BY <1>t, <2>2 DEF HelloReceive, PollReceive
    <3>2. \A m : m.conn = 0 => Told(m)'
      BY DEF Told
    <3>3. \A m \in Elems(buf') : Told(m)'
      BY <2>1, <3>1, <3>2, ReceiveElems DEF ToldInv
    <3>4. \A c \in Conn : \A m \in Elems(wire'[c]) : Told(m)'
      BY <2>1, <3>1, ReceiveElems DEF ToldInv
    <3> QED
      BY <3>3, <3>4 DEF ToldInv
  <2>3. CASE UNCHANGED wire /\ (UNCHANGED buf \/ (buf # <<>> /\ buf' = Tail(buf)))
    BY <1>t, <2>1, <2>3, TailElems DEF ToldInv
  <2>4. \/ HelloReceive \/ PollReceive
        \/ UNCHANGED wire /\ (UNCHANGED buf \/ (buf # <<>> /\ buf' = Tail(buf)))
    BY DEF Session, AcceptClient, HelloReceive, HelloEnds, HelloDiscard, HelloAccept, Approve,
           BuildFails, Build, Streamer, LoopTop, SkipFrame, EncodeFrame, PollIdle, PollReceive,
           PollPing, PollEof, Dispatched, HandleBye, HandleParams, HandleKeyframeRequest,
           HandleOrientation, HandleOther, Next1, Flush, StdinEof, Exit, net, rx
  <2> QED
    BY <2>2, <2>3, <2>4
<1>s. ASSUME sess # 0, restarted # 0, Steady(restarted)
      PROVE  sess \notin turned \cup torn /\ said[restarted] = said[sess]
  <2>1. sess \in restarted..sess /\ sess \in 1..Len(owner) /\ restarted \in 1..Len(owner)
    BY <1>s, <1>t
  <2> QED
    BY <1>s, <1>t, <2>1 DEF Steady, SaidInv
<1>u. UNCHANGED <<restarted, sess, torn>> => (Steady(restarted)' <=> Steady(restarted))
  BY <1>p DEF Steady
<1>4. SeenInv' /\ ShapeInv'
  <2>1. CASE AcceptClient
    <3>1. /\ sess' = sess + 1 /\ UNCHANGED <<restarted, liveOri, torn>>
          /\ phase' \notin Served
      BY <2>1 DEF AcceptClient, EndWithoutStream, hist, session, Served, Streaming
    <3>2. ASSUME restarted # 0, Steady(restarted)'
          PROVE  Steady(restarted) /\ owner[sess + 1] = owner[sess]
      <4>1. sess \in restarted..(sess + 1) /\ restarted..sess \subseteq restarted..(sess + 1)
        BY <1>t, <3>2
      <4> QED
        BY <1>p, <3>1, <3>2, <4>1 DEF Steady
    <3> QED
      BY <1>p, <3>1, <3>2 DEF SeenInv, ShapeInv, Served
  <2>2. CASE HelloAccept
    <3>1. /\ buf # <<>> /\ IsHello(Head(buf)) /\ phase = "hello" /\ phase' = "approve"
          /\ hello' = Head(buf).val /\ UNCHANGED <<sess, restarted, liveOri>>
          /\ torn \subseteq torn' /\ (sess \notin torn' => Head(buf).conn # 0)
      BY <2>2 DEF HelloAccept, hist
    <3>2. sess \notin torn' /\ owner[sess] \notin old => hello' = said[sess]
      BY <1>t, <3>1, HeadTold DEF Told, IsHello
    <3>3. Steady(restarted)' => Steady(restarted)
      BY <1>p, <3>1 DEF Steady
    <3> QED
      BY <1>p, <3>1, <3>2, <3>3 DEF SeenInv, ShapeInv, Streaming
  <2>3. CASE BuildFails
    <3>1. /\ phase = "build" /\ phase' = "accept" /\ UNCHANGED <<sess, restarted, torn>>
          /\ \E h \in Hellos : liveOri' = SessionCode(h.v4)
      BY <2>3 DEF BuildFails, EndWithoutStream, hist
    <3>2. sess \notin torn /\ owner[sess] \in old => liveOri' = liveOri
      BY <3>1, OwnHello DEF SessionCode
    <3> QED
      BY <1>p, <1>s, <1>t, <1>u, <3>1, <3>2 DEF SeenInv, ShapeInv, Served, Streaming
  <2>4. CASE Build
    <3>1. /\ phase = "build" /\ phase' = "loop" /\ restart' = FALSE
          /\ UNCHANGED <<sess, restarted, hello, torn>>
      BY <2>4 DEF Build
    <3>h. PICK h \in Hellos :
            /\ liveOri' = SessionCode(h.v4)
            /\ shape' = IF Mirror THEN "landscape" ELSE OrientDims(SessionCode(h.v4), h.dims)
      BY <2>4 DEF Build
    <3>o. sess \notin torn => (h.v4 <=> owner[sess] \notin old) /\ h.dims = Dims[owner[sess]]
      BY <3>h, OwnHello
    <3>2. SeenInv'
      <4>1. sess \notin torn /\ owner[sess] \in old => liveOri' = liveOri
        BY <3>h, <3>o DEF SessionCode
      <4> QED
        BY <1>p, <1>s, <1>t, <1>u, <3>1, <4>1 DEF SeenInv, Served, Streaming
    <3>3. ASSUME Agrees PROVE SessionCode(h.v4) = said[sess]
      <4>1. sess # 0 /\ sess \notin torn
        BY <1>t, <3>1, <3>3 DEF Agrees, Served
      <4>2. CASE owner[sess] \in old
        <5>1. SessionCode(h.v4) = liveOri
          BY <3>o, <4>1, <4>2 DEF SessionCode
        <5> QED
          BY <1>s, <3>3, <4>1, <4>2, <5>1 DEF Agrees, SeenInv
      <4>3. CASE owner[sess] \notin old
        <5>1. SessionCode(h.v4) = hello
          BY <3>o, <4>1, <4>3 DEF SessionCode
        <5> QED
          BY <3>1, <4>1, <4>3, <5>1 DEF SeenInv, Served
      <4> QED
        BY <4>2, <4>3
    <3>4. ASSUME Agrees PROVE shape' = "portrait" <=> OrientationIsPortrait(said[sess])
      BY <3>h, <3>o, <3>3, <3>4 DEF OrientDims, Agrees
    <3>5. Agrees' => Agrees
      BY <1>p, <1>u, <3>1 DEF Agrees
    <3> QED
      BY <1>p, <3>1, <3>2, <3>4, <3>5 DEF ShapeInv
  <2>5. CASE HandleOrientation
    <3>1. /\ phase = "dispatch" /\ phase' = phase /\ buf # <<>> /\ Head(buf).type = "orient"
          /\ liveOri' = Head(buf).val
          /\ restart' = (restart \/ WantsOtherShape(Head(buf).val))
          /\ UNCHANGED <<sess, restarted, hello, shape, torn>>
      BY <2>5 DEF HandleOrientation, Next1, hist
    <3>2. sess \notin turned \cup torn => Head(buf).val = said[sess]
      BY <1>t, <3>1, HeadTold DEF Told, Served, Streaming
    <3>3. SeenInv'
      <4>1. restart' => ~Mirror
        BY <3>1 DEF SeenInv, Streaming, WantsOtherShape
      <4>2. sess # 0
        BY <1>t, <3>1 DEF Served, Streaming
      <4> QED
        BY <1>p, <1>s, <1>u, <3>1, <3>2, <4>1, <4>2 DEF SeenInv
    <3>4. ASSUME Agrees PROVE ~restart' /\ (shape = "portrait" <=> OrientationIsPortrait(said[sess]))
      <4>1. ~restart /\ (shape = "portrait" <=> OrientationIsPortrait(said[sess]))
        BY <3>1, <3>4 DEF ShapeInv, Streaming
      <4>2. Head(buf).val = said[sess]
        BY <3>2, <3>4 DEF Agrees
      <4>3. ~WantsOtherShape(Head(buf).val)
        BY <4>1, <4>2 DEF WantsOtherShape, OrientationIsPortrait
      <4> QED
        BY <3>1, <4>1, <4>3
    <3>5. Agrees' => Agrees
      BY <1>p, <1>u, <3>1 DEF Agrees
    <3> QED
      BY <1>p, <3>1, <3>3, <3>4, <3>5 DEF ShapeInv
  <2>6. CASE Flush
    <3>1. /\ phase = "flush" /\ phase' \in {"accept", "exited"} /\ UNCHANGED <<sess, liveOri, torn>>
          /\ restarted' = IF restart THEN sess ELSE restarted
      BY <2>6 DEF Flush, AfterSession, session
    <3>2. ASSUME restart, Steady(restarted)' PROVE liveOri = said[sess]
      <4>1. sess \in sess..sess
        BY <1>t
      <4> QED
        BY <1>p, <3>1, <3>2, <4>1 DEF Steady, SeenInv, Streaming
    <3>3. restart \/ UNCHANGED restarted
      BY <3>1
    <3> QED
      BY <1>p, <1>u, <3>1, <3>2, <3>3 DEF SeenInv, ShapeInv, Served, Streaming
  <2>7. ASSUME UNCHANGED <<sess, torn, liveOri, hello, shape, restart, restarted>>,
               \/ phase' = phase
               \/ phase' \in {"accept", "exited"}
               \/ phase \notin Streaming /\ phase' \notin Served
               \/ phase \in Served /\ phase' \in Served /\ phase' \notin Streaming
               \/ phase \in Streaming /\ phase' \in Streaming
        PROVE  SeenInv' /\ ShapeInv'
    <3>1. Agrees' <=> Agrees
      BY <1>p, <1>u, <2>7 DEF Agrees
    <3>2. phase' \in Served => phase \in Served
      BY <2>7 DEF Served, Streaming
    <3>3. phase' \in Streaming => phase \in Streaming
      BY <2>7 DEF Served, Streaming
    <3> QED
      BY <1>p, <1>u, <2>7, <3>1, <3>2, <3>3 DEF SeenInv, ShapeInv
  <2>8. CASE HelloReceive \/ HelloEnds \/ HelloDiscard \/ Approve \/ StdinEof \/ Exit
    BY <2>7, <2>8 DEF HelloReceive, HelloEnds, HelloDiscard, Approve, StdinEof, Exit,
                      EndWithoutStream, session, hist, Served, Streaming
  <2>9. CASE \/ LoopTop \/ SkipFrame \/ EncodeFrame \/ PollIdle \/ PollReceive \/ PollPing
             \/ PollEof \/ Dispatched \/ HandleBye \/ HandleParams \/ HandleKeyframeRequest
             \/ HandleOther
    BY <2>7, <2>9
    DEF LoopTop, SkipFrame, EncodeFrame, PollIdle, PollReceive, PollPing, PollEof, Dispatched,
        HandleBye, HandleParams, HandleKeyframeRequest, HandleOther, Next1, session, hist,
        Streaming
  <2> QED
    BY <2>1, <2>2, <2>3, <2>4, <2>5, <2>6, <2>8, <2>9 DEF Session, Streamer
<1> QED
  BY <1>1, <1>2, <1>3, <1>4

\* A session is torn down for orientation only when a rotation fell on it, or,
\* with a client that does not say its orientation in HELLO, when one fell on a
\* connection since the last such session or another client came in between. A
\* session that began on a misread HELLO counts as another client's.
THEOREM NoLoop == Spec => []NoRestartLoop
<1> DEFINE IInv == TypeInv /\ OwnInv /\ LoopInv
<1>1. Init => IInv
  <2>1. ASSUME Init PROVE OwnInv
    BY <2>1 DEF Init, OwnInv, WireInv, BufInv, HelloInv, CutInv, MisreadInv, Misreading, Stale,
                Served, Streaming, From, HelloFree, HelloFirst
  <2>2. ASSUME Init PROVE LoopInv
    <3>1. owner = <<>> /\ Len(owner) = 0 /\ buf = <<>>
      BY <2>2 DEF Init
    <3>2. ToldInv /\ ConnInv
      BY <2>2, <3>1 DEF Init, ToldInv, Elems, ConnInv
    <3>3. SaidInv /\ SeenInv /\ ShapeInv
      BY <2>2, <3>1 DEF Init, SaidInv, SeenInv, ShapeInv, Served, Streaming
    <3> QED
      BY <3>2, <3>3 DEF LoopInv
  <2> QED
    BY <2>1, <2>2, TypeInit
<1>2. IInv /\ [Next]_vars => IInv'
  <2>1. ASSUME TypeInv, OwnInv, LoopInv, Next PROVE OwnInv' /\ LoopInv'
    BY <2>1, DevicesOwn, StreamerOwn, DevicesTold, DevicesConn, DevicesSaid, DevicesSeen,
       StreamerLoop DEF Next, LoopInv
  <2>2. ASSUME OwnInv, LoopInv, UNCHANGED vars PROVE OwnInv' /\ LoopInv'
    <3>1. UNCHANGED <<phase, sess, buf, cut, torn, wire, owner, old, conn, code, echo, said, turned,
                      restarted, hello, liveOri, restart, shape>>
      BY <2>2 DEF vars, host, rx, session, net, device, hist, causes
    <3>2. OwnInv'
      BY <2>2, <3>1 DEF OwnInv, WireInv, BufInv, HelloInv, CutInv, MisreadInv, Misreading, Stale
    <3>3. ToldInv' /\ ConnInv' /\ SaidInv'
      BY <2>2, <3>1 DEF LoopInv, ToldInv, Told, ConnInv, SaidInv, Quiet
    <3>4. SeenInv' /\ ShapeInv'
      BY <2>2, <3>1 DEF LoopInv, SeenInv, ShapeInv, Agrees, Steady
    <3> QED
      BY <3>2, <3>3, <3>4 DEF LoopInv
  <2> QED
    BY <2>1, <2>2, TypeStep
<1>3. IInv => NoRestartLoop
  <2>1. SUFFICES ASSUME IInv, phase \in Streaming, restart, Dims[owner[sess]] # "square"
                 PROVE  IF owner[sess] \in old THEN restarted = 0 \/ ~Steady(restarted)
                                               ELSE ~Steady(sess)
    BY DEF NoRestartLoop
  <2>2. ~Mirror /\ ~Agrees
    BY <2>1 DEF LoopInv, SeenInv, ShapeInv
  <2>3. sess \in Nat /\ restarted \in Nat /\ restarted <= sess
    BY <2>1, ServerAssumption DEF TypeInv, TypeOK, HostTypeOK, HistTypeOK, LoopInv, SaidInv
  <2>4. sess \in sess..sess /\ sess \in restarted..sess
    BY <2>3
  <2>5. sess \in turned \cup torn => ~Steady(sess) /\ ~Steady(restarted)
    BY <2>4 DEF Steady
  <2>6. sess \in turned \cup torn \/ (owner[sess] \in old /\ (restarted = 0 \/ ~Steady(restarted)))
    BY <2>1, <2>2 DEF Agrees
  <2> QED
    BY <2>5, <2>6
<1> QED
  BY <1>1, <1>2, <1>3, PTL DEF Spec
=============================================================================
