----------------------------- MODULE WireCodec -----------------------------
(***************************************************************************)
(* The wire protocol (host/src/protocol.cpp): messages are laid out as     *)
(* bytes, go through a byte stream that delivers them in any portions, and *)
(* come out of MessageParser; and what a HELLO turns into: the parameters  *)
(* of the session (session_params.cpp), the mode of the monitor (cvt.cpp)  *)
(* and its EDID (edid.cpp). A byte of the wire is a number below Base, so  *)
(* that TLC can count with four of them; the bytes of the EDID are bytes.  *)
(***************************************************************************)
EXTENDS Integers, Sequences, SequencesExt

CONSTANTS
    Base,           \* 256 in the code
    MaxMessage,     \* kMaxMessage
    Compact,        \* consumed bytes that MessageParser keeps, 65536 in the code
    MaxContacts,    \* 10 in the code
    FullPressure,   \* of clients that send none, 1023 in the code
    Samples,        \* the messages that are sent
    Junk,           \* malformed length words between them
    Cli,            \* the parameters on the command line
    MaxSent         \* bound: messages and junk words sent

ASSUME CodecAssumption ==
    /\ Base \in Nat /\ Base > 17 /\ MaxMessage \in Nat \ {0} /\ Compact \in Nat
    /\ MaxContacts \in 0 .. Base - 1
    /\ FullPressure \in Nat /\ MaxSent \in Nat
    /\ Cli.refresh \in Nat \ {0} /\ Cli.w \in Nat \ {0} /\ Cli.h \in Nat \ {0} /\ Cli.fps \in Int

VARIABLES
    sent,   \* the messages that were sent
    wire,   \* bytes on their way
    buf,    \* buf_ of the parser
    pos,    \* pos_: its consumed prefix
    got,    \* the messages that came out
    words   \* bound: what was sent
vars == <<sent, wire, buf, pos, got, words>>

-----------------------------------------------------------------------------
(* Numbers and layouts.                                                    *)

\* The bound of a number of w bytes.
Limit[w \in Nat] == IF w = 0 THEN 1 ELSE Base * Limit[w - 1]
\* Big-endian.
Put(x, w) == [i \in 1 .. w |-> (x \div Limit[w - i]) % Base]
Num(bytes) ==
    LET num[n \in 0 .. Len(bytes)] == IF n = 0 THEN 0 ELSE num[n - 1] * Base + bytes[n]
    IN  num[Len(bytes)]
Signed(x, w) == IF 2 * x >= Limit[w] THEN x - Limit[w] ELSE x

\* The widths of the fields of the messages of fixed layout.
Layout ==
    [Orientation |-> <<1>>, Overlay |-> <<1>>, Key |-> <<2, 1>>, MouseButton |-> <<1, 1, 2, 2>>,
     Scroll |-> <<2, 2, 2, 2>>, Pen |-> <<2, 2, 2, 1>>, StreamParams |-> <<4, 4, 1>>,
     Input |-> <<1, 2, 2, 2>>, Video |-> <<8, 1>>, Config |-> <<4, 4, 4>>, Audio |-> <<>>,
     Ping |-> <<>>, Pong |-> <<>>, Bye |-> <<>>, KeyframeRequest |-> <<>>]
Contact == <<1, 2, 2, 2>>
Type ==
    <<"Hello", "Config", "Video", "Ping", "Pong", "Bye", "Input", "Orientation", "Audio", "Overlay",
      "Touch", "Scroll", "MouseButton", "Key", "Pen", "KeyframeRequest", "StreamParams">>
Code(type) == CHOOSE i \in DOMAIN Type : Type[i] = type

\* version, width, height, density; fps, audio_wanted, orientation_code;
\* bitrate_kbps; wall_col, wall_row.
HelloFields == <<4, 4, 4, 4, 4, 1, 1, 4, 2, 2>>
\* How many of them a version has.
Carried(version) ==
    CASE version < 4 -> 4 [] version = 4 -> 7 [] version = 5 -> 8 [] OTHER -> 10

Offset(widths, i) ==
    LET sum[n \in 0 .. Len(widths)] == IF n = 0 THEN 0 ELSE sum[n - 1] + widths[n]
    IN  sum[i - 1]
Size(widths) == Offset(widths, Len(widths) + 1)
Fields(widths, values) == FlattenSeq([i \in 1 .. Len(widths) |-> Put(values[i], widths[i])])
Field(b, widths, i) == Num(SubSeq(b, Offset(widths, i) + 1, Offset(widths, i + 1)))
Values(b, widths) == [i \in 1 .. Len(widths) |-> Field(b, widths, i)]
From(b, n) == SubSeq(b, n + 1, Len(b))

-----------------------------------------------------------------------------
(* Messages: `f` are the numbers, `data` the byte strings.                 *)

Message(type, f, data) == [type |-> type, f |-> f, data |-> data]

String(s) == Put(Len(s), 2) \o s

EncodeHello(f, data) ==
    LET widths == SubSeq(HelloFields, 1, Carried(f[1])) IN
    Fields(widths, f) \o (IF data = <<>> THEN <<>> ELSE String(data[1]) \o String(data[2]))

\* The contacts beyond the cap are left out.
EncodeTouch(f) ==
    LET n == IF Len(f) \div 4 < MaxContacts THEN Len(f) \div 4 ELSE MaxContacts IN
    <<n>> \o FlattenSeq([c \in 1 .. n |-> Fields(Contact, SubSeq(f, 4 * c - 3, 4 * c))])

Body(m) ==
    CASE m.type = "Hello" -> EncodeHello(m.f, m.data)
      [] m.type = "Touch" -> EncodeTouch(m.f)
      [] m.type = "Config" -> Fields(Layout.Config, m.f) \o Put(Len(m.data[1]), 4) \o m.data[1]
      [] m.type \in {"Video", "Audio"} -> Fields(Layout[m.type], m.f) \o m.data[1]
      [] OTHER -> Fields(SubSeq(Layout[m.type], 1, Len(m.f)), m.f)

EncodeMessage(m) == Put(1 + Len(Body(m)), 4) \o <<Code(m.type)>> \o Body(m)

\* What the encoders can be given: each field fits its bytes, a scroll's two
\* deltas are signed, a name is no longer than its length word can say. The HELLO
\* of an older client, which ends earlier, is a message too.
Fits(f, widths) ==
    Len(f) = Len(widths) /\ \A i \in DOMAIN f : f[i] >= 0 /\ f[i] \div Limit[widths[i] - 1] < Base
Sendable(m) ==
    /\ m \in [type : {Type[i] : i \in DOMAIN Type}, f : Seq(Int), data : Seq(Seq(0 .. Base - 1))]
    /\ \/ /\ m.type = "Hello"
          /\ m.f # <<>> /\ Fits(m.f, SubSeq(HelloFields, 1, Carried(m.f[1])))
          /\ \/ m.data = <<>> /\ m.f[1] < 3
             \/ Len(m.data) = 2 /\ \A k \in 1 .. 2 : Len(m.data[k]) < Limit[2]
       \/ /\ m.type = "Touch" /\ m.data = <<>>
          /\ Len(m.f) % 4 = 0
          /\ \A c \in 1 .. Len(m.f) \div 4 : Fits(SubSeq(m.f, 4 * c - 3, 4 * c), Contact)
       \/ /\ m.type = "Scroll" /\ m.data = <<>> /\ Len(m.f) = 4
          /\ \A i \in 1 .. 2 : 2 * m.f[i] < Limit[2] /\ -Limit[2] <= 2 * m.f[i]
          /\ \A i \in 3 .. 4 : m.f[i] \in 0 .. Limit[2] - 1
       \/ m.type = "Input" /\ m.data = <<>> /\ Fits(m.f, <<1, 2, 2>>)
       \/ m.type \in {"Config", "Video", "Audio"} /\ Len(m.data) = 1 /\ Fits(m.f, Layout[m.type])
       \/ m.type \notin {"Hello", "Touch", "Scroll", "Config", "Video", "Audio"}
          /\ m.data = <<>> /\ Fits(m.f, Layout[m.type])
    /\ 1 + Len(Body(m)) <= MaxMessage

\* The senders send nothing else, and a length word between messages is one that
\* the reader drops.
ASSUME WordsAssumption ==
    /\ MaxMessage < Limit[4]
    /\ \A m \in Samples : Sendable(m)
    /\ \A x \in Junk : x \in 0 .. Limit[4] - 1 /\ (x = 0 \/ x > MaxMessage)

\* What a string at offset p of b is, and where the next begins; a string that
\* is cut ends the HELLO.
StringAt(b, p) ==
    IF Len(b) < p + 2 THEN [text |-> <<>>, next |-> p]
    ELSE LET n == Num(SubSeq(b, p + 1, p + 2)) IN
         IF Len(b) < p + 2 + n THEN [text |-> <<>>, next |-> Len(b)]
         ELSE [text |-> SubSeq(b, p + 3, p + 2 + n), next |-> p + 2 + n]

\* The fields that are there: a block of a version is read whole or not at all.
Whole(b) ==
    LET there(n) == n <= Carried(Field(b, HelloFields, 1)) /\ Len(b) >= Offset(HelloFields, n + 1)
    IN  CHOOSE n \in {4, 7, 8, 10} : there(n) /\ \A k \in {7, 8, 10} : k > n => ~there(k)

Bug_DecodeHello(b) ==
    LET n == Whole(b)
        f == [i \in 1 .. 10 |-> IF i <= n THEN Field(b, HelloFields, i) ELSE 0]
        name == StringAt(b, Offset(HelloFields, n + 1))
    IN  Message("Hello", f, <<name.text, StringAt(b, name.next).text>>)
\* Fields that are missing are 0; a block that is cut ends the HELLO.
DecodeHello(b) ==
    LET n == Whole(b)
        f == [i \in 1 .. 10 |-> IF i <= n THEN Field(b, HelloFields, i) ELSE 0]
        name == StringAt(b, Offset(HelloFields, n + 1))
    IN  Message("Hello", f, IF n < Carried(f[1]) THEN << <<>>, <<>> >>
                            ELSE <<name.text, StringAt(b, name.next).text>>)

\* Every decoder refuses a body that is too short, some any other length too.
Accepts(type, b) ==
    CASE type = "Hello" -> Len(b) >= Offset(HelloFields, 5)
      [] type = "Touch" -> b # <<>> /\ Len(b) = 1 + b[1] * Size(Contact)
      [] type = "Config" -> /\ Len(b) >= Size(Layout.Config) + 4
                            /\ Len(b) = 16 + Num(SubSeq(b, 13, 16))
      [] type = "Input" -> Len(b) \in {5, 7}
      [] type \in {"Orientation", "Overlay"} -> Len(b) = 1
      [] OTHER -> Len(b) >= Size(Layout[type])

Decode(type, b) ==
    CASE type = "Hello" -> DecodeHello(b)
      [] type = "Touch" ->
            Message(type, FlattenSeq([c \in 1 .. b[1] |->
                              Values(From(b, 1 + (c - 1) * Size(Contact)), Contact)]), <<>>)
      [] type = "Config" -> Message(type, Values(b, Layout.Config), << From(b, 16) >>)
      [] type \in {"Video", "Audio"} ->
            Message(type, Values(b, Layout[type]), << From(b, Size(Layout[type])) >>)
      [] type = "Input" /\ Len(b) = 5 ->
            Message(type, Append(Values(b, <<1, 2, 2>>), FullPressure), <<>>)
      [] type = "Scroll" ->
            LET v == Values(b, Layout.Scroll) IN
            Message(type, <<Signed(v[1], 2), Signed(v[2], 2), v[3], v[4]>>, <<>>)
      [] OTHER -> Message(type, Values(b, Layout[type]), <<>>)

-----------------------------------------------------------------------------
(* The stream.                                                             *)

TypeOK ==
    /\ sent \in Seq(Samples)
    /\ wire \in Seq(0 .. Base - 1)
    /\ buf \in Seq(0 .. Base - 1)
    /\ pos \in 0 .. Len(buf)
    /\ Len(got) <= Len(sent)
    /\ words \in 0 .. MaxSent

Init ==
    /\ sent = <<>> /\ wire = <<>> /\ buf = <<>> /\ pos = 0 /\ got = <<>> /\ words = 0

\* Bound: a word goes out when the one before is off the wire; its bytes may
\* still wait in buf.
Send(m) ==
    /\ words < MaxSent
    /\ wire = <<>>
    /\ words' = words + 1
    /\ sent' = Append(sent, m)
    /\ wire' = EncodeMessage(m)
    /\ UNCHANGED <<buf, pos, got>>

SendJunk(x) ==
    /\ words < MaxSent
    /\ wire = <<>>
    /\ words' = words + 1
    /\ wire' = Put(x, 4)
    /\ UNCHANGED <<sent, buf, pos, got>>

\* Bytes arrive, of which one or more make a portion.
Feed ==
    /\ wire # <<>>
    /\ buf' = Append(buf, Head(wire))
    /\ wire' = Tail(wire)
    /\ UNCHANGED <<sent, pos, got, words>>

Length == Num(SubSeq(buf, pos + 1, pos + 4))
Malformed == Length < 1 \/ Length > MaxMessage

\* A length that cannot be is skipped.
Skip ==
    /\ Len(buf) - pos >= 4
    /\ Malformed
    /\ pos' = pos + 4
    /\ UNCHANGED <<sent, wire, buf, got, words>>

Bug_NextMessage ==
    /\ Len(buf) - pos >= 4
    /\ ~Malformed
    /\ Len(buf) - pos >= 4 + Length
    /\ LET b == SubSeq(buf, pos + 6, pos + 4 + Length)
           type == Type[buf[pos + 5]]
           end == pos + 4 + Length
       IN  /\ got' = IF Accepts(type, b) THEN Append(got, Decode(type, b)) ELSE got
           /\ IF end > Compact THEN buf' = From(buf, pos) /\ pos' = 0 ELSE pos' = end /\ UNCHANGED buf
    /\ UNCHANGED <<sent, wire, words>>
\* next(), and the decoder of the message.
NextMessage ==
    /\ Len(buf) - pos >= 4
    /\ ~Malformed
    /\ Len(buf) - pos >= 4 + Length
    /\ LET b == SubSeq(buf, pos + 6, pos + 4 + Length)
           type == Type[buf[pos + 5]]
           end == pos + 4 + Length
       IN  /\ got' = IF Accepts(type, b) THEN Append(got, Decode(type, b)) ELSE got
           /\ IF end > Compact THEN buf' = From(buf, end) /\ pos' = 0 ELSE pos' = end /\ UNCHANGED buf
    /\ UNCHANGED <<sent, wire, words>>

Next == (\E m \in Samples : Send(m)) \/ (\E x \in Junk : SendJunk(x)) \/ Feed \/ Skip \/ NextMessage

Spec == Init /\ [][Next]_vars

-----------------------------------------------------------------------------
(* What a HELLO turns into.                                                *)

\* select_session_params, with the cast to int.
SessionParams(f) ==
    IF f[1] < 4 THEN Cli
    ELSE [fps |-> IF f[5] > 0 THEN Signed(f[5], 4) ELSE Cli.fps,
          audio |-> f[6] # 0,
          orientation |-> f[7] % 4,
          kbps |-> IF f[1] >= 5 /\ f[8] > 0 THEN Signed(f[8], 4) ELSE Cli.kbps]

\* orient_dims, then the defaults of make_source.
Dims(f) ==
    LET w == Signed(f[2], 4)
        h == Signed(f[3], 4)
        turn == (SessionParams(f).orientation \in {1, 3}) # (h > w)
        or(x, default) == IF x <= 0 THEN default ELSE x
    IN  [w |-> or(IF turn THEN h ELSE w, Cli.w), h |-> or(IF turn THEN w ELSE h, Cli.h)]

MaxModeHz == 120
ModeHz(fps) ==
    LET hz == IF fps > Cli.refresh THEN fps ELSE Cli.refresh IN
    IF hz > MaxModeHz THEN MaxModeHz ELSE hz

CeilDiv(a, b) == (a + b - 1) \div b
\* vsync_for: the aspect ratios, to a fiftieth.
VSync(w, h) ==
    LET ratios == <<[x |-> 4, y |-> 3, vs |-> 4], [x |-> 16, y |-> 9, vs |-> 5],
                    [x |-> 16, y |-> 10, vs |-> 6], [x |-> 5, y |-> 4, vs |-> 7],
                    [x |-> 15, y |-> 9, vs |-> 7]>>
        near(r) == LET d == w * r.y - r.x * h IN 50 * (IF d < 0 THEN -d ELSE d) < r.y * h
        fits == {i \in DOMAIN ratios : near(ratios[i])}
    IN  IF fits = {} THEN 10 ELSE ratios[CHOOSE i \in fits : \A j \in fits : i <= j].vs

\* cvt_rb_timing: reduced blanking. The clock is in kHz.
Timing(w, h, hz) ==
    LET hActive == (w \div 8) * 8
        vs == VSync(w, h)
        lines == CeilDiv(460 * (h + 3) * hz, 1000000 - 460 * hz)
        vBlank == IF lines < 4 + vs THEN 4 + vs ELSE lines
    IN  [clock |-> (((hActive + 160) * (h + vBlank) * hz) \div 250000) * 250,
         hActive |-> hActive, hBlank |-> 160, hFront |-> 48, hSync |-> 32,
         vActive |-> h, vBlank |-> vBlank, vFront |-> 3, vSync |-> vs,
         hMm |-> (508 * w + 960) \div 1920, vMm |-> (508 * h + 960) \div 1920]

Timing1080p60 ==
    [clock |-> 148500, hActive |-> 1920, hBlank |-> 280, hFront |-> 88, hSync |-> 44,
     vActive |-> 1080, vBlank |-> 45, vFront |-> 4, vSync |-> 5, hMm |-> 480, vMm |-> 270]
ModeTiming(w, h, hz) == IF <<w, h, hz>> = <<1920, 1080, 60>> THEN Timing1080p60 ELSE Timing(w, h, hz)

Low(x) == x % 256
\* The low nibbles of the high bytes of two numbers.
High(x, y) == ((x \div 256) % 16) * 16 + ((y \div 256) % 16)
Bug_WriteDtd(t) ==
    <<Low(t.clock \div 10), Low(t.clock \div 2560),
      Low(t.hActive), Low(t.hBlank), High(t.hActive, t.hBlank),
      Low(t.vActive), Low(t.vBlank), High(t.hActive, t.vBlank),
      Low(t.hFront), Low(t.hSync), (t.vFront % 16) * 16 + (t.vSync % 16), 0,
      Low(t.hMm), Low(t.vMm), High(t.hMm, t.vMm), 0, 0, 30>>
\* write_dtd. The high bits of the porches and syncs are 0: they are below 256 and 16.
WriteDtd(t) ==
    <<Low(t.clock \div 10), Low(t.clock \div 2560),
      Low(t.hActive), Low(t.hBlank), High(t.hActive, t.hBlank),
      Low(t.vActive), Low(t.vBlank), High(t.vActive, t.vBlank),
      Low(t.hFront), Low(t.hSync), (t.vFront % 16) * 16 + (t.vSync % 16), 0,
      Low(t.hMm), Low(t.vMm), High(t.hMm, t.vMm), 0, 0, 30>>

\* What the desktop reads in a DTD.
ReadDtd(d) ==
    [clock |-> 10 * (d[1] + 256 * d[2]),
     hActive |-> d[3] + 256 * (d[5] \div 16), hBlank |-> d[4] + 256 * (d[5] % 16),
     vActive |-> d[6] + 256 * (d[8] \div 16), vBlank |-> d[7] + 256 * (d[8] % 16),
     hFront |-> d[9], hSync |-> d[10], vFront |-> d[11] \div 16, vSync |-> d[11] % 16,
     hMm |-> d[13] + 256 * (d[15] \div 16), vMm |-> d[14] + 256 * (d[15] % 16)]

Mode(f) == ModeTiming(Dims(f).w, Dims(f).h, ModeHz(SessionParams(f).fps))

-----------------------------------------------------------------------------
(* Properties.                                                             *)

\* What a receiver is to make of a message: all of it, but for the contacts
\* beyond the cap, the pressure of an old client, and the fields and names that
\* an old HELLO does not have.
Meant(m) ==
    CASE m.type = "Hello" -> Message("Hello", [i \in 1 .. 10 |-> IF i <= Len(m.f) THEN m.f[i] ELSE 0],
                                     IF m.data = <<>> THEN << <<>>, <<>> >> ELSE m.data)
      [] m.type = "Touch" -> [m EXCEPT !.f = IF Len(@) > 4 * MaxContacts THEN SubSeq(@, 1, 4 * MaxContacts) ELSE @]
      [] m.type = "Input" /\ Len(m.f) = 3 -> [m EXCEPT !.f = Append(@, FullPressure)]
      [] OTHER -> m

\* However the stream is cut, and whatever malformed lengths are between them, the
\* messages come out as they were meant, in order, and all of them once every byte
\* has arrived. (encode_*, decode_*, MessageParser.)
MessagesArrive ==
    /\ \A i \in DOMAIN got : i \in DOMAIN sent /\ got[i] = Meant(sent[i])
    /\ wire = <<>> /\ Len(buf) = pos => Len(got) = Len(sent)

\* A HELLO that ends early, at any byte, gives each of its fields as it was sent
\* or as its default, never something read past its end or at another's place.
CutHelloHarmless ==
    sent # <<>> /\ Last(sent).type = "Hello" =>
        LET body == Body(Last(sent))
            meant == Meant(Last(sent))
        IN  \A n \in 0 .. Len(body) : Accepts("Hello", SubSeq(body, 1, n)) =>
                LET cut == DecodeHello(SubSeq(body, 1, n)) IN
                /\ \A k \in 1 .. 10 : cut.f[k] \in {meant.f[k], 0}
                /\ \A k \in 1 .. 2 : cut.data[k] \in {meant.data[k], <<>>}

\* The device gets what its HELLO asks for, where its version can ask and it does
\* not leave it open, and the command line where not; never a rate that no
\* monitor has.
HelloObeyed ==
    \A i \in DOMAIN got : got[i].type = "Hello" =>
        LET f == got[i].f
            asks == sent[i].f
            p == SessionParams(f)
            said(k) == Len(asks) >= k /\ asks[k] # 0
        IN  /\ p.fps = IF said(5) THEN Signed(asks[5], 4) ELSE Cli.fps
            /\ p.kbps = IF said(8) THEN Signed(asks[8], 4) ELSE Cli.kbps
            /\ p.audio = IF Len(asks) < 7 THEN Cli.audio ELSE said(6)
            /\ ModeHz(p.fps) \in 1 .. MaxModeHz

\* Whole or cut, a HELLO is obeyed as far as it goes.
HelloHeard == CutHelloHarmless /\ HelloObeyed

\* The desktop reads the mode out of the EDID that was put into it, as far as its
\* fields reach: 655.35 MHz, and 4095 pixels.
ModeSurvives ==
    \A i \in DOMAIN got : got[i].type = "Hello" =>
        LET t == Mode(got[i].f) IN
        t.clock <= 655350 /\ t.hActive < 4096 /\ t.vActive < 4096 => ReadDtd(WriteDtd(t)) = t

\* "Clamp to something a real monitor could advertise": the clock of every mode
\* that a client gets can be written into its EDID.
ClockFits ==
    \A i \in DOMAIN got : got[i].type = "Hello" => LET t == Mode(got[i].f) IN ReadDtd(WriteDtd(t)).clock = t.clock
=============================================================================
