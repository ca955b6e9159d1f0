---------------------------- MODULE MCWireCodec ----------------------------
(* WireCodec for TLC: bytes below twenty, and a sample of every message at  *)
(* the ends of its fields' ranges.                                          *)
EXTENDS WireCodec

M(type, f) == Message(type, f, <<>>)
Name == <<3, 0, 7>>
Names == <<Name, <<1>>>>

\* Tablets of three sizes, one that reports nothing, one with an absurd rate, and
\* HELLOs of every version.
Hellos ==
    {Message("Hello", <<6, 2960, 1848, 320, 60, 1, 0, 9000, 399, 1>>, Names),
     Message("Hello", <<6, 1920, 1200, 0, 80001, 0, 3, 0, 0, 2>>, <<Name, <<>>>>),
     Message("Hello", <<5, 1200, 1920, 240, 1, 1, 1, 159999>>, << <<>>, Name>>),
     Message("Hello", <<4, 0, 0, 0, 0, 1, 2>>, Names),
     Message("Hello", <<3, 1280, 800, 160>>, Names),
     Message("Hello", <<2, 1280, 800, 160>>, <<>>)}
Fast == {Message("Hello", <<6, 2960, 1848, 320, 120, 1, 0, 9000, 0, 0>>, Names)}

Others ==
    {M("Bye", <<>>), M("KeyframeRequest", <<>>), M("Ping", <<>>), M("Pong", <<>>),
     M("Orientation", <<3>>), M("Overlay", <<1>>), M("Key", <<399, 2>>),
     M("MouseButton", <<2, 1, 0, 255>>), M("Scroll", <<-200, 199, 20, 19>>),
     M("Pen", <<399, 0, 100, 3>>), M("StreamParams", <<60, 159999, 1>>),
     M("Input", <<1, 255, 16>>), M("Input", <<2, 1, 2, 3>>),
     Message("Video", <<1048577, 1>>, << <<0, 0, 0, 1>> >>), Message("Audio", <<>>, << <<9>> >>),
     Message("Config", <<1920, 1200, 60>>, << <<>> >>), Message("Config", <<0, 1, 159999>>, << <<0, 5>> >>),
     M("Touch", <<>>), M("Touch", <<1, 2, 3, 4>>), M("Touch", <<0, 399, 0, 1, 19, 9, 8, 7, 3, 3, 3, 3>>)}
Every == Hellos \cup Others

OnTheLine == [fps |-> 30, audio |-> TRUE, orientation |-> 0, kbps |-> 8000, w |-> 1920, h |-> 1080, refresh |-> 60]
=============================================================================
