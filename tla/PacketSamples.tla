--------------------------- MODULE PacketSamples ---------------------------
(* Values that the packets of Packets are checked with, for bytes of 16     *)
(* values: a size of two bytes ends at 255.                                 *)
EXTENDS Integers

Zeros(n) == [i \in 1 .. n |-> 0]
\* Strings: empty, short, one that looks like a size, the longest, one longer.
Texts == {<<>>, <<7>>, <<0, 3, 9>>, Zeros(255), Zeros(256)}
Short == {<<>>, <<7>>, <<0, 1>>}
Name(b) == <<b, b>>
Floats == {0, 16383, 65535}
Vector(n, x) == [i \in 1 .. n |-> x + i - 1]
Frame(x, engine, moving) ==
    <<Vector(3, x), x, engine, moving, ~moving, moving, Vector(3, x + 1), x,
      Vector(4, x), moving, 70000, Vector(3, x), Vector(2, x)>>
\* With an engine's name of 160 bytes the frame has 254, with one of 162 its
\* size no longer fits although the name's does.
Frames == {Frame(5, <<1, 2>>, TRUE), Frame(0, <<>>, FALSE),
           Frame(9, Zeros(160), TRUE), Frame(9, Zeros(162), TRUE)}
Maps == {<<>>, <<<<5, Name(1)>>>>, <<<<5, Name(1)>>, <<60000, Name(2)>>>>}

SomeSamples ==
    [Vector2 |-> Floats \X Floats,
     Frame |-> Frames,
     Sync |-> {<<>>, <<Frame(5, <<1, 2>>, TRUE)>>,
               <<Frame(9, Zeros(162), TRUE)>>,
               <<Frame(0, <<>>, FALSE), Frame(5, <<3>>, TRUE)>>}
              \X {<<7>>} \X {<<>>, <<0, 3, 9>>},
     Object |-> Short \X {<<>>, <<1>>, <<70000, 2>>} \X {<<>>, <<<<1>>, <<>>>>}
                \X {0, 15},
     Broadcast |-> Texts \X Short,
     Complete |-> {<<<<>>>>, <<<<<<7>>>>>>, <<<<<<>>, <<0, 1>>, <<2>>>>>>},
     Field |-> {0, 70000} \X {0, 70000} \X {65535},
     Echo |-> {<<t>> : t \in Texts},
     RoomReq |-> {255} \X {1} \X {0} \X {60} \X {0} \X {200},
     RoomRes |-> {1} \X {<<>>, <<1, 2>>, Zeros(15)},
     Issue |-> {<<0>>, <<15>>},
     Leave |-> {<<3>>},
     Add |-> {60} \X {<<a, b>> : a \in {<<1>>, <<1, 2, 3>>}, b \in Short} \X Maps
             \X {<<>>, <<4, 5, 6>>},
     Remove |-> {<<<<<<1>>, t>>>> : t \in Short}
                \union {<<<<<<1>>, <<2>>, <<3>>>>>>},
     Search |-> {<<>>, <<Name(1)>>, <<Name(1), <<3>>>>} \X Maps,
     Report |-> {0} \X {<<>>, <<7, 7>>},
     Init |-> {0} \X {<<>>, <<<<7>>>>, <<<<7>>, <<8, 9>>>>}]
=============================================================================
