------------------------------ MODULE Packets ------------------------------
(***************************************************************************)
(* The payloads the programs pack and unpack: the packets Puffer generated *)
(* (bot/field/custom, lib/payload/custom), those of bot/scenario/packets,  *)
(* and the matchmaker's and peer-to-peer payloads of lib/payload.  A       *)
(* packet is a layout, the sequence of its fields; Pack appends each       *)
(* field's bytes, Unpack walks the bytes with an offset.  Byte is the      *)
(* number of values of a byte (256 in the code, less here), so a size of   *)
(* two bytes wraps at Byte^2 as uint16 does.  A float is its bit pattern.  *)
(* A value is what the struct's fields hold, in the order of the layout.   *)
(***************************************************************************)
EXTENDS Integers, SequencesExt

CONSTANTS Byte,     \* how many values a byte has
          Samples   \* for each kind of packet, the values that are sent

VARIABLES kind,     \* the kind of packet underway
          sent,     \* the value its sender packs
          wire,     \* its bytes, or <<>> before Send
          whole,    \* whether all of them are there
          got,      \* what Unpack returned
          step      \* "made", "sent" or "done"
vars == <<kind, sent, wire, whole, got, step>>
-----------------------------------------------------------------------------
(* Kinds of fields. *)
Number(w) == [type |-> "number", width |-> w]
\* The float32 Pack reverses, the one whose reversal is commented out.
Float == [type |-> "float", width |-> 4, reversed |-> TRUE]
StraightFloat == [type |-> "float", width |-> 4, reversed |-> FALSE]
Double == [type |-> "float", width |-> 8, reversed |-> TRUE]
Bool == [type |-> "bool"]
\* A size of w bytes and as many bytes; checked is whether Unpack compares the
\* size with the length of the payload before it slices.
Text(w, checked) == [type |-> "text", width |-> w, checked |-> checked]
Struct(layout) == [type |-> "struct", layout |-> layout]
\* A count of two bytes and as many items.
List(item, checked) == [type |-> "list", of |-> item, checked |-> checked]
\* Items up to the end of the bytes, and the same behind their size in bytes.
Stream(item) == [type |-> "stream", of |-> item]
Block(item) == [type |-> "block", of |-> item]
Pair(layout) == [type |-> "pair", layout |-> layout]
Skip(w) == [type |-> "skip", width |-> w]
Rest == [type |-> "rest"]

String == Text(2, TRUE)
Strings == List(Text(2, FALSE), TRUE)
-----------------------------------------------------------------------------
(* The packets. *)
DiarkisVector2 == <<Float, Float>>
DiarkisVector3 == <<StraightFloat, StraightFloat, StraightFloat>>
DiarkisQuaternion ==
    <<StraightFloat, StraightFloat, StraightFloat, StraightFloat>>
DiarkisCharacterFrameData ==
    <<Struct(DiarkisVector3), StraightFloat, String, Bool, Bool, Bool,
      Struct(DiarkisVector3), StraightFloat, Struct(DiarkisQuaternion), Bool,
      Number(8), Struct(DiarkisVector3), Struct(DiarkisVector2)>>
DiarkisCharacterSyncPayload ==
    <<List(Struct(DiarkisCharacterFrameData), FALSE), String, String>>
P2PUpdateRoomObject == <<String, List(Double, TRUE), Strings, Number(1)>>
StandardBroadcastMessage == <<String, String>>
MMTicketComplete == <<Strings>>
GetFieldInfo == <<Number(8), Number(8), Number(4)>>
\* Mutant of ServerGetFieldInfo: the two copies differ in the order of fields.
ServerGetFieldInfoOther == <<Number(8), Number(4), Number(8)>>
ServerGetFieldInfo == <<Number(8), Number(8), Number(4)>>
Echo == <<String>>
ServerEcho == <<String>>
CreateRoomReq ==
    <<Number(2), Number(1), Number(1), Number(2), Skip(2), Number(4)>>
CreateRoomRes == <<Number(4), Text(1, FALSE)>>
IssueTicketReq == <<Number(1)>>
LeaveMatchingReq == <<Number(1)>>
StringList == Text(2, FALSE)
Props == Pair(<<Number(4), Text(2, FALSE)>>)
MMAdd == <<Number(8), Block(StringList), Block(Props), Rest>>
MMRemove == <<Stream(StringList)>>
MMSearch == <<Block(StringList), Stream(Props)>>
P2PReport == <<Skip(5), Rest>>
P2PInit == <<Skip(5), Stream(StringList)>>

\* The layouts each kind is packed and unpacked with: the load bots and the
\* servers have a copy each of Echo and GetFieldInfo.
PackLayout ==
    [Vector2 |-> DiarkisVector2, Frame |-> DiarkisCharacterFrameData,
     Sync |-> DiarkisCharacterSyncPayload, Object |-> P2PUpdateRoomObject,
     Broadcast |-> StandardBroadcastMessage, Complete |-> MMTicketComplete,
     Field |-> ServerGetFieldInfo, Echo |-> Echo, RoomReq |-> CreateRoomReq,
     RoomRes |-> CreateRoomRes, Issue |-> IssueTicketReq,
     Leave |-> LeaveMatchingReq, Add |-> MMAdd, Remove |-> MMRemove,
     Search |-> MMSearch, Report |-> P2PReport, Init |-> P2PInit]
UnpackLayout ==
    [PackLayout EXCEPT !.Field = GetFieldInfo, !.Echo = ServerEcho]
Kinds == DOMAIN PackLayout
\* The generated packets, whose Unpack checks what it reads.
Puffer == {"Vector2", "Frame", "Sync", "Object", "Broadcast", "Complete",
           "Field", "Echo"}
-----------------------------------------------------------------------------
(* Packing. *)
BigEndian(n, w) == [i \in 1 .. w |-> (n \div Byte^(w - i)) % Byte]
Sized(w, bytes) == BigEndian(Len(bytes), w) \o bytes

RECURSIVE PackField(_, _)
PackFields(layout, v) ==
    FlattenSeq([i \in DOMAIN layout |-> PackField(layout[i], v[i])])
PackItems(item, v) == FlattenSeq([i \in DOMAIN v |-> PackField(item, v[i])])
PackField(f, v) ==
    CASE f.type = "number" -> BigEndian(v, f.width)
      [] f.type = "float" -> IF f.reversed THEN Reverse(BigEndian(v, f.width))
                             ELSE BigEndian(v, f.width)
      [] f.type = "bool" -> <<IF v THEN 1 ELSE 2>>
      [] f.type = "text" -> Sized(f.width, v)
      [] f.type = "struct" -> Sized(2, PackFields(f.layout, v))
      [] f.type = "list" -> BigEndian(Len(v), 2) \o PackItems(f.of, v)
      [] f.type = "stream" -> PackItems(f.of, v)
      [] f.type = "block" -> Sized(2, PackItems(f.of, v))
      [] f.type = "pair" -> PackFields(f.layout, v)
      [] f.type = "skip" -> BigEndian(0, f.width)
      [] f.type = "rest" -> v

\* PackMMSearch prepends the size with append(sizeBytes[0:2], ...): a list of
\* at most two bytes stays in sizeBytes, which the loop over the properties
\* overwrites, and the size that is sent is that of the last name.
PackMMSearch(v) ==
    LET ids == PackItems(StringList, v[1]) IN
    IF Len(ids) <= 2 /\ v[2] # <<>>
    THEN BigEndian(Len(Last(v[2])[2]), 2) \o PackItems(Props, v[2])
    ELSE PackFields(MMSearch, v)

Pack(k, v) ==
    IF k = "Search" THEN PackMMSearch(v) ELSE PackFields(PackLayout[k], v)
-----------------------------------------------------------------------------
(* Unpacking: a value and the offset behind it, "error" when Unpack returns   *)
(* one, "overrun" when it reads behind the payload.                           *)
Ok(v, at) == [kind |-> "ok", value |-> v, at |-> at]
Fail(k) == [kind |-> k, value |-> <<>>, at |-> 0]
Then(r, Next(_, _)) == IF r.kind = "ok" THEN Next(r.value, r.at) ELSE r

Decimal(bytes) == FoldLeft(LAMBDA n, b : n * Byte + b, 0, bytes)
Take(buf, at, n) ==
    IF at + n > Len(buf) THEN Fail("overrun")
    ELSE Ok(SubSeq(buf, at + 1, at + n), at + n)
\* A size or a count, and the check generated for it: against the offset in
\* front of the size, not behind it.
TakeSize(buf, at, w, checked) ==
    Then(Take(buf, at, w),
         LAMBDA b, end : IF checked /\ Decimal(b) + at > Len(buf)
                         THEN Fail("error") ELSE Ok(Decimal(b), end))
TakeText(buf, at, w, checked) ==
    Then(TakeSize(buf, at, w, checked), LAMBDA n, end : Take(buf, end, n))

\* The shortest payload Unpack does not refuse at once.
MinBytes(f) == CASE f.type \in {"number", "float"} -> f.width
                 [] f.type = "bool" -> 1
                 [] OTHER -> 2
Minimum(layout) == FoldLeft(LAMBDA n, f : n + MinBytes(f), 0, layout)

\* A struct whose own Unpack returned an error that nobody looks at.
Partial == "partial"

RECURSIVE UnpackField(_, _, _), UnpackItems(_, _, _, _), UnpackAll(_, _, _)
UnpackFields(layout, buf, from) ==
    FoldLeft(LAMBDA r, f :
                 Then(r, LAMBDA vs, at :
                     Then(UnpackField(f, buf, at),
                          LAMBDA v, end : Ok(Append(vs, v), end))),
             Ok(<<>>, from), layout)
UnpackStruct(layout, buf) ==
    IF Len(buf) < Minimum(layout) THEN Fail("error")
    ELSE UnpackFields(layout, buf, 0)
\* n items; and all there are.
UnpackItems(item, n, buf, at) ==
    IF n = 0 THEN Ok(<<>>, at)
    ELSE Then(UnpackField(item, buf, at), LAMBDA v, end :
             Then(UnpackItems(item, n - 1, buf, end), LAMBDA vs, last :
                 Ok(<<v>> \o vs, last)))
UnpackAll(item, buf, at) ==
    IF at >= Len(buf) THEN Ok(<<>>, at)
    ELSE Then(UnpackField(item, buf, at), LAMBDA v, end :
             Then(UnpackAll(item, buf, end), LAMBDA vs, last :
                 Ok(<<v>> \o vs, last)))
UnpackField(f, buf, at) ==
    CASE f.type = "number" ->
           Then(Take(buf, at, f.width), LAMBDA b, end : Ok(Decimal(b), end))
      [] f.type = "float" ->
           Then(Take(buf, at, f.width),
                LAMBDA b, end : Ok(Decimal(Reverse(b)), end))
      [] f.type = "bool" ->
           Then(Take(buf, at, 1), LAMBDA b, end : Ok(b[1] = 1, end))
      [] f.type = "text" -> TakeText(buf, at, f.width, f.checked)
      [] f.type = "struct" ->
           Then(TakeText(buf, at, 2, TRUE), LAMBDA b, end :
               LET r == UnpackStruct(f.layout, b) IN
               IF r.kind = "error" THEN Ok(Partial, end)
               ELSE Then(r, LAMBDA v, inner : Ok(v, end)))
      [] f.type = "list" ->
           Then(TakeSize(buf, at, 2, f.checked),
                LAMBDA n, end : UnpackItems(f.of, n, buf, end))
      [] f.type = "stream" -> UnpackAll(f.of, buf, at)
      [] f.type = "block" ->
           Then(TakeText(buf, at, 2, FALSE), LAMBDA b, end :
               Then(UnpackAll(f.of, b, 0), LAMBDA v, inner : Ok(v, end)))
      [] f.type = "pair" -> UnpackFields(f.layout, buf, at)
      [] f.type = "skip" ->
           Then(Take(buf, at, f.width), LAMBDA b, end : Ok(0, end))
      [] f.type = "rest" -> Ok(SubSeq(buf, at + 1, Len(buf)), Len(buf))

\* UnpackMMAdd, UnpackMMRemove and UnpackMMSearch refuse what is short, and
\* the first two a list that lacks a name.
UnpackMM(k, buf) ==
    LET r == UnpackFields(UnpackLayout[k], buf, 0)
        shortest == IF k = "Add" THEN 20 ELSE 4
        list == IF k = "Add" THEN r.value[2] ELSE r.value[1]
    IN  IF Len(buf) <= shortest THEN Fail("error")
        ELSE IF r.kind = "ok" /\ k # "Search" /\ Len(list) < 2 THEN Fail("error")
        ELSE r

Unpack(k, buf) ==
    IF k \in Puffer THEN UnpackStruct(UnpackLayout[k], buf)
    ELSE IF k \in {"Add", "Remove", "Search"} THEN UnpackMM(k, buf)
    ELSE UnpackFields(UnpackLayout[k], buf, 0)
-----------------------------------------------------------------------------
Init ==
    /\ kind \in Kinds
    /\ sent \in Samples[kind]
    /\ wire = <<>>
    /\ whole = TRUE
    /\ got = Fail("none")
    /\ step = "made"

Send ==
    /\ step = "made"
    /\ wire' = Pack(kind, sent)
    /\ step' = "sent"
    /\ UNCHANGED <<kind, sent, whole, got>>

\* A payload arrives without its end.
Cut ==
    /\ step = "sent"
    /\ whole
    /\ kind \in Puffer
    /\ \E n \in 0 .. Len(wire) - 1 : wire' = SubSeq(wire, 1, n)
    /\ whole' = FALSE
    /\ UNCHANGED <<kind, sent, got, step>>

Receive ==
    /\ step = "sent"
    /\ got' = Unpack(kind, wire)
    /\ step' = "done"
    /\ UNCHANGED <<kind, sent, wire, whole>>

Next == Send \/ Cut \/ Receive
Spec == Init /\ [][Next]_vars
-----------------------------------------------------------------------------
(* What the packets are for. *)
RECURSIVE Fits(_, _)
\* No size or count of the value is beyond its field: what the generated
\* files say of strings and arrays, and the same of what is nested.
Fits(f, v) ==
    CASE f.type = "text" -> Len(v) < Byte^f.width
      [] f.type = "struct" ->
           /\ \A i \in DOMAIN v : Fits(f.layout[i], v[i])
           /\ Len(PackFields(f.layout, v)) < Byte^2
      [] f.type \in {"list", "stream", "block"} ->
           /\ \A i \in DOMAIN v : Fits(f.of, v[i])
           /\ Len(PackItems(f.of, v)) < Byte^2
      [] OTHER -> TRUE
ValueFits == \A i \in DOMAIN sent : Fits(PackLayout[kind][i], sent[i])

\* No float32 of the layout is packed in the order Unpack does not expect.
RECURSIVE InOrder(_)
InOrder(f) ==
    CASE f.type = "float" -> f.reversed
      [] f.type = "struct" -> \A i \in DOMAIN f.layout : InOrder(f.layout[i])
      [] f.type = "list" -> InOrder(f.of)
      [] OTHER -> TRUE
LayoutInOrder == \A i \in DOMAIN PackLayout[kind] : InOrder(PackLayout[kind][i])

\* The matchmaker payloads Unpack takes for too short although they are whole,
\* and the search without a matchmaking ID.
Awkward ==
    \/ kind = "Add" /\ Len(wire) <= 20
    \/ kind \in {"Remove", "Search"} /\ Len(wire) <= 4
    \/ kind = "Search" /\ Len(PackItems(StringList, sent[1])) <= 2

\* What was packed is what is unpacked, and what lost its end is not taken for
\* it: every packet that arrives whole, whose sizes fit their fields and whose floats are
\* in the order Unpack reads, is unpacked to its value, and of a generated one
\* that lost its end Unpack returns an error or runs over the end.
RoundTrip ==
    step = "done" /\ ValueFits =>
        /\ whole /\ LayoutInOrder /\ ~Awkward => got.kind = "ok" /\ got.value = sent
        /\ ~whole => got.kind # "ok"

\* "Unpack decodes the command payload byte array to [the] struct": every
\* generated packet that arrives whole is unpacked to what was packed.
PufferRoundTrip ==
    step = "done" /\ whole /\ ValueFits /\ kind \in Puffer
        => got.kind = "ok" /\ got.value = sent
=============================================================================
