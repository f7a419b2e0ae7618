----------------------------- MODULE P2P_proofs -----------------------------
(***************************************************************************)
(* Proofs about P2P: for any users, rooms, commands and addresses, what is *)
(* answered OK stays in the list, and broadcasts are complete and own.     *)
(***************************************************************************)
EXTENDS P2P, TLAPS

-----------------------------------------------------------------------------
(* Lists.                                                                   *)

\* Appending keeps the elements and what the list extends, and adds its own.
LEMMA AppendGrows ==
    ASSUME NEW s \in Seq(Addrs), NEW a \in Addrs
    PROVE  /\ Append(s, a) \in Seq(Addrs)
           /\ Extends(Append(s, a), s)
           /\ a \in Elements(Append(s, a))
<1>1. /\ Append(s, a) \in Seq(Addrs)
      /\ Len(Append(s, a)) = Len(s) + 1
      /\ Append(s, a)[Len(s) + 1] = a
      /\ \A i \in 1..Len(s) : Append(s, a)[i] = s[i]
  OBVIOUS
<1>2. DOMAIN s = 1..Len(s) /\ Len(s) \in Nat
  OBVIOUS
<1>3. Len(s) + 1 \in DOMAIN Append(s, a)
  BY <1>1, <1>2
<1> QED
  BY <1>1, <1>2, <1>3 DEF Extends, Elements

\* A list that extends another has its elements, and extends what it extends.
LEMMA ExtendsFacts ==
    ASSUME NEW s \in Seq(Addrs), NEW t \in Seq(Addrs), Extends(t, s)
    PROVE  /\ Elements(s) \subseteq Elements(t)
           /\ \A x \in Seq(Addrs) : Extends(s, x) => Extends(t, x)
<1>1. /\ DOMAIN s = 1..Len(s) /\ DOMAIN t = 1..Len(t)
      /\ Len(s) \in Nat /\ Len(t) \in Nat /\ Len(s) <= Len(t)
      /\ \A i \in 1..Len(s) : t[i] = s[i]
  BY DEF Extends
<1>2. Elements(s) \subseteq Elements(t)
  <2>1. ASSUME NEW i \in 1..Len(s) PROVE s[i] \in Elements(t)
    <3>1. i \in DOMAIN t /\ t[i] = s[i]
      BY <1>1
    <3> QED
      BY <3>1, Zenon DEF Elements
  <2> QED
    BY <1>1, <2>1 DEF Elements
<1>3. ASSUME NEW x \in Seq(Addrs), Extends(s, x) PROVE Extends(t, x)
  <2>1. DOMAIN x = 1..Len(x) /\ Len(x) \in Nat /\ Len(x) <= Len(s)
        /\ \A i \in 1..Len(x) : s[i] = x[i]
    BY <1>3 DEF Extends
  <2>2. \A i \in 1..Len(x) : i \in 1..Len(s)
    BY <1>1, <2>1
  <2>3. \A i \in 1..Len(x) : t[i] = x[i]
    BY <1>1, <2>1, <2>2
  <2> QED
    BY <1>1, <2>1, <2>3 DEF Extends
<1> QED
  BY <1>2, <1>3

\* Every list extends itself.
LEMMA ExtendsItself == \A s \in Seq(Addrs) : Extends(s, s)
  BY DEF Extends

-----------------------------------------------------------------------------
(* The inductive invariant.                                                 *)

\* What a handler relies on: its room was there when it looked; what it was told
\* to keep or to list is kept or listed while the room lives.
SlotInv(c) == LET h == cmd[c] IN
    /\ h.at \in {"update", "read", "send", "reported", "sent"} =>
           h.room \in Rooms /\ room[h.room] # "none"
    /\ h.at = "update" => h.addr \in Addrs
    /\ h.at = "reported" /\ room[h.room] = "open" => h.addr \in Elements(addrs[h.room])
    /\ h.at = "read" /\ room[h.room] = "open" => h.base \subseteq Elements(addrs[h.room])
    /\ h.at \in {"send", "sent"} =>
           h.base \subseteq Elements(h.list) /\ Extends(addrs[h.room], h.list)

MembersOpen == \A r \in Rooms : members[r] # {} => room[r] = "open"

IInv ==
    /\ TypeOK
    /\ MembersOpen
    /\ \A c \in Commands : SlotInv(c)
    /\ HeardIsOwn

\* Rooms are made once and never reopened; lists are only extended.
Forward ==
    /\ \A r \in Rooms : room'[r] = "none" => room[r] = "none"
    /\ \A r \in Rooms : room'[r] = "open" => room[r] # "gone"
    /\ \A r \in Rooms : Extends(addrs'[r], addrs[r])

\* The fields of a handler.
LEMMA FieldTypes ==
    ASSUME TypeOK, NEW c \in Commands
    PROVE  /\ cmd[c].user \in Users \union {None}
           /\ cmd[c].room \in Rooms \union {None}
           /\ cmd[c].addr \in Addrs \union {None}
           /\ cmd[c].list \in Seq(Addrs)
           /\ cmd[c].base \in SUBSET Addrs
BY DEF TypeOK, HandlerType

\* A handler that does not move keeps its part of the invariant while rooms and
\* lists go forward.
LEMMA IdleSlot ==
    ASSUME TypeOK, addrs' \in [Rooms -> Seq(Addrs)], Forward,
           NEW c \in Commands, SlotInv(c), cmd'[c] = cmd[c]
    PROVE  SlotInv(c)'
<1> DEFINE h == cmd[c]
<1>1. h.list \in Seq(Addrs)
  BY FieldTypes
<1>2. CASE h.at \notin {"update", "read", "send", "reported", "sent"}
  BY <1>2 DEF SlotInv
<1>3. CASE h.at \in {"update", "read", "send", "reported", "sent"}
  <2>1. /\ h.room \in Rooms /\ room[h.room] # "none" /\ room'[h.room] # "none"
        /\ room'[h.room] = "open" => room[h.room] # "gone"
        /\ addrs[h.room] \in Seq(Addrs) /\ addrs'[h.room] \in Seq(Addrs)
        /\ Extends(addrs'[h.room], addrs[h.room])
        /\ room[h.room] \in {"none", "open", "gone"}
    BY <1>3 DEF SlotInv, Forward, TypeOK
  <2>2. /\ room'[h.room] = "open" => room[h.room] = "open"
        /\ Elements(addrs[h.room]) \subseteq Elements(addrs'[h.room])
        /\ Extends(addrs[h.room], h.list) => Extends(addrs'[h.room], h.list)
    BY <2>1, <1>1, ExtendsFacts
  <2> HIDE DEF h
  <2> QED
    BY <2>1, <2>2 DEF SlotInv, h
<1> QED
  BY <1>2, <1>3

\* What was heard stays the beginning of its room's list.
LEMMA HeardStays ==
    ASSUME TypeOK, addrs' \in [Rooms -> Seq(Addrs)], Forward, HeardIsOwn, UNCHANGED heard
    PROVE  HeardIsOwn'
<1> SUFFICES ASSUME NEW u \in Users, heard[u].room # None
             PROVE  Extends(addrs'[heard[u].room], heard[u].list)
  BY DEF HeardIsOwn
<1>1. heard[u].room \in Rooms /\ heard[u].list \in Seq(Addrs)
  BY DEF TypeOK
<1>2. /\ Extends(addrs[heard[u].room], heard[u].list)
      /\ Extends(addrs'[heard[u].room], addrs[heard[u].room])
      /\ addrs[heard[u].room] \in Seq(Addrs) /\ addrs'[heard[u].room] \in Seq(Addrs)
  BY <1>1 DEF HeardIsOwn, Forward, TypeOK
<1> QED
  BY <1>1, <1>2, ExtendsFacts

\* Nothing has happened at first.
LEMMA InitInv == Init => IInv
<1> SUFFICES ASSUME Init PROVE IInv
  OBVIOUS
<1>1. <<>> \in Seq(Addrs) /\ {} \in SUBSET Addrs
  OBVIOUS
<1>2. /\ Handler("new", None, None, None, <<>>, {}) \in HandlerType
      /\ Handler("new", None, None, None, <<>>, {}).at = "new"
  BY <1>1 DEF Handler, HandlerType
<1>3. TypeOK
  BY <1>1, <1>2 DEF Init, TypeOK, Broadcast
<1>4. \A c \in Commands : SlotInv(c)
  BY <1>2 DEF Init, SlotInv
<1>5. MembersOpen /\ HeardIsOwn
  BY DEF Init, MembersOpen, HeardIsOwn, Broadcast
<1> QED
  BY <1>3, <1>4, <1>5 DEF IInv

-----------------------------------------------------------------------------
(* Steps of the rooms.                                                      *)

\* Users come and go: nothing the invariant says is disturbed.
LEMMA RoomStepInv == IInv /\ RoomStep => IInv'
<1> SUFFICES ASSUME IInv, RoomStep PROVE IInv'
  OBVIOUS
<1>1. /\ room' \in [Rooms -> {"none", "open", "gone"}]
      /\ members' \in [Rooms -> SUBSET Users]
      /\ prop' \in [Rooms -> {"absent", "list", "other"}]
      /\ UNCHANGED <<addrs, cmd, heard>>
      /\ \A r \in Rooms : room'[r] = "none" => room[r] = "none"
      /\ \A r \in Rooms : room'[r] = "open" => room[r] # "gone"
      /\ MembersOpen'
  <2> USE DEF IInv, TypeOK, MembersOpen
  <2>1. ASSUME NEW u \in Users, NEW r \in Rooms, Create(u, r) PROVE <1>1!:
    BY <2>1 DEF Create
  <2>2. ASSUME NEW u \in Users, NEW r \in Rooms, Join(u, r) PROVE <1>1!:
    BY <2>2 DEF Join
  <2>3. ASSUME NEW u \in Users, NEW r \in Rooms, Leave(u, r) PROVE <1>1!:
    <3>1. room[r] = "open"
      BY <2>3 DEF Leave, InRoom
    <3> QED
      BY <2>3, <3>1 DEF Leave, InRoom
  <2>4. ASSUME NEW r \in Rooms, StoreOther(r) PROVE <1>1!:
    BY <2>4 DEF StoreOther
  <2> QED
    BY <2>1, <2>2, <2>3, <2>4 DEF RoomStep
<1>2. TypeOK'
  BY <1>1 DEF IInv, TypeOK
<1>3. Forward
  BY <1>1, ExtendsItself DEF Forward, IInv, TypeOK
<1>4. addrs' \in [Rooms -> Seq(Addrs)]
  BY <1>1 DEF IInv, TypeOK
<1>5. \A c \in Commands : SlotInv(c)'
  BY <1>1, <1>3, <1>4, IdleSlot DEF IInv
<1>6. HeardIsOwn'
  BY <1>1, <1>3, <1>4, HeardStays DEF IInv
<1> QED
  BY <1>1, <1>2, <1>5, <1>6 DEF IInv

-----------------------------------------------------------------------------
(* Steps of the handlers.                                                   *)

\* A handler moves to h, rooms stay and lists go forward.
LEMMA Moved ==
    ASSUME IInv, NEW c \in Commands, NEW h \in HandlerType,
           cmd' = [cmd EXCEPT ![c] = h], UNCHANGED <<room, members>>,
           prop' \in [Rooms -> {"absent", "list", "other"}],
           addrs' \in [Rooms -> Seq(Addrs)], Forward,
           heard' \in [Users -> [room : Rooms \union {None}, list : Seq(Addrs)]],
           HeardIsOwn', SlotInv(c)'
    PROVE  IInv'
<1>1. TypeOK'
  BY DEF IInv, TypeOK
<1>2. MembersOpen'
  BY DEF IInv, MembersOpen
<1>3. ASSUME NEW d \in Commands, d # c PROVE SlotInv(d)'
  <2>1. cmd'[d] = cmd[d]
    BY <1>3 DEF IInv, TypeOK
  <2> QED
    BY <2>1, IdleSlot DEF IInv
<1> QED
  BY <1>1, <1>2, <1>3 DEF IInv

\* A handler moves and nothing else does.
LEMMA OnlyMoved ==
    ASSUME IInv, NEW c \in Commands, NEW h \in HandlerType,
           cmd' = [cmd EXCEPT ![c] = h], UNCHANGED <<room, members, prop, addrs, heard>>,
           SlotInv(c)'
    PROVE  IInv'
<1>1. Forward
  BY ExtendsItself DEF IInv, TypeOK, Forward
<1>2. addrs' \in [Rooms -> Seq(Addrs)]
  BY DEF IInv, TypeOK
<1>3. HeardIsOwn'
  BY <1>1, <1>2, HeardStays DEF IInv
<1>4. /\ prop' \in [Rooms -> {"absent", "list", "other"}]
      /\ heard' \in [Users -> [room : Rooms \union {None}, list : Seq(Addrs)]]
  BY DEF IInv, TypeOK
<1> QED
  BY <1>1, <1>2, <1>3, <1>4, Moved

\* A refused command says nothing.
LEMMA RefusedInv ==
    ASSUME IInv, NEW c \in Commands, NEW u \in Users \union {None}, Refused(c, u),
           UNCHANGED <<room, members, prop, addrs, heard>>
    PROVE  IInv'
<1> DEFINE h == Handler("bad", u, None, None, <<>>, {})
<1>1. h \in HandlerType /\ h.at = "bad"
  BY DEF Handler, HandlerType
<1>2. cmd' = [cmd EXCEPT ![c] = h]
  BY DEF Refused, Become
<1> HIDE DEF h
<1>3. cmd'[c] = h
  BY <1>2 DEF IInv, TypeOK
<1>4. SlotInv(c)'
  BY <1>1, <1>3 DEF SlotInv
<1> QED
  BY <1>1, <1>2, <1>4, OnlyMoved

\* A command that found its client's room.
LEMMA FoundInv ==
    ASSUME IInv, NEW c \in Commands, NEW u \in Users, NEW r \in Rooms, InRoom(u, r),
           NEW a \in Addrs \union {None}, UNCHANGED <<room, members, prop, addrs, heard>>,
           \/ a # None /\ Become(c, Handler("update", u, r, a, <<>>, {}))
           \/ Become(c, Handler("read", u, r, None, <<>>, Reported(r)))
    PROVE  IInv'
<1>1. room[r] = "open"
  BY DEF IInv, MembersOpen, InRoom
<1>2. Reported(r) \subseteq Elements(addrs[r])
  BY <1>1 DEF Reported, IInv, SlotInv
<1>3. Elements(addrs[r]) \subseteq Addrs
  BY DEF IInv, TypeOK, Elements
<1>4. CASE a # None /\ Become(c, Handler("update", u, r, a, <<>>, {}))
  <2> DEFINE h == Handler("update", u, r, a, <<>>, {})
  <2>1. h \in HandlerType /\ h.at = "update" /\ h.room = r /\ h.addr = a
    BY DEF Handler, HandlerType
  <2>2. cmd' = [cmd EXCEPT ![c] = h]
    BY <1>4 DEF Become
  <2> HIDE DEF h
  <2>3. cmd'[c] = h
    BY <2>2 DEF IInv, TypeOK
  <2>4. SlotInv(c)'
    BY <1>1, <1>4, <2>1, <2>3 DEF SlotInv
  <2> QED
    BY <2>1, <2>2, <2>4, OnlyMoved
<1>5. CASE Become(c, Handler("read", u, r, None, <<>>, Reported(r)))
  <2> DEFINE h == Handler("read", u, r, None, <<>>, Reported(r))
  <2>1. h \in HandlerType /\ h.at = "read" /\ h.room = r /\ h.base = Reported(r)
    BY <1>2, <1>3 DEF Handler, HandlerType
  <2>2. cmd' = [cmd EXCEPT ![c] = h]
    BY <1>5 DEF Become
  <2> HIDE DEF h
  <2>3. cmd'[c] = h
    BY <2>2 DEF IInv, TypeOK
  <2>4. SlotInv(c)'
    BY <1>1, <1>2, <2>1, <2>3 DEF SlotInv
  <2> QED
    BY <2>1, <2>2, <2>4, OnlyMoved
<1> QED
  BY <1>4, <1>5

\* The list is extended, and the report is in it from then on.
LEMMA UpdateListInv == ASSUME IInv, NEW c \in Commands, UpdateList(c) PROVE IInv'
<1> DEFINE r == cmd[c].room
           a == cmd[c].addr
           h == Handler("reported", cmd[c].user, r, a, <<>>, {})
<1>1. /\ r \in Rooms /\ a \in Addrs /\ addrs[r] \in Seq(Addrs)
      /\ room[r] = "open" /\ UNCHANGED <<room, members, heard>>
      /\ prop' = [prop EXCEPT ![r] = "list"]
      /\ addrs' = [addrs EXCEPT ![r] = Append(addrs[r], a)]
      /\ cmd' = [cmd EXCEPT ![c] = h]
  BY DEF UpdateList, Become, IInv, SlotInv, TypeOK
<1>2. h \in HandlerType /\ h.at = "reported" /\ h.room = r /\ h.addr = a
  BY <1>1, FieldTypes DEF IInv, Handler, HandlerType
<1> HIDE DEF r, a, h
<1>3. /\ addrs' \in [Rooms -> Seq(Addrs)] /\ addrs'[r] = Append(addrs[r], a)
      /\ \A q \in Rooms : q # r => addrs'[q] = addrs[q]
  BY <1>1, AppendGrows DEF IInv, TypeOK
<1>4. Forward
  <2>1. \A q \in Rooms : Extends(addrs'[q], addrs[q])
    BY <1>1, <1>3, AppendGrows, ExtendsItself DEF IInv, TypeOK
  <2> QED
    BY <1>1, <2>1 DEF Forward, IInv, TypeOK
<1>5. a \in Elements(addrs'[r])
  BY <1>1, <1>3, AppendGrows
<1>6. cmd'[c] = h
  BY <1>1 DEF IInv, TypeOK
<1>7. SlotInv(c)'
  BY <1>1, <1>2, <1>5, <1>6 DEF SlotInv
<1>8. HeardIsOwn'
  BY <1>1, <1>3, <1>4, HeardStays DEF IInv
<1>9. /\ prop' \in [Rooms -> {"absent", "list", "other"}]
      /\ heard' \in [Users -> [room : Rooms \union {None}, list : Seq(Addrs)]]
  BY <1>1 DEF IInv, TypeOK
<1> QED
  BY <1>1, <1>2, <1>3, <1>4, <1>7, <1>8, <1>9, Moved

\* A report whose room has ended, and a read of something that is not a list.
LEMMA EndInv ==
    ASSUME IInv, NEW c \in Commands, UpdateNothing(c) \/ ReadInvalid(c)
    PROVE  IInv'
<1>1. cmd[c].room \in Rooms
  BY DEF UpdateNothing, ReadInvalid, IInv, SlotInv
<1>2. CASE UpdateNothing(c)
  <2> DEFINE h == Handler("reported", cmd[c].user, cmd[c].room, cmd[c].addr, <<>>, {})
  <2>1. h \in HandlerType /\ h.at = "reported" /\ h.room = cmd[c].room
    BY FieldTypes DEF IInv, Handler, HandlerType
  <2>2. cmd' = [cmd EXCEPT ![c] = h]
    BY <1>2 DEF UpdateNothing, Become
  <2> HIDE DEF h
  <2>3. cmd'[c] = h
    BY <2>2 DEF IInv, TypeOK
  <2>4. SlotInv(c)'
    BY <1>1, <1>2, <2>1, <2>3 DEF SlotInv, UpdateNothing, roomVars
  <2> QED
    BY <1>2, <2>1, <2>2, <2>4, OnlyMoved DEF UpdateNothing, roomVars
<1>3. CASE ReadInvalid(c)
  <2> DEFINE h == Handler("panic", cmd[c].user, cmd[c].room, None, <<>>, {})
  <2>1. h \in HandlerType /\ h.at = "panic"
    BY FieldTypes DEF IInv, Handler, HandlerType
  <2>2. cmd' = [cmd EXCEPT ![c] = h]
    BY <1>3 DEF ReadInvalid, Become
  <2> HIDE DEF h
  <2>3. cmd'[c] = h
    BY <2>2 DEF IInv, TypeOK
  <2>4. SlotInv(c)'
    BY <2>1, <2>3 DEF SlotInv
  <2> QED
    BY <1>3, <2>1, <2>2, <2>4, OnlyMoved DEF ReadInvalid, roomVars
<1> QED
  BY <1>2, <1>3

\* The list is read whole.
LEMMA ReadListInv == ASSUME IInv, NEW c \in Commands, ReadList(c) PROVE IInv'
<1> DEFINE r == cmd[c].room
           h == Handler("send", cmd[c].user, r, None, addrs[r], cmd[c].base)
<1>1. /\ r \in Rooms /\ room[r] = "open" /\ addrs[r] \in Seq(Addrs)
      /\ cmd[c].base \subseteq Elements(addrs[r])
      /\ cmd' = [cmd EXCEPT ![c] = h]
      /\ UNCHANGED <<room, members, prop, addrs, heard>>
  BY DEF ReadList, Become, IInv, SlotInv, TypeOK, roomVars
<1>2. /\ h \in HandlerType /\ h.at = "send" /\ h.room = r
      /\ h.list = addrs[r] /\ h.base = cmd[c].base
  BY <1>1, FieldTypes DEF IInv, Handler, HandlerType
<1> HIDE DEF h
<1>3. cmd'[c] = h
  BY <1>1 DEF IInv, TypeOK
<1>4. Extends(addrs[r], addrs[r])
  BY <1>1, ExtendsItself
<1>5. SlotInv(c)'
  BY <1>1, <1>2, <1>3, <1>4 DEF SlotInv
<1> QED
  BY <1>1, <1>2, <1>5, OnlyMoved

\* The members hear the beginning of their room's list.
LEMMA SendListInv == ASSUME IInv, NEW c \in Commands, SendList(c) PROVE IInv'
<1> DEFINE r == cmd[c].room
           l == cmd[c].list
           h == Handler("sent", cmd[c].user, r, None, l, cmd[c].base)
<1>1. /\ r \in Rooms /\ l \in Seq(Addrs) /\ room[r] # "none"
      /\ Extends(addrs[r], l) /\ cmd[c].base \subseteq Elements(l)
      /\ cmd' = [cmd EXCEPT ![c] = h]
      /\ UNCHANGED <<room, members, prop, addrs>>
      /\ heard' = [u \in Users |-> IF u \in members[r] THEN Broadcast(r, l) ELSE heard[u]]
  BY FieldTypes DEF SendList, Become, IInv, SlotInv, roomVars
<1>2. /\ h \in HandlerType /\ h.at = "sent" /\ h.room = r
      /\ h.list = l /\ h.base = cmd[c].base
  BY <1>1, FieldTypes DEF IInv, Handler, HandlerType
<1> HIDE DEF r, l, h
<1>3. cmd'[c] = h
  BY <1>1 DEF IInv, TypeOK
<1>4. SlotInv(c)'
  BY <1>1, <1>2, <1>3 DEF SlotInv
<1>5. heard' \in [Users -> [room : Rooms \union {None}, list : Seq(Addrs)]]
  BY <1>1 DEF IInv, TypeOK, Broadcast
<1>6. HeardIsOwn'
  BY <1>1 DEF IInv, HeardIsOwn, Broadcast
<1>7. Forward
  BY <1>1, ExtendsItself DEF IInv, TypeOK, Forward
<1>8. prop' \in [Rooms -> {"absent", "list", "other"}] /\ addrs' \in [Rooms -> Seq(Addrs)]
  BY <1>1 DEF IInv, TypeOK
<1> QED
  BY <1>1, <1>2, <1>4, <1>5, <1>6, <1>7, <1>8, Moved

\* Every step of a handler keeps the invariant.
LEMMA CommandStepInv == ASSUME IInv, NEW c \in Commands, CommandStep(c) PROVE IInv'
<1>1. ASSUME NEW u \in Users, NEW a \in Addrs \union {None}, ReportRefused(c, u, a) PROVE IInv'
  BY <1>1, RefusedInv DEF ReportRefused, roomVars
<1>2. ASSUME NEW u \in Users, NEW a \in Addrs \union {None}, NEW r \in Rooms, Report(c, u, a, r)
      PROVE  IInv'
  BY <1>2, FoundInv DEF Report, roomVars
<1>3. ASSUME NEW u \in Users, InitRefused(c, u) PROVE IInv'
  BY <1>3, RefusedInv DEF InitRefused, roomVars
<1>4. ASSUME NEW u \in Users, NEW r \in Rooms, InitP2P(c, u, r) PROVE IInv'
  <2>1. /\ InRoom(u, r) /\ UNCHANGED <<room, members, prop, addrs, heard>>
        /\ Become(c, Handler("read", u, r, None, <<>>, Reported(r)))
        /\ None \in Addrs \union {None}
    BY <1>4 DEF InitP2P, roomVars
  <2> QED
    BY <2>1, FoundInv
<1>5. CASE UpdateInvalid(c) \/ ReadNothing(c)
  BY <1>5, RefusedInv, FieldTypes DEF UpdateInvalid, ReadNothing, roomVars, IInv
<1> QED
  BY <1>1, <1>2, <1>3, <1>4, <1>5, UpdateListInv, EndInv, ReadListInv, SendListInv
     DEF CommandStep

-----------------------------------------------------------------------------
(* Theorems.                                                                *)

\* The inductive invariant holds in every reachable state.
THEOREM Invariance == Spec => []IInv
<1>1. IInv /\ [Next]_vars => IInv'
  <2> SUFFICES ASSUME IInv, [Next]_vars PROVE IInv'
    OBVIOUS
  <2>1. CASE UNCHANGED vars
    BY <2>1 DEF vars, IInv, TypeOK, MembersOpen, SlotInv, HeardIsOwn
  <2> QED
    BY <2>1, RoomStepInv, CommandStepInv DEF Next
<1> QED
  BY <1>1, InitInv, PTL DEF Spec

\* Every variable keeps its type.
THEOREM TypeCorrect == Spec => []TypeOK
<1>1. IInv => TypeOK
  BY DEF IInv
<1> QED
  BY <1>1, Invariance, PTL

\* A report answered OK is in the list for as long as the room lives.
THEOREM ReportsAreKept == Spec => []ReportsKept
<1>1. IInv => ReportsKept
  BY DEF IInv, SlotInv, ReportsKept, Reported
<1> QED
  BY <1>1, Invariance, PTL

\* A broadcast list names all that was reported before its command came.
THEOREM BroadcastsAreComplete == Spec => []BroadcastComplete
<1>1. IInv => BroadcastComplete
  BY DEF IInv, SlotInv, BroadcastComplete
<1> QED
  BY <1>1, Invariance, PTL

\* What a user hears is the beginning of the list of the room it heard it in.
THEOREM HeardAreOwn == Spec => []HeardIsOwn
<1>1. IInv => HeardIsOwn
  BY DEF IInv
<1> QED
  BY <1>1, Invariance, PTL
=============================================================================
