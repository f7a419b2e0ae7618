-------------------------------- MODULE P2P --------------------------------
(***************************************************************************)
(* The peer-to-peer commands of cmds/custom/p2p.go.                        *)
(*                                                                         *)
(* The members of a room report the addresses they can be reached at       *)
(* (reportP2PAddr); the addresses gather in a list kept under the room's   *)
(* property p2pAddrList.  Any member has the list broadcast to the room    *)
(* (initP2P).  Commands run on goroutines of their own: between two calls  *)
(* of a command others report, members leave, and the room may end.        *)
(***************************************************************************)
EXTENDS Sequences, Naturals, Names

CONSTANTS
    Commands,  \* the commands issued, each once
    Addrs      \* the addresses reported

VARIABLES
    room,     \* room[r]: "none", "open" or "gone"
    members,  \* members[r]: who is in r
    prop,     \* prop[r]: the property p2pAddrList of r: "absent", "list" or "other"
    addrs,    \* addrs[r]: the list itself
    cmd,      \* cmd[c]: how far the handler of a command got
    heard     \* heard[u]: the last broadcast u heard, and in which room

vars == <<room, members, prop, addrs, cmd, heard>>
roomVars == <<room, members, prop>>

Elements(s) == {s[i] : i \in DOMAIN s}

\* t is s with more at its end, or s itself.
Extends(t, s) == Len(s) <= Len(t) /\ \A i \in DOMAIN s : t[i] = s[i]

\* A handler's local variables; base is history: the addresses answered OK for
\* the room before the command came.
Handler(at, user, r, addr, list, base) ==
    [at |-> at, user |-> user, room |-> r, addr |-> addr, list |-> list, base |-> base]
HandlerType ==
    [at : {"new", "update", "read", "send", "reported", "sent", "bad", "panic"},
     user : Users \union {None}, room : Rooms \union {None},
     addr : Addrs \union {None}, list : Seq(Addrs), base : SUBSET Addrs]
Broadcast(r, list) == [room |-> r, list |-> list]

Init ==
    /\ room = [r \in Rooms |-> "none"]
    /\ members = [r \in Rooms |-> {}]
    /\ prop = [r \in Rooms |-> "absent"]
    /\ addrs = [r \in Rooms |-> <<>>]
    /\ cmd = [c \in Commands |-> Handler("new", None, None, None, <<>>, {})]
    /\ heard = [u \in Users |-> Broadcast(None, <<>>)]

-----------------------------------------------------------------------------
(* The room library, as the handlers use it.                                *)

\* A user is in one room at a time: room.GetRoomID finds it.
InRoom(u, r) == u \in members[r]
InNoRoom(u) == \A r \in Rooms : ~InRoom(u, r)

Create(u, r) ==
    /\ room[r] = "none" /\ InNoRoom(u)
    /\ room' = [room EXCEPT ![r] = "open"]
    /\ members' = [members EXCEPT ![r] = {u}]
    /\ UNCHANGED <<prop, addrs, cmd, heard>>

Join(u, r) ==
    /\ room[r] = "open" /\ InNoRoom(u)
    /\ members' = [members EXCEPT ![r] = @ \union {u}]
    /\ UNCHANGED <<room, prop, addrs, cmd, heard>>

\* The room ends with its last member.
Leave(u, r) ==
    /\ InRoom(u, r)
    /\ members' = [members EXCEPT ![r] = @ \ {u}]
    /\ room' = IF members[r] = {u} THEN [room EXCEPT ![r] = "gone"] ELSE room
    /\ UNCHANGED <<prop, addrs, cmd, heard>>

\* Something else of another type is stored under the name of the property.
\* A list, once there, is written by the reports only.
StoreOther(r) ==
    /\ room[r] = "open" /\ prop[r] = "absent"
    /\ prop' = [prop EXCEPT ![r] = "other"]
    /\ UNCHANGED <<room, members, addrs, cmd, heard>>

-----------------------------------------------------------------------------
(* reportP2PAddr                                                            *)

Become(c, h) == cmd' = [cmd EXCEPT ![c] = h]
Refused(c, u) == Become(c, Handler("bad", u, None, None, <<>>, {}))

\* The addresses answered OK for r so far.
Reported(r) == {cmd[c].addr : c \in {d \in Commands : cmd[d].at = "reported" /\ cmd[d].room = r}}

\* An empty payload, or a client that is in no room, is refused.
ReportRefused(c, u, addr) ==
    /\ cmd[c].at = "new"
    /\ addr = None \/ InNoRoom(u)
    /\ Refused(c, u)
    /\ UNCHANGED <<roomVars, addrs, heard>>

\* Mutant of Report: the client is answered OK before the list is updated.
ReportEarly(c, u, addr, r) ==
    /\ cmd[c].at = "new"
    /\ addr # None /\ InRoom(u, r)
    /\ Become(c, Handler("reported", u, r, addr, <<>>, {}))
    /\ UNCHANGED <<roomVars, addrs, heard>>

\* room.GetRoomID.
Report(c, u, addr, r) ==
    /\ cmd[c].at = "new"
    /\ addr # None /\ InRoom(u, r)
    /\ Become(c, Handler("update", u, r, addr, <<>>, {}))
    /\ UNCHANGED <<roomVars, addrs, heard>>

\* Mutant of UpdateList: the list is made anew at every report.
UpdateListAnew(c) == LET r == cmd[c].room IN
    /\ cmd[c].at = "update"
    /\ room[r] = "open" /\ prop[r] # "other"
    /\ prop' = [prop EXCEPT ![r] = "list"]
    /\ addrs' = [addrs EXCEPT ![r] = <<cmd[c].addr>>]
    /\ Become(c, Handler("reported", cmd[c].user, r, cmd[c].addr, <<>>, {}))
    /\ UNCHANGED <<room, members, heard>>

\* room.UpdateProperties runs the callback under the room's lock: the list is
\* made if it is absent, and the address appended.
UpdateList(c) == LET r == cmd[c].room IN
    /\ cmd[c].at = "update"
    /\ room[r] = "open" /\ prop[r] # "other"
    /\ prop' = [prop EXCEPT ![r] = "list"]
    /\ addrs' = [addrs EXCEPT ![r] = Append(@, cmd[c].addr)]
    /\ Become(c, Handler("reported", cmd[c].user, r, cmd[c].addr, <<>>, {}))
    /\ UNCHANGED <<room, members, heard>>

\* The callback finds something that is not a list: updated := false, Bad.
UpdateInvalid(c) == LET r == cmd[c].room IN
    /\ cmd[c].at = "update"
    /\ room[r] = "open" /\ prop[r] = "other"
    /\ Refused(c, cmd[c].user)
    /\ UNCHANGED <<roomVars, addrs, heard>>

\* The room has ended: the callback does not run, updated is still true, OK.
UpdateNothing(c) == LET r == cmd[c].room IN
    /\ cmd[c].at = "update"
    /\ room[r] = "gone"
    /\ Become(c, Handler("reported", cmd[c].user, r, cmd[c].addr, <<>>, {}))
    /\ UNCHANGED <<roomVars, addrs, heard>>

-----------------------------------------------------------------------------
(* initP2P                                                                  *)

\* A client that is in no room is refused.
InitRefused(c, u) ==
    /\ cmd[c].at = "new" /\ InNoRoom(u)
    /\ Refused(c, u)
    /\ UNCHANGED <<roomVars, addrs, heard>>

\* room.GetRoomID.
InitP2P(c, u, r) ==
    /\ cmd[c].at = "new" /\ InRoom(u, r)
    /\ Become(c, Handler("read", u, r, None, <<>>, Reported(r)))
    /\ UNCHANGED <<roomVars, addrs, heard>>

\* room.GetProperty: nil without the property or the room.
ReadNothing(c) == LET r == cmd[c].room IN
    /\ cmd[c].at = "read"
    /\ room[r] = "gone" \/ prop[r] = "absent"
    /\ Refused(c, cmd[c].user)
    /\ UNCHANGED <<roomVars, addrs, heard>>

\* addrList.([]string) of something else panics: reportP2PAddr tests the type,
\* initP2P does not.
ReadInvalid(c) == LET r == cmd[c].room IN
    /\ cmd[c].at = "read"
    /\ room[r] = "open" /\ prop[r] = "other"
    /\ Become(c, Handler("panic", cmd[c].user, r, None, <<>>, {}))
    /\ UNCHANGED <<roomVars, addrs, heard>>

ReadList(c) == LET r == cmd[c].room IN
    /\ cmd[c].at = "read"
    /\ room[r] = "open" /\ prop[r] = "list"
    /\ Become(c, Handler("send", cmd[c].user, r, None, addrs[r], cmd[c].base))
    /\ UNCHANGED <<roomVars, addrs, heard>>

\* Mutant of SendList: the room is looked up again, and is the one the client is
\* in now.
SendListHere(c) == \E r \in Rooms :
    /\ cmd[c].at = "send" /\ InRoom(cmd[c].user, r)
    /\ heard' = [u \in Users |->
           IF u \in members[r] THEN Broadcast(r, cmd[c].list) ELSE heard[u]]
    /\ Become(c, [cmd[c] EXCEPT !.at = "sent"])
    /\ UNCHANGED <<roomVars, addrs>>

\* room.Broadcast to whoever is in the room by now, and OK.
SendList(c) == LET r == cmd[c].room IN
    /\ cmd[c].at = "send"
    /\ heard' = [u \in Users |->
           IF u \in members[r] THEN Broadcast(r, cmd[c].list) ELSE heard[u]]
    /\ Become(c, Handler("sent", cmd[c].user, r, None, cmd[c].list, cmd[c].base))
    /\ UNCHANGED <<roomVars, addrs>>

-----------------------------------------------------------------------------

RoomStep ==
    \/ \E u \in Users, r \in Rooms : Create(u, r) \/ Join(u, r) \/ Leave(u, r)
    \/ \E r \in Rooms : StoreOther(r)

CommandStep(c) ==
    \/ \E u \in Users, a \in Addrs \union {None} : ReportRefused(c, u, a)
    \/ \E u \in Users, a \in Addrs \union {None}, r \in Rooms : Report(c, u, a, r)
    \/ UpdateList(c)
    \/ UpdateInvalid(c)
    \/ UpdateNothing(c)
    \/ \E u \in Users : InitRefused(c, u)
    \/ \E u \in Users, r \in Rooms : InitP2P(c, u, r)
    \/ ReadNothing(c)
    \/ ReadInvalid(c)
    \/ ReadList(c)
    \/ SendList(c)

Next == RoomStep \/ \E c \in Commands : CommandStep(c)

Spec == Init /\ [][Next]_vars

-----------------------------------------------------------------------------
(* Properties.                                                              *)

\* The rooms, the lists, the handlers and what was heard have their types.
TypeOK ==
    /\ room \in [Rooms -> {"none", "open", "gone"}]
    /\ members \in [Rooms -> SUBSET Users]
    /\ prop \in [Rooms -> {"absent", "list", "other"}]
    /\ addrs \in [Rooms -> Seq(Addrs)]
    /\ cmd \in [Commands -> HandlerType]
    /\ heard \in [Users -> [room : Rooms \union {None}, list : Seq(Addrs)]]

\* An address whose report was answered OK is in the room's list for as long as
\* the room lives, whatever reports and initialisations run at the same time
\* (reportP2PAddr: UpdateProperties, then OK).
ReportsKept ==
    \A r \in Rooms : room[r] = "open" => Reported(r) \subseteq Elements(addrs[r])

\* A list that is broadcast names every address whose report had been answered OK
\* when the command came, even if it was read before other reports were made
\* (initP2P: GetRoomID, GetProperty, Broadcast).
BroadcastComplete ==
    \A c \in Commands :
        cmd[c].at \in {"send", "sent"} => cmd[c].base \subseteq Elements(cmd[c].list)

\* What a user hears comes from the room it heard it in: the list broadcast there
\* is the beginning of that room's own list, though the client that had it
\* broadcast may have moved to another room in between (initP2P keeps roomID).
HeardIsOwn ==
    \A u \in Users :
        heard[u].room # None => Extends(addrs[heard[u].room], heard[u].list)
=============================================================================
