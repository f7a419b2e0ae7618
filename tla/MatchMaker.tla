----------------------------- MODULE MatchMaker -----------------------------
(***************************************************************************)
(* The matchmaking commands of cmds/custom/matchmaker.go.                  *)
(*                                                                         *)
(* addToMatchMaker creates a room, puts an entry for it in the matching    *)
(* pool and leaves a tick closure that renews or withdraws the entry;      *)
(* searchMatchMaker searches the pool and joins the rooms it found one     *)
(* after the other until one lets the client in.  The room service and the *)
(* matching pool are libraries outside the repository: their operations    *)
(* appear here as the code uses them, each at the step that calls it.      *)
(* Every call that leaves the handler's goroutine (search, join) or that   *)
(* other goroutines can overtake is a step of its own.                     *)
(***************************************************************************)
EXTENDS Integers, Sequences, FiniteSets

CONSTANTS
    Users,        \* connected clients
    Commands,     \* slots for commands in flight; a slot is reused once answered
    Issuer,       \* Issuer[c] is the client that sends the commands of slot c
    MMIDs,        \* matchmaking IDs
    UIDs,         \* unique IDs the clients choose for their entries
    Rooms,        \* room IDs; a room ID is used once
    None,         \* the absent value
    MaxMembers,   \* maxMembers of a created room (10)
    SearchLimit,  \* how many results a search asks for (100)
    AddInterval,  \* seconds between two renewals of an entry (mmAddInterval, 40)
    MaxTTL        \* the longest TTL a client gives its entry

Keys == MMIDs \X UIDs
Entries == [room : Rooms, left : 1..MaxTTL]
Adverts == [key : Keys, ttl : 1..MaxTTL]
Results == [uid : UIDs, room : Rooms]
Stages == {"idle", "created", "published", "searching", "joining", "joined",
           "refused", "done"}

ASSUME ConstantsAssumption ==
    /\ Issuer \in [Commands -> Users]
    /\ None \notin Rooms /\ None \notin Entries /\ None \notin Adverts
    /\ MaxMembers \in Nat \ {0}
    /\ SearchLimit \in Nat \ {0}
    /\ AddInterval \in Nat \ {0}
    /\ MaxTTL \in Nat \ {0}
    /\ IsFiniteSet(Users)

VARIABLES
    roomState,  \* roomState[r]: "none" before NewRoom, "open", "gone" when empty
    members,    \* members[r]: the room's members
    advert,     \* advert[r]: what the tick closure of r captured (mmAdd)
    since,      \* since[r]: seconds since timeCnt, up to AddInterval, while r is open
    tick,       \* tick[r]: "unset", "idle", or the call the closure is about to make
    pool,       \* pool[k]: the matching entry under a matchmaking ID and unique ID
    cmd,        \* cmd[c]: the command in slot c
    told        \* told[r]: who was told matchmakerComplete since r last lost a member

vars == <<roomState, members, advert, since, tick, pool, cmd, told>>
roomVars == <<roomState, members>>
tickVars == <<advert, since, tick>>

\* A command slot: its stage, the matchmaking IDs it searches, the rooms it
\* found, the one it tries, the room it is in, and what it has answered.
Slot(stage, ids, room, reply, nexts) ==
    [stage |-> stage, ids |-> ids, results |-> <<>>, index |-> 1, room |-> room,
     full |-> FALSE, reply |-> reply, nexts |-> nexts]

CmdType == [stage : Stages, ids : SUBSET MMIDs, results : Seq(Results),
            index : Nat \ {0}, room : Rooms \union {None}, full : BOOLEAN,
            reply : {"none", "ok", "bad"}, nexts : Nat]

Init ==
    /\ roomState = [r \in Rooms |-> "none"]
    /\ members = [r \in Rooms |-> {}]
    /\ advert = [r \in Rooms |-> None]
    /\ since = [r \in Rooms |-> 0]
    /\ tick = [r \in Rooms |-> "unset"]
    /\ pool = [k \in Keys |-> None]
    /\ cmd = [c \in Commands |-> Slot("idle", {}, None, "none", 0)]
    /\ told = [r \in Rooms |-> {}]

-----------------------------------------------------------------------------
(* The libraries, as the handlers use them.                                *)

InARoom(u) == \E r \in Rooms : u \in members[r]
Full(r) == Cardinality(members[r]) = MaxMembers
CanJoin(u, r) ==
    /\ roomState[r] = "open"
    /\ Cardinality(members[r]) < MaxMembers
    /\ ~InARoom(u)

MatchingAdd(k, r, ttl) == pool' = [pool EXCEPT ![k] = [room |-> r, left |-> ttl]]
MatchingRemove(ids, uid) ==
    pool' = [k \in Keys |-> IF k \in ids \X {uid} THEN None ELSE pool[k]]

\* The results a search over ids may see: the entries' metadata, unexpired.
Found(ids) == {[uid |-> k[2], room |-> pool[k].room] :
                  k \in {k \in ids \X UIDs : pool[k] # None}}

Advertised(r) == \E k \in Keys : pool[k] # None /\ pool[k].room = r

-----------------------------------------------------------------------------
(* Answering: ServerRespond on the command's own ver and cmd, then next.    *)

Ready(c) == cmd[c].stage \in {"idle", "done"}
Issue(c, s) == cmd' = [cmd EXCEPT ![c] = s]
Answer(c, reply) == Issue(c, Slot("done", {}, None, reply, cmd[c].nexts + 1))

\* An invalid payload, or NewRoom refusing: Bad, next(err), return.
Reject(c) ==
    /\ Ready(c)
    /\ Issue(c, Slot("done", {}, None, "bad", 1))
    /\ UNCHANGED <<roomVars, tickVars, pool, told>>

-----------------------------------------------------------------------------
(* addToMatchMaker                                                         *)

\* room.NewRoom with join = true: the creator is the room's first member.
AddCreate(c, k, ttl) == \E r \in Rooms :
    /\ Ready(c)
    /\ ~InARoom(Issuer[c])
    /\ roomState[r] = "none"
    /\ roomState' = [roomState EXCEPT ![r] = "open"]
    /\ members' = [members EXCEPT ![r] = {Issuer[c]}]
    /\ advert' = [advert EXCEPT ![r] = [key |-> k, ttl |-> ttl]]
    /\ Issue(c, Slot("created", {}, r, "none", 0))
    /\ UNCHANGED <<since, tick, pool, told>>

\* matching.Add, and timeCnt := now.
AddPublish(c) == LET r == cmd[c].room IN
    /\ cmd[c].stage = "created"
    /\ MatchingAdd(advert[r].key, r, advert[r].ttl)
    /\ since' = [since EXCEPT ![r] = 0]
    /\ cmd' = [cmd EXCEPT ![c].stage = "published"]
    /\ UNCHANGED <<roomVars, advert, tick, told>>

\* room.SetOnTick, then the answer.
AddHook(c) == LET r == cmd[c].room IN
    /\ cmd[c].stage = "published"
    /\ tick' = [tick EXCEPT ![r] = "idle"]
    /\ Answer(c, "ok")
    /\ UNCHANGED <<roomVars, advert, since, pool, told>>

-----------------------------------------------------------------------------
(* The tick closure of addToMatchMaker, called by the room while it lives.  *)

\* Mutants of TickDecide: the renewal is forgotten; the full room is renewed too;
\* the closure is run by a timer of its own, which outlives the room.
TickDecideNoRenewal(r) ==
    /\ roomState[r] = "open" /\ tick[r] = "idle" /\ since[r] >= AddInterval
    /\ tick' = IF Full(r) THEN [tick EXCEPT ![r] = "remove"] ELSE tick
    /\ since' = IF Full(r) THEN since ELSE [since EXCEPT ![r] = 0]
    /\ UNCHANGED <<roomVars, advert, pool, cmd, told>>
TickDecideAlwaysRenews(r) ==
    /\ roomState[r] = "open" /\ tick[r] = "idle" /\ since[r] >= AddInterval
    /\ tick' = [tick EXCEPT ![r] = "add"]
    /\ since' = [since EXCEPT ![r] = 0]
    /\ UNCHANGED <<roomVars, advert, pool, cmd, told>>
TickDecideDetached(r) ==
    /\ roomState[r] = "gone" \/ since[r] >= AddInterval
    /\ tick[r] = "idle"
    /\ tick' = [tick EXCEPT ![r] = IF Full(r) THEN "remove" ELSE "add"]
    /\ since' = [since EXCEPT ![r] = 0]
    /\ UNCHANGED <<roomVars, advert, pool, cmd, told>>

\* Reads the member count once; timeCnt is reset only on the way to renewing.
TickDecide(r) ==
    /\ roomState[r] = "open"
    /\ tick[r] = "idle"
    /\ since[r] >= AddInterval
    /\ \/ /\ Full(r)
          /\ tick' = [tick EXCEPT ![r] = "remove"]
          /\ UNCHANGED since
       \/ /\ ~Full(r)
          /\ tick' = [tick EXCEPT ![r] = "add"]
          /\ since' = [since EXCEPT ![r] = 0]
    /\ UNCHANGED <<roomVars, advert, pool, cmd, told>>

\* Mutant of TickAct: the closures share one mmAdd, so any of them may be renewed.
TickActSharedAdd(r) ==
    /\ tick[r] \in {"add", "remove"}
    /\ \E q \in Rooms : advert[q] # None /\ MatchingAdd(advert[q].key, r, advert[q].ttl)
    /\ tick' = [tick EXCEPT ![r] = "idle"]
    /\ UNCHANGED <<roomVars, advert, since, cmd, told>>

\* The call it decided on, made after whatever happened to the room meanwhile.
TickAct(r) ==
    /\ \/ /\ tick[r] = "remove"
          /\ MatchingRemove({advert[r].key[1]}, advert[r].key[2])
       \/ /\ tick[r] = "add"
          /\ MatchingAdd(advert[r].key, r, advert[r].ttl)
    /\ tick' = [tick EXCEPT ![r] = "idle"]
    /\ UNCHANGED <<roomVars, advert, since, cmd, told>>

-----------------------------------------------------------------------------
(* searchMatchMaker                                                        *)

SearchStart(c, ids) ==
    /\ Ready(c)
    /\ Issue(c, Slot("searching", ids, None, "none", 0))
    /\ UNCHANGED <<roomVars, tickVars, pool, told>>

\* The callback of matching.Search: which of the entries match the given
\* properties, and in what order, is the library's choice.
SearchFound(c) == \E n \in 1..SearchLimit :
    \E found \in [1..n -> Found(cmd[c].ids)] :
        /\ cmd[c].stage = "searching"
        /\ \A i, j \in 1..n : found[i] = found[j] => i = j
        /\ cmd' = [cmd EXCEPT ![c].stage = "joining", ![c].results = found]
        /\ UNCHANGED <<roomVars, tickVars, pool, told>>

\* The search failed or found nothing.
SearchNothing(c) ==
    /\ cmd[c].stage = "searching"
    /\ Answer(c, "bad")
    /\ UNCHANGED <<roomVars, tickVars, pool, told>>

Trying(c) == cmd[c].results[cmd[c].index]

\* room.Join lets the client in; the member count travels back to the callback.
JoinAccepted(c) == LET r == Trying(c).room IN
    /\ cmd[c].stage = "joining"
    /\ CanJoin(Issuer[c], r)
    /\ members' = [members EXCEPT ![r] = @ \union {Issuer[c]}]
    /\ cmd' = [cmd EXCEPT ![c].stage = "joined", ![c].room = r,
                          ![c].full = (Cardinality(members'[r]) = MaxMembers)]
    /\ UNCHANGED <<roomState, tickVars, pool, told>>

\* room.Join fails: full, gone, the client already in a room, or the mesh failed.
JoinRefused(c) ==
    /\ cmd[c].stage = "joining"
    /\ cmd' = [cmd EXCEPT ![c].stage = "refused"]
    /\ UNCHANGED <<roomVars, tickVars, pool, told>>

\* Mutant of JoinAnswer: joinedRoomID is not set before done is called.
JoinAnswerUnset(c) ==
    /\ cmd[c].stage = "joined"
    /\ Answer(c, "bad")
    /\ UNCHANGED <<roomVars, tickVars, pool, told>>

\* The join callback after a success: done(nil), with the push if the room is full.
JoinAnswer(c) == LET r == cmd[c].room IN
    /\ cmd[c].stage = "joined"
    /\ Answer(c, "ok")
    /\ told' = IF cmd[c].full THEN [told EXCEPT ![r] = @ \union {Issuer[c]}]
                                ELSE told
    /\ UNCHANGED <<roomVars, tickVars, pool>>

\* Mutants of JoinNext: no return after done, so the waterfall goes on; the index
\* compared before it is advanced.
JoinNextNoReturn(c) ==
    /\ cmd[c].stage = "refused"
    /\ MatchingRemove(cmd[c].ids, Trying(c).uid)
    /\ \/ /\ cmd[c].index = Len(cmd[c].results)
          /\ cmd' = [cmd EXCEPT ![c].stage = "joining", ![c].nexts = @ + 1]
       \/ /\ cmd[c].index < Len(cmd[c].results)
          /\ cmd' = [cmd EXCEPT ![c].stage = "joining", ![c].index = @ + 1]
    /\ UNCHANGED <<roomVars, tickVars, told>>
JoinNextEarlyCount(c) ==
    /\ cmd[c].stage = "refused"
    /\ MatchingRemove(cmd[c].ids, Trying(c).uid)
    /\ \/ /\ cmd[c].index + 1 >= Len(cmd[c].results)
          /\ Answer(c, "bad")
       \/ /\ cmd[c].index + 1 < Len(cmd[c].results)
          /\ cmd' = [cmd EXCEPT ![c].stage = "joining", ![c].index = @ + 1]
    /\ UNCHANGED <<roomVars, tickVars, told>>

\* The join callback after a failure: the entry goes, under every matchmaking ID
\* of the search, then the next result is tried or the command is answered.
JoinNext(c) ==
    /\ cmd[c].stage = "refused"
    /\ MatchingRemove(cmd[c].ids, Trying(c).uid)
    /\ \/ /\ cmd[c].index = Len(cmd[c].results)
          /\ Answer(c, "bad")
       \/ /\ cmd[c].index < Len(cmd[c].results)
          /\ cmd' = [cmd EXCEPT ![c].stage = "joining", ![c].index = @ + 1]
    /\ UNCHANGED <<roomVars, tickVars, told>>

-----------------------------------------------------------------------------
(* The environment: clients leaving or disconnecting, and time.             *)

\* allowEmpty is false: the room goes with its last member.
Leave(u, r) ==
    /\ u \in members[r]
    /\ members' = [members EXCEPT ![r] = @ \ {u}]
    /\ roomState' = IF members[r] = {u} THEN [roomState EXCEPT ![r] = "gone"]
                                        ELSE roomState
    /\ since' = IF members[r] = {u} THEN [since EXCEPT ![r] = 0] ELSE since
    /\ told' = [told EXCEPT ![r] = {}]
    /\ UNCHANGED <<advert, tick, pool, cmd>>

Second ==
    /\ since' = [r \in Rooms |-> IF roomState[r] = "open" /\ since[r] < AddInterval
                                THEN since[r] + 1 ELSE since[r]]
    /\ pool' = [k \in Keys |-> IF pool[k] = None \/ pool[k].left = 1 THEN None
                               ELSE [pool[k] EXCEPT !.left = @ - 1]]
    /\ UNCHANGED <<roomVars, advert, tick, cmd, told>>

-----------------------------------------------------------------------------
Handle(c) ==
    \/ AddPublish(c)
    \/ AddHook(c)
    \/ SearchFound(c)
    \/ SearchNothing(c)
    \/ JoinAccepted(c)
    \/ JoinRefused(c)
    \/ JoinAnswer(c)
    \/ JoinNext(c)

Next ==
    \/ \E c \in Commands : Reject(c) \/ Handle(c)
    \/ \E c \in Commands, k \in Keys, ttl \in 1..MaxTTL : AddCreate(c, k, ttl)
    \/ \E c \in Commands, ids \in SUBSET MMIDs : SearchStart(c, ids)
    \/ \E r \in Rooms : TickDecide(r) \/ TickAct(r)
    \/ \E u \in Users, r \in Rooms : Leave(u, r)
    \/ Second

Spec == Init /\ [][Next]_vars

\* The libraries call back and tick live rooms, goroutines run, time passes;
\* nothing makes a client send or leave.
Fairness ==
    /\ \A c \in Commands : WF_vars(Handle(c))
    /\ \A r \in Rooms : WF_vars(TickDecide(r)) /\ WF_vars(TickAct(r))
    /\ WF_vars(Second)

FairSpec == Spec /\ Fairness

-----------------------------------------------------------------------------
(* What the commands guarantee.                                             *)

TypeOK ==
    /\ roomState \in [Rooms -> {"none", "open", "gone"}]
    /\ members \in [Rooms -> SUBSET Users]
    /\ advert \in [Rooms -> Adverts \union {None}]
    /\ since \in [Rooms -> 0..AddInterval]
    /\ tick \in [Rooms -> {"unset", "idle", "add", "remove"}]
    /\ pool \in [Keys -> Entries \union {None}]
    /\ cmd \in [Commands -> CmdType]
    /\ told \in [Rooms -> SUBSET Users]

\* A command calls next exactly once, when it has answered on its own ver and
\* cmd, whichever of the early returns and callbacks it ends in.
AnsweredOnce == \A c \in Commands :
    /\ cmd[c].nexts = IF cmd[c].stage = "done" THEN 1 ELSE 0
    /\ cmd[c].reply # "none" <=> cmd[c].stage = "done"

\* A search that found rooms answers Bad only after its join to every one of
\* them failed, and Ok only for the room of the result it was trying.
SearchTrail == [][\A c \in Commands :
    (cmd[c].results # <<>> /\ cmd'[c].reply # "none") =>
        \/ cmd'[c].reply = "bad" /\ cmd[c].index = Len(cmd[c].results)
        \/ cmd'[c].reply = "ok" /\ cmd[c].room = Trying(c).room]_vars

\* Whoever renewed it last, an entry leads to a room that was created under
\* this matchmaking ID and unique ID; the tick of another room never puts its
\* own room there, however the unique IDs collide.
EntryLeadsToItsRoom == \A k \in Keys : pool[k] # None =>
    /\ roomState[pool[k].room] # "none"
    /\ advert[pool[k].room] # None
    /\ advert[pool[k].room].key = k

\* A join is granted or denied, never both and never neither (SeatRequest).
CmdStatus(c) ==
    CASE Ready(c) /\ cmd[c].reply # "ok" -> [at |-> "denied"]
      [] Ready(c) /\ cmd[c].reply = "ok" -> [at |-> "granted"]
      [] cmd[c].stage \in {"created", "published", "joined"} ->
                                   [at |-> "seated", room |-> cmd[c].room]
      [] cmd[c].stage \in {"searching", "joining", "refused"} -> [at |-> "asking"]

Seats == INSTANCE SeatRequest WITH
    status <- [c \in Commands |-> CmdStatus(c)], seats <- members

\* The commands implement SeatRequest: a seat taken in any room on the way is
\* the seat the client is told about, and Bad leaves the client unseated.
SeatsKept == Seats!Spec

\* A room that stays open with a free seat keeps coming back to the pool, even
\* when failed joins, expiry or a colliding unique ID took its entry away.
OpenRoomReadvertised == \A r \in Rooms :
    <>[](roomState[r] = "open" /\ ~Full(r) /\ tick[r] # "unset")
        => []<>Advertised(r)

\* A room that stays full is eventually out of the pool for good.
FullRoomWithdrawn == \A r \in Rooms :
    <>[](roomState[r] = "open" /\ Full(r)) => <>[]~Advertised(r)

\* The entry of a room that is gone is eventually out of the pool for good, a
\* renewal that was under way when the room went included.
GoneRoomForgotten == \A r \in Rooms :
    roomState[r] = "gone" ~> []~Advertised(r)

\* README.md:297 has the clients already matched told matchmakerComplete when
\* the matched room is full; searchMatchMaker pushes it to the searcher alone.
MatchedClientsToldFull ==
    [][\A r \in Rooms : told'[r] # told[r] => members[r] \subseteq told'[r]]_vars
=============================================================================
