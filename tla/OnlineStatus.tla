---------------------------- MODULE OnlineStatus ----------------------------
(***************************************************************************)
(* The online status of lib/onlinestatus/main.go.                          *)
(*                                                                         *)
(* A user's status is written when the user connects (setUserAsOnline) and *)
(* at every keep-alive (updateUserStatus), into a Dive storage partitioned *)
(* over the HTTP nodes, where it lives for userStatusTTL seconds.  Nothing *)
(* removes it: it expires.  A list of statuses is gathered with one RPC to *)
(* each node that holds one of the users asked for.  Between the reads and *)
(* the write of a keep-alive, between two RPCs, and between two reads on a *)
(* node, everything else may happen.                                       *)
(***************************************************************************)
EXTENDS Integers, Sequences

CONSTANTS
    Users,
    Sessions,   \* the sessions a user may be in
    Facts,      \* what a user may be in: whether in a room, and which sessions
    Nodes,      \* the nodes of the storage
    Home,       \* Home[u]: the node ResolveKey gives for u
    Queries,    \* slots for lists being gathered; reused once answered
    None,       \* the absent value
    Limit,      \* returnLimit (10)
    StatusTTL   \* userStatusTTL (10)

Nowhere == [inRoom |-> FALSE, sessions |-> {}]

ASSUME ConstantsAssumption ==
    /\ Nowhere \in Facts
    /\ Facts \subseteq [inRoom : BOOLEAN, sessions : SUBSET Sessions]
    /\ Home \in [Users -> Nodes]
    /\ Limit \in Nat \ {0}
    /\ StatusTTL \in Nat \ {0}

Positions == 1..(Limit + 1)
Statuses == [inRoom : BOOLEAN, sessions : SUBSET Sessions]
Stored == [inRoom : BOOLEAN, sessions : SUBSET Sessions, left : 1..StatusTTL]
Handlers == [stage : {"idle", "room", "both"}, inRoom : BOOLEAN, sessions : SUBSET Sessions]

ASSUME NoneAssumption == None \notin Statuses /\ None \notin Stored

VARIABLES
    conn,     \* conn[u]: u is connected
    fact,     \* fact[u]: the room and the sessions u really is in
    setting,  \* setting[u]: the OnNew callback of u has not written yet
    keep,     \* keep[u]: the keep-alive handler of u and what it has read
    store,    \* store[u]: the stored status of u and the seconds it has left
    up,       \* up[n]: node n is running
    query,    \* query[q]: the list being gathered in slot q
    held,     \* history: users whose status was stored ever since q was asked
    away      \* history: seconds since u was connected or in a handler, capped

vars == <<conn, fact, setting, keep, store, up, query, held, away>>
userVars == <<conn, fact>>
histVars == <<held, away>>

Idle == [stage |-> "idle", inRoom |-> FALSE, sessions |-> {}]

\* A list: its stage, the users asked for, the positions not yet sent to their
\* node, those the node has not read yet, and what was read for each position.
List(stage, uids, todo, cur, found) ==
    [stage |-> stage, uids |-> uids, todo |-> todo, cur |-> cur, found |-> found]
NothingFound == [i \in Positions |-> None]

ListType == [stage : {"idle", "next", "rpc", "ok", "bad"},
             uids : UNION {[1..n -> Users] : n \in 0..Limit + 1},
             todo : SUBSET Positions, cur : SUBSET Positions,
             found : [Positions -> Statuses \union {None}]]

Init ==
    /\ conn = [u \in Users |-> FALSE]
    /\ fact = [u \in Users |-> Nowhere]
    /\ setting = [u \in Users |-> FALSE]
    /\ keep = [u \in Users |-> Idle]
    /\ store = [u \in Users |-> None]
    /\ up = [n \in Nodes |-> TRUE]
    /\ query = [q \in Queries |-> List("idle", <<>>, {}, {}, NothingFound)]
    /\ held = [q \in Queries |-> {}]
    /\ away = [u \in Users |-> StatusTTL]

-----------------------------------------------------------------------------
(* The users, and the nodes of the storage.                                 *)

Connect(u) ==
    /\ ~conn[u] /\ ~setting[u]
    /\ conn' = [conn EXCEPT ![u] = TRUE]
    /\ setting' = [setting EXCEPT ![u] = TRUE]
    /\ away' = [away EXCEPT ![u] = 0]
    /\ UNCHANGED <<fact, keep, store, up, query, held>>

Disconnect(u) ==
    /\ conn[u]
    /\ conn' = [conn EXCEPT ![u] = FALSE]
    /\ fact' = [fact EXCEPT ![u] = Nowhere]
    /\ UNCHANGED <<setting, keep, store, up, query, histVars>>

\* Entering or leaving a room or a session.
Move(u, f) ==
    /\ conn[u] /\ f # fact[u]
    /\ fact' = [fact EXCEPT ![u] = f]
    /\ UNCHANGED <<conn, setting, keep, store, up, query, histVars>>

\* The lists' users that still have had a status all along.
StillHeld == [q \in Queries |-> {u \in held[q] : store'[u] # None}]

NodeLoss(n) ==
    /\ up[n]
    /\ up' = [up EXCEPT ![n] = FALSE]
    /\ store' = [u \in Users |-> IF Home[u] = n THEN None ELSE store[u]]
    /\ held' = StillHeld
    /\ UNCHANGED <<userVars, setting, keep, query, away>>

NodeBack(n) ==
    /\ ~up[n]
    /\ up' = [up EXCEPT ![n] = TRUE]
    /\ UNCHANGED <<userVars, setting, keep, store, query, histVars>>

Gone(u) == ~conn[u] /\ ~setting[u] /\ keep[u].stage = "idle"

Second ==
    /\ store' = [u \in Users |-> IF store[u] = None \/ store[u].left = 1 THEN None
                                 ELSE [store[u] EXCEPT !.left = @ - 1]]
    /\ away' = [u \in Users |-> IF Gone(u) /\ away[u] < StatusTTL
                                THEN away[u] + 1 ELSE away[u]]
    /\ held' = StillHeld
    /\ UNCHANGED <<userVars, setting, keep, up, query>>

-----------------------------------------------------------------------------
(* Writing the status.                                                      *)

\* SetEx fails while the node of the user is down; the error is only logged.
SetEx(u, inRoom, sessions) ==
    store' = IF up[Home[u]]
             THEN [store EXCEPT ![u] = [inRoom |-> inRoom, sessions |-> sessions,
                                        left |-> StatusTTL]]
             ELSE store

setUserAsOnline(u) ==
    /\ setting[u]
    /\ SetEx(u, FALSE, {})
    /\ setting' = [setting EXCEPT ![u] = FALSE]
    /\ away' = [away EXCEPT ![u] = 0]
    /\ UNCHANGED <<userVars, keep, up, query, held>>

\* Mutant of KeepAliveRoom: the stored room flag is believed while there is one.
KeepAliveRoomCached(u) ==
    /\ conn[u] /\ keep[u].stage = "idle"
    /\ keep' = [keep EXCEPT ![u] = [stage |-> "room", sessions |-> {},
           inRoom |-> IF store[u] = None THEN fact[u].inRoom ELSE store[u].inRoom]]
    /\ UNCHANGED <<userVars, setting, store, up, query, histVars>>

\* updateUserStatus: a keep-alive arrives and the room is read ...
KeepAliveRoom(u) ==
    /\ conn[u] /\ keep[u].stage = "idle"
    /\ keep' = [keep EXCEPT ![u] = [stage |-> "room", sessions |-> {},
                                    inRoom |-> fact[u].inRoom]]
    /\ UNCHANGED <<userVars, setting, store, up, query, histVars>>

\* ... then the sessions, from whatever the user is in by now ...
KeepAliveSessions(u) ==
    /\ keep[u].stage = "room"
    /\ keep' = [keep EXCEPT ![u] = [stage |-> "both", inRoom |-> keep[u].inRoom,
                                    sessions |-> fact[u].sessions]]
    /\ UNCHANGED <<userVars, setting, store, up, query, histVars>>

\* ... and what was read is stored, connected or not.
KeepAliveWrite(u) ==
    /\ keep[u].stage = "both"
    /\ SetEx(u, keep[u].inRoom, keep[u].sessions)
    /\ keep' = [keep EXCEPT ![u] = Idle]
    /\ away' = [away EXCEPT ![u] = 0]
    /\ UNCHANGED <<userVars, setting, up, query, held>>

-----------------------------------------------------------------------------
(* GetUserStatusList and the two handlers that call it.                     *)

Free(q) == query[q].stage \in {"idle", "ok", "bad"}
Become(q, l) == query' = [query EXCEPT ![q] = l]

\* Mutant of Ask: a list is put on top of what the last one found.
AskOnTop(q, uids) ==
    /\ Free(q)
    /\ \/ /\ Len(uids) > Limit
          /\ Become(q, List("bad", uids, {}, {}, NothingFound))
       \/ /\ Len(uids) <= Limit
          /\ Become(q, List("next", uids, 1..Len(uids), {}, query[q].found))
    /\ held' = [held EXCEPT ![q] = {u \in Users : store[u] # None}]
    /\ UNCHANGED <<userVars, setting, keep, store, up, away>>

\* More users than returnLimit: an error, and no RPC.  Otherwise their
\* positions are grouped by node.
Ask(q, uids) ==
    /\ Free(q)
    /\ \/ /\ Len(uids) > Limit
          /\ Become(q, List("bad", uids, {}, {}, NothingFound))
       \/ /\ Len(uids) <= Limit
          /\ Become(q, List("next", uids, 1..Len(uids), {}, NothingFound))
    /\ held' = [held EXCEPT ![q] = {u \in Users : store[u] # None}]
    /\ UNCHANGED <<userVars, setting, keep, store, up, away>>

\* One RPC at a time, the nodes in whatever order the map gives them.
SendRPC(q, n) ==
    /\ query[q].stage = "next"
    /\ \E i \in query[q].todo : Home[query[q].uids[i]] = n
    /\ up[n]
    /\ LET group == {i \in query[q].todo : Home[query[q].uids[i]] = n} IN
       Become(q, List("rpc", query[q].uids, query[q].todo \ group, group, query[q].found))
    /\ UNCHANGED <<userVars, setting, keep, store, up, histVars>>

\* Mutant of ReadStatus: reading a status gives it a new lease.
ReadStatusRenews(q, i) ==
    /\ query[q].stage = "rpc"
    /\ i \in query[q].cur
    /\ LET s == store[query[q].uids[i]] IN
       /\ Become(q, List("rpc", query[q].uids, query[q].todo, query[q].cur \ {i},
              [query[q].found EXCEPT ![i] =
                  IF s = None THEN None
                  ELSE [inRoom |-> s.inRoom, sessions |-> s.sessions]]))
       /\ store' = IF s = None THEN store
                   ELSE [store EXCEPT ![query[q].uids[i]].left = StatusTTL]
    /\ UNCHANGED <<userVars, setting, keep, up, histVars>>

\* handleGetUserStatusList: the node reads one user after the other and leaves
\* out those it has no status for.
ReadStatus(q, i) ==
    /\ query[q].stage = "rpc"
    /\ i \in query[q].cur
    /\ LET s == store[query[q].uids[i]] IN
       Become(q, List("rpc", query[q].uids, query[q].todo, query[q].cur \ {i},
              [query[q].found EXCEPT ![i] =
                  IF s = None THEN None
                  ELSE [inRoom |-> s.inRoom, sessions |-> s.sessions]]))
    /\ UNCHANGED <<userVars, setting, keep, store, up, histVars>>

\* The reply arrives: its statuses join the list.
Receive(q) ==
    /\ query[q].stage = "rpc"
    /\ query[q].cur = {}
    /\ Become(q, List("next", query[q].uids, query[q].todo, {}, query[q].found))
    /\ UNCHANGED <<userVars, setting, keep, store, up, histVars>>

\* Mutant of FailRPC: the nodes that answer make the list.
FailRPCSkips(q) ==
    /\ query[q].stage \in {"next", "rpc"}
    /\ \E n \in Nodes :
         /\ \E i \in query[q].todo \union query[q].cur : Home[query[q].uids[i]] = n
         /\ Become(q, List("next", query[q].uids,
                {i \in query[q].todo : Home[query[q].uids[i]] # n}, {}, query[q].found))
    /\ UNCHANGED <<userVars, setting, keep, store, up, histVars>>

\* An RPC fails, the node being down or the reply lost: an error, and no list.
FailRPC(q) ==
    /\ \/ query[q].stage = "next" /\ query[q].todo # {}
       \/ query[q].stage = "rpc"
    /\ Become(q, List("bad", query[q].uids, {}, {}, NothingFound))
    /\ UNCHANGED <<userVars, setting, keep, store, up, histVars>>

\* Every node has answered: Ok with the list.
Answer(q) ==
    /\ query[q].stage = "next"
    /\ query[q].todo = {}
    /\ Become(q, List("ok", query[q].uids, {}, {}, query[q].found))
    /\ UNCHANGED <<userVars, setting, keep, store, up, histVars>>

-----------------------------------------------------------------------------
UidLists == UNION {[1..n -> Users] : n \in 0..(Limit + 1)}

Next ==
    \/ \E u \in Users : Connect(u) \/ Disconnect(u)
    \/ \E u \in Users, f \in Facts : Move(u, f)
    \/ \E n \in Nodes : NodeLoss(n) \/ NodeBack(n)
    \/ Second
    \/ \E u \in Users : \/ setUserAsOnline(u) \/ KeepAliveRoom(u)
                        \/ KeepAliveSessions(u) \/ KeepAliveWrite(u)
    \/ \E q \in Queries, uids \in UidLists : Ask(q, uids)
    \/ \E q \in Queries, n \in Nodes : SendRPC(q, n)
    \/ \E q \in Queries, i \in Positions : ReadStatus(q, i)
    \/ \E q \in Queries : Receive(q) \/ FailRPC(q) \/ Answer(q)

Spec == Init /\ [][Next]_vars

\* Handlers run to their end, a connected client sends keep-alives (the server
\* disconnects one that does not), and time passes.
FairSpec == Spec /\ WF_vars(Second) /\ \A u \in Users :
    /\ WF_vars(setUserAsOnline(u))
    /\ WF_vars(KeepAliveRoom(u))
    /\ WF_vars(KeepAliveSessions(u) \/ KeepAliveWrite(u))

-----------------------------------------------------------------------------
(* What the status promises.                                                *)

TypeOK ==
    /\ conn \in [Users -> BOOLEAN]
    /\ fact \in [Users -> Facts]
    /\ setting \in [Users -> BOOLEAN]
    /\ keep \in [Users -> Handlers]
    /\ store \in [Users -> Stored \union {None}]
    /\ up \in [Nodes -> BOOLEAN]
    /\ query \in [Queries -> ListType]
    /\ held \in [Queries -> SUBSET Users]
    /\ away \in [Users -> 0..StatusTTL]

\* A list that is answered Ok names every user asked for whose status was stored
\* from the question to the answer, however many nodes it was gathered from and
\* whatever happened between the RPCs: an RPC that failed fails the whole list.
ListComplete == \A q \in Queries : query[q].stage = "ok" =>
    \A i \in 1..Len(query[q].uids) :
        query[q].uids[i] \in held[q] => query[q].found[i] # None

\* A status outlives its user by less than userStatusTTL seconds, counted from
\* the moment the user is gone and no handler of the user is under way.
OfflineExpires == \A u \in Users : store[u] # None => away[u] < StatusTTL

\* What of the lists and the statuses is to be seen from outside: which RPC a list
\* is waiting for and how many seconds a status has left are not.
Seen(stage) == IF stage \in {"next", "rpc"} THEN "open" ELSE stage
SeenList(l) == [at |-> Seen(l.stage), uids |-> l.uids,
                unread |-> l.todo \union l.cur, found |-> l.found]
SeenStatus(s) == IF s = None THEN None
                 ELSE [inRoom |-> s.inRoom, sessions |-> s.sessions]

Board == INSTANCE StatusBoard WITH
    Term <- StatusTTL,
    present <- {u \in Users : ~Gone(u)},
    shown <- [u \in Users |-> SeenStatus(store[u])],
    list <- [q \in Queries |-> SeenList(query[q])]

\* The handlers implement StatusBoard, although the statuses are spread over nodes
\* that come and go, each with its own lease, and a list is gathered by RPCs: a
\* status comes only from a handler of its user and a list from one look at each of
\* its users between question and answer.
BoardKept == Board!Spec

\* Once a connected user stays where it is, and the node with its status up, the
\* status comes back for ever and is at last never wrong: a stale reading or a
\* late OnNew callback spoils it only for a while.
Tells(u, f) == store[u].inRoom = f.inRoom /\ store[u].sessions = f.sessions
StatusSettles == \A u \in Users, f \in Facts :
    <>[](conn[u] /\ fact[u] = f /\ up[Home[u]]) =>
        /\ []<>(store[u] # None)
        /\ <>[](store[u] # None => Tells(u, f))

\* README.md:509 promises that the response will not include the users that are
\* offline; the list has every user whose status has not expired yet.
OfflineNotListed == [][\A q \in Queries, i \in Positions :
    (query[q].found[i] = None /\ query'[q].found[i] # None)
        => conn[query[q].uids[i]]]_vars
=============================================================================
