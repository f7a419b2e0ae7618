----------------------------- MODULE RemoteRoom -----------------------------
(***************************************************************************)
(* Creating a room on another node: createRoom of cmds/http/room.go and    *)
(* CreateRemoteRoom and handleCreateRemoteRoom of lib/meshCmds/main.go.    *)
(*                                                                         *)
(* An HTTP node draws nodes of the wanted type at random until one is      *)
(* online and not taken, asks it to create a room, and answers the caller  *)
(* when the reply, or an error, comes back.  Nodes come and go all along,  *)
(* and a request or a reply may be lost after the room was created.        *)
(***************************************************************************)
EXTENDS FiniteSets, Names

VARIABLES
    node,    \* node[n]: "online", "taken" or "offline", as the mesh knows it
    req,     \* req[q]: the request on the HTTP node
    remote,  \* remote[q]: the request on its target node
    rooms,   \* rooms[r]: the request r was created for, while r lives
    dummies, \* the requests whose dummy user lives
    spent,   \* the room IDs used
    missed   \* history: missed[q]: nodes unavailable at some time since q was asked

vars == <<node, req, remote, rooms, dummies, spent, missed>>
remoteVars == <<remote, rooms, dummies, spent>>

Available(n) == node[n] = "online"

Request(stage, nodes, seen, target, room) ==
    [stage |-> stage, nodes |-> nodes, seen |-> seen, target |-> target, room |-> room]
RequestType == [stage : {"idle", "probing", "sent", "ok", "bad", "nonode"},
                nodes : SUBSET Nodes, seen : SUBSET Nodes,
                target : Nodes \union {None}, room : Rooms \union {None}]
Step(stage, room) == [stage |-> stage, room |-> room]
RemoteType == [stage : {"none", "asked", "user", "replied", "failed"},
               room : Rooms \union {None}]

Init ==
    /\ node \in [Nodes -> {"online", "taken", "offline"}]
    /\ req = [q \in Requests |-> Request("idle", {}, {}, None, None)]
    /\ remote = [q \in Requests |-> Step("none", None)]
    /\ rooms = [r \in Rooms |-> None]
    /\ dummies = {}
    /\ spent = {}
    /\ missed = [q \in Requests |-> {}]

-----------------------------------------------------------------------------
(* The mesh: nodes change state, rooms and dummy users reach their TTL.      *)

NodeChange(n, s) ==
    /\ node[n] # s
    /\ node' = [node EXCEPT ![n] = s]
    /\ missed' = [q \in Requests |->
           IF req[q].stage = "probing" /\ s # "online" THEN missed[q] \union {n} ELSE missed[q]]
    /\ UNCHANGED <<req, remoteVars>>

RoomEnds(r) ==
    /\ rooms[r] # None
    /\ rooms' = [rooms EXCEPT ![r] = None]
    /\ UNCHANGED <<node, req, remote, dummies, spent, missed>>

DummyEnds(q) ==
    /\ q \in dummies
    /\ dummies' = dummies \ {q}
    /\ UNCHANGED <<node, req, remote, rooms, spent, missed>>

-----------------------------------------------------------------------------
(* The HTTP node.                                                           *)

\* createRoom refuses the parameters.
Refuse(q) ==
    /\ req[q].stage = "idle"
    /\ req' = [req EXCEPT ![q] = Request("bad", {}, {}, None, None)]
    /\ UNCHANGED <<node, remoteVars, missed>>

\* GetNodeAddressesByType: the nodes the mesh knows; the list is not empty.
Ask(q, nodes) ==
    /\ req[q].stage = "idle"
    /\ nodes # {}
    /\ req' = [req EXCEPT ![q] = Request("probing", nodes, {}, None, None)]
    /\ missed' = [missed EXCEPT ![q] = {n \in Nodes : ~Available(n)}]
    /\ UNCHANGED <<node, remoteVars>>

\* Mutants of Probe: it gives up after one draw of a node that is not available;
\* a node that is not available is not marked seen.
ProbeOnce(q, n) ==
    /\ req[q].stage = "probing" /\ n \in req[q].nodes
    /\ req' = [req EXCEPT ![q] = IF Available(n)
           THEN Request("sent", {}, {}, n, None) ELSE Request("nonode", req[q].nodes, {}, None, None)]
    /\ remote' = IF Available(n) THEN [remote EXCEPT ![q] = Step("asked", None)] ELSE remote
    /\ UNCHANGED <<node, rooms, dummies, spent, missed>>
ProbeForgets(q, n) ==
    /\ req[q].stage = "probing" /\ n \in req[q].nodes /\ Available(n)
    /\ req' = [req EXCEPT ![q] = Request("sent", {}, {}, n, None)]
    /\ remote' = [remote EXCEPT ![q] = Step("asked", None)]
    /\ UNCHANGED <<node, rooms, dummies, spent, missed>>

\* One draw of the loop: the request goes to the node if it is available;
\* otherwise the node is seen, and when all are seen there is no node.
Probe(q, n) == LET seen == req[q].seen \union {n} IN
    /\ req[q].stage = "probing"
    /\ n \in req[q].nodes
    /\ \/ /\ Available(n)
          /\ req' = [req EXCEPT ![q] = Request("sent", {}, {}, n, None)]
          /\ remote' = [remote EXCEPT ![q] = Step("asked", None)]
       \/ /\ ~Available(n)
          /\ req' = [req EXCEPT ![q] =
                 IF seen = req[q].nodes THEN Request("nonode", seen, {}, None, None)
                 ELSE Request("probing", req[q].nodes, seen, None, None)]
          /\ UNCHANGED remote
    /\ UNCHANGED <<node, rooms, dummies, spent, missed>>

\* Mutant of Replied: the reply of whichever target answers.
RepliedMixed(q) == \E p \in Requests :
    /\ req[q].stage = "sent"
    /\ remote[p].stage = "replied"
    /\ req' = [req EXCEPT ![q] = Request("ok", {}, {}, None, remote[p].room)]
    /\ UNCHANGED <<node, remoteVars, missed>>

\* The reply of the target, or its error.
Replied(q) ==
    /\ req[q].stage = "sent"
    /\ remote[q].stage \in {"replied", "failed"}
    /\ req' = [req EXCEPT ![q] =
           IF remote[q].stage = "replied" THEN Request("ok", {}, {}, None, remote[q].room)
           ELSE Request("bad", {}, {}, None, None)]
    /\ UNCHANGED <<node, remoteVars, missed>>

\* The mesh gives up on the request, wherever it or its reply was lost.
GiveUp(q) ==
    /\ req[q].stage = "sent"
    /\ req' = [req EXCEPT ![q] = Request("bad", {}, {}, None, None)]
    /\ UNCHANGED <<node, remoteVars, missed>>

-----------------------------------------------------------------------------
(* handleCreateRemoteRoom on the target node, asked or still asked when the  *)
(* HTTP node has given up.                                                   *)

\* No UUID, no user, or the user not found again: an error.
RemoteFails(q) ==
    /\ remote[q].stage = "asked"
    /\ remote' = [remote EXCEPT ![q] = Step("failed", None)]
    /\ dummies' \in {dummies, dummies \union {q}}
    /\ UNCHANGED <<node, req, rooms, spent, missed>>

\* user.New: the dummy user that is to own the room.
RemoteUser(q) ==
    /\ remote[q].stage = "asked"
    /\ remote' = [remote EXCEPT ![q] = Step("user", None)]
    /\ dummies' = dummies \union {q}
    /\ UNCHANGED <<node, req, rooms, spent, missed>>

\* room.NewRoom with allowEmpty and without join: a room with nobody in it.
RemoteRoomMade(q) == \E r \in Rooms \ spent :
    /\ remote[q].stage = "user"
    /\ rooms' = [rooms EXCEPT ![r] = q]
    /\ spent' = spent \union {r}
    /\ remote' = [remote EXCEPT ![q] = Step("replied", r)]
    /\ UNCHANGED <<node, req, dummies, missed>>

\* room.NewRoom fails: the dummy user stays until its TTL.
RemoteNoRoom(q) ==
    /\ remote[q].stage = "user"
    /\ remote' = [remote EXCEPT ![q] = Step("failed", None)]
    /\ UNCHANGED <<node, req, rooms, dummies, spent, missed>>
-----------------------------------------------------------------------------
Next ==
    \/ \E n \in Nodes, s \in {"online", "taken", "offline"} : NodeChange(n, s)
    \/ \E r \in Rooms : RoomEnds(r)
    \/ \E q \in Requests, nodes \in SUBSET Nodes : Ask(q, nodes)
    \/ \E q \in Requests, n \in Nodes : Probe(q, n)
    \/ \E q \in Requests : \/ DummyEnds(q) \/ Refuse(q) \/ Replied(q) \/ GiveUp(q)
                           \/ RemoteFails(q) \/ RemoteUser(q)
                           \/ RemoteRoomMade(q) \/ RemoteNoRoom(q)

\* A random draw comes to every node in the end, and the mesh always calls back;
\* no request need reach its target.
Spec ==
    /\ Init /\ [][Next]_vars
    /\ \A q \in Requests : WF_vars(Replied(q) \/ GiveUp(q))
    /\ \A q \in Requests, n \in Nodes : WF_vars(Probe(q, n))

-----------------------------------------------------------------------------
(* What the command promises.                                               *)

TypeOK ==
    /\ node \in [Nodes -> {"online", "taken", "offline"}]
    /\ req \in [Requests -> RequestType]
    /\ \A q \in Requests : req[q].stage = "ok" <=> req[q].room # None
    /\ remote \in [Requests -> RemoteType]
    /\ rooms \in [Rooms -> Requests \union {None}]
    /\ dummies \in SUBSET Requests
    /\ spent \in SUBSET Rooms
    /\ missed \in [Requests -> SUBSET Nodes]

\* "No available target node found" is answered only if each of the nodes known
\* when the request came was at some moment since then offline or taken.
NoNodeJustified == \A q \in Requests :
    req[q].stage = "nonode" => req[q].nodes \subseteq missed[q]

\* A room ID is told to one request only, the one its room was created for, even
\* when other requests were given up with rooms of their own left behind.
RoomIsTheirs == \A q \in Requests : req[q].stage = "ok" =>
    /\ rooms[req[q].room] \in {q, None}
    /\ \A p \in Requests \ {q} : req[p].stage = "ok" => req[p].room # req[q].room

\* The caller of createRoom is answered, however the nodes come and go.
CallerAnswered == \A q \in Requests :
    req[q].stage = "probing" ~> req[q].stage \in {"ok", "bad", "nonode"}
=============================================================================
