------------------------- MODULE RemoteRoom_proofs -------------------------
(***************************************************************************)
(* Proofs about RemoteRoom, for any nodes, requests and rooms.             *)
(***************************************************************************)
EXTENDS RemoteRoom, TLAPS

\* A node the loop has seen, or would find unavailable now, has been missed.
Missing == \A q \in Requests :
    /\ req[q].stage = "probing" => /\ req[q].seen \subseteq missed[q]
                                   /\ \A n \in Nodes : ~Available(n) => n \in missed[q]
    /\ req[q].stage = "nonode" => req[q].nodes \subseteq missed[q]

\* A target that replied made the room it replies, and no other request's.
Made == \A q \in Requests :
    /\ remote[q].stage = "replied" <=> remote[q].room # None
    /\ remote[q].room # None =>
          /\ remote[q].room \in spent
          /\ rooms[remote[q].room] \in {q, None}
          /\ \A p \in Requests : p # q => remote[p].room # remote[q].room

\* The room a caller was told is the one its target replied.
Told == \A q \in Requests : req[q].stage = "ok" => req[q].room = remote[q].room
Idle == \A q \in Requests :
    req[q].stage \in {"idle", "probing"} => remote[q].stage = "none"

IInv == TypeOK /\ Missing /\ Made /\ Told /\ Idle

-----------------------------------------------------------------------------
(* Each slot.                                                               *)

\* A request written into its slot, and the others left alone.
LEMMA ReqUpdate ==
    ASSUME TypeOK, NEW q \in Requests, NEW x \in RequestType,
           x.stage = "ok" <=> x.room # None, req' = [req EXCEPT ![q] = x]
    PROVE  /\ req' \in [Requests -> RequestType]
           /\ req'[q] = x
           /\ \A p \in Requests : p # q => req'[p] = req[p]
           /\ \A p \in Requests : req'[p].stage = "ok" <=> req'[p].room # None
BY DEF TypeOK

\* A request with typed fields is a request of the model.
LEMMA RequestIsTyped ==
    ASSUME NEW s \in {"idle", "probing", "sent", "ok", "bad", "nonode"},
           NEW a \in SUBSET Nodes, NEW b \in SUBSET Nodes,
           NEW t \in Nodes \union {None}, NEW r \in Rooms \union {None}
    PROVE  /\ Request(s, a, b, t, r) \in RequestType
           /\ Request(s, a, b, t, r).stage = s /\ Request(s, a, b, t, r).nodes = a
           /\ Request(s, a, b, t, r).seen = b /\ Request(s, a, b, t, r).room = r
BY DEF Request, RequestType

\* A remote-room record written into its place, and the others left alone.
LEMMA RemoteUpdate ==
    ASSUME TypeOK, NEW q \in Requests, NEW s \in {"none", "asked", "user", "replied", "failed"},
           NEW r \in Rooms \union {None}, remote' = [remote EXCEPT ![q] = Step(s, r)]
    PROVE  /\ remote' \in [Requests -> RemoteType]
           /\ remote'[q].stage = s /\ remote'[q].room = r
           /\ \A p \in Requests : p # q => remote'[p] = remote[p]
BY DEF TypeOK, Step, RemoteType

-----------------------------------------------------------------------------
(* Steps on the HTTP node.                                                  *)

\* A draw keeps the invariant.
LEMMA ProbeStep ==
    ASSUME IInv, NEW q \in Requests, NEW n \in Nodes, Probe(q, n)
    PROVE  IInv'
<1> DEFINE seen == req[q].seen \union {n}
<1>1. /\ TypeOK /\ req[q] \in RequestType /\ req[q].stage = "probing"
      /\ UNCHANGED <<node, rooms, dummies, spent, missed>>
      /\ remote[q].stage = "none" /\ remote[q].room = None
      /\ req[q].seen \subseteq missed[q]
      /\ ~Available(n) => n \in missed[q]
  BY DEF IInv, Probe, TypeOK, Idle, Made, Missing
<1>2. CASE /\ Available(n)
           /\ req' = [req EXCEPT ![q] = Request("sent", {}, {}, n, None)]
           /\ remote' = [remote EXCEPT ![q] = Step("asked", None)]
  <2>1. /\ req' \in [Requests -> RequestType]
        /\ req'[q].stage = "sent" /\ req'[q].room = None
        /\ \A p \in Requests : p # q => req'[p] = req[p]
        /\ \A p \in Requests : req'[p].stage = "ok" <=> req'[p].room # None
    <3> DEFINE x == Request("sent", {}, {}, n, None)
    <3>1. x \in RequestType /\ x.stage = "sent" /\ x.room = None
      BY RequestIsTyped
    <3>2. req' = [req EXCEPT ![q] = x]
      BY <1>2
    <3> HIDE DEF x
    <3> QED
      BY <1>1, <3>1, <3>2, ReqUpdate
  <2>2. /\ remote' \in [Requests -> RemoteType]
        /\ remote'[q].stage = "asked" /\ remote'[q].room = None
        /\ \A p \in Requests : p # q => remote'[p] = remote[p]
    BY <1>1, <1>2, RemoteUpdate
  <2>3. TypeOK'
    BY <1>1, <2>1, <2>2 DEF TypeOK
  <2>4. Missing'
    BY <1>1, <2>1 DEF IInv, Missing, Available
  <2>5. Made'
    BY <1>1, <2>2 DEF IInv, Made
  <2>6. Told' /\ Idle'
    BY <1>1, <2>1, <2>2 DEF IInv, Told, Idle
  <2> QED
    BY <2>3, <2>4, <2>5, <2>6 DEF IInv
<1>3. CASE /\ ~Available(n)
           /\ req' = [req EXCEPT ![q] =
                  IF seen = req[q].nodes THEN Request("nonode", seen, {}, None, None)
                  ELSE Request("probing", req[q].nodes, seen, None, None)]
           /\ UNCHANGED remote
  <2> DEFINE x == IF seen = req[q].nodes THEN Request("nonode", seen, {}, None, None)
                  ELSE Request("probing", req[q].nodes, seen, None, None)
  <2>1. seen \in SUBSET Nodes /\ req[q].nodes \in SUBSET Nodes /\ seen \subseteq missed[q]
    BY <1>1, <1>3 DEF RequestType
  <2> HIDE DEF seen
  <2>2. /\ x \in RequestType /\ x.room = None
        /\ \/ x.stage = "nonode" /\ x.nodes = seen
           \/ x.stage = "probing" /\ x.seen = seen
    BY <2>1, RequestIsTyped
  <2>3. req' = [req EXCEPT ![q] = x]
    BY <1>3
  <2> HIDE DEF x
  <2>4. /\ req' \in [Requests -> RequestType]
        /\ req'[q] = x
        /\ \A p \in Requests : p # q => req'[p] = req[p]
        /\ \A p \in Requests : req'[p].stage = "ok" <=> req'[p].room # None
    BY <1>1, <2>2, <2>3, ReqUpdate
  <2>5. TypeOK'
    BY <1>1, <1>3, <2>4 DEF TypeOK
  <2>6. Missing'
    BY <1>1, <2>1, <2>2, <2>4 DEF IInv, Missing, Available
  <2>7. Made'
    BY <1>1, <1>3 DEF IInv, Made
  <2>8. Told' /\ Idle'
    BY <1>1, <1>3, <2>2, <2>4 DEF IInv, Told, Idle
  <2> QED
    BY <2>5, <2>6, <2>7, <2>8 DEF IInv
<1> QED
  BY <1>2, <1>3 DEF Probe

\* Asking, refusing, and hearing of the end keep the invariant.
LEMMA CallerStep ==
    ASSUME IInv, NEW q \in Requests,
           Refuse(q) \/ (\E nodes \in SUBSET Nodes : Ask(q, nodes)) \/ Replied(q) \/ GiveUp(q)
    PROVE  IInv'
<1>1. /\ TypeOK /\ req[q] \in RequestType /\ remote[q] \in RemoteType
      /\ UNCHANGED <<node, remote, rooms, dummies, spent>>
  BY DEF IInv, Refuse, Ask, Replied, GiveUp, TypeOK, remoteVars
<1>2. ASSUME NEW x \in RequestType, req' = [req EXCEPT ![q] = x],
             \/ x.stage = "bad" /\ x.room = None
             \/ x.stage = "ok" /\ x.room = remote[q].room /\ x.room # None,
             UNCHANGED missed
      PROVE  IInv'
  <2>1. /\ req' \in [Requests -> RequestType]
        /\ req'[q] = x
        /\ \A p \in Requests : p # q => req'[p] = req[p]
        /\ \A p \in Requests : req'[p].stage = "ok" <=> req'[p].room # None
    BY <1>1, <1>2, ReqUpdate
  <2>2. TypeOK'
    BY <1>1, <1>2, <2>1 DEF TypeOK
  <2>3. Missing'
    BY <1>1, <1>2, <2>1 DEF IInv, Missing, Available
  <2>4. Made'
    BY <1>1 DEF IInv, Made
  <2>5. Told' /\ Idle'
    BY <1>1, <1>2, <2>1 DEF IInv, Told, Idle
  <2> QED
    BY <2>2, <2>3, <2>4, <2>5 DEF IInv
<1>3. Request("bad", {}, {}, None, None) \in RequestType
      /\ Request("bad", {}, {}, None, None).stage = "bad"
      /\ Request("bad", {}, {}, None, None).room = None
  BY RequestIsTyped
<1>4. CASE Refuse(q)
  BY <1>2, <1>3, <1>4 DEF Refuse
<1>5. CASE GiveUp(q)
  BY <1>2, <1>3, <1>5 DEF GiveUp
<1>6. CASE Replied(q)
  <2>1. CASE remote[q].stage = "replied"
    <3> DEFINE x == Request("ok", {}, {}, None, remote[q].room)
    <3>1. remote[q].room \in Rooms \union {None} /\ remote[q].room # None
      BY <1>1, <2>1 DEF RemoteType, IInv, Made
    <3>2. x \in RequestType /\ x.stage = "ok" /\ x.room = remote[q].room
      BY <3>1, RequestIsTyped
    <3>3. req' = [req EXCEPT ![q] = x] /\ UNCHANGED missed
      BY <1>6, <2>1 DEF Replied
    <3> QED
      BY <1>2, <3>1, <3>2, <3>3
  <2>2. CASE remote[q].stage # "replied"
    BY <1>2, <1>3, <1>6, <2>2 DEF Replied
  <2> QED
    BY <2>1, <2>2
<1>7. ASSUME NEW nodes \in SUBSET Nodes, Ask(q, nodes) PROVE IInv'
  <2> DEFINE x == Request("probing", nodes, {}, None, None)
  <2>1. x \in RequestType /\ x.stage = "probing" /\ x.seen = {} /\ x.room = None
    BY RequestIsTyped
  <2>2. req' = [req EXCEPT ![q] = x] /\ req[q].stage = "idle"
    BY <1>7 DEF Ask
  <2> HIDE DEF x
  <2>3. /\ req' \in [Requests -> RequestType]
        /\ req'[q] = x
        /\ \A p \in Requests : p # q => req'[p] = req[p]
        /\ \A p \in Requests : req'[p].stage = "ok" <=> req'[p].room # None
    BY <1>1, <2>1, <2>2, ReqUpdate
  <2>4. /\ missed' \in [Requests -> SUBSET Nodes]
        /\ missed'[q] = {n \in Nodes : ~Available(n)}
        /\ \A p \in Requests : p # q => missed'[p] = missed[p]
    BY <1>1, <1>7 DEF Ask, TypeOK
  <2>5. TypeOK'
    BY <1>1, <2>3, <2>4 DEF TypeOK
  <2>6. Missing'
    BY <1>1, <2>1, <2>3, <2>4 DEF IInv, Missing, Available
  <2>7. Made'
    BY <1>1 DEF IInv, Made
  <2>8. Told' /\ Idle'
    BY <1>1, <2>1, <2>2, <2>3 DEF IInv, Told, Idle
  <2> QED
    BY <2>5, <2>6, <2>7, <2>8 DEF IInv
<1> QED
  BY <1>4, <1>5, <1>6, <1>7
-----------------------------------------------------------------------------
(* Steps of the target, and of the mesh.                                    *)

\* A step of the target that makes no room.
LEMMA TargetStep ==
    ASSUME IInv, NEW q \in Requests, RemoteFails(q) \/ RemoteUser(q) \/ RemoteNoRoom(q)
    PROVE  IInv'
<1>1. /\ TypeOK /\ UNCHANGED <<node, req, rooms, spent, missed>>
      /\ dummies' \in SUBSET Requests
      /\ remote[q].stage \in {"asked", "user"}
      /\ \/ remote' = [remote EXCEPT ![q] = Step("failed", None)]
         \/ remote' = [remote EXCEPT ![q] = Step("user", None)]
  BY DEF IInv, TypeOK, RemoteFails, RemoteUser, RemoteNoRoom
<1>2. /\ remote' \in [Requests -> RemoteType]
      /\ remote'[q].stage \in {"failed", "user"} /\ remote'[q].room = None
      /\ \A p \in Requests : p # q => remote'[p] = remote[p]
  BY <1>1, RemoteUpdate
<1>3. req[q].stage = "ok" => req[q].room # None /\ req[q].room = remote[q].room
  BY DEF IInv, TypeOK, Told
<1>4. remote[q].room = None
  BY <1>1 DEF IInv, Made
<1>5. TypeOK'
  BY <1>1, <1>2 DEF TypeOK
<1>6. Missing'
  BY <1>1 DEF IInv, Missing, Available
<1>7. Made'
  BY <1>1, <1>2 DEF IInv, Made
<1>8. Told'
  BY <1>1, <1>2, <1>3, <1>4 DEF IInv, Told
<1>9. Idle'
  BY <1>1, <1>2 DEF IInv, Idle
<1> QED
  BY <1>5, <1>6, <1>7, <1>8, <1>9 DEF IInv

\* A new room is nobody else's: its ID was not spent.
LEMMA RoomStep ==
    ASSUME IInv, NEW q \in Requests, RemoteRoomMade(q)
    PROVE  IInv'
<1>1. PICK r \in Rooms \ spent :
        /\ remote[q].stage = "user"
        /\ rooms' = [rooms EXCEPT ![r] = q]
        /\ spent' = spent \union {r}
        /\ remote' = [remote EXCEPT ![q] = Step("replied", r)]
        /\ UNCHANGED <<node, req, dummies, missed>>
  BY DEF RemoteRoomMade
<1>2. /\ TypeOK /\ r # None
      /\ remote' \in [Requests -> RemoteType]
      /\ remote'[q].stage = "replied" /\ remote'[q].room = r
      /\ \A p \in Requests : p # q => remote'[p] = remote[p]
  BY <1>1, RemoteUpdate, NoneAssumption DEF IInv
<1>3. TypeOK'
  BY <1>1, <1>2 DEF TypeOK
<1>4. Missing'
  BY <1>1 DEF IInv, Missing, Available
<1>5. Made'
  <2>1. rooms'[r] = q /\ \A x \in Rooms : x # r => rooms'[x] = rooms[x]
    BY <1>1, <1>2 DEF TypeOK
  <2>2. \A p \in Requests : remote[p].room # r
    BY <1>1, <1>2 DEF IInv, Made
  <2>3. \A p \in Requests : remote[p].room \in Rooms \union {None}
    BY <1>2 DEF TypeOK, RemoteType
  <2> QED
    BY <1>1, <1>2, <2>1, <2>2, <2>3 DEF IInv, Made
<1>6. Told'
  <2>1. req[q].stage # "ok"
    BY <1>1 DEF IInv, TypeOK, Told, Made
  <2> QED
    BY <1>1, <1>2, <2>1 DEF IInv, Told
<1>7. Idle'
  BY <1>1, <1>2 DEF IInv, Idle
<1> QED
  BY <1>3, <1>4, <1>5, <1>6, <1>7 DEF IInv

\* Nodes changing state, rooms and dummy users ending.
LEMMA MeshStep ==
    ASSUME IInv, \/ \E n \in Nodes, s \in {"online", "taken", "offline"} : NodeChange(n, s)
                 \/ \E r \in Rooms : RoomEnds(r)
                 \/ \E q \in Requests : DummyEnds(q)
    PROVE  IInv'
<1> USE DEF remoteVars
<1>1. ASSUME NEW n \in Nodes, NEW s \in {"online", "taken", "offline"}, NodeChange(n, s)
      PROVE  IInv'
  <2>1. UNCHANGED <<req, remote, rooms, dummies, spent>>
    BY <1>1 DEF NodeChange
  <2>2. /\ node' \in [Nodes -> {"online", "taken", "offline"}]
        /\ node'[n] = s
        /\ \A m \in Nodes : m # n => node'[m] = node[m]
    BY <1>1 DEF NodeChange, IInv, TypeOK
  <2>3. /\ missed' \in [Requests -> SUBSET Nodes]
        /\ \A q \in Requests : missed[q] \subseteq missed'[q]
        /\ \A q \in Requests :
              req[q].stage = "probing" /\ s # "online" => n \in missed'[q]
    BY <1>1 DEF NodeChange, IInv, TypeOK
  <2>4. TypeOK'
    BY <2>1, <2>2, <2>3 DEF IInv, TypeOK
  <2>5. Missing'
    BY <2>1, <2>2, <2>3 DEF IInv, Missing, Available
  <2>6. Made' /\ Told' /\ Idle'
    BY <2>1 DEF IInv, Made, Told, Idle
  <2> QED
    BY <2>4, <2>5, <2>6 DEF IInv
<1>2. ASSUME NEW r \in Rooms, RoomEnds(r) PROVE IInv'
  <2>1. /\ UNCHANGED <<node, req, remote, dummies, spent, missed>>
        /\ rooms' = [rooms EXCEPT ![r] = None]
    BY <1>2 DEF RoomEnds
  <2>2. /\ rooms' \in [Rooms -> Requests \union {None}]
        /\ \A x \in Rooms : rooms'[x] = rooms[x] \/ rooms'[x] = None
    BY <2>1 DEF IInv, TypeOK
  <2>3. TypeOK'
    BY <2>1, <2>2 DEF IInv, TypeOK
  <2>4. Missing' /\ Told' /\ Idle'
    BY <2>1 DEF IInv, Missing, Available, Told, Idle
  <2>5. \A p \in Requests : remote[p].room \in Rooms \union {None}
    BY DEF IInv, TypeOK, RemoteType
  <2>6. Made'
    BY <2>1, <2>2, <2>5 DEF IInv, Made
  <2> QED
    BY <2>3, <2>4, <2>6 DEF IInv
<1>3. ASSUME NEW q \in Requests, DummyEnds(q) PROVE IInv'
  BY <1>3 DEF DummyEnds, IInv, TypeOK, Missing, Available, Made, Told, Idle
<1> QED
  BY <1>1, <1>2, <1>3

-----------------------------------------------------------------------------
(* Theorems.                                                                *)

\* The inductive invariant holds in every reachable state.
THEOREM Invariance == Spec => []IInv
<1>1. Init => IInv
  <2> SUFFICES ASSUME Init PROVE IInv
    OBVIOUS
  <2>1. \A q \in Requests : /\ req[q] = Request("idle", {}, {}, None, None)
                            /\ remote[q] = Step("none", None)
    BY DEF Init
  <2>2. TypeOK
    <3>1. Step("none", None) \in RemoteType
      BY DEF Step, RemoteType
    <3>2. Request("idle", {}, {}, None, None) \in RequestType
      BY RequestIsTyped
    <3>3. \A q \in Requests : req[q].stage = "idle" /\ req[q].room = None
      BY <2>1, RequestIsTyped
    <3> QED
      BY <3>1, <3>2, <3>3 DEF Init, TypeOK
  <2>3. Missing /\ Told /\ Idle
    BY <2>1 DEF Missing, Told, Idle, Request, Step
  <2>4. Made
    BY <2>1 DEF Made, Step
  <2> QED
    BY <2>2, <2>3, <2>4 DEF IInv
<1>2. IInv /\ [Next]_vars => IInv'
  <2> SUFFICES ASSUME IInv, [Next]_vars PROVE IInv'
    OBVIOUS
  <2>1. CASE UNCHANGED vars
    BY <2>1 DEF vars, IInv, TypeOK, Missing, Available, Made, Told, Idle
  <2> QED
    BY <2>1, ProbeStep, CallerStep, TargetStep, RoomStep, MeshStep DEF Next
<1> QED
  BY <1>1, <1>2, PTL DEF Spec

\* Every variable keeps its type, and Ok comes with a room.
THEOREM TypeCorrect == Spec => []TypeOK
<1>1. IInv => TypeOK
  BY DEF IInv
<1> QED
  BY <1>1, Invariance, PTL

\* "No available target node found" is never answered without cause.
THEOREM NoNodeIsJustified == Spec => []NoNodeJustified
<1>1. IInv => NoNodeJustified
  BY DEF IInv, Missing, NoNodeJustified
<1> QED
  BY <1>1, Invariance, PTL

\* No two callers are told the same room, and none another caller's.
THEOREM RoomsAreTheirs == Spec => []RoomIsTheirs
<1>1. IInv => RoomIsTheirs
  BY DEF IInv, TypeOK, Made, Told, RoomIsTheirs
<1> QED
  BY <1>1, Invariance, PTL
=============================================================================
