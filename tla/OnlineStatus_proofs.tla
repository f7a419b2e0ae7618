------------------------ MODULE OnlineStatus_proofs ------------------------
(***************************************************************************)
(* Proofs about OnlineStatus, for any users, nodes, lists, limit and TTL:  *)
(* its types, how long a status outlives its user, and that a list that is *)
(* answered Ok lacks nobody it should name.                                *)
(***************************************************************************)
EXTENDS OnlineStatus, TLAPS

USE DEF Positions, Statuses, Stored, Handlers, ListType

-----------------------------------------------------------------------------
(* The inductive invariant.                                                 *)

\* Time away and time left never add up to more than a lease.
Leases == \A u \in Users :
    store[u] # None => away[u] + store[u].left <= StatusTTL

\* A user counts as held only while its status is stored.
HeldStored == \A q \in Queries : \A u \in held[q] : store[u] # None

\* A held user of a list under way is still to be read, or was found.
Covered(q) == \A i \in 1..Len(query[q].uids) :
    query[q].uids[i] \in held[q] =>
        i \in query[q].todo \/ i \in query[q].cur \/ query[q].found[i] # None
Gathering == \A q \in Queries :
    /\ query[q].stage \in {"next", "rpc", "ok"} => Covered(q)
    /\ query[q].stage # "rpc" => query[q].cur = {}
    /\ query[q].stage = "ok" => query[q].todo = {}

\* The positions still to be sent or read are positions of the request.
InRange == \A q \in Queries :
    query[q].todo \union query[q].cur \subseteq 1..Len(query[q].uids)

IInv == TypeOK /\ InRange /\ Leases /\ HeldStored /\ Gathering

-----------------------------------------------------------------------------
(* Types.                                                                   *)

\* The fields of a list, and a list built from fields of the right types.
LEMMA ListTypes ==
    ASSUME NEW l \in ListType
    PROVE  /\ l = List(l.stage, l.uids, l.todo, l.cur, l.found)
           /\ l.stage \in {"idle", "next", "rpc", "ok", "bad"}
           /\ l.uids \in UidLists
           /\ l.todo \in SUBSET Positions
           /\ l.cur \in SUBSET Positions
           /\ l.found \in [Positions -> Statuses \union {None}]
BY DEF List, UidLists

\* A list built by List from fields of the right types is a list of the model.
LEMMA ListIsTyped ==
    ASSUME NEW s \in {"idle", "next", "rpc", "ok", "bad"}, NEW uids \in UidLists,
           NEW todo \in SUBSET Positions, NEW cur \in SUBSET Positions,
           NEW found \in [Positions -> Statuses \union {None}]
    PROVE  List(s, uids, todo, cur, found) \in ListType
BY DEF List, UidLists

\* Writing a list of the right type into its slot, and what the slots hold then.
LEMMA BecomeType ==
    ASSUME query \in [Queries -> ListType], NEW q \in Queries,
           NEW l \in ListType, Become(q, l)
    PROVE  /\ query' \in [Queries -> ListType]
           /\ query'[q] = l
           /\ \A p \in Queries : p # q => query'[p] = query[p]
BY DEF Become

\* A request is a sequence over the users no longer than Limit + 1.
LEMMA RequestTypes ==
    ASSUME NEW uids \in UidLists
    PROVE  /\ Len(uids) \in 0..(Limit + 1)
           /\ uids \in [1..Len(uids) -> Users]
<1>1. PICK n \in 0..(Limit + 1) : uids \in [1..n -> Users]
  BY DEF UidLists
<1>2. n \in Nat
  BY <1>1, ConstantsAssumption
<1>3. Len(uids) = n
  BY <1>1, <1>2
<1> QED
  BY <1>1, <1>3

\* What a storage write leaves in the storage.
LEMMA SetExType ==
    ASSUME TypeOK, NEW u \in Users, NEW b \in BOOLEAN, NEW s \in SUBSET Sessions,
           SetEx(u, b, s)
    PROVE  /\ store' \in [Users -> Stored \union {None}]
           /\ \A v \in Users : store[v] # None => store'[v] # None
           /\ \A v \in Users : v # u => store'[v] = store[v]
           /\ store'[u] # None => store'[u] = store[u] \/ store'[u].left = StatusTTL
<1> DEFINE e == [inRoom |-> b, sessions |-> s, left |-> StatusTTL]
<1>1. e \in Stored
  BY ConstantsAssumption
<1>2. e # None
  BY <1>1, NoneAssumption
<1>3. store \in [Users -> Stored \union {None}]
  BY DEF TypeOK
<1>4. CASE store' = store
  BY <1>3, <1>4
<1>5. CASE store' = [store EXCEPT ![u] = e]
  <2>1. /\ store' \in [Users -> Stored \union {None}]
        /\ store'[u] = e
        /\ \A v \in Users : v # u => store'[v] = store[v]
    BY <1>1, <1>3, <1>5
  <2>2. store'[u].left = StatusTTL
    BY <2>1
  <2> QED
    BY <1>2, <2>1, <2>2
<1> QED
  BY <1>4, <1>5 DEF SetEx

\* A second passes over one stored status.
LEMMA SecondStore ==
    ASSUME TypeOK, Second
    PROVE  /\ store' \in [Users -> Stored \union {None}]
           /\ \A u \in Users : store'[u] # None =>
                 store[u] # None /\ store'[u].left = store[u].left - 1
<1>1. store \in [Users -> Stored \union {None}]
  BY DEF TypeOK
<1>2. ASSUME NEW u \in Users, store[u] # None, store[u].left # 1
      PROVE  /\ [store[u] EXCEPT !.left = @ - 1] \in Stored
             /\ [store[u] EXCEPT !.left = @ - 1].left = store[u].left - 1
  <2>1. store[u] \in Stored
    BY <1>1, <1>2
  <2>2. store[u].left \in 1..StatusTTL /\ store[u].left - 1 \in 1..StatusTTL
    BY <2>1, <1>2, ConstantsAssumption
  <2> QED
    BY <2>1, <2>2
<1>3. store' = [u \in Users |-> IF store[u] = None \/ store[u].left = 1 THEN None
                                ELSE [store[u] EXCEPT !.left = @ - 1]]
  BY DEF Second
<1>4. store' \in [Users -> Stored \union {None}]
  BY <1>2, <1>3
<1>5. ASSUME NEW u \in Users, store'[u] # None
      PROVE  store[u] # None /\ store'[u].left = store[u].left - 1
  <2>1. store[u] # None /\ store[u].left # 1
    BY <1>3, <1>5
  <2>2. store'[u] = [store[u] EXCEPT !.left = @ - 1]
    BY <1>3, <2>1
  <2> QED
    BY <1>2, <2>1, <2>2
<1> QED
  BY <1>4, <1>5

\* What a node reads for a user, as the list keeps it.
Reading(u) == IF store[u] = None THEN None
              ELSE [inRoom |-> store[u].inRoom, sessions |-> store[u].sessions]

\* What a read of the storage answers is a status or nothing.
LEMMA ReadingType ==
    ASSUME TypeOK, NEW u \in Users
    PROVE  /\ Reading(u) \in Statuses \union {None}
           /\ store[u] # None => Reading(u) # None
<1>1. CASE store[u] = None
  BY <1>1 DEF Reading
<1>2. CASE store[u] # None
  <2>1. store[u] \in Stored
    BY <1>2 DEF TypeOK
  <2>2. Reading(u) = [inRoom |-> store[u].inRoom, sessions |-> store[u].sessions]
    BY <1>2 DEF Reading
  <2>3. Reading(u) \in Statuses
    BY <2>1, <2>2
  <2> QED
    BY <2>3, NoneAssumption
<1> QED
  BY <1>1, <1>2

\* Each step of a list: the list it leaves in its slot.
LEMMA ListSteps ==
    ASSUME TypeOK, NEW q \in Queries
    PROVE  /\ \A uids \in UidLists : Ask(q, uids) =>
                Become(q, IF Len(uids) > Limit
                          THEN List("bad", uids, {}, {}, NothingFound)
                          ELSE List("next", uids, 1..Len(uids), {}, NothingFound))
           /\ \A i \in Positions : ReadStatus(q, i) =>
                Become(q, List("rpc", query[q].uids, query[q].todo, query[q].cur \ {i},
                     [query[q].found EXCEPT ![i] = Reading(query[q].uids[i])]))
<1>1. ASSUME NEW uids \in UidLists, Ask(q, uids)
      PROVE  Become(q, IF Len(uids) > Limit
                       THEN List("bad", uids, {}, {}, NothingFound)
                       ELSE List("next", uids, 1..Len(uids), {}, NothingFound))
  BY <1>1, RequestTypes, ConstantsAssumption DEF Ask
<1>2. ASSUME NEW i \in Positions, ReadStatus(q, i)
      PROVE  Become(q, List("rpc", query[q].uids, query[q].todo, query[q].cur \ {i},
                     [query[q].found EXCEPT ![i] = Reading(query[q].uids[i])]))
  BY <1>2 DEF ReadStatus, Reading
<1> QED
  BY <1>1, <1>2

\* Every step of a list leaves the slots typed.
LEMMA QueryTypes ==
    ASSUME TypeOK, InRange, NEW q \in Queries,
           \/ \E uids \in UidLists : Ask(q, uids)
           \/ \E n \in Nodes : SendRPC(q, n)
           \/ \E i \in Positions : ReadStatus(q, i)
           \/ Receive(q) \/ FailRPC(q) \/ Answer(q)
    PROVE  query' \in [Queries -> ListType]
<1> DEFINE l == query[q]
<1>1. /\ query \in [Queries -> ListType]
      /\ l.uids \in UidLists /\ l.todo \in SUBSET Positions
      /\ l.cur \in SUBSET Positions /\ l.found \in [Positions -> Statuses \union {None}]
  BY ListTypes DEF TypeOK
<1>2. NothingFound \in [Positions -> Statuses \union {None}]
  BY DEF NothingFound
<1>3. ASSUME NEW uids \in UidLists, Ask(q, uids) PROVE query' \in [Queries -> ListType]
  <2>1. Len(uids) \in 0..(Limit + 1) /\ 1..Len(uids) \subseteq Positions
    BY RequestTypes, ConstantsAssumption
  <2>2. List("bad", uids, {}, {}, NothingFound) \in ListType
    BY <1>2, ListIsTyped
  <2>3. List("next", uids, 1..Len(uids), {}, NothingFound) \in ListType
    BY <1>2, <2>1, ListIsTyped
  <2> QED
    BY <1>1, <1>3, <2>2, <2>3, ListSteps, BecomeType
<1>4. ASSUME NEW n \in Nodes, SendRPC(q, n) PROVE query' \in [Queries -> ListType]
  <2> DEFINE group == {i \in l.todo : Home[l.uids[i]] = n}
  <2>1. Become(q, List("rpc", l.uids, l.todo \ group, group, l.found))
    BY <1>4 DEF SendRPC
  <2>2. List("rpc", l.uids, l.todo \ group, group, l.found) \in ListType
    <3>1. group \in SUBSET Positions /\ l.todo \ group \in SUBSET Positions
      BY <1>1
    <3> HIDE DEF group, l
    <3> QED
      BY <1>1, <3>1, ListIsTyped
  <2> QED
    BY <1>1, <2>1, <2>2, BecomeType
<1>5. ASSUME NEW i \in Positions, ReadStatus(q, i) PROVE query' \in [Queries -> ListType]
  <2> DEFINE f == [l.found EXCEPT ![i] = Reading(l.uids[i])]
  <2>1. Become(q, List("rpc", l.uids, l.todo, l.cur \ {i}, f))
    BY <1>5, ListSteps
  <2>2. f \in [Positions -> Statuses \union {None}]
    <3>1. l.found \in [Positions -> Statuses \union {None}]
      BY <1>1
    <3>2. l.uids[i] \in Users
      BY <1>1, <1>5, RequestTypes DEF InRange, ReadStatus
    <3> QED
      BY <3>1, <3>2, ReadingType
  <2>3. List("rpc", l.uids, l.todo, l.cur \ {i}, f) \in ListType
    <3> HIDE DEF f, l
    <3> QED
      BY <1>1, <2>2, ListIsTyped
  <2> QED
    BY <1>1, <2>1, <2>3, BecomeType
<1>6. CASE Receive(q)
  <2>1. List("next", l.uids, l.todo, {}, l.found) \in ListType
    BY <1>1, ListIsTyped
  <2> QED
    BY <1>1, <1>6, <2>1, BecomeType DEF Receive
<1>7. CASE FailRPC(q)
  <2>1. List("bad", l.uids, {}, {}, NothingFound) \in ListType
    BY <1>1, <1>2, ListIsTyped
  <2> QED
    BY <1>1, <1>7, <2>1, BecomeType DEF FailRPC
<1>8. CASE Answer(q)
  <2>1. List("ok", l.uids, {}, {}, l.found) \in ListType
    BY <1>1, ListIsTyped
  <2> QED
    BY <1>1, <1>8, <2>1, BecomeType DEF Answer
<1> QED
  BY <1>3, <1>4, <1>5, <1>6, <1>7, <1>8

\* The steps of list q.
ListStep(q) ==
    \/ \E uids \in UidLists : Ask(q, uids)
    \/ \E n \in Nodes : SendRPC(q, n)
    \/ \E i \in Positions : ReadStatus(q, i)
    \/ Receive(q) \/ FailRPC(q) \/ Answer(q)

\* Init is typed, and the rest of the invariant holds of empty slots.
LEMMA InitInv == Init => IInv
<1> SUFFICES ASSUME Init PROVE IInv
  OBVIOUS
<1>1. Nowhere \in Facts /\ 0 \in 0..StatusTTL /\ StatusTTL \in 0..StatusTTL
  BY ConstantsAssumption
<1>2. List("idle", <<>>, {}, {}, NothingFound) \in ListType
  <2>1. <<>> \in UidLists
    <3>1. <<>> \in [1..0 -> Users]
      BY SMT
    <3>2. 0 \in 0..(Limit + 1)
      BY ConstantsAssumption
    <3> QED
      BY <3>1, <3>2 DEF UidLists
  <2>2. NothingFound \in [Positions -> Statuses \union {None}]
    BY DEF NothingFound
  <2> QED
    BY <2>1, <2>2, ListIsTyped
<1>3. Idle \in Handlers
  BY DEF Idle
<1>4. TypeOK
  BY <1>1, <1>2, <1>3 DEF Init, TypeOK
<1>5. \A q \in Queries : query[q] = List("idle", <<>>, {}, {}, NothingFound)
  BY DEF Init
<1>6. InRange
  BY <1>5 DEF InRange, List
<1>7. Leases /\ HeldStored
  BY DEF Init, Leases, HeldStored
<1>8. Gathering
  BY <1>5 DEF Gathering, List
<1> QED
  BY <1>4, <1>6, <1>7, <1>8 DEF IInv

\* Every step keeps the types.
LEMMA TypeStep == TypeOK /\ InRange /\ [Next]_vars => TypeOK'
<1> SUFFICES ASSUME TypeOK, InRange, [Next]_vars PROVE TypeOK'
  OBVIOUS
<1> USE DEF TypeOK, userVars, histVars
<1>1. CASE UNCHANGED vars
  BY <1>1 DEF vars
<1>2. ASSUME NEW u \in Users, Connect(u) PROVE TypeOK'
  BY <1>2, ConstantsAssumption DEF Connect
<1>3. ASSUME NEW u \in Users, Disconnect(u) PROVE TypeOK'
  BY <1>3, ConstantsAssumption DEF Disconnect
<1>4. ASSUME NEW u \in Users, NEW f \in Facts, Move(u, f) PROVE TypeOK'
  BY <1>4 DEF Move
<1>5. ASSUME held' = StillHeld PROVE held' \in [Queries -> SUBSET Users]
  BY <1>5 DEF StillHeld
<1>6. ASSUME NEW n \in Nodes, NodeLoss(n) PROVE TypeOK'
  <2>1. store' \in [Users -> Stored \union {None}]
    BY <1>6 DEF NodeLoss
  <2> QED
    BY <1>5, <1>6, <2>1 DEF NodeLoss
<1>7. ASSUME NEW n \in Nodes, NodeBack(n) PROVE TypeOK'
  BY <1>7 DEF NodeBack
<1>8. CASE Second
  <2>1. store' \in [Users -> Stored \union {None}]
    BY <1>8, SecondStore
  <2>2. away' \in [Users -> 0..StatusTTL]
    BY <1>8, ConstantsAssumption DEF Second
  <2> QED
    BY <1>5, <1>8, <2>1, <2>2 DEF Second
<1>9. ASSUME NEW u \in Users, setUserAsOnline(u) PROVE TypeOK'
  <2>1. store' \in [Users -> Stored \union {None}]
    BY <1>9, SetExType DEF setUserAsOnline
  <2>2. away' \in [Users -> 0..StatusTTL]
    BY <1>9, ConstantsAssumption DEF setUserAsOnline
  <2>3. setting' \in [Users -> BOOLEAN]
    BY <1>9 DEF setUserAsOnline
  <2>4. UNCHANGED <<conn, fact, keep, up, query, held>>
    BY <1>9 DEF setUserAsOnline
  <2> QED
    BY <2>1, <2>2, <2>3, <2>4
<1>10. ASSUME NEW u \in Users, KeepAliveRoom(u) PROVE TypeOK'
  <2>1. fact[u].inRoom \in BOOLEAN
    BY ConstantsAssumption
  <2> QED
    BY <1>10, <2>1 DEF KeepAliveRoom
<1>11. ASSUME NEW u \in Users, KeepAliveSessions(u) PROVE TypeOK'
  <2>1. fact[u].sessions \in SUBSET Sessions /\ keep[u].inRoom \in BOOLEAN
    BY ConstantsAssumption
  <2> QED
    BY <1>11, <2>1 DEF KeepAliveSessions
<1>12. ASSUME NEW u \in Users, KeepAliveWrite(u) PROVE TypeOK'
  <2>1. keep[u].inRoom \in BOOLEAN /\ keep[u].sessions \in SUBSET Sessions
    OBVIOUS
  <2>2. store' \in [Users -> Stored \union {None}]
    BY <1>12, <2>1, SetExType DEF KeepAliveWrite
  <2>3. away' \in [Users -> 0..StatusTTL]
    BY <1>12, ConstantsAssumption DEF KeepAliveWrite
  <2>4. keep' \in [Users -> Handlers]
    BY <1>12 DEF KeepAliveWrite, Idle
  <2>5. UNCHANGED <<conn, fact, setting, up, query, held>>
    BY <1>12 DEF KeepAliveWrite
  <2> QED
    BY <2>2, <2>3, <2>4, <2>5
<1>13. ASSUME NEW q \in Queries, ListStep(q) PROVE TypeOK'
  <2>1. query' \in [Queries -> ListType]
    BY <1>13, QueryTypes DEF ListStep
  <2>2. held' \in [Queries -> SUBSET Users]
    <3>1. ASSUME NEW uids \in UidLists, Ask(q, uids)
          PROVE  held' = [held EXCEPT ![q] = {u \in Users : store[u] # None}]
      BY <3>1 DEF Ask
    <3>2. held' = held \/ held' = [held EXCEPT ![q] = {u \in Users : store[u] # None}]
      BY <1>13, <3>1 DEF ListStep, SendRPC, ReadStatus, Receive, FailRPC, Answer
    <3> QED
      BY <3>2
  <2>3. UNCHANGED <<conn, fact, setting, keep, store, up, away>>
    BY <1>13 DEF ListStep, Ask, SendRPC, ReadStatus, Receive, FailRPC, Answer
  <2> QED
    BY <2>1, <2>2, <2>3
<1> QED
  BY <1>1, <1>2, <1>3, <1>4, <1>6, <1>7, <1>8, <1>9, <1>10, <1>11, <1>12, <1>13
  DEF Next, ListStep

-----------------------------------------------------------------------------
(* Steps.                                                                   *)

\* A step either takes statuses away, and its users from the held ones, or
\* leaves every status and the lists there, or is a step of one list.
LEMMA StepKinds ==
    ASSUME TypeOK, [Next]_vars
    PROVE  \/ held' = StillHeld /\ query' = query
           \/ /\ \A u \in Users : store[u] # None => store'[u] # None
              /\ held' = held /\ query' = query
           \/ \E q \in Queries : ListStep(q) /\ store' = store
<1> USE DEF userVars, histVars
<1> DEFINE Kept == /\ \A u \in Users : store[u] # None => store'[u] # None
                   /\ held' = held /\ query' = query
<1>1. CASE UNCHANGED vars
  BY <1>1 DEF vars
<1>2. ASSUME NEW u \in Users, Connect(u) \/ Disconnect(u) \/ KeepAliveRoom(u)
                              \/ KeepAliveSessions(u)
      PROVE  Kept
  BY <1>2 DEF Connect, Disconnect, KeepAliveRoom, KeepAliveSessions
<1>3. ASSUME NEW u \in Users, NEW f \in Facts, Move(u, f) PROVE Kept
  BY <1>3 DEF Move
<1>4. ASSUME NEW n \in Nodes, NodeLoss(n) PROVE held' = StillHeld /\ query' = query
  BY <1>4 DEF NodeLoss
<1>5. ASSUME NEW n \in Nodes, NodeBack(n) PROVE Kept
  BY <1>5 DEF NodeBack
<1>6. CASE Second
  BY <1>6 DEF Second
<1>7. ASSUME NEW u \in Users, setUserAsOnline(u) PROVE Kept
  BY <1>7, SetExType DEF setUserAsOnline
<1>8. ASSUME NEW u \in Users, KeepAliveWrite(u) PROVE Kept
  <2>1. keep[u].inRoom \in BOOLEAN /\ keep[u].sessions \in SUBSET Sessions
    BY DEF TypeOK
  <2> QED
    BY <1>8, <2>1, SetExType DEF KeepAliveWrite
<1>9. ASSUME NEW q \in Queries, ListStep(q) PROVE store' = store
  BY <1>9 DEF ListStep, Ask, SendRPC, ReadStatus, Receive, FailRPC, Answer
<1> QED
  BY <1>1, <1>2, <1>3, <1>4, <1>5, <1>6, <1>7, <1>8, <1>9 DEF Next, ListStep

\* A user a list counts on keeps its status: Second and Clear, which take statuses
\* away, take their users from held too.
LEMMA HeldStep == TypeOK /\ HeldStored /\ [Next]_vars => HeldStored'
<1> SUFFICES ASSUME TypeOK, HeldStored, [Next]_vars PROVE HeldStored'
  OBVIOUS
<1>1. CASE held' = StillHeld
  BY <1>1 DEF StillHeld, HeldStored
<1>2. CASE held' = held /\ \A u \in Users : store[u] # None => store'[u] # None
  BY <1>2 DEF HeldStored, TypeOK
<1>3. ASSUME NEW q \in Queries, ListStep(q), store' = store PROVE HeldStored'
  <2>1. ASSUME NEW uids \in UidLists, Ask(q, uids)
        PROVE  held' = [held EXCEPT ![q] = {u \in Users : store[u] # None}]
    BY <2>1 DEF Ask
  <2>2. held' = held \/ held' = [held EXCEPT ![q] = {u \in Users : store[u] # None}]
    BY <1>3, <2>1
    DEF ListStep, SendRPC, ReadStatus, Receive, FailRPC, Answer, histVars
  <2>3. ASSUME NEW p \in Queries, NEW u \in held'[p] PROVE store[u] # None
    <3>1. held \in [Queries -> SUBSET Users]
      BY DEF TypeOK
    <3>2. CASE held' = held
      BY <2>3, <3>2 DEF HeldStored
    <3>3. CASE held' = [held EXCEPT ![q] = {v \in Users : store[v] # None}]
      <4>1. p = q => held'[p] = {v \in Users : store[v] # None}
        BY <3>1, <3>3
      <4>2. p # q => held'[p] = held[p]
        BY <3>1, <3>3
      <4> QED
        BY <2>3, <4>1, <4>2 DEF HeldStored
    <3> QED
      BY <2>2, <3>2, <3>3
  <2> QED
    BY <1>3, <2>3 DEF HeldStored
<1> QED
  BY <1>1, <1>2, <1>3, StepKinds

\* No step lengthens the lease of a user that is away beyond userStatusTTL, and
\* every second spent away shortens it by one.
LEMMA LeasesStep == TypeOK /\ Leases /\ [Next]_vars => Leases'
<1> SUFFICES ASSUME TypeOK, Leases, [Next]_vars, NEW u \in Users, store'[u] # None
             PROVE  away'[u] + store'[u].left <= StatusTTL
  BY DEF Leases
<1> USE DEF userVars, histVars
<1>1. /\ away[u] \in 0..StatusTTL
      /\ store[u] # None => store[u].left \in 1..StatusTTL
      /\ StatusTTL \in Nat
  BY ConstantsAssumption DEF TypeOK
<1>2. store[u] # None => away[u] + store[u].left <= StatusTTL
  BY DEF Leases
<1>3. CASE UNCHANGED <<store, away>>
  BY <1>2, <1>3
<1>4. ASSUME NEW v \in Users, Connect(v)
      PROVE  store' = store /\ (away'[u] = away[u] \/ away'[u] = 0)
  BY <1>4 DEF Connect, TypeOK
<1>5. ASSUME NEW n \in Nodes, NodeLoss(n)
      PROVE  store'[u] = store[u] /\ away' = away
  BY <1>5 DEF NodeLoss
<1>6. CASE Second
  <2>1. store[u] # None /\ store'[u].left = store[u].left - 1
    BY <1>6, SecondStore
  <2>2. away'[u] = away[u] \/ away'[u] = away[u] + 1
    BY <1>6 DEF Second
  <2> QED
    BY <1>1, <1>2, <2>1, <2>2
<1>7. ASSUME NEW v \in Users, NEW b \in BOOLEAN, NEW s \in SUBSET Sessions,
             SetEx(v, b, s), away' = [away EXCEPT ![v] = 0]
      PROVE  away'[u] + store'[u].left <= StatusTTL
  <2>1. CASE u # v
    <3>1. store'[u] = store[u]
      BY <1>7, <2>1, SetExType
    <3>2. away'[u] = away[u]
      BY <1>7, <2>1 DEF TypeOK
    <3> QED
      BY <1>2, <3>1, <3>2
  <2>2. CASE u = v
    <3>1. store'[u] = store[u] \/ store'[u].left = StatusTTL
      BY <1>7, <2>2, SetExType
    <3>2. away'[u] = 0
      BY <1>7, <2>2 DEF TypeOK
    <3> QED
      BY <1>1, <3>1, <3>2
  <2> QED
    BY <2>1, <2>2
<1>8. ASSUME NEW v \in Users, setUserAsOnline(v)
      PROVE  away'[u] + store'[u].left <= StatusTTL
  BY <1>7, <1>8 DEF setUserAsOnline
<1>9. ASSUME NEW v \in Users, KeepAliveWrite(v)
      PROVE  away'[u] + store'[u].left <= StatusTTL
  <2>1. keep[v].inRoom \in BOOLEAN /\ keep[v].sessions \in SUBSET Sessions
    BY DEF TypeOK
  <2> QED
    BY <1>7, <1>9, <2>1 DEF KeepAliveWrite
<1>10. ASSUME NEW q \in Queries, ListStep(q) PROVE UNCHANGED <<store, away>>
  BY <1>10 DEF ListStep, Ask, SendRPC, ReadStatus, Receive, FailRPC, Answer
<1>11. ASSUME NEW v \in Users, Disconnect(v) \/ KeepAliveRoom(v) \/ KeepAliveSessions(v)
       PROVE  UNCHANGED <<store, away>>
  BY <1>11 DEF Disconnect, KeepAliveRoom, KeepAliveSessions
<1>12. ASSUME NEW v \in Users, NEW f \in Facts, Move(v, f) PROVE UNCHANGED <<store, away>>
  BY <1>12 DEF Move
<1>13. ASSUME NEW n \in Nodes, NodeBack(n) PROVE UNCHANGED <<store, away>>
  BY <1>13 DEF NodeBack
<1>14. CASE UNCHANGED vars
  BY <1>3, <1>14 DEF vars
<1>15. CASE \E v \in Users : Connect(v)
  <2>1. store' = store /\ (away'[u] = away[u] \/ away'[u] = 0)
    BY <1>4, <1>15
  <2> QED
    BY <1>1, <1>2, <2>1
<1>16. CASE \E n \in Nodes : NodeLoss(n)
  <2>1. store'[u] = store[u] /\ away' = away
    BY <1>5, <1>16
  <2> QED
    BY <1>2, <2>1
<1> QED
  BY <1>3, <1>6, <1>8, <1>9, <1>10, <1>11, <1>12, <1>13, <1>14, <1>15, <1>16
  DEF Next, ListStep

\* The list a step of q leaves in its slot, and that the other slots are left
\* alone; held changes at Ask only.
LEMMA ListFrame ==
    ASSUME TypeOK, InRange, NEW q \in Queries, ListStep(q)
    PROVE  /\ \A p \in Queries : p # q => query'[p] = query[p] /\ held'[p] = held[p]
           /\ \/ \E uids \in UidLists : Ask(q, uids)
              \/ held' = held
<1> USE DEF histVars
<1>1. ASSUME NEW uids \in UidLists, Ask(q, uids)
      PROVE  \A p \in Queries : p # q => query'[p] = query[p] /\ held'[p] = held[p]
  BY <1>1, ListSteps DEF Become, TypeOK, Ask
<1>2. ASSUME \/ \E n \in Nodes : SendRPC(q, n)
             \/ \E i \in Positions : ReadStatus(q, i)
             \/ Receive(q) \/ FailRPC(q) \/ Answer(q)
      PROVE  /\ \A p \in Queries : p # q => query'[p] = query[p]
             /\ held' = held
  BY <1>2 DEF SendRPC, ReadStatus, Receive, FailRPC, Answer, Become, TypeOK
<1> QED
  BY <1>1, <1>2 DEF ListStep

\* What the invariant says of one list.
ListInv(q) ==
    /\ query[q].todo \union query[q].cur \subseteq 1..Len(query[q].uids)
    /\ query[q].stage \in {"next", "rpc", "ok"} => Covered(q)
    /\ query[q].stage # "rpc" => query[q].cur = {}
    /\ query[q].stage = "ok" => query[q].todo = {}

\* The two parts of the invariant about lists, slot by slot.
LEMMA ListInvSplit ==
    /\ InRange /\ Gathering <=> \A q \in Queries : ListInv(q)
    /\ (InRange /\ Gathering)' <=> \A q \in Queries : ListInv(q)'
BY DEF InRange, Gathering, ListInv

\* A step of q keeps what the invariant says of q.
LEMMA OwnListStep ==
    ASSUME TypeOK, HeldStored, InRange, Gathering, NEW q \in Queries, ListStep(q)
    PROVE  ListInv(q)'
<1> DEFINE l == query[q]
<1> USE DEF List, histVars
<1>1. /\ query \in [Queries -> ListType]
      /\ l.uids \in UidLists /\ l.todo \in SUBSET Positions
      /\ l.cur \in SUBSET Positions /\ l.found \in [Positions -> Statuses \union {None}]
      /\ ListInv(q)
  BY ListTypes, ListInvSplit DEF TypeOK
<1>2. ASSUME NEW m, Become(q, m) PROVE query'[q] = m
  BY <1>1, <1>2 DEF Become
<1>3. ASSUME NEW uids \in UidLists, Ask(q, uids) PROVE ListInv(q)'
  <2>1. Len(uids) \in Nat
    BY RequestTypes, ConstantsAssumption
  <2>2. CASE Len(uids) > Limit
    <3>1. query'[q] = List("bad", uids, {}, {}, NothingFound)
      BY <1>2, <1>3, <2>2, ListSteps
    <3> QED
      BY <3>1 DEF ListInv
  <2>3. CASE ~(Len(uids) > Limit)
    <3>1. query'[q] = List("next", uids, 1..Len(uids), {}, NothingFound)
      BY <1>2, <1>3, <2>3, ListSteps
    <3> QED
      BY <3>1 DEF ListInv, Covered
  <2> QED
    BY <2>2, <2>3
<1>4. ASSUME NEW n \in Nodes, SendRPC(q, n) PROVE ListInv(q)'
  <2> DEFINE group == {i \in l.todo : Home[l.uids[i]] = n}
  <2>1. query'[q] = List("rpc", l.uids, l.todo \ group, group, l.found)
    BY <1>2, <1>4 DEF SendRPC
  <2>2. held' = held /\ l.stage = "next"
    BY <1>4 DEF SendRPC
  <2>3. l.cur = {} /\ Covered(q)
    BY <1>1, <2>2 DEF ListInv
  <2> QED
    BY <1>1, <2>1, <2>2, <2>3 DEF ListInv, Covered
<1>5. ASSUME NEW i \in Positions, ReadStatus(q, i) PROVE ListInv(q)'
  <2> DEFINE f == [l.found EXCEPT ![i] = Reading(l.uids[i])]
  <2>1. query'[q] = List("rpc", l.uids, l.todo, l.cur \ {i}, f)
    BY <1>2, <1>5, ListSteps
  <2>2. held' = held /\ l.stage = "rpc" /\ i \in l.cur
    BY <1>5 DEF ReadStatus
  <2>3. i \in 1..Len(l.uids) /\ l.uids[i] \in Users
    BY <1>1, <2>2, RequestTypes DEF ListInv
  <2>4. l.uids[i] \in held[q] => f[i] # None
    <3>1. f[i] = Reading(l.uids[i])
      BY <1>1
    <3> QED
      BY <3>1, <2>3, ReadingType DEF HeldStored
  <2>5. \A j \in Positions : j # i => f[j] = l.found[j]
    BY <1>1
  <2>6. 1..Len(l.uids) \subseteq Positions
    BY <1>1, RequestTypes, ConstantsAssumption
  <2>7. Covered(q)
    BY <1>1, <2>2 DEF ListInv
  <2> HIDE DEF f
  <2>8. ASSUME NEW j \in 1..Len(l.uids), l.uids[j] \in held[q]
        PROVE  j \in l.todo \/ j \in l.cur \ {i} \/ f[j] # None
    BY <2>4, <2>5, <2>6, <2>7, <2>8 DEF Covered
  <2>9. Covered(q)'
    BY <2>1, <2>2, <2>8 DEF Covered
  <2> QED
    BY <1>1, <2>1, <2>9 DEF ListInv
<1>6. CASE Receive(q)
  <2>1. query'[q] = List("next", l.uids, l.todo, {}, l.found)
    BY <1>2, <1>6 DEF Receive
  <2>2. held' = held /\ l.stage = "rpc" /\ l.cur = {}
    BY <1>6 DEF Receive
  <2> QED
    BY <1>1, <2>1, <2>2 DEF ListInv, Covered
<1>7. CASE FailRPC(q)
  <2>1. query'[q] = List("bad", l.uids, {}, {}, NothingFound)
    BY <1>2, <1>7 DEF FailRPC
  <2> QED
    BY <2>1 DEF ListInv
<1>8. CASE Answer(q)
  <2>1. query'[q] = List("ok", l.uids, {}, {}, l.found)
    BY <1>2, <1>8 DEF Answer
  <2>2. held' = held /\ l.stage = "next" /\ l.todo = {}
    BY <1>8 DEF Answer
  <2>3. l.cur = {}
    BY <1>1, <2>2 DEF ListInv
  <2> QED
    BY <1>1, <2>1, <2>2, <2>3 DEF ListInv, Covered
<1> QED
  BY <1>3, <1>4, <1>5, <1>6, <1>7, <1>8 DEF ListStep

\* The lists stay covered, whatever step is taken.
LEMMA GatheringStep ==
    IInv /\ [Next]_vars => (InRange /\ Gathering)'
<1> SUFFICES ASSUME IInv, [Next]_vars, NEW p \in Queries PROVE ListInv(p)'
  BY ListInvSplit
<1>1. TypeOK /\ HeldStored /\ InRange /\ Gathering /\ ListInv(p)
  BY ListInvSplit DEF IInv
<1>2. CASE query' = query /\ held'[p] \subseteq held[p]
  BY <1>1, <1>2 DEF ListInv, Covered
<1>3. CASE held' = StillHeld /\ query' = query
  BY <1>2, <1>3 DEF StillHeld
<1>4. ASSUME NEW q \in Queries, ListStep(q) PROVE ListInv(p)'
  <2>1. CASE p = q
    BY <1>1, <1>4, <2>1, OwnListStep
  <2>2. CASE p # q
    <3>1. query'[p] = query[p] /\ held'[p] = held[p]
      BY <1>1, <1>4, <2>2, ListFrame
    <3> QED
      BY <1>1, <3>1 DEF ListInv, Covered
  <2> QED
    BY <2>1, <2>2
<1> QED
  BY <1>1, <1>2, <1>3, <1>4, StepKinds

-----------------------------------------------------------------------------
(* Theorems.                                                                *)

\* The inductive invariant holds in every reachable state.
THEOREM Invariance == Spec => []IInv
<1>1. Init => IInv
  BY InitInv
<1>2. IInv /\ [Next]_vars => IInv'
  BY TypeStep, HeldStep, LeasesStep, GatheringStep DEF IInv
<1> QED
  BY <1>1, <1>2, PTL DEF Spec

\* Every variable keeps its type.
THEOREM TypeCorrect == Spec => []TypeOK
<1>1. IInv => TypeOK
  BY DEF IInv
<1> QED
  BY <1>1, Invariance, PTL

\* A status outlives its user by less than userStatusTTL seconds.
THEOREM StatusesExpire == Spec => []OfflineExpires
<1>1. IInv => OfflineExpires
  <2> SUFFICES ASSUME IInv, NEW u \in Users, store[u] # None PROVE away[u] < StatusTTL
    BY DEF OfflineExpires
  <2>1. away[u] \in 0..StatusTTL /\ store[u].left \in 1..StatusTTL /\ StatusTTL \in Nat
    BY ConstantsAssumption DEF IInv, TypeOK
  <2>2. away[u] + store[u].left <= StatusTTL
    BY DEF IInv, Leases
  <2> QED
    BY <2>1, <2>2
<1> QED
  BY <1>1, Invariance, PTL

\* A list that is answered Ok names every user whose status was there all along.
THEOREM ListsAreComplete == Spec => []ListComplete
<1>1. IInv => ListComplete
  BY DEF IInv, Gathering, Covered, ListComplete
<1> QED
  BY <1>1, Invariance, PTL
-----------------------------------------------------------------------------
(* The handlers implement StatusBoard: every step of theirs is a step of the *)
(* board or of one list on it, or leaves both as they are.                   *)

\* Nobody that is there, or being handled, is counted away; and a node is sent no
\* position that is still to be sent.
Attended == \A u \in Users : ~Gone(u) => away[u] = 0
Apart == \A q \in Queries : query[q].todo \intersect query[q].cur = {}

\* The state of the board.
Here == {u \in Users : ~Gone(u)}
Shown == [u \in Users |-> SeenStatus(store[u])]
Lists == [q \in Queries |-> SeenList(query[q])]
OnBoard == <<Here, Shown, away>>

\* Who is there, and what is shown, depends on nothing else.
LEMMA BoardFrame ==
    /\ UNCHANGED <<conn, setting, keep>> => Here' = Here
    /\ UNCHANGED store => Shown' = Shown
    /\ UNCHANGED query => Lists' = Lists
  BY DEF Here, Gone, Shown, Lists

\* What SetEx writes shows, when the node is up.
LEMMA SetExShows ==
    ASSUME TypeOK, NEW u \in Users, NEW b \in BOOLEAN, NEW s \in SUBSET Sessions,
           SetEx(u, b, s)
    PROVE  \/ Shown' = Shown
           \/ \E t \in Statuses : Shown' = [Shown EXCEPT ![u] = t]
<1> DEFINE e == [inRoom |-> b, sessions |-> s, left |-> StatusTTL]
           t == [inRoom |-> b, sessions |-> s]
<1>1. CASE store' = store
  BY <1>1, BoardFrame
<1>2. CASE store' = [store EXCEPT ![u] = e]
  <2>1. e \in Stored /\ t \in Statuses
    BY ConstantsAssumption
  <2>2. e # None /\ store \in [Users -> Stored \union {None}]
    BY <2>1, NoneAssumption DEF TypeOK
  <2>3. store'[u] = e /\ \A v \in Users \ {u} : store'[v] = store[v]
    BY <1>2, <2>2
  <2>4. SeenStatus(store'[u]) = t
    BY <2>2, <2>3 DEF SeenStatus
  <2>5. Shown' = [v \in Users |-> SeenStatus(store'[v])]
    BY DEF Shown
  <2>6. Shown' = [Shown EXCEPT ![u] = t]
    BY <2>3, <2>4, <2>5 DEF Shown
  <2> QED
    BY <2>1, <2>6
<1> QED
  BY <1>1, <1>2 DEF SetEx

\* The steps that leave the lists alone, as steps of the board.
LEMMA UserSteps ==
    ASSUME TypeOK, Attended, NEW u \in Users,
           \/ Connect(u) \/ Disconnect(u) \/ setUserAsOnline(u) \/ KeepAliveRoom(u)
           \/ KeepAliveSessions(u) \/ KeepAliveWrite(u)
           \/ \E f \in Facts : Move(u, f)
    PROVE  /\ Lists' = Lists
           /\ \/ OnBoard' = OnBoard
              \/ Board!Come(u) \/ Board!Go(u)
              \/ \E s \in Statuses : Board!PutUp(u, s)
           /\ Attended'
<1> USE DEF TypeOK, userVars, histVars
<1>1. Lists' = Lists
  BY BoardFrame
     DEF Connect, Disconnect, setUserAsOnline, KeepAliveRoom, KeepAliveSessions,
         KeepAliveWrite, Move
<1>2. CASE Connect(u)
  <2>1. Here' = Here \union {u} /\ Shown' = Shown
    BY <1>2, BoardFrame DEF Connect, Here, Gone
  <2>2. away' = [away EXCEPT ![u] = 0]
    BY <1>2 DEF Connect
  <2>3. Attended'
    BY <2>1, <2>2 DEF Attended, Here
  <2>4. CASE u \in Here
    <3>1. Here' = Here /\ away' = away
      BY <2>1, <2>2, <2>4 DEF Attended, Here
    <3> QED
      BY <1>1, <2>1, <2>3, <3>1 DEF OnBoard
  <2>5. CASE u \notin Here
    <3>1. Board!Come(u)
      BY <2>1, <2>2, <2>5 DEF Board!Come, Here, Shown
    <3> QED
      BY <1>1, <2>3, <3>1
  <2> QED
    BY <1>1, <2>3, <2>4, <2>5
<1>3. CASE Disconnect(u)
  <2>1. u \in Here /\ Here' \in {Here, Here \ {u}} /\ Shown' = Shown /\ away' = away
    BY <1>3, BoardFrame DEF Disconnect, Here, Gone
  <2>2. Attended'
    BY <2>1 DEF Attended, Here
  <2>3. OnBoard' = OnBoard \/ Board!Go(u)
    BY <2>1 DEF OnBoard, Board!Go, Here, Shown
  <2> QED
    BY <1>1, <2>2, <2>3
<1>4. ASSUME NEW b \in BOOLEAN, NEW s \in SUBSET Sessions, SetEx(u, b, s),
             away' = [away EXCEPT ![u] = 0], u \in Here, Here' \in {Here, Here \ {u}}
      PROVE  /\ \/ OnBoard' = OnBoard \/ Board!Go(u)
                \/ \E t \in Statuses : Board!PutUp(u, t)
             /\ Attended'
  <2>1. away' = away
    BY <1>4 DEF Attended, Here
  <2>2. Attended'
    BY <1>4, <2>1 DEF Attended, Here
  <2>3. CASE Shown' = Shown
    BY <1>4, <2>1, <2>2, <2>3 DEF OnBoard, Board!Go, Here, Shown
  <2>4. ASSUME NEW t \in Statuses, Shown' = [Shown EXCEPT ![u] = t]
        PROVE  Board!PutUp(u, t)
    BY <1>4, <2>1, <2>4 DEF Board!PutUp, Here, Shown
  <2> QED
    BY <1>4, <2>2, <2>3, <2>4, SetExShows
<1>5. CASE setUserAsOnline(u)
  <2>1. u \in Here /\ Here' \in {Here, Here \ {u}}
    BY <1>5 DEF setUserAsOnline, Here, Gone
  <2> QED
    BY <1>1, <1>4, <1>5, <2>1 DEF setUserAsOnline
<1>6. CASE KeepAliveWrite(u)
  <2>1. u \in Here /\ Here' \in {Here, Here \ {u}}
    BY <1>6 DEF KeepAliveWrite, Here, Gone, Idle
  <2>2. keep[u].inRoom \in BOOLEAN /\ keep[u].sessions \in SUBSET Sessions
    OBVIOUS
  <2> QED
    BY <1>1, <1>4, <1>6, <2>1, <2>2 DEF KeepAliveWrite
<1>7. ASSUME \/ KeepAliveRoom(u) \/ KeepAliveSessions(u) \/ \E f \in Facts : Move(u, f)
      PROVE  Attended' /\ OnBoard' = OnBoard
  <2>1. Here' = Here
    <3>1. CASE KeepAliveRoom(u)
      BY <3>1 DEF KeepAliveRoom, Here, Gone
    <3>2. CASE KeepAliveSessions(u)
      BY <3>2 DEF KeepAliveSessions, Here, Gone
    <3>3. CASE \E f \in Facts : Move(u, f)
      BY <3>3, BoardFrame DEF Move
    <3> QED
      BY <1>7, <3>1, <3>2, <3>3
  <2>2. Shown' = Shown /\ away' = away
    BY <1>7, BoardFrame DEF KeepAliveRoom, KeepAliveSessions, Move
  <2> QED
    BY <2>1, <2>2 DEF Attended, OnBoard, Here
<1> QED
  BY <1>1, <1>2, <1>3, <1>5, <1>6, <1>7

\* A second, and what happens to the nodes.
LEMMA WorldSteps ==
    ASSUME TypeOK, Leases', Attended,
           Second \/ \E n \in Nodes : NodeLoss(n) \/ NodeBack(n)
    PROVE  /\ Lists' = Lists
           /\ \/ OnBoard' = OnBoard
              \/ \E lost \in SUBSET Users : Board!Lose(lost) \/ Board!Second(lost)
           /\ Attended'
<1> USE DEF userVars, histVars
<1>1. Lists' = Lists /\ Here' = Here
  BY BoardFrame DEF Second, NodeLoss, NodeBack
<1>2. ASSUME NEW lost \in SUBSET Users, store' \in [Users -> Stored \union {None}],
             \A u \in Users : u \in lost <=> store'[u] = None,
             \A u \in Users \ lost : SeenStatus(store'[u]) = SeenStatus(store[u])
      PROVE  Shown' = Board!Without(lost)
  <2>1. Shown' = [u \in Users |-> SeenStatus(store'[u])]
    BY DEF Shown
  <2>2. \A u \in Users : SeenStatus(store'[u]) = IF u \in lost THEN None ELSE Shown[u]
    BY <1>2 DEF SeenStatus, Shown
  <2> QED
    BY <2>1, <2>2 DEF Board!Without, Shown
<1> DEFINE lost == {u \in Users : store'[u] = None}
<1>3. CASE Second
  <2>1. store' \in [Users -> Stored \union {None}]
    BY <1>3, SecondStore
  <2>2. ASSUME NEW u \in Users \ lost PROVE SeenStatus(store'[u]) = SeenStatus(store[u])
    <3>1. store[u] # None /\ store[u] \in Stored
      BY <1>3, SecondStore DEF TypeOK
    <3>2. store'[u] = [store[u] EXCEPT !.left = @ - 1]
      BY <1>3 DEF Second
    <3>3. store'[u].inRoom = store[u].inRoom /\ store'[u].sessions = store[u].sessions
      BY <3>1, <3>2
    <3> QED
      BY <3>1, <3>3 DEF SeenStatus
  <2>3. Shown' = Board!Without(lost)
    BY <1>2, <2>1, <2>2
  <2>4. away' = [u \in Users |-> IF u \notin Here /\ away[u] < StatusTTL
                                THEN away[u] + 1 ELSE away[u]]
    BY <1>3 DEF Second, Here
  <2>5. ASSUME NEW u \in Users, away'[u] >= StatusTTL PROVE Shown'[u] = None
    <3>1. CASE store'[u] # None
      <4>1. away'[u] \in 0..StatusTTL /\ StatusTTL \in Nat
        BY <1>3, ConstantsAssumption DEF TypeOK, Second
      <4>2. store'[u].left \in 1..StatusTTL
        BY <2>1, <3>1
      <4>3. away'[u] + store'[u].left <= StatusTTL
        BY <3>1 DEF Leases
      <4> QED
        BY <2>5, <4>1, <4>2, <4>3
    <3>2. CASE store'[u] = None
      BY <3>2 DEF Shown, SeenStatus
    <3> QED
      BY <3>1, <3>2
  <2>6. Board!Second(lost)
    BY <1>1, <2>3, <2>4, <2>5 DEF Board!Second, Here, Shown
  <2>7. Attended'
    BY <1>1, <2>4 DEF Attended, Here
  <2> QED
    BY <1>1, <2>6, <2>7
<1>4. ASSUME NEW n \in Nodes, NodeLoss(n)
      PROVE  Board!Lose(lost) /\ Attended'
  <2>1. /\ store' \in [Users -> Stored \union {None}] /\ away' = away
        /\ \A u \in Users \ lost : store'[u] = store[u]
    BY <1>4 DEF NodeLoss, TypeOK
  <2>2. Shown' = Board!Without(lost)
    BY <1>2, <2>1
  <2> QED
    BY <1>1, <2>1, <2>2 DEF Board!Lose, Here, Shown, Attended
<1>5. ASSUME NEW n \in Nodes, NodeBack(n) PROVE OnBoard' = OnBoard /\ Attended'
  BY <1>1, <1>5, BoardFrame DEF NodeBack, OnBoard, Attended, Here
<1> QED
  BY <1>1, <1>3, <1>4, <1>5

\* The steps of a list, as steps of the list on the board.
LEMMA BoardLists ==
    ASSUME IInv, Apart, NEW q \in Queries, ListStep(q)
    PROVE  /\ OnBoard' = OnBoard
           /\ Lists' = Lists \/ Board!ListStep(q)
           /\ Apart'
<1> DEFINE l == query[q]
           Now(at, unread, found) == Board!List(at, l.uids, unread, found)
<1> USE DEF List, histVars
<1>1. /\ query \in [Queries -> ListType] /\ TypeOK /\ InRange
      /\ l.uids \in UidLists /\ l.todo \in SUBSET Positions
      /\ l.cur \in SUBSET Positions /\ l.found \in [Positions -> Statuses \union {None}]
      /\ l.todo \intersect l.cur = {} /\ ListInv(q)
  BY ListTypes, ListInvSplit DEF IInv, TypeOK, Apart
<1>2. OnBoard' = OnBoard
  <2>1. UNCHANGED <<conn, setting, keep, store, away>>
    BY DEF ListStep, Ask, SendRPC, ReadStatus, Receive, FailRPC, Answer, userVars
  <2> QED
    BY <2>1, BoardFrame DEF OnBoard
<1>3. ASSUME NEW m, Become(q, m), m.todo \intersect m.cur = {}
      PROVE  /\ query'[q] = m /\ Apart'
             /\ Lists' = [Lists EXCEPT ![q] = SeenList(m)]
  <2>1. query'[q] = m /\ \A p \in Queries \ {q} : query'[p] = query[p]
    BY <1>1, <1>3 DEF Become
  <2>2. Lists' = [p \in Queries |-> SeenList(query'[p])]
    BY DEF Lists
  <2> QED
    BY <1>3, <2>1, <2>2 DEF Lists, Apart
<1>4. Lists[q] = SeenList(l)
  BY DEF Lists
<1>5. Board!Positions = Positions /\ Board!Blank = NothingFound
  BY DEF Board!Positions, Board!Blank, NothingFound
<1>6. ASSUME NEW uids \in UidLists, Ask(q, uids)
      PROVE  Apart' /\ Board!Ask(q, uids)
  <2> DEFINE m == IF Len(uids) > Limit THEN List("bad", uids, {}, {}, NothingFound)
                  ELSE List("next", uids, 1..Len(uids), {}, NothingFound)
  <2>1. Become(q, m) /\ m.todo \intersect m.cur = {}
    BY <1>1, <1>6, ListSteps
  <2>2. Apart' /\ Lists' = [Lists EXCEPT ![q] = SeenList(m)]
    BY <1>3, <2>1
  <2>3. SeenList(m) = IF Len(uids) > Limit THEN Board!List("bad", uids, {}, Board!Blank)
                      ELSE Board!List("open", uids, 1..Len(uids), Board!Blank)
    BY <1>5 DEF SeenList, Seen, Board!List
  <2>4. Lists[q].at # "open"
    BY <1>4, <1>6 DEF Ask, Free, SeenList, Seen
  <2> HIDE DEF m
  <2>5. Board!Ask(q, uids)
    BY <2>2, <2>3, <2>4 DEF Board!Ask, Board!Become, Lists
  <2> QED
    BY <2>2, <2>5
<1>7. ASSUME NEW n \in Nodes, SendRPC(q, n) PROVE Apart' /\ Lists' = Lists
  <2> DEFINE group == {i \in l.todo : Home[l.uids[i]] = n}
             m == List("rpc", l.uids, l.todo \ group, group, l.found)
  <2>1. Become(q, m) /\ m.todo \intersect m.cur = {}
    BY <1>7 DEF SendRPC
  <2>2. Apart' /\ Lists' = [Lists EXCEPT ![q] = SeenList(m)]
    BY <1>3, <2>1
  <2>3. l.cur = {} /\ l.stage = "next"
    BY <1>1, <1>7 DEF SendRPC, ListInv
  <2>4. (l.todo \ group) \union group = l.todo \union l.cur
    BY <2>3
  <2>5. SeenList(m) = SeenList(l)
    BY <2>3, <2>4 DEF SeenList, Seen
  <2> QED
    BY <1>4, <2>2, <2>5 DEF Lists
<1>8. ASSUME NEW i \in Positions, ReadStatus(q, i)
      PROVE  Apart' /\ Board!LookUp(q, i)
  <2> DEFINE f == [l.found EXCEPT ![i] = Reading(l.uids[i])]
             m == List("rpc", l.uids, l.todo, l.cur \ {i}, f)
  <2>1. l.stage = "rpc" /\ i \in l.cur
    BY <1>8 DEF ReadStatus
  <2>2. Become(q, m) /\ m.todo \intersect m.cur = {}
    BY <1>1, <1>8, ListSteps
  <2>3. Apart' /\ Lists' = [Lists EXCEPT ![q] = SeenList(m)]
    BY <1>3, <2>2
  <2>4. l.uids[i] \in Users
    BY <1>1, <2>1, RequestTypes DEF ListInv
  <2>5. Reading(l.uids[i]) = Shown[l.uids[i]]
    BY <2>4 DEF Reading, Shown, SeenStatus
  <2>6. l.todo \union (l.cur \ {i}) = (l.todo \union l.cur) \ {i}
    BY <1>1, <2>1
  <2>7. /\ Lists[q].at = "open" /\ Lists[q].unread = l.todo \union l.cur
        /\ Lists[q].uids = l.uids /\ Lists[q].found = l.found
    BY <1>4, <2>1 DEF SeenList, Seen
  <2>8. SeenList(m) = Board!List("open", Lists[q].uids, Lists[q].unread \ {i},
                         [Lists[q].found EXCEPT ![i] = Shown[Lists[q].uids[i]]])
    BY <2>5, <2>6, <2>7 DEF SeenList, Seen, Board!List
  <2> HIDE DEF m
  <2>9. i \in Lists[q].unread
    BY <2>1, <2>7
  <2>10. Board!LookUp(q, i)
    BY <2>3, <2>7, <2>8, <2>9 DEF Board!LookUp, Board!Become, Lists, Shown
  <2> QED
    BY <2>3, <2>10
<1>9. ASSUME Receive(q) PROVE Apart' /\ Lists' = Lists
  <2> DEFINE m == List("next", l.uids, l.todo, {}, l.found)
  <2>1. Become(q, m) /\ l.stage = "rpc" /\ l.cur = {} /\ m.todo \intersect m.cur = {}
    BY <1>9 DEF Receive
  <2>2. Apart' /\ Lists' = [Lists EXCEPT ![q] = SeenList(m)]
    BY <1>3, <2>1
  <2>3. SeenList(m) = SeenList(l)
    BY <2>1 DEF SeenList, Seen
  <2> QED
    BY <1>4, <2>2, <2>3 DEF Lists
<1>10. ASSUME FailRPC(q) PROVE Apart' /\ Board!Fail(q)
  <2> DEFINE m == List("bad", l.uids, {}, {}, NothingFound)
  <2>1. Become(q, m) /\ l.stage \in {"next", "rpc"} /\ m.todo \intersect m.cur = {}
    BY <1>10 DEF FailRPC
  <2>2. Apart' /\ Lists' = [Lists EXCEPT ![q] = SeenList(m)]
    BY <1>3, <2>1
  <2>3. Lists[q].at = "open" /\ Lists[q].uids = l.uids
    BY <1>4, <2>1 DEF SeenList, Seen
  <2>4. SeenList(m) = Board!List("bad", Lists[q].uids, {}, Board!Blank)
    BY <1>5, <2>3 DEF SeenList, Seen, Board!List
  <2> HIDE DEF m
  <2>5. Board!Fail(q)
    BY <2>2, <2>3, <2>4 DEF Board!Fail, Board!Become, Lists
  <2> QED
    BY <2>2, <2>5
<1>11. ASSUME Answer(q) PROVE Apart' /\ Board!Answer(q)
  <2> DEFINE m == List("ok", l.uids, {}, {}, l.found)
  <2>1. Become(q, m) /\ l.stage = "next" /\ l.todo = {} /\ m.todo \intersect m.cur = {}
    BY <1>11 DEF Answer
  <2>2. Apart' /\ Lists' = [Lists EXCEPT ![q] = SeenList(m)]
    BY <1>3, <2>1
  <2>3. l.cur = {}
    BY <1>1, <2>1 DEF ListInv
  <2>4. /\ Lists[q].at = "open" /\ Lists[q].unread = {} /\ Lists[q].uids = l.uids
        /\ Lists[q].found = l.found
    BY <1>4, <2>1, <2>3 DEF SeenList, Seen
  <2>5. SeenList(m) = Board!List("ok", Lists[q].uids, {}, Lists[q].found)
    BY <2>4 DEF SeenList, Seen, Board!List
  <2> HIDE DEF m
  <2>6. Board!Answer(q)
    BY <2>2, <2>4, <2>5 DEF Board!Answer, Board!Become, Lists
  <2> QED
    BY <2>2, <2>6
<1>12. Apart' /\ (Lists' = Lists \/ Board!ListStep(q))
  <2>1. UidLists = UNION {[1..n -> Users] : n \in 0..(Limit + 1)}
    BY DEF UidLists
  <2> QED
    BY <1>5, <1>6, <1>7, <1>8, <1>9, <1>10, <1>11, <2>1 DEF ListStep, Board!ListStep
<1> QED
  BY <1>2, <1>12

\* Every step maps to a step of the board or to a stutter.
LEMMA BoardStep ==
    IInv /\ IInv' /\ Attended /\ Apart /\ [Next]_vars =>
        [Board!Next]_(Board!vars) /\ Attended' /\ Apart'
<1> SUFFICES ASSUME IInv, IInv', Attended, Apart, [Next]_vars
             PROVE  /\ Board!Next \/ (OnBoard' = OnBoard /\ Lists' = Lists)
                    /\ Attended' /\ Apart'
  BY DEF Board!vars, OnBoard, Here, Shown, Lists
<1>1. TypeOK /\ Leases'
  BY DEF IInv
<1>2. ASSUME NEW u \in Users,
             \/ Connect(u) \/ Disconnect(u) \/ setUserAsOnline(u) \/ KeepAliveRoom(u)
             \/ KeepAliveSessions(u) \/ KeepAliveWrite(u)
             \/ \E f \in Facts : Move(u, f)
      PROVE  /\ Board!Next \/ (OnBoard' = OnBoard /\ Lists' = Lists)
             /\ Attended' /\ Apart'
  <2>1. query' = query
    BY <1>2 DEF Connect, Disconnect, setUserAsOnline, KeepAliveRoom, KeepAliveSessions,
                KeepAliveWrite, Move
  <2>2. Apart'
    BY <2>1 DEF Apart
  <2> QED
    BY <1>1, <1>2, <2>2, UserSteps DEF Board!Next, Board!BoardStep, Lists
<1>3. ASSUME Second \/ \E n \in Nodes : NodeLoss(n) \/ NodeBack(n)
      PROVE  /\ Board!Next \/ (OnBoard' = OnBoard /\ Lists' = Lists)
             /\ Attended' /\ Apart'
  <2>1. query' = query
    BY <1>3 DEF Second, NodeLoss, NodeBack
  <2>2. Apart'
    BY <2>1 DEF Apart
  <2> QED
    BY <1>1, <1>3, <2>2, WorldSteps DEF Board!Next, Board!BoardStep, Lists
<1>4. ASSUME NEW q \in Queries, ListStep(q)
      PROVE  /\ Board!Next \/ (OnBoard' = OnBoard /\ Lists' = Lists)
             /\ Attended' /\ Apart'
  <2>1. UNCHANGED <<conn, setting, keep, away>>
    BY <1>4 DEF ListStep, Ask, SendRPC, ReadStatus, Receive, FailRPC, Answer,
                userVars, histVars
  <2>2. Attended'
    BY <2>1, BoardFrame DEF Attended, Here
  <2>3. OnBoard' = OnBoard /\ (Lists' = Lists \/ Board!ListStep(q)) /\ Apart'
    BY <1>4, BoardLists
  <2>4. OnBoard' = OnBoard /\ Board!ListStep(q) => Board!Next
    BY DEF Board!Next, Board!boardVars, OnBoard, Here, Shown
  <2> QED
    BY <2>2, <2>3, <2>4
<1>5. CASE UNCHANGED vars
  <2>1. UNCHANGED <<conn, setting, keep, store, query, away>>
    BY <1>5 DEF vars
  <2>2. OnBoard' = OnBoard /\ Lists' = Lists /\ Here' = Here
    BY <2>1, BoardFrame DEF OnBoard
  <2> QED
    BY <2>1, <2>2 DEF Attended, Apart, Here
<1> QED
  BY <1>2, <1>3, <1>4, <1>5 DEF Next, ListStep

\* The initial state is an empty board with no list asked for.
LEMMA BoardInit == Init => Board!Init /\ Attended /\ Apart
<1> SUFFICES ASSUME Init PROVE Board!Init /\ Attended /\ Apart
  OBVIOUS
<1>1. \A u \in Users : Gone(u)
  BY DEF Init, Gone, Idle
<1>2. \A q \in Queries : SeenList(query[q]) = Board!List("idle", <<>>, {}, Board!Blank)
  BY DEF Init, List, SeenList, Seen, Board!List, Board!Blank, Board!Positions, NothingFound
<1>3. \A u \in Users : SeenStatus(store[u]) = None
  BY DEF Init, SeenStatus
<1>4. Attended /\ Apart
  BY <1>1 DEF Attended, Apart, Init, List
<1> QED
  BY <1>1, <1>2, <1>3, <1>4 DEF Board!Init, Init

\* The handlers implement the board, for any users, nodes, lists, limit and TTL.
THEOREM BoardImplemented == Spec => BoardKept
<1>1. IInv /\ IInv' /\ Attended /\ Apart /\ [Next]_vars
      => [Board!Next]_(Board!vars) /\ Attended' /\ Apart'
  BY BoardStep
<1> QED
  BY <1>1, BoardInit, Invariance, PTL DEF Spec, BoardKept, Board!Spec
=============================================================================
