-------------------------- MODULE MatchMaker_proofs --------------------------
(***************************************************************************)
(* Proofs about MatchMaker for every number of clients, rooms and commands *)
(* and every interleaving of their handlers, ticks and departures.         *)
(***************************************************************************)
EXTENDS MatchMaker, FiniteSetTheorems, TLAPS

USE DEF vars, roomVars, tickVars

-----------------------------------------------------------------------------
(* What the records and the library operations return.                      *)

\* A slot that has not searched yet, or has been answered, is a command slot.
LEMMA SlotTypes ==
  ASSUME NEW stage \in Stages, NEW ids \in SUBSET MMIDs, NEW room \in Rooms \union {None},
         NEW reply \in {"none", "ok", "bad"}, NEW n \in Nat
  PROVE  Slot(stage, ids, room, reply, n) \in CmdType
<1>1. <<>> \in Seq(Results)
  OBVIOUS
<1>. QED
  BY <1>1 DEF Slot, CmdType

\* Each of the partial updates the handlers make keeps a slot a command slot.
LEMMA SlotUpdateTypes ==
  ASSUME NEW f \in [Commands -> CmdType], NEW c \in Commands, NEW s \in Stages
  PROVE  /\ [f EXCEPT ![c].stage = s] \in [Commands -> CmdType]
         /\ \A res \in Seq(Results) :
               [f EXCEPT ![c].stage = s, ![c].results = res] \in [Commands -> CmdType]
         /\ [f EXCEPT ![c].stage = s, ![c].index = @ + 1] \in [Commands -> CmdType]
         /\ \A r \in Rooms, b \in BOOLEAN :
               [f EXCEPT ![c].stage = s, ![c].room = r, ![c].full = b] \in [Commands -> CmdType]
<1>1. f[c] \in CmdType
  OBVIOUS
<1>2. [f EXCEPT ![c].stage = s] \in [Commands -> CmdType]
  BY <1>1 DEF CmdType
<1>3. ASSUME NEW res \in Seq(Results)
      PROVE  [f EXCEPT ![c].stage = s, ![c].results = res] \in [Commands -> CmdType]
  BY <1>1 DEF CmdType
<1>4. [f EXCEPT ![c].stage = s, ![c].index = @ + 1] \in [Commands -> CmdType]
  <2>1. f[c].index + 1 \in Nat \ {0}
    BY <1>1 DEF CmdType
  <2>2. ASSUME NEW i \in Nat \ {0}
        PROVE  [f EXCEPT ![c].stage = s, ![c].index = i] \in [Commands -> CmdType]
    BY <1>1 DEF CmdType
  <2>. QED
    BY <2>1, <2>2
<1>5. ASSUME NEW r \in Rooms, NEW b \in BOOLEAN
      PROVE  [f EXCEPT ![c].stage = s, ![c].room = r, ![c].full = b] \in [Commands -> CmdType]
  BY <1>1 DEF CmdType
<1>. QED
  BY <1>2, <1>3, <1>4, <1>5

\* Storing a command slot keeps the slots well-formed.
LEMMA IssueType ==
  ASSUME TypeOK, NEW c \in Commands, NEW s \in CmdType, Issue(c, s)
  PROVE  cmd' \in [Commands -> CmdType]
  BY DEF Issue, TypeOK

\* So does answering.
LEMMA AnswerType ==
  ASSUME TypeOK, NEW c \in Commands, NEW reply \in {"ok", "bad"}, Answer(c, reply)
  PROVE  cmd' \in [Commands -> CmdType]
<1>1. cmd[c].nexts + 1 \in Nat
  BY DEF TypeOK, CmdType
<1>. QED
  BY <1>1, SlotTypes, IssueType DEF Answer, Stages

\* Putting an entry under its advertised key keeps the pool well-formed.
LEMMA MatchingAddType ==
  ASSUME TypeOK, NEW a \in Adverts, NEW r \in Rooms, MatchingAdd(a.key, r, a.ttl)
  PROVE  pool' \in [Keys -> Entries \union {None}]
  BY DEF TypeOK, MatchingAdd, Adverts, Entries

\* Removing entries keeps the pool well-formed and adds none.
LEMMA MatchingRemoveType ==
  ASSUME TypeOK, NEW ids, NEW uid, MatchingRemove(ids, uid)
  PROVE  /\ pool' \in [Keys -> Entries \union {None}]
         /\ \A k \in Keys : pool'[k] = None \/ pool'[k] = pool[k]
  BY DEF TypeOK, MatchingRemove

\* What a search finds are results: a unique ID and a room.
LEMMA FoundType ==
  ASSUME TypeOK, NEW ids \in SUBSET MMIDs
  PROVE  Found(ids) \subseteq Results
  BY ConstantsAssumption DEF TypeOK, Found, Results, Entries, Keys

-----------------------------------------------------------------------------
(* The inductive invariant.                                                 *)

\* What ties rooms, closures, entries and commands together: a room has an
\* advert once it exists, members only while it is open, a closure only after
\* it exists; a command that has a room or is trying one really has it.
RoomsTied == \A r \in Rooms :
    /\ advert[r] # None <=> roomState[r] # "none"
    /\ members[r] # {} => roomState[r] = "open"
    /\ tick[r] # "unset" => roomState[r] # "none"

TiedSlot(c) ==
    /\ cmd[c].stage \in {"created", "published", "joined"} =>
          /\ cmd[c].room \in Rooms
          /\ roomState[cmd[c].room] # "none"
    /\ cmd[c].stage \in {"joining", "joined", "refused"} =>
          cmd[c].index \in 1..Len(cmd[c].results)
    /\ cmd[c].stage = "joined" => cmd[c].room = Trying(c).room
    /\ cmd[c].stage \notin {"joining", "joined", "refused"} =>
          cmd[c].results = <<>> /\ cmd[c].index = 1
    /\ cmd[c].nexts = IF cmd[c].stage = "done" THEN 1 ELSE 0
    /\ cmd[c].reply # "none" <=> cmd[c].stage = "done"

CommandsTied == \A c \in Commands : TiedSlot(c)

IInv ==
    /\ TypeOK
    /\ RoomsTied
    /\ CommandsTied
    /\ EntryLeadsToItsRoom

\* The initial state satisfies it.
LEMMA InitInv == Init => IInv
<1>. SUFFICES ASSUME Init PROVE IInv
  OBVIOUS
<1>1. cmd \in [Commands -> CmdType]
  BY SlotTypes DEF Init, Stages
<1>2. TypeOK
  BY <1>1, ConstantsAssumption DEF Init, TypeOK
<1>3. RoomsTied /\ EntryLeadsToItsRoom
  BY DEF Init, RoomsTied, EntryLeadsToItsRoom
<1>4. CommandsTied
  BY DEF Init, CommandsTied, TiedSlot, Slot
<1>. QED
  BY <1>2, <1>3, <1>4 DEF IInv

\* Every step keeps the variables' types.
LEMMA TypeStep == IInv /\ [Next]_vars => TypeOK'
<1>. SUFFICES ASSUME IInv, [Next]_vars PROVE TypeOK'
  OBVIOUS
<1>. USE DEF IInv
<1>1. ASSUME NEW c \in Commands, Reject(c) PROVE TypeOK'
  BY <1>1, SlotTypes, IssueType DEF Reject, TypeOK, Stages
<1>2. ASSUME NEW c \in Commands, NEW k \in Keys, NEW ttl \in 1..MaxTTL, AddCreate(c, k, ttl)
      PROVE  TypeOK'
  <2>1. PICK r \in Rooms :
           /\ roomState' = [roomState EXCEPT ![r] = "open"]
           /\ members' = [members EXCEPT ![r] = {Issuer[c]}]
           /\ advert' = [advert EXCEPT ![r] = [key |-> k, ttl |-> ttl]]
           /\ Issue(c, Slot("created", {}, r, "none", 0))
           /\ UNCHANGED <<since, tick, pool, told>>
    BY <1>2 DEF AddCreate
  <2>2. cmd' \in [Commands -> CmdType]
    BY <2>1, SlotTypes, IssueType DEF Stages
  <2>3. [key |-> k, ttl |-> ttl] \in Adverts
    BY DEF Adverts
  <2>. QED
    BY <2>1, <2>2, <2>3, ConstantsAssumption DEF TypeOK
<1>3. ASSUME NEW c \in Commands, AddPublish(c) PROVE TypeOK'
  <2>. DEFINE r == cmd[c].room
  <2>1. r \in Rooms /\ advert[r] \in Adverts
    BY <1>3 DEF AddPublish, CommandsTied, TiedSlot, RoomsTied, TypeOK
  <2>2. pool' \in [Keys -> Entries \union {None}]
    BY <1>3, <2>1, MatchingAddType DEF AddPublish
  <2>3. cmd' \in [Commands -> CmdType]
    BY <1>3, SlotUpdateTypes DEF AddPublish, TypeOK, Stages
  <2>4. since' \in [Rooms -> 0..AddInterval]
    BY <1>3, <2>1, ConstantsAssumption DEF AddPublish, TypeOK
  <2>. QED
    BY <1>3, <2>2, <2>3, <2>4 DEF AddPublish, TypeOK
<1>4. ASSUME NEW c \in Commands, AddHook(c) PROVE TypeOK'
  <2>1. cmd[c].room \in Rooms
    BY <1>4 DEF AddHook, CommandsTied, TiedSlot
  <2>. QED
    BY <1>4, <2>1, AnswerType DEF AddHook, TypeOK
<1>5. ASSUME NEW c \in Commands, NEW ids \in SUBSET MMIDs, SearchStart(c, ids) PROVE TypeOK'
  BY <1>5, SlotTypes, IssueType DEF SearchStart, TypeOK, Stages
<1>6. ASSUME NEW c \in Commands, SearchFound(c) PROVE TypeOK'
  <2>1. PICK n \in 1..SearchLimit : \E found \in [1..n -> Found(cmd[c].ids)] :
           /\ cmd' = [cmd EXCEPT ![c].stage = "joining", ![c].results = found]
           /\ UNCHANGED <<roomVars, tickVars, pool, told>>
    BY <1>6 DEF SearchFound
  <2>2. PICK found \in [1..n -> Found(cmd[c].ids)] :
           /\ cmd' = [cmd EXCEPT ![c].stage = "joining", ![c].results = found]
           /\ UNCHANGED <<roomVars, tickVars, pool, told>>
    BY <2>1
  <2>3. cmd[c] \in CmdType /\ cmd[c].ids \in SUBSET MMIDs
    BY DEF TypeOK, CmdType
  <2>4. found \in [1..n -> Results]
    BY <2>3, FoundType
  <2>5. found \in Seq(Results)
    BY <2>4, ConstantsAssumption
  <2>6. cmd \in [Commands -> CmdType] /\ "joining" \in Stages
    BY DEF TypeOK, Stages
  <2>7. \A res \in Seq(Results) :
           [cmd EXCEPT ![c].stage = "joining", ![c].results = res] \in [Commands -> CmdType]
    BY <2>6, SlotUpdateTypes
  <2>8. cmd' \in [Commands -> CmdType]
    BY <2>2, <2>5, <2>7, Zenon
  <2>. QED
    BY <2>2, <2>8 DEF TypeOK
<1>7. ASSUME NEW c \in Commands, SearchNothing(c) PROVE TypeOK'
  BY <1>7, AnswerType DEF SearchNothing, TypeOK
<1>8. ASSUME NEW c \in Commands, JoinAccepted(c) PROVE TypeOK'
  <2>. DEFINE r == Trying(c).room
  <2>1. Trying(c) \in Results
    <3>1. cmd[c].results \in Seq(Results)
      BY DEF TypeOK, CmdType
    <3>2. cmd[c].index \in 1..Len(cmd[c].results)
      BY <1>8 DEF JoinAccepted, CommandsTied, TiedSlot
    <3>. QED
      BY <3>1, <3>2 DEF Trying
  <2>2. r \in Rooms
    BY <2>1 DEF Results
  <2>3. cmd' \in [Commands -> CmdType]
    <3>1. cmd \in [Commands -> CmdType] /\ "joined" \in Stages
      BY DEF TypeOK, Stages
    <3>. QED
      BY <1>8, <2>2, <3>1, SlotUpdateTypes DEF JoinAccepted
  <2>4. members' \in [Rooms -> SUBSET Users]
    <3>1. Issuer[c] \in Users /\ members \in [Rooms -> SUBSET Users]
      BY ConstantsAssumption DEF TypeOK
    <3>2. members' = [members EXCEPT ![r] = @ \union {Issuer[c]}]
      BY <1>8 DEF JoinAccepted
    <3>. QED
      BY <2>2, <3>1, <3>2
  <2>. QED
    BY <1>8, <2>3, <2>4 DEF JoinAccepted, TypeOK
<1>9. ASSUME NEW c \in Commands, JoinRefused(c) PROVE TypeOK'
  <2>1. cmd' \in [Commands -> CmdType]
    BY <1>9, SlotUpdateTypes DEF JoinRefused, TypeOK, Stages
  <2>. QED
    BY <1>9, <2>1 DEF JoinRefused, TypeOK
<1>10. ASSUME NEW c \in Commands, JoinAnswer(c) PROVE TypeOK'
  <2>1. cmd[c].room \in Rooms
    BY <1>10 DEF JoinAnswer, CommandsTied, TiedSlot
  <2>2. told' \in [Rooms -> SUBSET Users]
    BY <1>10, <2>1, ConstantsAssumption DEF JoinAnswer, TypeOK
  <2>. QED
    BY <1>10, <2>2, AnswerType DEF JoinAnswer, TypeOK
<1>11. ASSUME NEW c \in Commands, JoinNext(c) PROVE TypeOK'
  <2>1. pool' \in [Keys -> Entries \union {None}]
    BY <1>11, MatchingRemoveType DEF JoinNext
  <2>2. cmd' \in [Commands -> CmdType]
    <3>1. CASE Answer(c, "bad")
      BY <3>1, AnswerType
    <3>2. CASE cmd' = [cmd EXCEPT ![c].stage = "joining", ![c].index = @ + 1]
      BY <3>2, SlotUpdateTypes DEF TypeOK, Stages
    <3>. QED
      BY <1>11, <3>1, <3>2 DEF JoinNext
  <2>. QED
    BY <1>11, <2>1, <2>2 DEF JoinNext, TypeOK
<1>12. ASSUME NEW r \in Rooms, TickDecide(r) PROVE TypeOK'
  BY <1>12, ConstantsAssumption DEF TickDecide, TypeOK
<1>13. ASSUME NEW r \in Rooms, TickAct(r) PROVE TypeOK'
  <2>1. advert[r] \in Adverts
    BY <1>13 DEF TickAct, RoomsTied, TypeOK
  <2>2. pool' \in [Keys -> Entries \union {None}]
    BY <1>13, <2>1, MatchingAddType, MatchingRemoveType DEF TickAct
  <2>. QED
    BY <1>13, <2>2 DEF TickAct, TypeOK
<1>14. ASSUME NEW u \in Users, NEW r \in Rooms, Leave(u, r) PROVE TypeOK'
  BY <1>14, ConstantsAssumption DEF Leave, TypeOK
<1>15. ASSUME Second PROVE TypeOK'
  <2>1. since' \in [Rooms -> 0..AddInterval]
    BY <1>15, ConstantsAssumption DEF Second, TypeOK
  <2>2. ASSUME NEW k \in Keys
        PROVE  pool'[k] \in Entries \union {None}
    <3>1. CASE pool[k] = None \/ pool[k].left = 1
      BY <1>15, <3>1 DEF Second
    <3>2. CASE ~(pool[k] = None \/ pool[k].left = 1)
      <4>1. pool[k] \in Entries /\ pool[k].left - 1 \in 1..MaxTTL
        BY <3>2, ConstantsAssumption DEF TypeOK, Entries
      <4>2. [pool[k] EXCEPT !.left = @ - 1] \in Entries
        BY <4>1 DEF Entries
      <4>. QED
        BY <1>15, <3>2, <4>2 DEF Second
    <3>. QED
      BY <3>1, <3>2
  <2>. QED
    BY <1>15, <2>1, <2>2 DEF Second, TypeOK
<1>16. CASE UNCHANGED vars
  BY <1>16 DEF TypeOK
<1>. QED
  BY <1>1, <1>2, <1>3, <1>4, <1>5, <1>6, <1>7, <1>8, <1>9, <1>10, <1>11, <1>12, <1>13,
     <1>14, <1>15, <1>16 DEF Next, Handle

\* A slot an action leaves alone stays tied: rooms are never un-created.
LEMMA OtherSlots ==
  ASSUME NEW d \in Commands, TypeOK, TiedSlot(d), cmd'[d] = cmd[d],
         \A r \in Rooms : roomState[r] # "none" => roomState'[r] # "none"
  PROVE  TiedSlot(d)'
  BY DEF TiedSlot, Trying

\* A slot that has not searched yet, or has been answered, is tied.
LEMMA SlotTied ==
  ASSUME NEW c \in Commands, NEW stage \in {"searching", "done"}, NEW ids,
         NEW reply \in {"none", "ok", "bad"}, NEW n,
         cmd \in [Commands -> CmdType],
         Issue(c, Slot(stage, ids, None, reply, n)),
         n = IF stage = "done" THEN 1 ELSE 0,
         reply # "none" <=> stage = "done"
  PROVE  TiedSlot(c)'
  BY DEF Issue, Slot, TiedSlot

\* Answering a command under way ties its slot.
LEMMA AnswerTied ==
  ASSUME IInv, NEW c \in Commands, NEW reply \in {"ok", "bad"}, Answer(c, reply),
         cmd[c].stage # "done"
  PROVE  TiedSlot(c)'
<1>1. cmd[c].nexts = 0
  BY DEF IInv, CommandsTied, TiedSlot
<1>2. cmd \in [Commands -> CmdType]
  BY DEF IInv, TypeOK
<1>. QED
  BY <1>1, <1>2, SlotTied DEF Answer

\* An answer or a new command touches its own slot only.
LEMMA IssueOthers ==
  ASSUME TypeOK, NEW c \in Commands, NEW s, Issue(c, s)
  PROVE  \A d \in Commands \ {c} : cmd'[d] = cmd[d]
  BY DEF Issue, TypeOK

\* Every step keeps the command slots tied.
LEMMA CommandsStep == IInv /\ [Next]_vars => CommandsTied'
<1>. SUFFICES ASSUME IInv, [Next]_vars, NEW d \in Commands
              PROVE  TiedSlot(d)'
  BY DEF CommandsTied
<1>. USE DEF IInv
<1>0. TypeOK /\ TiedSlot(d) /\ cmd \in [Commands -> CmdType] /\ cmd[d] \in CmdType
  BY DEF CommandsTied, TypeOK
<1>1. ASSUME NEW c \in Commands, Reject(c) PROVE TiedSlot(d)'
  <2>1. CASE d = c
    BY <1>0, <1>1, <2>1, SlotTied DEF Reject
  <2>2. CASE d # c
    BY <1>0, <1>1, <2>2, OtherSlots, IssueOthers DEF Reject
  <2>. QED
    BY <2>1, <2>2
<1>2. ASSUME NEW c \in Commands, NEW k \in Keys, NEW ttl \in 1..MaxTTL, AddCreate(c, k, ttl)
      PROVE  TiedSlot(d)'
  <2>1. PICK r \in Rooms :
           /\ roomState' = [roomState EXCEPT ![r] = "open"]
           /\ Issue(c, Slot("created", {}, r, "none", 0))
    BY <1>2 DEF AddCreate
  <2>2. CASE d = c
    BY <1>0, <2>1, <2>2 DEF Issue, Slot, TiedSlot, TypeOK
  <2>3. CASE d # c
    <3>1. \A q \in Rooms : roomState[q] # "none" => roomState'[q] # "none"
      BY <2>1 DEF TypeOK
    <3>2. cmd'[d] = cmd[d]
      BY <2>1, <2>3, IssueOthers
    <3>. QED
      BY <1>0, <3>1, <3>2, OtherSlots
  <2>. QED
    BY <2>2, <2>3
<1>3. ASSUME NEW c \in Commands, AddPublish(c) PROVE TiedSlot(d)'
  <2>1. CASE d = c
    BY <1>0, <1>3, <2>1 DEF AddPublish, TiedSlot
  <2>2. CASE d # c
    BY <1>0, <1>3, <2>2, OtherSlots DEF AddPublish
  <2>. QED
    BY <2>1, <2>2
<1>4. ASSUME NEW c \in Commands, AddHook(c) PROVE TiedSlot(d)'
  <2>1. CASE d = c
    BY <1>4, <2>1, AnswerTied DEF AddHook
  <2>2. CASE d # c
    BY <1>0, <1>4, <2>2, OtherSlots, IssueOthers DEF AddHook, Answer
  <2>. QED
    BY <2>1, <2>2
<1>5. ASSUME NEW c \in Commands, NEW ids \in SUBSET MMIDs, SearchStart(c, ids) PROVE TiedSlot(d)'
  <2>1. CASE d = c
    BY <1>0, <1>5, <2>1, SlotTied DEF SearchStart
  <2>2. CASE d # c
    BY <1>0, <1>5, <2>2, OtherSlots, IssueOthers DEF SearchStart
  <2>. QED
    BY <2>1, <2>2
<1>6. ASSUME NEW c \in Commands, SearchFound(c) PROVE TiedSlot(d)'
  <2>1. PICK n \in 1..SearchLimit : \E found \in [1..n -> Found(cmd[c].ids)] :
           /\ cmd[c].stage = "searching"
           /\ cmd' = [cmd EXCEPT ![c].stage = "joining", ![c].results = found]
           /\ UNCHANGED roomState
    BY <1>6 DEF SearchFound
  <2>2. PICK found \in [1..n -> Found(cmd[c].ids)] :
           /\ cmd[c].stage = "searching"
           /\ cmd' = [cmd EXCEPT ![c].stage = "joining", ![c].results = found]
           /\ UNCHANGED roomState
    BY <2>1
  <2>3. CASE d = c
    <3>1. found \in Seq(Found(cmd[c].ids)) /\ Len(found) = n
      BY <2>2, ConstantsAssumption
    <3>2. cmd[c].index = 1
      BY <1>0, <2>2, <2>3 DEF CommandsTied, TiedSlot
    <3>. QED
      BY <1>0, <2>2, <2>3, <3>1, <3>2, ConstantsAssumption DEF TiedSlot, CmdType
  <2>4. CASE d # c
    BY <1>0, <2>2, <2>4, OtherSlots
  <2>. QED
    BY <2>3, <2>4
<1>7. ASSUME NEW c \in Commands, SearchNothing(c) PROVE TiedSlot(d)'
  <2>1. CASE d = c
    BY <1>7, <2>1, AnswerTied DEF SearchNothing
  <2>2. CASE d # c
    BY <1>0, <1>7, <2>2, OtherSlots, IssueOthers DEF SearchNothing, Answer
  <2>. QED
    BY <2>1, <2>2
<1>8. ASSUME NEW c \in Commands, JoinAccepted(c) PROVE TiedSlot(d)'
  <2>1. CASE d = c
    <3>. DEFINE r == Trying(c).room
    <3>1. cmd[c].index \in 1..Len(cmd[c].results) /\ cmd[c].results \in Seq(Results)
      BY <1>0, <1>8, <2>1 DEF JoinAccepted, TiedSlot, CmdType
    <3>2. r \in Rooms
      <4>1. Trying(c) \in Results
        BY <3>1 DEF Trying
      <4>. QED
        BY <4>1 DEF Results
    <3>3. roomState[r] = "open" /\ UNCHANGED roomState /\ cmd[c].stage = "joining"
      BY <1>8 DEF JoinAccepted, CanJoin
    <3>4. PICK b : cmd' = [cmd EXCEPT ![c].stage = "joined", ![c].room = r, ![c].full = b]
      BY <1>8 DEF JoinAccepted
    <3>5. /\ cmd'[c].stage = "joined" /\ cmd'[c].room = r
          /\ cmd'[c].results = cmd[c].results /\ cmd'[c].index = cmd[c].index
          /\ cmd'[c].nexts = cmd[c].nexts /\ cmd'[c].reply = cmd[c].reply
      BY <1>0, <3>4, <2>1 DEF CmdType
    <3>. QED
      BY <1>0, <2>1, <3>1, <3>2, <3>3, <3>5 DEF TiedSlot, Trying
  <2>2. CASE d # c
    <3>1. cmd'[d] = cmd[d] /\ UNCHANGED roomState
      BY <1>0, <1>8, <2>2 DEF JoinAccepted
    <3>. QED
      BY <1>0, <3>1, OtherSlots
  <2>. QED
    BY <2>1, <2>2
<1>9. ASSUME NEW c \in Commands, JoinRefused(c) PROVE TiedSlot(d)'
  <2>1. CASE d = c
    BY <1>0, <1>9, <2>1 DEF JoinRefused, TiedSlot, Trying
  <2>2. CASE d # c
    BY <1>0, <1>9, <2>2, OtherSlots DEF JoinRefused
  <2>. QED
    BY <2>1, <2>2
<1>10. ASSUME NEW c \in Commands, JoinAnswer(c) PROVE TiedSlot(d)'
  <2>1. CASE d = c
    BY <1>10, <2>1, AnswerTied DEF JoinAnswer
  <2>2. CASE d # c
    BY <1>0, <1>10, <2>2, OtherSlots, IssueOthers DEF JoinAnswer, Answer
  <2>. QED
    BY <2>1, <2>2
<1>11. ASSUME NEW c \in Commands, JoinNext(c) PROVE TiedSlot(d)'
  <2>1. CASE Answer(c, "bad")
    <3>1. CASE d = c
      BY <1>11, <2>1, <3>1, AnswerTied DEF JoinNext
    <3>2. CASE d # c
      BY <1>0, <1>11, <2>1, <3>2, OtherSlots, IssueOthers DEF JoinNext, Answer
    <3>. QED
      BY <3>1, <3>2
  <2>2. CASE /\ cmd[c].index < Len(cmd[c].results)
             /\ cmd' = [cmd EXCEPT ![c].stage = "joining", ![c].index = @ + 1]
    <3>1. CASE d = c
      <4>1. cmd[c].index \in 1..Len(cmd[c].results) /\ cmd[c].results \in Seq(Results)
        BY <1>0, <1>11, <3>1 DEF JoinNext, TiedSlot, CmdType
      <4>2. cmd[c].index + 1 \in 1..Len(cmd[c].results)
        BY <2>2, <4>1
      <4>. QED
        BY <1>0, <1>11, <2>2, <3>1, <4>2 DEF JoinNext, TiedSlot
    <3>2. CASE d # c
      BY <1>0, <1>11, <2>2, <3>2, OtherSlots DEF JoinNext
    <3>. QED
      BY <3>1, <3>2
  <2>. QED
    BY <1>11, <2>1, <2>2 DEF JoinNext
<1>12. ASSUME NEW r \in Rooms, TickDecide(r) \/ TickAct(r) PROVE TiedSlot(d)'
  BY <1>0, <1>12, OtherSlots DEF TickDecide, TickAct
<1>13. ASSUME NEW u \in Users, NEW r \in Rooms, Leave(u, r) PROVE TiedSlot(d)'
  <2>1. \A q \in Rooms : roomState[q] # "none" => roomState'[q] # "none"
    BY <1>13 DEF Leave, TypeOK
  <2>. QED
    BY <1>0, <1>13, <2>1, OtherSlots DEF Leave
<1>14. CASE Second
  BY <1>0, <1>14, OtherSlots DEF Second
<1>15. CASE UNCHANGED vars
  BY <1>0, <1>15, OtherSlots
<1>. QED
  BY <1>1, <1>2, <1>3, <1>4, <1>5, <1>6, <1>7, <1>8, <1>9, <1>10, <1>11, <1>12, <1>13,
     <1>14, <1>15 DEF Next, Handle

\* Every step keeps rooms, adverts, members and closures tied.
LEMMA RoomsStep == IInv /\ [Next]_vars => RoomsTied'
<1>. SUFFICES ASSUME IInv, [Next]_vars PROVE RoomsTied'
  OBVIOUS
<1>. USE DEF IInv
<1>1. CASE UNCHANGED <<roomState, members, advert, tick>>
  BY <1>1 DEF RoomsTied
<1>2. ASSUME NEW c \in Commands, NEW k \in Keys, NEW ttl \in 1..MaxTTL, AddCreate(c, k, ttl)
      PROVE  RoomsTied'
  <2>1. PICK r \in Rooms :
           /\ roomState[r] = "none"
           /\ roomState' = [roomState EXCEPT ![r] = "open"]
           /\ members' = [members EXCEPT ![r] = {Issuer[c]}]
           /\ advert' = [advert EXCEPT ![r] = [key |-> k, ttl |-> ttl]]
           /\ UNCHANGED tick
    BY <1>2 DEF AddCreate
  <2>2. [key |-> k, ttl |-> ttl] # None
    BY ConstantsAssumption DEF Adverts
  <2>. QED
    BY <2>1, <2>2 DEF RoomsTied, TypeOK
<1>3. ASSUME NEW c \in Commands, AddHook(c) PROVE RoomsTied'
  <2>1. cmd[c].room \in Rooms /\ roomState[cmd[c].room] # "none"
    BY <1>3 DEF AddHook, CommandsTied, TiedSlot
  <2>. QED
    BY <1>3, <2>1 DEF AddHook, RoomsTied, TypeOK
<1>4. ASSUME NEW c \in Commands, JoinAccepted(c) PROVE RoomsTied'
  <2>1. roomState[Trying(c).room] = "open"
    BY <1>4 DEF JoinAccepted, CanJoin
  <2>2. \A q \in Rooms : q # Trying(c).room => members'[q] = members[q]
    BY <1>4 DEF JoinAccepted, TypeOK
  <2>. QED
    BY <1>4, <2>1, <2>2 DEF JoinAccepted, RoomsTied
<1>5. ASSUME NEW r \in Rooms, TickDecide(r) \/ TickAct(r) PROVE RoomsTied'
  BY <1>5 DEF TickDecide, TickAct, RoomsTied, TypeOK
<1>6. ASSUME NEW u \in Users, NEW r \in Rooms, Leave(u, r) PROVE RoomsTied'
  <2>1. roomState[r] = "open"
    BY <1>6 DEF Leave, RoomsTied
  <2>2. members[r] # {u} => roomState' = roomState
    BY <1>6 DEF Leave
  <2>3. members[r] = {u} => members'[r] = {} /\ roomState'[r] = "gone"
    BY <1>6 DEF Leave, TypeOK
  <2>. QED
    BY <1>6, <2>1, <2>2, <2>3 DEF Leave, RoomsTied, TypeOK
<1>. QED
  BY <1>1, <1>2, <1>3, <1>4, <1>5, <1>6
  DEF Next, Handle, Reject, AddPublish, SearchStart, SearchFound, SearchNothing,
      JoinRefused, JoinAnswer, JoinNext, Second

\* Every step keeps entries leading to a room of theirs.
LEMMA EntriesStep == IInv /\ [Next]_vars => EntryLeadsToItsRoom'
<1>. SUFFICES ASSUME IInv, [Next]_vars, NEW k \in Keys, pool'[k] # None
              PROVE  /\ roomState'[pool'[k].room] # "none"
                     /\ advert'[pool'[k].room] # None
                     /\ advert'[pool'[k].room].key = k
  BY DEF EntryLeadsToItsRoom
<1>. USE DEF IInv
<1>. DEFINE Leads == /\ roomState[pool[k].room] # "none"
                     /\ advert[pool[k].room] # None
                     /\ advert[pool[k].room].key = k
            Kept == /\ \A r \in Rooms : roomState[r] # "none" =>
                                  roomState'[r] # "none" /\ advert'[r] = advert[r]
                    /\ pool[k] # None /\ pool'[k].room = pool[k].room
<1>1. ASSUME Kept PROVE Leads'
  <2>1. pool[k].room \in Rooms /\ Leads
    BY <1>1 DEF TypeOK, Entries, EntryLeadsToItsRoom
  <2>. QED
    BY <1>1, <2>1
<1>2. ASSUME NEW r \in Rooms, UNCHANGED <<roomState, advert>>, roomState[r] # "none",
             MatchingAdd(advert[r].key, r, advert[r].ttl)
      PROVE  Leads'
  <2>1. advert[r] \in Adverts /\ advert[r] # None
    BY <1>2, ConstantsAssumption DEF TypeOK, RoomsTied
  <2>2. advert[r].key \in Keys
    BY <2>1 DEF Adverts
  <2>3. CASE k = advert[r].key
    <3>1. pool'[k].room = r
      BY <1>2, <2>2, <2>3 DEF MatchingAdd, TypeOK
    <3>. QED
      BY <1>2, <2>1, <2>3, <3>1
  <2>4. CASE k # advert[r].key
    <3>1. pool'[k] = pool[k]
      BY <1>2, <2>4 DEF MatchingAdd, TypeOK
    <3>. QED
      BY <1>1, <1>2, <3>1
  <2>. QED
    BY <2>3, <2>4
<1>3. ASSUME NEW ids, NEW uid, UNCHANGED <<roomState, advert>>, MatchingRemove(ids, uid)
      PROVE  Leads'
  BY <1>1, <1>3, MatchingRemoveType
<1>4. CASE UNCHANGED <<roomState, advert, pool>>
  BY <1>1, <1>4
<1>5. ASSUME NEW c \in Commands, NEW j \in Keys, NEW ttl \in 1..MaxTTL, AddCreate(c, j, ttl)
      PROVE  Leads'
  BY <1>1, <1>5 DEF AddCreate, TypeOK
<1>6. ASSUME NEW c \in Commands, AddPublish(c) PROVE Leads'
  <2>1. cmd[c].room \in Rooms /\ roomState[cmd[c].room] # "none"
    BY <1>6 DEF AddPublish, CommandsTied, TiedSlot
  <2>. QED
    BY <1>2, <1>6, <2>1 DEF AddPublish
<1>7. ASSUME NEW c \in Commands, JoinNext(c) PROVE Leads'
  BY <1>3, <1>7 DEF JoinNext
<1>8. ASSUME NEW r \in Rooms, TickAct(r) PROVE Leads'
  BY <1>2, <1>3, <1>8 DEF TickAct, RoomsTied
<1>9. ASSUME NEW u \in Users, NEW r \in Rooms, Leave(u, r) PROVE Leads'
  BY <1>1, <1>9 DEF Leave, TypeOK
<1>10. CASE Second
  <2>1. pool[k] # None /\ pool[k] \in Entries
    BY <1>10 DEF Second, TypeOK
  <2>2. pool'[k] = [pool[k] EXCEPT !.left = @ - 1]
    BY <1>10, <2>1 DEF Second
  <2>3. pool'[k].room = pool[k].room
    BY <2>1, <2>2 DEF Entries
  <2>. QED
    BY <1>1, <1>10, <2>1, <2>3 DEF Second
<1>11. ASSUME NEW c \in Commands, Reject(c) \/ AddHook(c) \/ SearchFound(c) \/ SearchNothing(c)
                 \/ JoinAccepted(c) \/ JoinRefused(c) \/ JoinAnswer(c)
       PROVE  Leads'
  BY <1>4, <1>11 DEF Reject, AddHook, SearchFound, SearchNothing, JoinAccepted, JoinRefused,
                     JoinAnswer
<1>12. ASSUME NEW c \in Commands, NEW ids \in SUBSET MMIDs, SearchStart(c, ids) PROVE Leads'
  BY <1>4, <1>12 DEF SearchStart
<1>13. ASSUME NEW r \in Rooms, TickDecide(r) PROVE Leads'
  BY <1>4, <1>13 DEF TickDecide
<1>14. CASE UNCHANGED vars
  BY <1>4, <1>14
<1>. QED
  BY <1>5, <1>6, <1>7, <1>8, <1>9, <1>10, <1>11, <1>12, <1>13, <1>14 DEF Next, Handle

-----------------------------------------------------------------------------
(* The theorems.                                                            *)

\* The inductive invariant holds in every reachable state.
THEOREM Invariance == Spec => []IInv
<1>1. IInv /\ [Next]_vars => IInv'
  BY TypeStep, RoomsStep, CommandsStep, EntriesStep DEF IInv
<1>. QED
  BY <1>1, InitInv, PTL DEF Spec

\* The variables keep their types, whatever the handlers interleave.
THEOREM TypeCorrect == Spec => []TypeOK
<1>1. IInv => TypeOK
  BY DEF IInv
<1>. QED
  BY <1>1, Invariance, PTL

\* Every command answers and calls next exactly once, when it ends.
THEOREM OneAnswer == Spec => []AnsweredOnce
<1>1. IInv => AnsweredOnce
  BY DEF IInv, CommandsTied, TiedSlot, AnsweredOnce
<1>. QED
  BY <1>1, Invariance, PTL

\* However unique IDs collide and renewals race with departures, an entry of the
\* pool leads to a room created for that entry.
THEOREM EntriesLeadHome == Spec => []EntryLeadsToItsRoom
<1>1. IInv => EntryLeadsToItsRoom
  BY DEF IInv
<1>. QED
  BY <1>1, Invariance, PTL

\* What SearchTrail says of one step.
TrailStep == \A c \in Commands :
    (cmd[c].results # <<>> /\ cmd'[c].reply # "none") =>
        \/ cmd'[c].reply = "bad" /\ cmd[c].index = Len(cmd[c].results)
        \/ cmd'[c].reply = "ok" /\ cmd[c].room = Trying(c).room

\* A search gives up only after its last result, and is told of the room it joined.
THEOREM TrailKept == Spec => SearchTrail
<1>1. ASSUME IInv, [Next]_vars PROVE TrailStep
  <2>. SUFFICES ASSUME NEW d \in Commands, cmd[d].results # <<>>, cmd'[d].reply # "none"
                PROVE  \/ cmd'[d].reply = "bad" /\ cmd[d].index = Len(cmd[d].results)
                       \/ cmd'[d].reply = "ok" /\ cmd[d].room = Trying(d).room
    BY DEF TrailStep
  <2>1. cmd[d].stage \in {"joining", "joined", "refused"} /\ cmd[d].reply = "none"
    BY <1>1 DEF IInv, CommandsTied, TiedSlot
  <2>2. cmd \in [Commands -> CmdType] /\ cmd[d] \in CmdType
    BY <1>1 DEF IInv, TypeOK
  <2>3. ASSUME NEW c \in Commands, \A e \in Commands \ {c} : cmd'[e] = cmd[e]
        PROVE  c = d
    BY <2>1, <2>3
  <2>4. ASSUME NEW c \in Commands, NEW s, Issue(c, s)
        PROVE  c = d
    BY <1>1, <2>3, <2>4, IssueOthers DEF IInv
  <2>5. ASSUME NEW c \in Commands, Reject(c) PROVE FALSE
    BY <2>1, <2>4, <2>5 DEF Reject, Ready
  <2>6. ASSUME NEW c \in Commands, NEW k \in Keys, NEW ttl \in 1..MaxTTL, AddCreate(c, k, ttl)
        PROVE  FALSE
    BY <2>1, <2>4, <2>6 DEF AddCreate, Ready
  <2>7. ASSUME NEW c \in Commands, NEW ids \in SUBSET MMIDs, SearchStart(c, ids) PROVE FALSE
    BY <2>1, <2>4, <2>7 DEF SearchStart, Ready
  <2>8. ASSUME NEW c \in Commands, AddHook(c) PROVE FALSE
    BY <2>1, <2>4, <2>8 DEF AddHook, Answer
  <2>9. ASSUME NEW c \in Commands, SearchNothing(c) PROVE FALSE
    BY <2>1, <2>4, <2>9 DEF SearchNothing, Answer
  <2>10. ASSUME NEW c \in Commands, AddPublish(c) PROVE FALSE
    BY <2>1, <2>2, <2>10 DEF AddPublish
  <2>11. ASSUME NEW c \in Commands, SearchFound(c) PROVE FALSE
    BY <2>1, <2>2, <2>11 DEF SearchFound
  <2>12. ASSUME NEW c \in Commands, JoinAccepted(c) PROVE FALSE
    BY <2>1, <2>2, <2>12 DEF JoinAccepted, CmdType
  <2>13. ASSUME NEW c \in Commands, JoinRefused(c) PROVE FALSE
    BY <2>1, <2>2, <2>13 DEF JoinRefused, CmdType
  <2>14. ASSUME NEW c \in Commands, JoinAnswer(c)
         PROVE  cmd'[d].reply = "ok" /\ cmd[d].room = Trying(d).room
    <3>1. c = d
      BY <2>4, <2>14 DEF JoinAnswer, Answer
    <3>2. cmd'[d].reply = "ok"
      BY <2>2, <2>14, <3>1 DEF JoinAnswer, Answer, Issue, Slot
    <3>3. cmd[d].room = Trying(d).room
      BY <1>1, <2>14, <3>1 DEF JoinAnswer, IInv, CommandsTied, TiedSlot
    <3>. QED
      BY <3>2, <3>3
  <2>15. ASSUME NEW c \in Commands, JoinNext(c)
         PROVE  cmd'[d].reply = "bad" /\ cmd[d].index = Len(cmd[d].results)
    <3>1. CASE cmd[c].index = Len(cmd[c].results) /\ Answer(c, "bad")
      <4>1. c = d
        BY <2>4, <3>1 DEF Answer
      <4>. QED
        BY <2>2, <3>1, <4>1 DEF Answer, Issue, Slot
    <3>2. CASE cmd' = [cmd EXCEPT ![c].stage = "joining", ![c].index = @ + 1]
      BY <2>1, <2>2, <3>2 DEF CmdType
    <3>. QED
      BY <2>15, <3>1, <3>2 DEF JoinNext
  <2>16. ASSUME UNCHANGED cmd PROVE FALSE
    BY <2>1, <2>16
  <2>. QED
    BY <1>1, <2>5, <2>6, <2>7, <2>8, <2>9, <2>10, <2>11, <2>12, <2>13, <2>14, <2>15, <2>16
    DEF Next, Handle, TickDecide, TickAct, Leave, Second
<1>2. IInv /\ [Next]_vars => [TrailStep]_vars
  BY <1>1
<1>. QED
  BY <1>2, Invariance, PTL DEF Spec, SearchTrail, TrailStep
-----------------------------------------------------------------------------
(* The commands implement SeatRequest: every step of theirs is a step of    *)
(* the abstract request, or leaves it as it is.                             *)

\* Where each command stands as an abstract request.
Status == [c \in Commands |-> CmdStatus(c)]

\* What each stage means to the abstract request.
LEMMA StatusOf ==
  ASSUME NEW c \in Commands, cmd[c] \in CmdType
  PROVE  /\ Ready(c) /\ cmd[c].reply # "ok" => CmdStatus(c) = Seats!Denied
         /\ Ready(c) /\ cmd[c].reply = "ok" => CmdStatus(c) = Seats!Granted
         /\ cmd[c].stage \in {"created", "published", "joined"} =>
               CmdStatus(c) = Seats!Seated(cmd[c].room)
         /\ cmd[c].stage \in {"searching", "joining", "refused"} =>
               CmdStatus(c) = Seats!Asking
  BY DEF CmdStatus, Ready, Seats!Denied, Seats!Granted, Seats!Seated, Seats!Asking

\* The same of the next state's stages.
LEMMA StatusOfNext ==
  ASSUME NEW c \in Commands, (cmd[c] \in CmdType)'
  PROVE  /\ Ready(c)' /\ cmd'[c].reply # "ok" => CmdStatus(c)' = Seats!Denied
         /\ Ready(c)' /\ cmd'[c].reply = "ok" => CmdStatus(c)' = Seats!Granted
         /\ cmd'[c].stage \in {"created", "published", "joined"} =>
               CmdStatus(c)' = Seats!Seated(cmd'[c].room)
         /\ cmd'[c].stage \in {"searching", "joining", "refused"} =>
               CmdStatus(c)' = Seats!Asking
  BY DEF CmdStatus, Ready, Seats!Denied, Seats!Granted, Seats!Seated, Seats!Asking

\* A step that touches one slot changes one status.
LEMMA StatusUpdate ==
  ASSUME NEW c \in Commands, \A d \in Commands \ {c} : cmd'[d] = cmd[d]
  PROVE  Status' = [Status EXCEPT ![c] = CmdStatus(c)']
<1>1. ASSUME NEW d \in Commands \ {c}
      PROVE  CmdStatus(d)' = CmdStatus(d)
  BY DEF CmdStatus, Ready
<1>. QED
  BY <1>1 DEF Status

\* The instance counts members as MatchMaker does.
LEMMA SeatsCount == \A S : Seats!Cardinality(S) = Cardinality(S)
  BY Zenon DEF Cardinality, Seats!Cardinality

\* The initial states map to initial states.
LEMMA SeatsInit == Init => Seats!Init
  BY DEF Init, Seats!Init, Slot, CmdStatus, Ready, Seats!Denied

\* Every step maps to a step or to a stutter.
LEMMA SeatsStep == IInv /\ IInv' /\ [Next]_vars => [Seats!Next]_(Seats!vars)
<1>. SUFFICES ASSUME IInv, IInv', [Next]_vars
              PROVE  Seats!Next \/ (Status' = Status /\ members' = members)
  BY DEF Seats!vars, Status
<1>1. /\ cmd \in [Commands -> CmdType] /\ cmd' \in [Commands -> CmdType]
      /\ \A c \in Commands : cmd[c] \in CmdType /\ cmd'[c] \in CmdType
      /\ members \in [Rooms -> SUBSET Users]
  BY DEF IInv, TypeOK
<1>2. \A c \in Commands : Ready(c) => Seats!Answered(c)
  BY <1>1, StatusOf DEF Seats!Answered, CmdType
<1>3. ASSUME NEW c \in Commands, NEW s, Issue(c, s)
      PROVE  /\ cmd'[c] = s
             /\ Status' = [Status EXCEPT ![c] = CmdStatus(c)']
  BY <1>1, <1>3, IssueOthers, StatusUpdate DEF Issue, IInv
<1>4. ASSUME NEW c \in Commands, Reject(c)
      PROVE  Seats!Deny(c)
  <2>1. CmdStatus(c)' = Seats!Denied
    BY <1>1, <1>3, <1>4, StatusOfNext DEF Reject, Slot, Ready
  <2>. QED
    BY <1>2, <1>3, <1>4, <2>1 DEF Reject, Seats!Deny, Status
<1>5. ASSUME NEW c \in Commands, NEW k \in Keys, NEW ttl \in 1..MaxTTL, AddCreate(c, k, ttl)
      PROVE  \E r \in Rooms : Seats!Seat(c, r)
  <2>1. PICK r \in Rooms :
           /\ Ready(c)
           /\ ~InARoom(Issuer[c])
           /\ roomState[r] = "none"
           /\ members' = [members EXCEPT ![r] = {Issuer[c]}]
           /\ Issue(c, Slot("created", {}, r, "none", 0))
    BY <1>5 DEF AddCreate
  <2>2. members[r] = {} /\ Cardinality(members[r]) < MaxMembers
    <3>1. members[r] = {}
      BY <2>1 DEF IInv, RoomsTied
    <3>. QED
      BY <3>1, FS_EmptySet, ConstantsAssumption
  <2>3. CmdStatus(c)' = Seats!Seated(r)
    BY <1>1, <1>3, <2>1, StatusOfNext DEF Slot
  <2>. QED
    <3>1. \A q \in Rooms : Issuer[c] \notin members[q]
      BY <2>1 DEF InARoom
    <3>2. members' = [members EXCEPT ![r] = @ \union {Issuer[c]}]
      BY <2>1, <2>2
    <3>3. Status' = [Status EXCEPT ![c] = Seats!Seated(r)]
      BY <1>3, <2>1, <2>3
    <3>4. Seats!Answered(c)
      BY <1>2, <2>1
    <3>. QED
      BY <2>2, <3>1, <3>2, <3>3, <3>4, SeatsCount DEF Seats!Seat, Status
<1>6. ASSUME NEW c \in Commands, NEW ids \in SUBSET MMIDs, SearchStart(c, ids)
      PROVE  Seats!Ask(c)
  <2>1. CmdStatus(c)' = Seats!Asking
    BY <1>1, <1>3, <1>6, StatusOfNext DEF SearchStart, Slot
  <2>. QED
    BY <1>2, <1>3, <1>6, <2>1 DEF SearchStart, Seats!Ask, Status
<1>7. ASSUME NEW c \in Commands, Answer(c, "ok"), UNCHANGED members,
             cmd[c].stage \in {"published", "joined"}
      PROVE  Seats!Grant(c)
  <2>1. CmdStatus(c)' = Seats!Granted
    BY <1>1, <1>3, <1>7, StatusOfNext DEF Answer, Slot, Ready
  <2>2. CmdStatus(c) = Seats!Seated(cmd[c].room) /\ cmd[c].room \in Rooms
    BY <1>1, <1>7, StatusOf DEF IInv, CommandsTied, TiedSlot
  <2>. QED
    BY <1>3, <1>7, <2>1, <2>2 DEF Answer, Seats!Grant, Status
<1>8. ASSUME NEW c \in Commands, Answer(c, "bad"), UNCHANGED members,
             cmd[c].stage \in {"searching", "refused"}
      PROVE  Seats!Deny(c)
  <2>1. CmdStatus(c)' = Seats!Denied
    BY <1>1, <1>3, <1>8, StatusOfNext DEF Answer, Slot, Ready
  <2>2. CmdStatus(c) = Seats!Asking
    BY <1>1, <1>8, StatusOf
  <2>. QED
    BY <1>3, <1>8, <2>1, <2>2 DEF Answer, Seats!Deny, Status
<1>9. ASSUME NEW c \in Commands, JoinAccepted(c)
      PROVE  \E r \in Rooms : Seats!Seat(c, r)
  <2>. DEFINE r == Trying(c).room
  <2>1. PICK b : cmd' = [cmd EXCEPT ![c].stage = "joined", ![c].room = r, ![c].full = b]
    BY <1>9 DEF JoinAccepted
  <2>2. /\ cmd[c].stage = "joining" /\ CanJoin(Issuer[c], r)
        /\ members' = [members EXCEPT ![r] = @ \union {Issuer[c]}]
    BY <1>9 DEF JoinAccepted
  <2>3. cmd'[c].stage = "joined" /\ cmd'[c].room = r
    BY <1>1, <2>1 DEF CmdType
  <2>4. CmdStatus(c)' = Seats!Seated(r) /\ CmdStatus(c) = Seats!Asking
    BY <1>1, <2>2, <2>3, StatusOf, StatusOfNext
  <2>5. Status' = [Status EXCEPT ![c] = CmdStatus(c)']
    BY <1>1, <2>1, StatusUpdate
  <2>6. r \in Rooms
    BY <2>3 DEF IInv, CommandsTied, TiedSlot
  <2>. QED
    <3>1. \A q \in Rooms : Issuer[c] \notin members[q]
      BY <2>2 DEF CanJoin, InARoom
    <3>2. Cardinality(members[r]) < MaxMembers
      BY <2>2 DEF CanJoin
    <3>3. Status' = [Status EXCEPT ![c] = Seats!Seated(r)]
      BY <2>4, <2>5
    <3>4. Status[c] = Seats!Asking
      BY <2>4 DEF Status
    <3>5. Seats!Seat(c, r)
      BY <2>2, <3>1, <3>2, <3>3, <3>4, SeatsCount DEF Seats!Seat, Status
    <3>. QED
      BY <2>6, <3>5
<1>10. ASSUME NEW c \in Commands, \A d \in Commands \ {c} : cmd'[d] = cmd[d], UNCHANGED members,
              \/ /\ cmd[c].stage = "created" /\ cmd'[c].stage = "published"
                 /\ cmd'[c].room = cmd[c].room
              \/ /\ cmd[c].stage \in {"searching", "joining", "refused"}
                 /\ cmd'[c].stage \in {"searching", "joining", "refused"}
       PROVE  Status' = Status /\ members' = members
  <2>1. CmdStatus(c)' = CmdStatus(c)
    BY <1>1, <1>10, StatusOf, StatusOfNext
  <2>2. Status' = [Status EXCEPT ![c] = CmdStatus(c)']
    BY <1>10, StatusUpdate
  <2>. QED
    BY <1>10, <2>1, <2>2 DEF Status
<1>11. ASSUME NEW c \in Commands, AddPublish(c) PROVE Status' = Status /\ members' = members
  <2>1. /\ cmd[c].stage = "created" /\ UNCHANGED members
        /\ cmd' = [cmd EXCEPT ![c].stage = "published"]
    BY <1>11 DEF AddPublish
  <2>2. cmd'[c].stage = "published" /\ cmd'[c].room = cmd[c].room
    BY <1>1, <2>1 DEF CmdType
  <2>. QED
    BY <1>1, <1>10, <2>1, <2>2
<1>12. ASSUME NEW c \in Commands, SearchFound(c) PROVE Status' = Status /\ members' = members
  <2>1. PICK found : /\ cmd[c].stage = "searching" /\ UNCHANGED members
                     /\ cmd' = [cmd EXCEPT ![c].stage = "joining", ![c].results = found]
    BY <1>12 DEF SearchFound
  <2>2. cmd'[c].stage = "joining"
    BY <1>1, <2>1 DEF CmdType
  <2>. QED
    BY <1>1, <1>10, <2>1, <2>2
<1>13. ASSUME NEW c \in Commands, JoinRefused(c) PROVE Status' = Status /\ members' = members
  <2>1. /\ cmd[c].stage = "joining" /\ UNCHANGED members
        /\ cmd' = [cmd EXCEPT ![c].stage = "refused"]
    BY <1>13 DEF JoinRefused
  <2>2. cmd'[c].stage = "refused"
    BY <1>1, <2>1 DEF CmdType
  <2>. QED
    BY <1>1, <1>10, <2>1, <2>2
<1>14. ASSUME NEW c \in Commands, JoinNext(c)
       PROVE  Seats!Deny(c) \/ (Status' = Status /\ members' = members)
  <2>0. cmd[c].stage = "refused" /\ UNCHANGED members
    BY <1>14 DEF JoinNext
  <2>1. CASE Answer(c, "bad")
    BY <1>8, <2>0, <2>1
  <2>2. CASE cmd' = [cmd EXCEPT ![c].stage = "joining", ![c].index = @ + 1]
    <3>1. cmd'[c].stage = "joining"
      BY <1>1, <2>2 DEF CmdType
    <3>. QED
      BY <1>1, <1>10, <2>0, <2>2, <3>1
  <2>. QED
    BY <1>14, <2>1, <2>2 DEF JoinNext
<1>15. ASSUME UNCHANGED <<cmd, members>> PROVE Status' = Status /\ members' = members
  BY <1>15 DEF Status, CmdStatus, Ready
<1>16. ASSUME NEW u \in Users, NEW r \in Rooms, Leave(u, r)
       PROVE  Seats!Leave(u, r)
  BY <1>16 DEF Leave, Seats!Leave, CmdStatus, Ready
<1>17. ASSUME NEW c \in Commands, Handle(c)
       PROVE  Seats!Next \/ (Status' = Status /\ members' = members)
  BY <1>7, <1>8, <1>9, <1>11, <1>12, <1>13, <1>14, <1>17
  DEF Handle, AddHook, SearchNothing, JoinAnswer, Seats!Next
<1>. QED
  BY <1>4, <1>5, <1>6, <1>15, <1>16, <1>17
  DEF Next, Seats!Next, TickDecide, TickAct, Second

\* SeatRequest is implemented: a client is told "ok" for the very seat it took,
\* and a client told "bad" was seated nowhere by that command.
THEOREM SeatsImplemented == Spec => SeatsKept
<1>1. IInv /\ IInv' /\ [Next]_vars => [Seats!Next]_(Seats!vars)
  BY SeatsStep
<1>. QED
  BY <1>1, SeatsInit, Invariance, PTL DEF Spec, SeatsKept, Seats!Spec
=============================================================================
