-------------------------- MODULE RoomOwner_proofs --------------------------
(***************************************************************************)
(* Proofs about RoomOwner, for any users and any number of callbacks.      *)
(***************************************************************************)
EXTENDS RoomOwner, TLAPS

\* Starting, continuing and ending a callback keep the slots typed.
LEMMA SyncTypes ==
    ASSUME sync \in [Slots -> SyncType]
    PROVE  /\ \A at \in Stages, u \in Users \union {None}, o \in Users \union {None} :
                Start(at, u, o) => sync' \in [Slots -> SyncType]
           /\ \A s \in Slots, at \in Stages, o \in Users \union {None}, to \in SUBSET Users :
                Continue(s, at, o, to) => sync' \in [Slots -> SyncType]
           /\ \A s \in Slots : End(s) => sync' \in [Slots -> SyncType]
<1>1. \A at \in Stages, u \in Users \union {None}, o \in Users \union {None},
         to \in SUBSET Users : Sync(at, u, o, to) \in SyncType
  BY DEF Sync, SyncType
<1>2. \A s \in Slots : sync[s].user \in Users \union {None}
  BY DEF SyncType
<1>3. Free \in SyncType
  BY <1>1 DEF Free, Stages
<1>4. ASSUME NEW at \in Stages, NEW u \in Users \union {None},
             NEW o \in Users \union {None}, Start(at, u, o)
      PROVE  sync' \in [Slots -> SyncType]
  <2>1. Sync(at, u, o, {}) \in SyncType
    BY <1>1
  <2>2. PICK s : sync' = [sync EXCEPT ![s] = Sync(at, u, o, {})]
    BY <1>4 DEF Start
  <2> QED
    BY <2>1, <2>2
<1>5. ASSUME NEW s \in Slots, NEW at \in Stages, NEW o \in Users \union {None},
             NEW to \in SUBSET Users, Continue(s, at, o, to)
      PROVE  sync' \in [Slots -> SyncType]
  <2>1. Sync(at, sync[s].user, o, to) \in SyncType
    BY <1>1, <1>2
  <2> QED
    BY <1>5, <2>1 DEF Continue
<1>6. ASSUME NEW s \in Slots, End(s) PROVE sync' \in [Slots -> SyncType]
  BY <1>3, <1>6 DEF End
<1> QED
  BY <1>4, <1>5, <1>6

\* What is about to be announced is an owner, never the absent one.
Owned == \A s \in Slots : sync[s].at \in {"members", "announce"} => sync[s].owner # None

\* The steps of OwnerNext as far as the callbacks are concerned.
LEMMA OwnedStep ==
    ASSUME sync \in [Slots -> SyncType], members \subseteq Users, Owned, [OwnerNext]_ownerVars
    PROVE  Owned'
<1> USE DEF roomVars, toldVars
<1>1. CASE UNCHANGED sync
  BY <1>1 DEF Owned
<1>2. ASSUME NEW at, NEW u, NEW o, at = "members" => o # None, at # "announce",
             Start(at, u, o)
      PROVE  Owned'
  <2>1. Sync(at, u, o, {}).at = at /\ Sync(at, u, o, {}).owner = o
    BY DEF Sync
  <2> QED
    BY <1>2, <2>1 DEF Start, Owned
<1>3. ASSUME NEW s \in Slots, NEW at, NEW o, NEW to,
             at \in {"members", "announce"} => o # None, Continue(s, at, o, to)
      PROVE  Owned'
  <2>1. /\ Sync(at, sync[s].user, o, to).at = at
        /\ Sync(at, sync[s].user, o, to).owner = o
    BY DEF Sync
  <2> QED
    BY <1>3, <2>1 DEF Continue, Owned
<1>4. ASSUME NEW s \in Slots, End(s) PROVE Owned'
  BY <1>4 DEF End, Free, Sync, Owned
<1>5. ASSUME NEW u \in Users, Create(u, "create") \/ Create(u, "random")
      PROVE  Owned'
  BY <1>2, <1>5 DEF Create
<1>6. ASSUME NEW u \in Users, Join(u) PROVE Owned'
  BY <1>1, <1>2, <1>6 DEF Join
<1>7. ASSUME NEW u \in Users, Leave(u) PROVE Owned'
  <2>1. ASSUME NEW o \in members \ {u}, owner' = o, Start("members", None, o), owner = u
        PROVE  Owned'
    BY <1>2, <2>1, NoneAssumption
  <2> QED
    BY <1>1, <1>7, <2>1 DEF Leave
<1>8. ASSUME NEW s \in Slots, Run(s) PROVE Owned'
  <2>1. CASE AfterCommand(s)
    BY <1>3, <1>4, <2>1 DEF AfterCommand
  <2>2. CASE SetCallback(s)
    BY <1>3, <1>4, <2>2 DEF SetCallback
  <2>3. CASE ReadOwner(s)
    BY <1>3, <1>4, <2>3 DEF ReadOwner
  <2>4. CASE ReadMembers(s)
    <3>1. sync[s].owner # None
      BY <2>4 DEF ReadMembers, Owned
    <3> QED
      BY <1>3, <2>4, <3>1 DEF ReadMembers
  <2>5. CASE Announce(s)
    BY <1>4, <2>5 DEF Announce
  <2> QED
    BY <1>8, <2>1, <2>2, <2>3, <2>4, <2>5 DEF Run
<1>9. CASE UNCHANGED ownerVars
  BY <1>1, <1>9 DEF ownerVars
<1> QED
  BY <1>5, <1>6, <1>7, <1>8, <1>9 DEF OwnerNext

\* Every variable keeps its type, and the owner is always a member.
THEOREM TypeCorrect == OwnerSpec => []OwnerTypeOK
<1>1. OwnerInit => OwnerTypeOK
  <2>1. Free \in SyncType
    BY DEF Free, Sync, SyncType, Stages
  <2> QED
    BY <2>1 DEF OwnerInit, OwnerTypeOK
<1>2. OwnerTypeOK /\ Owned /\ [OwnerNext]_ownerVars => OwnerTypeOK'
  <2> SUFFICES ASSUME OwnerTypeOK, Owned, [OwnerNext]_ownerVars PROVE OwnerTypeOK'
    OBVIOUS
  <2> USE DEF OwnerTypeOK, roomVars, toldVars
  <2>1. CASE UNCHANGED ownerVars
    BY <2>1 DEF ownerVars
  <2>2. ASSUME NEW u \in Users, NEW by \in {"create", "random"}, Create(u, by)
        PROVE  OwnerTypeOK'
    <3>1. sync' \in [Slots -> SyncType]
      BY <2>2, SyncTypes DEF Create, Stages
    <3> QED
      BY <2>2, <3>1 DEF Create
  <2>3. ASSUME NEW u \in Users, Join(u) PROVE OwnerTypeOK'
    <3>1. sync' \in [Slots -> SyncType]
      BY <2>3, SyncTypes DEF Join, Stages
    <3>2. covered' \in SUBSET Users
      BY <2>3 DEF Join
    <3> QED
      BY <2>3, <3>1, <3>2 DEF Join
  <2>4. ASSUME NEW u \in Users, Leave(u) PROVE OwnerTypeOK'
    <3>1. sync' \in [Slots -> SyncType] /\ owner' \in members' \union {None}
      <4>1. CASE owner # u /\ UNCHANGED <<owner, sync>>
        BY <2>4, <4>1 DEF Leave
      <4>2. CASE owner' = None /\ UNCHANGED sync
        BY <2>4, <4>2 DEF Leave
      <4>3. ASSUME NEW o \in members \ {u}, owner' = o, Start("members", None, o)
            PROVE  sync' \in [Slots -> SyncType] /\ owner' \in members' \union {None}
        BY <2>4, <4>3, SyncTypes DEF Leave, Stages
      <4> QED
        BY <2>4, <4>1, <4>2, <4>3 DEF Leave
    <3> QED
      BY <2>4, <3>1 DEF Leave
  <2>5. ASSUME NEW s \in Slots, AfterCommand(s) \/ SetCallback(s) \/ ReadOwner(s)
                                \/ ReadMembers(s) \/ Announce(s)
        PROVE  sync' \in [Slots -> SyncType]
    <3>1. sync[s].owner \in Users \union {None} /\ owner \in Users \union {None}
      BY DEF SyncType
    <3>2. CASE AfterCommand(s)
      <4>1. \/ End(s) \/ Continue(s, "hook", None, {})
            \/ Continue(s, "hookonly", None, {})
        BY <3>2 DEF AfterCommand
      <4>2. "hook" \in Stages /\ "hookonly" \in Stages
        BY DEF Stages
      <4> HIDE DEF OwnerTypeOK
      <4>3. sync \in [Slots -> SyncType]
        BY DEF OwnerTypeOK
      <4>4. ASSUME NEW at \in Stages, Continue(s, at, None, {})
            PROVE  sync' \in [Slots -> SyncType]
        <5>1. None \in Users \union {None} /\ {} \in SUBSET Users
          OBVIOUS
        <5> HIDE DEF roomVars
        <5> QED
          BY <4>3, <4>4, <5>1, SyncTypes, Zenon
      <4>5. CASE End(s)
        BY <4>3, <4>5, SyncTypes
      <4> QED
        BY <4>1, <4>2, <4>4, <4>5
    <3>3. CASE SetCallback(s)
      <4>1. End(s) \/ Continue(s, "read", None, {})
        BY <3>3 DEF SetCallback
      <4>2. "read" \in Stages
        BY DEF Stages
      <4> HIDE DEF OwnerTypeOK
      <4>3. sync \in [Slots -> SyncType]
        BY DEF OwnerTypeOK
      <4> QED
        BY <4>1, <4>2, <4>3, SyncTypes
    <3>4. CASE ReadOwner(s)
      BY <3>1, <3>4, SyncTypes DEF ReadOwner, Stages
    <3>5. CASE ReadMembers(s)
      BY <3>1, <3>5, SyncTypes DEF ReadMembers, Stages
    <3>6. CASE Announce(s)
      BY <3>6, SyncTypes DEF Announce
    <3> QED
      BY <2>5, <3>2, <3>3, <3>4, <3>5, <3>6
  <2>6. ASSUME NEW s \in Slots, AfterCommand(s) \/ SetCallback(s) \/ ReadOwner(s)
                                \/ ReadMembers(s)
        PROVE  OwnerTypeOK'
    BY <2>5, <2>6 DEF AfterCommand, SetCallback, ReadOwner, ReadMembers
  <2>7. ASSUME NEW s \in Slots, Announce(s) PROVE OwnerTypeOK'
    <3>1. sync[s].owner \in Users
      BY <2>7 DEF SyncType, Owned, Announce
    <3>2. heard' \in [Users -> SUBSET Users]
      BY <2>7, <3>1 DEF Announce
    <3> QED
      BY <2>5, <2>7, <3>2 DEF Announce
  <2> QED
    BY <2>1, <2>2, <2>3, <2>4, <2>6, <2>7 DEF OwnerNext, Run
<1>3. OwnerInit => Owned
  BY DEF OwnerInit, Owned, Free, Sync
<1>4. OwnerTypeOK /\ Owned /\ [OwnerNext]_ownerVars => Owned'
  BY OwnedStep DEF OwnerTypeOK
<1> QED
  BY <1>1, <1>2, <1>3, <1>4, PTL DEF OwnerSpec
-----------------------------------------------------------------------------
(* Nobody is forgotten.                                                     *)

\* Before the room there is nothing, only the hook of the create command goes on
\* to announce, who joined after the callback was set is a member, a room with
\* members has an owner, and an announcement of an earlier owner is under way
\* only where the owner changed in the middle of it.
Fresh == kind = "none" => ~hook /\ members = {} /\ \A s \in Slots : sync[s].at = "free"
ByKind == \A s \in Slots : sync[s].at \in {"random", "hookonly"} => kind = "random"
Owning == covered \subseteq members /\ (members # {} => owner # None)
Uncrossed == ~crossed => \A s \in Slots :
    Announcing(s) => owner = None \/ sync[s].owner = owner

ToldInv == Fresh /\ ByKind /\ Owning /\ Uncrossed /\ OwnerTold

\* What a slot holds after it was started, continued or ended, and that the other
\* slots are left alone.
LEMMA SlotSteps ==
    ASSUME sync \in [Slots -> SyncType]
    PROVE  /\ \A at, u, o : Start(at, u, o) =>
                \E s \in Slots :
                    /\ sync[s].at = "free" /\ sync'[s] = Sync(at, u, o, {})
                    /\ \A r \in Slots \ {s} : sync'[r] = sync[r]
           /\ \A s \in Slots : \A at, o, to : Continue(s, at, o, to) =>
                /\ sync'[s] = Sync(at, sync[s].user, o, to)
                /\ \A r \in Slots \ {s} : sync'[r] = sync[r]
           /\ \A s \in Slots : End(s) =>
                /\ sync'[s] = Free
                /\ \A r \in Slots \ {s} : sync'[r] = sync[r]
<1>1. ASSUME NEW at, NEW u, NEW o, Start(at, u, o)
      PROVE  \E s \in Slots :
                /\ sync[s].at = "free" /\ sync'[s] = Sync(at, u, o, {})
                /\ \A r \in Slots \ {s} : sync'[r] = sync[r]
  <2> DEFINE free == {s \in Slots : sync[s] = Free}
  <2>1. (CHOOSE s \in free : TRUE) \in free
    BY <1>1 DEF Start
  <2>2. PICK s \in free : sync' = [sync EXCEPT ![s] = Sync(at, u, o, {})]
    BY <1>1, <2>1 DEF Start
  <2>3. sync[s].at = "free"
    BY <2>2 DEF Free, Sync
  <2> QED
    BY <2>2, <2>3
<1>2. ASSUME NEW s \in Slots, NEW at, NEW o, NEW to, Continue(s, at, o, to)
      PROVE  /\ sync'[s] = Sync(at, sync[s].user, o, to)
             /\ \A r \in Slots \ {s} : sync'[r] = sync[r]
  BY <1>2 DEF Continue
<1>3. ASSUME NEW s \in Slots, End(s)
      PROVE  sync'[s] = Free /\ \A r \in Slots \ {s} : sync'[r] = sync[r]
  BY <1>3 DEF End
<1> QED
  BY <1>1, <1>2, <1>3

\* A step of the callback s that leaves the room alone keeps the invariant if it
\* sets the hook for those it then goes on to tell, and if s, when it was going to
\* tell somebody of the present owner, still is.
LEMMA CallbackKeeps ==
    ASSUME ToldInv, sync \in [Slots -> SyncType], NEW s \in Slots, UNCHANGED roomVars,
           \A r \in Slots \ {s} : sync'[r] = sync[r],
           kind # "none", sync'[s].at \in {"random", "hookonly"} => kind = "random",
           Announcing(s)' => sync'[s].owner = owner \/ owner = None
                             \/ (Announcing(s) /\ sync'[s].owner = sync[s].owner),
           \A u \in members : WillTell(s, u) => WillTell(s, u)',
           hook' # hook /\ kind = "create" => sync'[s].at = "read"
    PROVE  ToldInv'
<1> USE DEF roomVars, toldVars
<1>1. Fresh' /\ ByKind' /\ Owning'
  BY DEF ToldInv, Fresh, ByKind, Owning
<1>2. Uncrossed'
  BY DEF ToldInv, Uncrossed, Announcing
<1>3. ASSUME NEW u \in members, NEW r \in Slots, WillTell(r, u) PROVE WillTell(r, u)'
  BY <1>3 DEF WillTell, Announcing
<1>4. ASSUME NEW u \in members, Owed(u)'
      PROVE  \/ \E r \in Slots : WillTell(r, u)'
             \/ owner \in heard[u] /\ (crossed \/ latest[u] = owner)
  <2>1. CASE Owed(u)
    BY <1>3, <2>1 DEF ToldInv, OwnerTold
  <2>2. CASE ~Owed(u)
    <3>1. sync'[s].at = "read"
      BY <1>4, <2>2 DEF Owed
    <3> QED
      BY <3>1 DEF WillTell
  <2> QED
    BY <2>1, <2>2
<1>5. OwnerTold'
  BY <1>4 DEF OwnerTold
<1> QED
  BY <1>1, <1>2, <1>5 DEF ToldInv

\* The steps of a hook or callback.
LEMMA RunKeeps ==
    ASSUME ToldInv, OwnerTypeOK, NEW s \in Slots, Run(s)
    PROVE  ToldInv'
<1> USE DEF roomVars, toldVars
<1>1. sync \in [Slots -> SyncType]
  BY DEF OwnerTypeOK
<1>2. kind # "none"
  BY DEF ToldInv, Fresh, Run, AfterCommand, SetCallback, ReadOwner, ReadMembers, Announce
<1>3. Free.at = "free" /\ \A at, u, o, to : /\ Sync(at, u, o, to).at = at
                                           /\ Sync(at, u, o, to).owner = o
                                           /\ Sync(at, u, o, to).to = to
  BY DEF Free, Sync
<1>4. CASE AfterCommand(s)
  <2>1. UNCHANGED roomVars /\ hook' = hook /\ sync[s].at \in {"create", "random"}
    BY <1>4 DEF AfterCommand
  <2>2. /\ \A r \in Slots \ {s} : sync'[r] = sync[r]
        /\ \/ sync'[s].at \in {"free", "hook"}
           \/ sync'[s].at = "hookonly" /\ sync[s].at = "random"
    BY <1>1, <1>3, <1>4, SlotSteps DEF AfterCommand
  <2>3. \A u : ~WillTell(s, u)
    BY <2>1 DEF WillTell, Announcing
  <2>4. ~Announcing(s)' /\ (sync'[s].at \in {"random", "hookonly"} => kind = "random")
    BY <2>2 DEF Announcing, ToldInv, ByKind
  <2> QED
    BY <1>1, <1>2, <2>1, <2>2, <2>3, <2>4, CallbackKeeps
<1>5. CASE SetCallback(s)
  <2>1. UNCHANGED roomVars /\ sync[s].at \in {"hook", "hookonly"}
    BY <1>5 DEF SetCallback
  <2>2. /\ \A r \in Slots \ {s} : sync'[r] = sync[r]
        /\ \/ sync'[s].at = "read"
           \/ sync'[s].at = "free" /\ sync[s].at = "hookonly"
    BY <1>1, <1>3, <1>5, SlotSteps DEF SetCallback
  <2>3. \A u : ~WillTell(s, u)
    BY <2>1 DEF WillTell, Announcing
  <2>4. ~Announcing(s)' /\ (kind = "create" => sync'[s].at = "read")
    BY <2>2 DEF Announcing, ToldInv, ByKind
  <2>5. sync'[s].at \notin {"random", "hookonly"}
    BY <2>2
  <2> QED
    BY <1>1, <1>2, <2>1, <2>2, <2>3, <2>4, <2>5, CallbackKeeps
<1>6. CASE ReadOwner(s) \/ ReadMembers(s)
  <2>1. UNCHANGED roomVars /\ hook' = hook
    BY <1>6 DEF ReadOwner, ReadMembers
  <2>2. /\ \A r \in Slots \ {s} : sync'[r] = sync[r]
        /\ \/ owner = None /\ sync'[s].at = "free"
           \/ owner # None /\ sync'[s].at = "members" /\ sync'[s].owner = owner
           \/ /\ sync[s].at = "members" /\ sync'[s].at = "announce"
              /\ sync'[s].owner = sync[s].owner /\ sync'[s].to = members
    BY <1>1, <1>3, <1>6, SlotSteps DEF ReadOwner, ReadMembers
  <2>3. ASSUME NEW u \in members, WillTell(s, u) PROVE WillTell(s, u)'
    <3>1. owner # None /\ owner' = owner
      BY <2>1 DEF ToldInv, Owning
    <3> QED
      BY <2>2, <2>3, <3>1 DEF WillTell, Announcing
  <2>4. Announcing(s)' => sync'[s].owner = owner
                          \/ (Announcing(s) /\ sync'[s].owner = sync[s].owner)
    BY <2>2 DEF Announcing
  <2>5. sync'[s].at \notin {"random", "hookonly"}
    BY <2>2
  <2> QED
    BY <1>1, <1>2, <2>1, <2>2, <2>3, <2>4, <2>5, CallbackKeeps
<1>7. CASE Announce(s)
  <2>1. /\ UNCHANGED <<kind, members, owner, covered, crossed, hook>>
        /\ sync[s].at = "announce" /\ Announcing(s)
        /\ heard' = [u \in Users |-> IF u \in sync[s].to \intersect members
                                     THEN heard[u] \union {sync[s].owner} ELSE heard[u]]
        /\ latest' = [u \in Users |-> IF u \in sync[s].to \intersect members
                                      THEN sync[s].owner ELSE latest[u]]
    BY <1>7 DEF Announce, Announcing
  <2>2. sync'[s].at = "free" /\ \A r \in Slots \ {s} : sync'[r] = sync[r]
    BY <1>1, <1>3, <1>7, SlotSteps DEF Announce
  <2>3. Fresh' /\ ByKind' /\ Owning'
    BY <2>1, <2>2 DEF ToldInv, Fresh, ByKind, Owning
  <2>4. Uncrossed'
    BY <2>1, <2>2 DEF ToldInv, Uncrossed, Announcing
  <2>5. ASSUME NEW u \in members, Owed(u), \A r \in Slots : ~WillTell(r, u)'
        PROVE  owner \in heard'[u] /\ (crossed \/ latest'[u] = owner)
    <3>1. u \in Users
      BY DEF OwnerTypeOK
    <3>2. \A r \in Slots \ {s} : ~WillTell(r, u)
      BY <2>1, <2>2, <2>5 DEF WillTell, Announcing
    <3>3. CASE WillTell(s, u)
      <4>1. sync[s].owner = owner /\ u \in sync[s].to
        BY <2>1, <3>3 DEF WillTell
      <4> QED
        BY <2>1, <3>1, <4>1
    <3>4. CASE ~WillTell(s, u)
      <4>1. owner \in heard[u] /\ (crossed \/ latest[u] = owner)
        BY <2>5, <3>2, <3>4 DEF ToldInv, OwnerTold
      <4>2. owner \in heard'[u]
        BY <2>1, <3>1, <4>1
      <4>3. crossed \/ sync[s].owner = owner
        BY <2>1 DEF ToldInv, Uncrossed, Owning
      <4> QED
        BY <2>1, <3>1, <4>1, <4>2, <4>3
    <3> QED
      BY <3>3, <3>4
  <2>6. OwnerTold'
    BY <2>1, <2>5 DEF OwnerTold, Owed
  <2> QED
    BY <2>3, <2>4, <2>6 DEF ToldInv
<1> QED
  BY <1>4, <1>5, <1>6, <1>7 DEF Run

\* The steps of the users.
LEMMA UserKeeps ==
    ASSUME ToldInv, OwnerTypeOK, NEW u \in Users,
           Create(u, "create") \/ Create(u, "random") \/ Join(u) \/ Leave(u)
    PROVE  ToldInv'
<1> USE DEF toldVars
<1>1. sync \in [Slots -> SyncType] /\ members \subseteq Users
  BY DEF OwnerTypeOK
<1>2. \A at, v, o, to : /\ Sync(at, v, o, to).at = at
                        /\ Sync(at, v, o, to).owner = o
  BY DEF Sync
<1>3. ASSUME NEW by \in {"create", "random"}, Create(u, by) PROVE ToldInv'
  <2>1. /\ kind = "none" /\ kind' = by /\ members' = {u} /\ owner' = u
        /\ UNCHANGED <<hook, toldVars, covered, crossed>>
    BY <1>3 DEF Create
  <2>2. PICK s \in Slots : sync'[s].at = by /\ \A r \in Slots \ {s} : sync'[r] = sync[r]
    BY <1>1, <1>2, <1>3, SlotSteps DEF Create
  <2>3. ~hook /\ covered = {} /\ \A r \in Slots : sync[r].at = "free"
    BY <2>1 DEF ToldInv, Fresh, Owning
  <2>4. \A v \in members' : ~Owed(v)'
    BY <2>1, <2>3 DEF Owed
  <2>5. \A r \in Slots : ~Announcing(r)'
    BY <2>2, <2>3 DEF Announcing
  <2>6. Fresh' /\ ByKind' /\ Owning'
    BY <2>1, <2>2, <2>3, NoneAssumption DEF Fresh, ByKind, Owning
  <2> QED
    BY <2>4, <2>5, <2>6 DEF ToldInv, Uncrossed, OwnerTold
<1>4. CASE Join(u)
  <2>1. /\ members # {} /\ u \notin members /\ members' = members \union {u}
        /\ covered' = IF hook THEN covered \union {u} ELSE covered
        /\ UNCHANGED <<kind, owner, hook, toldVars, crossed>>
    BY <1>4 DEF Join
  <2>2. kind # "none" /\ u \notin covered /\ owner # None
    BY <2>1 DEF ToldInv, Fresh, Owning
  <2>3. CASE ~hook
    <3>1. sync' = sync /\ covered' = covered
      BY <1>4, <2>1, <2>3 DEF Join
    <3>2. Fresh' /\ ByKind' /\ Owning' /\ Uncrossed'
      BY <2>1, <2>2, <3>1
      DEF ToldInv, Fresh, ByKind, Owning, Uncrossed, Announcing
    <3>3. OwnerTold'
      BY <2>1, <2>2, <2>3, <3>1 DEF ToldInv, OwnerTold, Owed, WillTell, Announcing
    <3> QED
      BY <3>2, <3>3 DEF ToldInv
  <2>4. CASE hook
    <3>1. PICK s \in Slots : /\ sync'[s].at = "read" /\ sync[s].at = "free"
                             /\ \A r \in Slots \ {s} : sync'[r] = sync[r]
      BY <1>1, <1>2, <1>4, <2>4, SlotSteps DEF Join
    <3>2. Fresh' /\ ByKind' /\ Owning'
      BY <2>1, <2>2, <3>1 DEF ToldInv, Fresh, ByKind, Owning
    <3>3. Uncrossed'
      BY <2>1, <3>1 DEF ToldInv, Uncrossed, Announcing
    <3>4. OwnerTold'
      BY <3>1 DEF OwnerTold, WillTell
    <3> QED
      BY <3>2, <3>3, <3>4 DEF ToldInv
  <2> QED
    BY <2>3, <2>4
<1>5. CASE Leave(u)
  <2>1. /\ u \in members /\ members' = members \ {u} /\ covered' = covered \ {u}
        /\ kind' = kind /\ hook' = hook /\ kind # "none"
        /\ \A v \in Users \ {u} : heard'[v] = heard[v] /\ latest'[v] = latest[v]
    BY <1>5 DEF Leave, OwnerTypeOK, ToldInv, Fresh
  <2>2. CASE owner # u /\ UNCHANGED <<owner, sync, crossed>>
    <3>1. Fresh' /\ ByKind' /\ Owning' /\ Uncrossed'
      BY <2>1, <2>2 DEF ToldInv, Fresh, ByKind, Owning, Uncrossed, Announcing
    <3>2. OwnerTold'
      BY <1>1, <2>1, <2>2 DEF ToldInv, OwnerTold, Owed, WillTell, Announcing
    <3> QED
      BY <3>1, <3>2 DEF ToldInv
  <2>3. CASE members = {u} /\ owner' = None /\ UNCHANGED <<sync, crossed>>
    <3>1. members' = {}
      BY <2>1, <2>3
    <3> QED
      BY <2>1, <2>3, <3>1
      DEF ToldInv, Fresh, ByKind, Owning, Uncrossed, OwnerTold, Announcing
  <2>4. ASSUME NEW o \in members \ {u}, owner' = o, Start("members", None, o),
               crossed' = \E s \in Slots : Announcing(s)
        PROVE  ToldInv'
    <3>1. PICK s \in Slots : /\ sync'[s].at = "members" /\ sync'[s].owner = o
                             /\ \A r \in Slots \ {s} : sync'[r] = sync[r]
      BY <1>1, <1>2, <2>4, SlotSteps
    <3>2. Fresh' /\ ByKind' /\ Owning'
      BY <1>1, <2>1, <2>4, <3>1, NoneAssumption DEF ToldInv, Fresh, ByKind, Owning
    <3>3. ~crossed' => \A r \in Slots \ {s} : ~Announcing(r)'
      BY <2>4, <3>1 DEF Announcing
    <3>4. Uncrossed'
      BY <2>4, <3>1, <3>3 DEF Uncrossed
    <3>5. OwnerTold'
      BY <2>4, <3>1 DEF OwnerTold, WillTell, Announcing
    <3> QED
      BY <3>2, <3>4, <3>5 DEF ToldInv
  <2> QED
    BY <1>5, <2>2, <2>3, <2>4 DEF Leave
<1> QED
  BY <1>3, <1>4, <1>5

\* The invariant holds of an empty room and is kept by every step.
LEMMA ToldInductive ==
    /\ OwnerInit => ToldInv
    /\ ToldInv /\ OwnerTypeOK /\ [OwnerNext]_ownerVars => ToldInv'
<1>1. OwnerInit => ToldInv
  BY DEF OwnerInit, ToldInv, Fresh, ByKind, Owning, Uncrossed, OwnerTold, Announcing,
         Free, Sync
<1>2. ASSUME ToldInv, OwnerTypeOK, [OwnerNext]_ownerVars PROVE ToldInv'
  <2>1. CASE UNCHANGED ownerVars
    BY <1>2, <2>1 DEF ownerVars, roomVars, toldVars, ToldInv, Fresh, ByKind, Owning,
                      Uncrossed, OwnerTold, Owed, WillTell, Announcing
  <2> QED
    BY <1>2, <2>1, UserKeeps, RunKeeps DEF OwnerNext
<1> QED
  BY <1>1, <1>2

\* No member that is to be told of the owner is forgotten, for any number of users
\* and of callbacks under way.
THEOREM OwnersAreTold == OwnerSpec => []OwnerTold
<1>1. ToldInv => OwnerTold
  BY DEF ToldInv
<1> QED
  BY <1>1, ToldInductive, TypeCorrect, PTL DEF OwnerSpec
=============================================================================
