----------------------------- MODULE RoomOwner -----------------------------
(***************************************************************************)
(* How the members of a room learn who owns it: cmds/room/main.go.         *)
(*                                                                         *)
(* The after-command hooks set a callback on the new room, which tells     *)
(* everyone the owner whenever a join completes; the create hook and the   *)
(* change of the owner tell everyone too.  Each of these runs on its own:  *)
(* it reads the owner, then the members, then announces, while members     *)
(* join and leave and the owner changes.  The room itself (one room ID)    *)
(* belongs to a library outside the repository.                            *)
(***************************************************************************)
EXTENDS FiniteSets, Names

CONSTANTS
    Slots    \* bound: how many hooks and callbacks are under way at a time

VARIABLES
    kind,     \* "none", or the command that created the room
    members,  \* the room's members
    owner,    \* the room's owner
    hook,     \* the on-join callback is set
    sync,     \* sync[s]: a hook or callback under way
    heard,    \* heard[u]: the owners a member u was told of since it joined
    latest,   \* latest[u]: the owner in the last announcement to u since it joined
    covered,  \* history: the members who joined when the callback was set
    crossed   \* history: when the owner last changed, an announcement of an
              \* earlier owner was under way

toldVars == <<heard, latest>>
roomVars == <<kind, members, owner, toldVars, covered, crossed>>
ownerVars == <<roomVars, hook, sync>>

\* A hook or callback: where it stands, the user it is for, the owner and the
\* members it has read.
Sync(at, user, o, to) == [at |-> at, user |-> user, owner |-> o, to |-> to]
Free == Sync("free", None, None, {})
Stages == {"free", "create", "random", "hook", "hookonly", "read", "members", "announce"}
SyncType == [at : Stages, user : Users \union {None},
             owner : Users \union {None}, to : SUBSET Users]

\* Whichever free slot: slots have no identity.
Start(at, user, o) == LET free == {s \in Slots : sync[s] = Free} IN
    /\ free # {}
    /\ sync' = [sync EXCEPT ![CHOOSE s \in free : TRUE] = Sync(at, user, o, {})]
Continue(s, at, o, to) == sync' = [sync EXCEPT ![s] = Sync(at, sync[s].user, o, to)]
End(s) == sync' = [sync EXCEPT ![s] = Free]

OwnerInit ==
    /\ kind = "none"
    /\ members = {}
    /\ owner = None
    /\ hook = FALSE
    /\ sync = [s \in Slots |-> Free]
    /\ heard = [u \in Users |-> {}]
    /\ latest = [u \in Users |-> None]
    /\ covered = {}
    /\ crossed = FALSE

-----------------------------------------------------------------------------
(* The room, as the library runs it.                                        *)

\* The create command, or the random command that found no room; its hook is next.
Create(u, by) ==
    /\ kind = "none"
    /\ kind' = by
    /\ members' = {u} /\ owner' = u
    /\ Start(by, u, None)
    /\ UNCHANGED <<hook, toldVars, covered, crossed>>

\* Joining, by a command of its own or by the random command.  The callback of
\* the room runs once the join has completed, if it is set by then.
Join(u) ==
    /\ members # {} /\ u \notin members
    /\ members' = members \union {u}
    /\ covered' = IF hook THEN covered \union {u} ELSE covered
    /\ IF hook THEN Start("read", u, None) ELSE UNCHANGED sync
    /\ UNCHANGED <<kind, owner, hook, toldVars, crossed>>

\* The owner to announce has been read.
Announcing(s) == sync[s].at \in {"members", "announce"}

\* A member leaves; when it owned the room the library picks another owner and
\* calls onRoomOwnerChange with it.
Leave(u) ==
    /\ u \in members
    /\ members' = members \ {u}
    /\ heard' = [heard EXCEPT ![u] = {}]
    /\ latest' = [latest EXCEPT ![u] = None]
    /\ covered' = covered \ {u}
    /\ \/ /\ owner # u
          /\ UNCHANGED <<owner, sync, crossed>>
       \/ /\ owner = u /\ members = {u}
          /\ owner' = None
          /\ UNCHANGED <<sync, crossed>>
       \/ /\ owner = u
          /\ \E o \in members \ {u} : owner' = o /\ Start("members", None, o)
          /\ crossed' = \E s \in Slots : Announcing(s)
    /\ UNCHANGED <<kind, hook>>

-----------------------------------------------------------------------------
(* The hooks and callbacks.                                                 *)

\* GetRoomID: the hook returns at once when its user is in the room no more.
\* Otherwise, after the create command or the random command that created the room,
\* it goes on to setupOnJoinCallback.
AfterCommand(s) ==
    /\ sync[s].at \in {"create", "random"}
    /\ \/ sync[s].user \notin members /\ End(s)
       \/ /\ sync[s].user \in members
          /\ Continue(s, IF sync[s].at = "create" THEN "hook" ELSE "hookonly", None, {})
    /\ UNCHANGED <<roomVars, hook>>

\* Mutant of SetCallback: the owner is announced before the callback is set.
SetCallbackLate(s) ==
    /\ \/ /\ sync[s].at = "hook" /\ sync[s].owner = None
          /\ Continue(s, "hook", owner, members) /\ UNCHANGED hook
       \/ /\ sync[s].at = "hook" /\ sync[s].owner # None
          /\ hook' = TRUE
          /\ Continue(s, "announce", sync[s].owner, sync[s].to)
       \/ /\ sync[s].at = "hookonly" /\ End(s)
          /\ hook' = TRUE
    /\ UNCHANGED roomVars

\* SetOnJoinCompleteByID; only the create command's hook goes on to announce.
SetCallback(s) ==
    /\ \/ sync[s].at = "hook" /\ Continue(s, "read", None, {})
       \/ sync[s].at = "hookonly" /\ End(s)
    /\ hook' = TRUE
    /\ UNCHANGED roomVars

\* GetRoomOwnerID; the on-join callback returns when the room has no owner, and
\* the create hook then finds no members to tell.
ReadOwner(s) ==
    /\ sync[s].at = "read"
    /\ IF owner = None THEN End(s) ELSE Continue(s, "members", owner, {})
    /\ UNCHANGED <<roomVars, hook>>

\* syncRoomOwnerID: GetMemberIDs ...
ReadMembers(s) ==
    /\ sync[s].at = "members"
    /\ Continue(s, "announce", sync[s].owner, members)
    /\ UNCHANGED <<roomVars, hook>>

\* ... and Announce, which reaches those who are still members.
Announce(s) ==
    /\ sync[s].at = "announce"
    /\ heard' = [u \in Users |-> IF u \in sync[s].to \intersect members
                                 THEN heard[u] \union {sync[s].owner} ELSE heard[u]]
    /\ latest' = [u \in Users |-> IF u \in sync[s].to \intersect members
                                  THEN sync[s].owner ELSE latest[u]]
    /\ End(s)
    /\ UNCHANGED <<kind, members, owner, covered, crossed, hook>>

-----------------------------------------------------------------------------
Run(s) ==
    \/ AfterCommand(s) \/ SetCallback(s)
    \/ ReadOwner(s) \/ ReadMembers(s) \/ Announce(s)

OwnerNext ==
    \/ \E u \in Users : Create(u, "create") \/ Create(u, "random")
    \/ \E u \in Users : Join(u) \/ Leave(u)
    \/ \E s \in Slots : Run(s)

\* Hooks and callbacks run to their end; nothing makes users come and go.
OwnerSpec ==
    OwnerInit /\ [][OwnerNext]_ownerVars /\ \A s \in Slots : WF_ownerVars(Run(s))

-----------------------------------------------------------------------------
(* What the hooks promise.                                                  *)

OwnerTypeOK ==
    /\ kind \in {"none", "create", "random"}
    /\ members \in SUBSET Users
    /\ owner \in members \union {None}
    /\ hook \in BOOLEAN
    /\ sync \in [Slots -> SyncType]
    /\ heard \in [Users -> SUBSET Users]
    /\ latest \in [Users -> Users \union {None}]
    /\ covered \in SUBSET Users
    /\ crossed \in BOOLEAN

\* Who is to be told: whoever joined after the callback was set, and in a room of
\* the create command whoever is in it when the callback is set.
Owed(u) == u \in covered \/ (kind = "create" /\ hook)

\* The callback s is going to tell the member u of the present owner.
WillTell(s, u) ==
    \/ sync[s].at = "read"
    \/ Announcing(s) /\ sync[s].owner = owner
       /\ (sync[s].at = "announce" => u \in sync[s].to)

\* Nobody is forgotten, however joins, leaves and announcements overlap: a member
\* who is to be told of the present owner has been, or some callback under way is
\* going to; and no earlier owner was announced to it since, unless the owner
\* changed in the middle of an announcement.
OwnerTold == \A u \in members : Owed(u) =>
    \/ \E s \in Slots : WillTell(s, u)
    \/ owner \in heard[u] /\ (crossed \/ latest[u] = owner)

\* A member who is to be told hears of the owner that stays, however joins, leaves
\* and announcements overlap.
OwnerHeard == \A u, o \in Users :
    <>[](u \in members /\ owner = o /\ Owed(u)) => <>(o \in heard[u])
=============================================================================
