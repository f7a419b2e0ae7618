----------------------------- MODULE MCAwaited ------------------------------
(***************************************************************************)
(* Small instances, for TLC, of the components in which something must     *)
(* happen in the end: the announcements of a room's owner, the creation of *)
(* a remote room, the online status and the bot of the matchmaking load    *)
(* test.  One of them runs in each behaviour, the others stand in one of   *)
(* their initial states.                                                   *)
(***************************************************************************)
EXTENDS RemoteRoom, RoomOwner

CONSTANTS Home, Facts,
          u1, u2, t1, t2, n1, n2, q1, q2, r1, r2

VARIABLES
    unit,  \* which one runs
    conn, fact, setting, keep, store, up, query, held, away,
    isHost, state, currentState, noting, waitCounter, unanswered,
    connected, pushes, overtaken, addFailed

statusVars == <<conn, fact, setting, keep, store, up, query, held, away>>
matchVars == <<isHost, state, currentState, noting, waitCounter, unanswered,
               connected, pushes, overtaken, addFailed>>

\* One user, who may be in a room, in a session, in both or in none.
Status == INSTANCE OnlineStatus WITH
    Users <- {u1}, Nodes <- {n1}, Sessions <- {t1}, Queries <- {}, Limit <- 1,
    StatusTTL <- 2
HomeAlone == [u \in {u1} |-> n1]
Anywhere == [inRoom : BOOLEAN, sessions : SUBSET {t1}]
\* Three rounds of waiting, and two pushes that come whenever they like.
Match == INSTANCE MatchBot WITH Interval <- 10, WaitingTime <- 30, MaxPushes <- 2

\* One request while the nodes come and go, or two while they stay as they are.
AskingUnits == {"remote", "rooms"}
Asking ==
    /\ Next
    /\ IF unit = "rooms" THEN UNCHANGED node ELSE req'[q2] = req[q2]

AwaitedInit ==
    /\ unit \in {"owner", "remote", "rooms", "status", "match"}
    /\ OwnerInit /\ Status!Init
    /\ Init /\ (unit \notin AskingUnits => node = [n \in Nodes |-> "online"])
    /\ Match!Init /\ (unit # "match" => isHost)
AwaitedNext ==
    /\ UNCHANGED unit
    /\ IF unit = "owner" THEN OwnerNext ELSE UNCHANGED ownerVars
    /\ IF unit \in AskingUnits THEN Asking ELSE UNCHANGED vars
    /\ IF unit = "status" THEN Status!Next ELSE UNCHANGED statusVars
    /\ IF unit = "match" THEN Match!Next ELSE UNCHANGED matchVars

\* The fairness that each of the components states.
In(u, A) == unit = u /\ A
Fairness ==
    /\ \A s \in Slots : WF_ownerVars(In("owner", Run(s)))
    /\ \A q \in Requests :
        /\ WF_vars(unit \in AskingUnits /\ (Replied(q) \/ GiveUp(q)))
        /\ \A n \in Nodes : WF_vars(unit \in AskingUnits /\ Probe(q, n))
    /\ WF_statusVars(In("status", Status!Second))
    /\ WF_statusVars(In("status", Status!setUserAsOnline(u1)))
    /\ WF_statusVars(In("status", Status!KeepAliveRoom(u1)))
    /\ WF_statusVars(In("status", Status!KeepAliveSessions(u1) \/ Status!KeepAliveWrite(u1)))
    /\ WF_matchVars(In("match", Match!Loop))
AwaitedSpec ==
    /\ AwaitedInit
    /\ [][AwaitedNext]_<<unit, ownerVars, vars, statusVars, matchVars>>
    /\ Fairness

StatusSettles == Status!StatusSettles
WaitEnds == Match!WaitEnds
=============================================================================
