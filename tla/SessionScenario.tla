-------------------------- MODULE SessionScenario ---------------------------
(***************************************************************************)
(* The session scenario of bot/scenario.  Each bot either creates a        *)
(* session or says in UserState, which all bots share, that it waits to be *)
(* invited; an owner that is idle invites bots that wait.  The callbacks   *)
(* of a bot's client run one at a time, in the order of the server's       *)
(* answers and pushes; OnIdle runs on another goroutine, and the bot's     *)
(* fields have no lock.                                                    *)
(***************************************************************************)
EXTENDS Integers, Sequences, FiniteSets, SequencesExt

CONSTANTS Users,      \* the bots
          Sessions,   \* bound: the session IDs the server can give
          None,       \* no session
          MaxMember,  \* sessionMaxMember
          MaxQueue    \* bound: commands, or answers, of one bot under way

VARIABLES idle,       \* how far checkIdling, or the OnIdle it calls, has come
          invite,     \* the users inviteSession has found, got and listed
          IsSessionOwner, SessionID, CurrentNum,
          waiting,    \* the users whose UserState says they wait
          cmds,       \* commands on their way to the server
          answers,    \* answers and pushes on their way to the bot
          member,     \* the session each user is in, on the server
          creator,    \* who created each session that was
          forgot      \* history: bots whose OnIdle forgot a session it had not seen
vars == <<idle, invite, IsSessionOwner, SessionID, CurrentNum, waiting,
          cmds, answers, member, creator, forgot>>
botVars == <<IsSessionOwner, SessionID, CurrentNum, waiting>>
serverVars == <<member, creator>>
controlVars == <<idle, invite, forgot>>

Waiting == {u \in Users : waiting[u]}
Members(s) == {u \in Users : member[u] = s}
Message(t, s, n, us) == [type |-> t, session |-> s, num |-> n, users |-> us]
Plain(t) == Message(t, None, 0, {})
NoInvite == [found |-> {}, got |-> {}, list |-> {}]

MessageType ==
    [type : {"create", "join", "leave", "info", "invite", "joined"},
     session : Sessions \union {None}, num : 0 .. Cardinality(Users),
     users : SUBSET Users]
TypeOK ==
    /\ idle \in [Users -> {"off", "sleep", "reset", "forget", "start", "search",
                           "reserve"}]
    /\ invite \in [Users -> [found : SUBSET Users, got : SUBSET Users,
                             list : SUBSET Users]]
    /\ IsSessionOwner \in [Users -> BOOLEAN]
    /\ SessionID \in [Users -> Sessions \union {None}]
    /\ CurrentNum \in [Users -> 0 .. Cardinality(Users)]
    /\ waiting \in [Users -> BOOLEAN]
    /\ cmds \in [Users -> Seq(MessageType)]
    /\ answers \in [Users -> Seq(MessageType)]
    /\ member \in [Users -> Sessions \union {None}]
    /\ creator \in [Sessions -> Users \union {None}]
    /\ forgot \subseteq Users

Init ==
    /\ idle = [u \in Users |-> "off"]
    /\ invite = [u \in Users |-> NoInvite]
    /\ IsSessionOwner = [u \in Users |-> FALSE]
    /\ SessionID = [u \in Users |-> None]
    /\ CurrentNum = [u \in Users |-> 0]
    /\ waiting = [u \in Users |-> FALSE]
    /\ cmds = [u \in Users |-> <<>>] /\ answers = [u \in Users |-> <<>>]
    /\ member = [u \in Users |-> None]
    /\ creator = [s \in Sessions |-> None]
    /\ forgot = {}
-----------------------------------------------------------------------------
RSend(u, m) ==
    /\ Len(cmds[u]) < MaxQueue
    /\ cmds' = [cmds EXCEPT ![u] = Append(@, m)]
Quiet == UNCHANGED cmds
IsInSession(u) == SessionID[u] # None

\* startSessionScenario: one bot in MaxMember creates, the others wait.
Start(u) ==
    /\ \/ /\ IF IsInSession(u) THEN Quiet ELSE RSend(u, Plain("create"))
          /\ UNCHANGED waiting
       \/ /\ MaxMember > 1
          /\ waiting' = [waiting EXCEPT ![u] = TRUE]
          /\ Quiet
    /\ UNCHANGED <<IsSessionOwner, SessionID, CurrentNum>>

\* Run, when the client has its endpoint; then checkIdling begins.
Run(u) ==
    /\ idle[u] = "off"
    /\ idle' = [idle EXCEPT ![u] = "sleep"]
    /\ Start(u)
    /\ UNCHANGED <<forgot, invite, answers, serverVars>>

\* OnIdle reads the bot's fields, and acts on what they were.
Goes(u, from, to) == idle[u] = from /\ idle' = [idle EXCEPT ![u] = to]
Missing(u) == IsSessionOwner[u] /\ CurrentNum[u] < MaxMember
leaveSession(u) == IF IsInSession(u) THEN RSend(u, Plain("leave")) ELSE Quiet

IdleOut(u) ==
    /\ ~IsInSession(u)
    /\ Goes(u, "sleep", "reset")
    /\ UNCHANGED <<forgot, invite, botVars, cmds, answers, serverVars>>
IdleInvite(u) ==
    /\ IsInSession(u) /\ Missing(u)
    /\ Goes(u, "sleep", "search")
    /\ UNCHANGED <<forgot, invite, botVars, cmds, answers, serverVars>>
\* The TTL may have passed or not; if not, the bot broadcasts at most.
IdleLeave(u) ==
    /\ IsInSession(u) /\ ~Missing(u)
    /\ idle[u] = "sleep"
    /\ leaveSession(u)
    /\ UNCHANGED <<forgot, idle, invite, botVars, answers, serverVars>>

\* resetSessionScenario, field by field, and startSessionScenario.
IdleReset(u) ==
    /\ Goes(u, "reset", "forget")
    /\ IsSessionOwner' = [IsSessionOwner EXCEPT ![u] = FALSE]
    /\ UNCHANGED <<forgot, invite, SessionID, CurrentNum, waiting, cmds, answers,
                   serverVars>>
IdleForget(u) ==
    /\ Goes(u, "forget", "start")
    /\ SessionID' = [SessionID EXCEPT ![u] = None]
    /\ waiting' = [waiting EXCEPT ![u] = FALSE]
    /\ forgot' = IF IsInSession(u) THEN forgot \union {u} ELSE forgot
    /\ UNCHANGED <<invite, IsSessionOwner, CurrentNum, cmds, answers,
                   serverVars>>
IdleStart(u) ==
    /\ Goes(u, "start", "sleep")
    /\ Start(u)
    /\ UNCHANGED <<forgot, invite, answers, serverVars>>

\* inviteSession: what Search returns.  It stops when its list is as long as
\* the limit, and so never when the limit has come to be zero.
Finds(u, found) ==
    LET limit == MaxMember - CurrentNum[u]
    IN  /\ found \subseteq Waiting
        /\ limit > 0 /\ Cardinality(Waiting) > limit => Cardinality(found) = limit
        /\ limit <= 0 \/ Cardinality(Waiting) <= limit => found = Waiting
SearchSome(u) ==
    /\ IsSessionOwner[u] /\ Waiting # {}
    /\ Goes(u, "search", "reserve")
    /\ \E found \in SUBSET Users :
        /\ Finds(u, found)
        /\ invite' = [invite EXCEPT ![u] = [NoInvite EXCEPT !.found = found]]
    /\ UNCHANGED <<forgot, botVars, cmds, answers, serverVars>>
\* Nobody waits: the owner leaves, unless it is no owner any more.
SearchNone(u) ==
    /\ ~IsSessionOwner[u] \/ Waiting = {}
    /\ Goes(u, "search", "sleep")
    /\ IF IsSessionOwner[u] THEN leaveSession(u) ELSE Quiet
    /\ UNCHANGED <<forgot, invite, botVars, answers, serverVars>>
\* Get and Set are two calls: in between, another owner may get the same user.
Get(u) ==
    /\ idle[u] = "reserve" /\ invite[u].got = {}
    /\ \E m \in invite[u].found :
        invite' = [invite EXCEPT ![u] =
            [found |-> @.found \ {m}, list |-> @.list,
             got |-> IF waiting[m] THEN {m} ELSE {}]]
    /\ UNCHANGED <<forgot, idle, botVars, cmds, answers, serverVars>>
Set(u) ==
    /\ idle[u] = "reserve"
    /\ \E m \in invite[u].got :
        /\ waiting' = [waiting EXCEPT ![m] = FALSE]
        /\ invite' = [invite EXCEPT ![u] =
                [found |-> @.found, got |-> {}, list |-> @.list \union {m}]]
    /\ UNCHANGED <<forgot, idle, IsSessionOwner, SessionID, CurrentNum, cmds,
                   answers, serverVars>>
SendInvite(u) ==
    /\ invite[u].found = {} /\ invite[u].got = {}
    /\ Goes(u, "reserve", "sleep")
    /\ RSend(u, Message("invite", None, 0, invite[u].list))
    /\ invite' = [invite EXCEPT ![u] = NoInvite]
    /\ UNCHANGED <<forgot, botVars, answers, serverVars>>
-----------------------------------------------------------------------------
\* The callbacks of the client.  An answer that is not OK has none.
Hear(u, t) ==
    /\ answers[u] # <<>> /\ Head(answers[u]).type = t
    /\ answers' = [answers EXCEPT ![u] = Tail(@)]
    /\ UNCHANGED <<controlVars, serverVars>>
handleSessionInvite(u) ==
    /\ Hear(u, "invite")
    /\ IF IsInSession(u) THEN Quiet
       ELSE RSend(u, Message("join", Head(answers[u]).session, 0, {}))
    /\ UNCHANGED <<IsSessionOwner, SessionID, CurrentNum, waiting>>
handleSessionJoined(u) ==
    /\ Hear(u, "joined")
    /\ RSend(u, Plain("info"))
    /\ UNCHANGED <<IsSessionOwner, SessionID, CurrentNum, waiting>>
\* Mutant of handleOnCreateSession: the bot does not keep the ID.
handleOnCreateSessionLost(u) ==
    /\ Hear(u, "create")
    /\ IsSessionOwner' = [IsSessionOwner EXCEPT ![u] = TRUE]
    /\ UNCHANGED <<SessionID, CurrentNum, waiting, cmds>>
handleOnCreateSession(u) ==
    /\ Hear(u, "create")
    /\ SessionID' = [SessionID EXCEPT ![u] = Head(answers[u]).session]
    /\ IsSessionOwner' = [IsSessionOwner EXCEPT ![u] = TRUE]
    /\ UNCHANGED <<CurrentNum, waiting, cmds>>
handleOnJoinedSession(u) ==
    /\ Hear(u, "join")
    /\ SessionID' = [SessionID EXCEPT ![u] = Head(answers[u]).session]
    /\ UNCHANGED <<IsSessionOwner, CurrentNum, waiting, cmds>>
\* Mutant of handleOnLeaveSession: the bot keeps the ID of what it left.
handleOnLeaveSessionKept(u) ==
    /\ Hear(u, "leave")
    /\ IsSessionOwner' = [IsSessionOwner EXCEPT ![u] = FALSE]
    /\ waiting' = [waiting EXCEPT ![u] = FALSE]
    /\ UNCHANGED <<SessionID, CurrentNum, cmds>>
\* CurrentNum stays what it was.
handleOnLeaveSession(u) ==
    /\ Hear(u, "leave")
    /\ IsSessionOwner' = [IsSessionOwner EXCEPT ![u] = FALSE]
    /\ SessionID' = [SessionID EXCEPT ![u] = None]
    /\ waiting' = [waiting EXCEPT ![u] = FALSE]
    /\ UNCHANGED <<CurrentNum, cmds>>
handleOnGetSessionInfo(u) ==
    /\ Hear(u, "info")
    /\ CurrentNum' = [CurrentNum EXCEPT ![u] = Head(answers[u]).num]
    /\ UNCHANGED <<IsSessionOwner, SessionID, waiting, cmds>>
-----------------------------------------------------------------------------
\* The server takes the commands of a user in their order.  A user is in one
\* session of the type at a time.
Take(u, t) ==
    /\ cmds[u] # <<>> /\ Head(cmds[u]).type = t
    /\ cmds' = [cmds EXCEPT ![u] = Tail(@)]
    /\ UNCHANGED <<controlVars, botVars>>
Room(us) == \A v \in us : Len(answers[v]) < MaxQueue
Push(us, m) == [v \in Users |-> IF v \in us THEN Append(answers[v], m)
                                ELSE answers[v]]
\* An ID that no session has had: which one, nobody tells apart.
Create(u) ==
    /\ Take(u, "create")
    /\ member[u] = None /\ Room({u})
    /\ \E s \in Sessions : creator[s] = None
    /\ LET s == CHOOSE s \in Sessions : creator[s] = None
       IN  /\ creator' = [creator EXCEPT ![s] = u]
           /\ member' = [member EXCEPT ![u] = s]
           /\ answers' = Push({u}, Message("create", s, 0, {}))
Join(u) ==
    /\ Take(u, "join")
    /\ LET s == Head(cmds[u]).session
       IN  /\ member[u] = None /\ Members(s) # {}
           /\ Cardinality(Members(s)) < MaxMember /\ Room(Members(s) \union {u})
           /\ member' = [member EXCEPT ![u] = s]
           /\ answers' = [v \in Users |->
                IF v = u THEN Append(answers[u], Message("join", s, 0, {}))
                ELSE IF v \in Members(s) THEN Append(answers[v], Plain("joined"))
                ELSE answers[v]]
    /\ UNCHANGED creator
LeaveSession(u) ==
    /\ Take(u, "leave")
    /\ member[u] # None /\ Room({u})
    /\ member' = [member EXCEPT ![u] = None]
    /\ answers' = Push({u}, Plain("leave"))
    /\ UNCHANGED creator
Info(u) ==
    /\ Take(u, "info")
    /\ member[u] # None /\ Room({u})
    /\ answers' = Push({u}, Message("info", None, Cardinality(Members(member[u])), {}))
    /\ UNCHANGED serverVars
Invite(u) ==
    /\ Take(u, "invite")
    /\ member[u] # None /\ Room(Head(cmds[u]).users)
    /\ answers' = Push(Head(cmds[u]).users, Message("invite", member[u], 0, {}))
    /\ UNCHANGED serverVars
\* In a session already, or in none, or the session is full or gone, or the
\* server has no more sessions to give.
Refuse(u) ==
    /\ \E t \in {"create", "join", "leave", "info", "invite"} :
        /\ Take(u, t)
        /\ t = "create" => member[u] # None \/ \A s \in Sessions : creator[s] # None
        /\ t = "join" => \/ member[u] # None
                         \/ Cardinality(Members(Head(cmds[u]).session)) \notin 1 .. MaxMember - 1
        /\ t \in {"leave", "info", "invite"} => member[u] = None
    /\ UNCHANGED <<answers, serverVars>>

Next ==
    \E u \in Users :
        \/ Run(u) \/ IdleOut(u) \/ IdleInvite(u) \/ IdleLeave(u)
        \/ IdleReset(u) \/ IdleForget(u) \/ IdleStart(u)
        \/ SearchSome(u) \/ SearchNone(u) \/ Get(u) \/ Set(u) \/ SendInvite(u)
        \/ handleSessionInvite(u) \/ handleSessionJoined(u)
        \/ handleOnCreateSession(u) \/ handleOnJoinedSession(u)
        \/ handleOnLeaveSession(u) \/ handleOnGetSessionInfo(u)
        \/ Create(u) \/ Join(u) \/ LeaveSession(u) \/ Info(u) \/ Invite(u)
        \/ Refuse(u)
Spec == Init /\ [][Next]_vars
-----------------------------------------------------------------------------
Coming(u, t) == \E i \in DOMAIN answers[u] : answers[u][i].type = t

\* A bot that thinks it is in a session is in that one, but for the answer to
\* its leave that it has not heard yet, and one that takes itself for the owner
\* of it has created it: whatever it had asked for before, and however OnIdle
\* runs into its callbacks.
KnowsItsSession ==
    \A u \in Users : IsInSession(u) =>
        /\ member[u] = SessionID[u] \/ Coming(u, "leave")
        /\ IsSessionOwner[u] => creator[SessionID[u]] = u

\* A bot is in a session that it does not know of, and so never leaves and never
\* fills, only if its OnIdle had found it out of session and then forgot the
\* session that a callback had heard of in between.
StrayHasForgotten ==
    \A u \in Users :
        member[u] # None /\ ~IsInSession(u) /\ ~Coming(u, "create") /\ ~Coming(u, "join")
            => u \in forgot
=============================================================================
