--------------------------- MODULE TicketScenario ----------------------------
(***************************************************************************)
(* The ticket scenario of bot/scenario.  A bot issues a ticket; when it is  *)
(* matched, the owner of the match creates a room on the turn server and    *)
(* tells the others its ID through the matching server, they join it, and   *)
(* whoever hears of a join battles, leaves the room and leaves the ticket;  *)
(* the answer to that issues the next ticket.  OnIdle leaves the ticket too.*)
(*                                                                          *)
(* The two servers may be one, and then one client is both; else a client   *)
(* is made for the turn server at every match.  Callbacks of one client run *)
(* one at a time, those of two clients and OnIdle run together.             *)
(***************************************************************************)
EXTENDS Integers, Sequences, FiniteSets, SequencesExt

CONSTANTS Bots,
          None,        \* no room
          MaxMatches,  \* bound: how often a bot's ticket is matched
          MaxQueue     \* bound: commands, or answers, of one bot on one client

VARIABLES apart,     \* whether ServerTypeMM differs from ServerTypeTurn
          run,       \* "off" before Run
          trnClient, \* whether the bot has one
          handlers,  \* how often onCreateRoom and battle are registered on it
          isOwner, roomID,
          battle,    \* the calls of battle to come, and how far the first is
          cmds, answers,   \* by bot and client, in order
          ticket,    \* what the matching server has of the bot
          match,     \* the bots it was matched with, itself included
          room,      \* the bots in the room each bot created last
          matches,   \* how often the bot was matched
          lapsed,    \* history: bots whose ticket ran out
          failed,    \* history: bots whose turn client could not be made
          crashed    \* the process is gone: a callback used a client it had not
vars == <<apart, run, trnClient, handlers, isOwner, roomID, battle, cmds, answers,
          ticket, match, room, matches, lapsed, failed, crashed>>
botVars == <<trnClient, handlers, isOwner, roomID, battle>>
serverVars == <<ticket, match, room, matches, lapsed>>

ClientKinds == {"mm", "turn"}
Turn == IF apart THEN "turn" ELSE "mm"
Message(t, r) == [type |-> t, room |-> r]
Idle == [calls |-> 0, at |-> "fight"]

MessageType ==
    [type : {"issue", "leave", "broadcast", "create", "join", "leaveRoom",
             "error", "complete", "left", "created", "joined"},
     room : Bots \union {None}]
TypeOK ==
    /\ apart \in BOOLEAN
    /\ run \in [Bots -> {"off", "on"}]
    /\ trnClient \in [Bots -> BOOLEAN]
    /\ handlers \in [Bots -> 0 .. MaxMatches]
    /\ isOwner \in [Bots -> BOOLEAN]
    /\ roomID \in [Bots -> Bots \union {None}]
    /\ battle \in [Bots -> [calls : 0 .. MaxMatches,
                            at : {"fight", "leaveRoom", "leaveTicket"}]]
    /\ cmds \in [Bots -> [ClientKinds -> Seq(MessageType)]]
    /\ answers \in [Bots -> [ClientKinds -> Seq(MessageType)]]
    /\ ticket \in [Bots -> {"none", "queued", "matched"}]
    /\ match \in [Bots -> SUBSET Bots]
    /\ room \in [Bots -> SUBSET Bots]
    /\ matches \in [Bots -> 0 .. MaxMatches]
    /\ lapsed \subseteq Bots /\ failed \subseteq Bots
    /\ crashed \in BOOLEAN

Init ==
    /\ apart \in BOOLEAN
    /\ run = [b \in Bots |-> "off"]
    /\ trnClient = [b \in Bots |-> FALSE]
    /\ handlers = [b \in Bots |-> 0]
    /\ isOwner = [b \in Bots |-> FALSE]
    /\ roomID = [b \in Bots |-> None]
    /\ battle = [b \in Bots |-> Idle]
    /\ cmds = [b \in Bots |-> [c \in ClientKinds |-> <<>>]]
    /\ answers = [b \in Bots |-> [c \in ClientKinds |-> <<>>]]
    /\ ticket = [b \in Bots |-> "none"]
    /\ match = [b \in Bots |-> {}]
    /\ room = [b \in Bots |-> {}]
    /\ matches = [b \in Bots |-> 0]
    /\ lapsed = {} /\ failed = {} /\ crashed = FALSE
-----------------------------------------------------------------------------
RSend(b, c, ms) ==
    /\ Len(cmds[b][c]) + Len(ms) <= MaxQueue
    /\ cmds' = [cmds EXCEPT ![b][c] = @ \o ms]
issueTicket(b) == RSend(b, "mm", <<Message("issue", None)>>)
leaveTicket(b) == RSend(b, "mm", <<Message("leave", None)>>)
Crash == crashed' = TRUE /\ UNCHANGED cmds
Lives == UNCHANGED crashed

Run(b) ==
    /\ run[b] = "off"
    /\ run' = [run EXCEPT ![b] = "on"]
    /\ issueTicket(b) /\ Lives
    /\ UNCHANGED <<apart, botVars, answers, serverVars, failed>>
\* Mutant of OnIdle: the next ticket is issued without leaving the last.
OnIdleIssues(b) ==
    /\ run[b] = "on"
    /\ issueTicket(b) /\ Lives
    /\ UNCHANGED <<apart, run, botVars, answers, serverVars, failed>>
OnIdle(b) ==
    /\ run[b] = "on"
    /\ leaveTicket(b) /\ Lives
    /\ UNCHANGED <<apart, run, botVars, answers, serverVars, failed>>

\* The client calls what is registered for its next answer or push, unless it
\* is in a callback still.
Busy(b, c) == c = Turn /\ battle[b].calls > 0
Hear(b, c, t) ==
    /\ ~Busy(b, c)
    /\ answers[b][c] # <<>> /\ Head(answers[b][c]).type = t
    /\ UNCHANGED <<apart, run, serverVars>>
Heard(b, c) == [answers EXCEPT ![b][c] = Tail(@)]

\* It sleeps for five seconds, in which its client calls nothing else.
handleTicketIssueError(b) ==
    /\ Hear(b, "mm", "error")
    /\ answers' = Heard(b, "mm")
    /\ issueTicket(b) /\ Lives
    /\ UNCHANGED <<botVars, failed>>
handleTicketLeave(b) ==
    /\ Hear(b, "mm", "left")
    /\ answers' = Heard(b, "mm")
    /\ issueTicket(b) /\ Lives
    /\ UNCHANGED <<botVars, failed>>

\* Mutant of Connected: the matching client is not taken.
ConnectedApart(b) ==
    /\ trnClient' = [trnClient EXCEPT ![b] = apart]
    /\ handlers' = [handlers EXCEPT ![b] = IF apart THEN 1 ELSE @ + 1]
    /\ UNCHANGED failed
\* connectTurnServer: the matching client is taken, with what it has registered,
\* or another is made, with fresh queues; that may fail.
Connected(b) ==
    /\ trnClient' = [trnClient EXCEPT ![b] = TRUE]
    /\ handlers' = [handlers EXCEPT ![b] = IF apart THEN 1 ELSE @ + 1]
    /\ UNCHANGED failed
NotConnected(b) ==
    /\ apart
    /\ failed' = failed \union {b}
    /\ UNCHANGED <<trnClient, handlers>>
createRoom(b, c) ==
    IF trnClient'[b] THEN RSend(b, c, <<Message("create", None)>>) /\ Lives
    ELSE Crash
handleTicketComplete(b) ==
    LET owner == Head(answers[b]["mm"]).room = b
    IN  /\ Hear(b, "mm", "complete")
        /\ \/ Connected(b) /\ answers' = [Heard(b, "mm") EXCEPT ![b]["turn"] = <<>>]
           \/ NotConnected(b) /\ answers' = Heard(b, "mm")
        /\ isOwner' = [isOwner EXCEPT ![b] = owner]
        /\ IF owner THEN createRoom(b, Turn) ELSE UNCHANGED cmds /\ Lives
        /\ UNCHANGED <<roomID, battle>>

\* Every registered onCreateRoom runs.
onCreateRoom(b) ==
    LET r == Head(answers[b][Turn]).room
    IN  /\ Hear(b, Turn, "created")
        /\ answers' = Heard(b, Turn)
        /\ roomID' = [roomID EXCEPT ![b] = r]
        /\ RSend(b, "mm", [i \in 1 .. handlers[b] |-> Message("broadcast", r)])
        /\ Lives
        /\ UNCHANGED <<trnClient, handlers, isOwner, battle, failed>>
\* An owner hears its own broadcast and does nothing.
handleTicketBroadcast(b) ==
    LET r == Head(answers[b]["mm"]).room
    IN  /\ Hear(b, "mm", "broadcast")
        /\ answers' = Heard(b, "mm")
        /\ IF isOwner[b] THEN UNCHANGED <<roomID, cmds, crashed>>
           ELSE /\ roomID' = [roomID EXCEPT ![b] = r]
                /\ IF trnClient[b] THEN RSend(b, Turn, <<Message("join", r)>>) /\ Lives
                   ELSE Crash
        /\ UNCHANGED <<trnClient, handlers, isOwner, battle, failed>>

\* Every registered battle runs, one after the other.
Battle(b) ==
    /\ Hear(b, Turn, "joined")
    /\ answers' = Heard(b, Turn)
    /\ battle' = [battle EXCEPT ![b] = [Idle EXCEPT !.calls = handlers[b]]]
    /\ UNCHANGED <<trnClient, handlers, isOwner, roomID, cmds, failed, crashed>>
At(b, s) ==
    /\ battle[b].calls > 0 /\ battle[b].at = s
    /\ UNCHANGED <<apart, run, answers, serverVars, failed, handlers, isOwner, roomID>>
\* The battle is over, and the turn client with it when it is another.
BattleOver(b) ==
    /\ At(b, "fight")
    /\ trnClient' = IF apart THEN [trnClient EXCEPT ![b] = FALSE] ELSE trnClient
    /\ battle' = [battle EXCEPT ![b].at = "leaveRoom"]
    /\ UNCHANGED <<cmds, crashed>>
LeaveRoom(b) ==
    /\ At(b, "leaveRoom")
    /\ IF trnClient[b] THEN RSend(b, Turn, <<Message("leaveRoom", roomID[b])>>) /\ Lives
       ELSE Crash
    /\ battle' = [battle EXCEPT ![b].at = "leaveTicket"]
    /\ UNCHANGED trnClient
LeaveTicket(b) ==
    /\ At(b, "leaveTicket")
    /\ leaveTicket(b) /\ Lives
    /\ battle' = [battle EXCEPT ![b] = [calls |-> @.calls - 1, at |-> "fight"]]
    /\ UNCHANGED trnClient
-----------------------------------------------------------------------------
\* The servers take the commands of a client in their order.
Take(b, c, t) ==
    /\ cmds[b][c] # <<>> /\ Head(cmds[b][c]).type = t
    /\ cmds' = [cmds EXCEPT ![b][c] = Tail(@)]
    /\ UNCHANGED <<apart, run, botVars, failed, crashed>>
Push(bs, c, m) ==
    /\ \A b \in bs : Len(answers[b][c]) < MaxQueue
    /\ answers' = [b \in Bots |-> IF b \in bs THEN [answers[b] EXCEPT ![c] = Append(@, m)]
                                  ELSE answers[b]]

Issue(b) ==
    /\ Take(b, "mm", "issue")
    /\ ticket[b] = "none"
    /\ ticket' = [ticket EXCEPT ![b] = "queued"]
    /\ UNCHANGED <<answers, match, room, matches, lapsed>>
\* The server may refuse a ticket for reasons of its own.
RefuseIssue(b) ==
    /\ Take(b, "mm", "issue")
    /\ Push({b}, "mm", Message("error", None))
    /\ UNCHANGED serverVars
Complete ==
    \E bs \in SUBSET {b \in Bots : ticket[b] = "queued" /\ matches[b] < MaxMatches} :
        /\ Cardinality(bs) > 1
        /\ \E owner \in bs : Push(bs, "mm", Message("complete", owner))
        /\ ticket' = [b \in Bots |-> IF b \in bs THEN "matched" ELSE ticket[b]]
        /\ match' = [b \in Bots |-> IF b \in bs THEN bs ELSE match[b]]
        /\ matches' = [b \in Bots |-> IF b \in bs THEN matches[b] + 1 ELSE matches[b]]
        /\ UNCHANGED <<apart, run, botVars, cmds, failed, crashed, room, lapsed>>
\* The search ran out, which the scenario registers nothing for.
Lapse(b) ==
    /\ ticket[b] = "queued"
    /\ ticket' = [ticket EXCEPT ![b] = "none"]
    /\ lapsed' = lapsed \union {b}
    /\ UNCHANGED <<apart, run, botVars, cmds, answers, failed, crashed, match, room,
                   matches>>
Left(b) ==
    /\ Take(b, "mm", "leave")
    /\ IF ticket[b] = "none" THEN UNCHANGED answers
       ELSE Push({b}, "mm", Message("left", None))
    /\ ticket' = [ticket EXCEPT ![b] = "none"]
    /\ match' = [a \in Bots |-> IF a = b THEN {} ELSE match[a] \ {b}]
    /\ UNCHANGED <<room, matches, lapsed>>
Broadcast(b) ==
    /\ Take(b, "mm", "broadcast")
    /\ Push(match[b], "mm", Message("broadcast", Head(cmds[b]["mm"]).room))
    /\ UNCHANGED serverVars
\* A room has the name of who created it.
Create(b) ==
    /\ Take(b, Turn, "create")
    /\ room' = [room EXCEPT ![b] = {b}]
    /\ Push({b}, Turn, Message("created", b))
    /\ UNCHANGED <<ticket, match, matches, lapsed>>
\* Who is in the room already hears of the join, and the one that joins may.
Join(b) ==
    LET r == Head(cmds[b][Turn]).room
    IN  /\ Take(b, Turn, "join")
        /\ \E bs \in {room[r], room[r] \union {b}} : Push(bs, Turn, Message("joined", r))
        /\ room' = [room EXCEPT ![r] = @ \union {b}]
        /\ UNCHANGED <<ticket, match, matches, lapsed>>
Leave(b) ==
    LET r == Head(cmds[b][Turn]).room
    IN  /\ Take(b, Turn, "leaveRoom")
        /\ room' = IF r = None THEN room ELSE [room EXCEPT ![r] = @ \ {b}]
        /\ UNCHANGED <<answers, ticket, match, matches, lapsed>>

Next ==
    /\ ~crashed
    /\ \/ Complete
       \/ \E b \in Bots :
            \/ Run(b) \/ OnIdle(b)
            \/ handleTicketIssueError(b) \/ handleTicketLeave(b)
            \/ handleTicketComplete(b) \/ onCreateRoom(b)
            \/ handleTicketBroadcast(b)
            \/ Battle(b) \/ BattleOver(b) \/ LeaveRoom(b) \/ LeaveTicket(b)
            \/ Issue(b) \/ RefuseIssue(b) \/ Lapse(b) \/ Left(b)
            \/ Broadcast(b) \/ Create(b) \/ Join(b) \/ Leave(b)
Spec == Init /\ [][Next]_vars
-----------------------------------------------------------------------------
Waiting(ms, t) == Cardinality({i \in DOMAIN ms : ms[i].type = t})

\* However OnIdle, the battles and the server's answers cross, a bot that runs
\* has exactly one of a ticket, a command for one on its way, and an answer
\* that will make it ask for one: it never asks twice, and never stops asking,
\* unless the server lets its ticket run out.
OneTicketChain ==
    \A b \in Bots : run[b] = "on" =>
        LET chain == Waiting(cmds[b]["mm"], "issue") + Waiting(answers[b]["mm"], "error")
                     + Waiting(answers[b]["mm"], "left")
                     + (IF ticket[b] = "none" THEN 0 ELSE 1)
        IN  chain = 1 \/ (chain = 0 /\ b \in lapsed)

\* The process dies of a turn client that is not there only where that is a
\* client of its own: one that could not be made, or that a battle has let go
\* of and leaves its room next, or another callback needs meanwhile.  With one
\* server no push comes before the client it needs.
CrashNeedsTurn ==
    crashed => apart /\ (failed # {} \/ \E b \in Bots : battle[b].at # "fight")
=============================================================================
