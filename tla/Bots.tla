-------------------------------- MODULE Bots --------------------------------
(***************************************************************************)
(* The programs under bot/ together: the load tests, and the parts of      *)
(* bot/scenario.  They are processes of their own and share nothing: unit  *)
(* says which one runs in a behaviour, and the variables of the others     *)
(* have no value (those of FieldWalk keep one of their initial values).    *)
(***************************************************************************)
EXTENDS FieldWalk, FiniteSets

CONSTANTS Bots, Clients, Users, Sessions, Runs, None,
          Programs, Lists, Names,
          \* what the programs are given
          totalBots, Howmany, MaxMember, Interval, WaitingTime,
          \* bounds
          MaxLives, MaxPushes, MaxCount, MaxMessages, MaxQueue, MaxMatches,
          MaxClients

ASSUME BotsAssumption ==
    /\ IsFiniteSet(Bots) /\ IsFiniteSet(Clients) /\ IsFiniteSet(Users)
    /\ Howmany \in Nat \ {0} /\ {totalBots, Interval} \subseteq Nat
    /\ {MaxLives, MaxPushes, MaxCount, MaxMessages, MaxMatches, MaxClients} \subseteq Nat
ASSUME NoneAssumption == None \notin Users \union Sessions

VARIABLES
    unit,  \* which one runs
    program, task, life, loop, seen, botCounter, raced,
    round, client, timer, dead, botCnt, tSeen, tRaced, hasty,
    lProgram, lAt, lBots, copy, lJoined, count, heard, lMain, printed, dropped,
    main, next, bots, spam, flight, sends, counting, reports,
    idle, invite, IsSessionOwner, SessionID, CurrentNum, waiting, cmds, answers,
    member, creator, forgot,
    apart, run, trnClient, handlers, isOwner, roomID, battle, tCmds, tAnswers,
    ticket, match, room, matches, lapsed, failed, crashed,
    HowMany, zero, name, fits, at, size, spawned, wg, clients, kind, alone, rCrashed,
    isHost, state, currentState, noting, waitCounter, unanswered, connected, pushes,
    overtaken, addFailed

loadVars == <<program, task, life, loop, seen, botCounter, raced>>
ticketBotVars == <<round, client, timer, dead, botCnt, tSeen, tRaced, hasty>>
listVars == <<lProgram, lAt, lBots, copy, lJoined, count, heard, lMain, printed, dropped>>
dmVars == <<main, next, bots, spam, flight, sends, counting, reports>>
sessionVars == <<idle, invite, IsSessionOwner, SessionID, CurrentNum, waiting, cmds,
                 answers, member, creator, forgot>>
ticketVars == <<apart, run, trnClient, handlers, isOwner, roomID, battle, tCmds,
                tAnswers, ticket, match, room, matches, lapsed, failed, crashed>>
runnerVars == <<HowMany, zero, name, fits, at, size, spawned, wg, clients, kind,
                alone, rCrashed>>
matchVars == <<isHost, state, currentState, noting, waitCounter, unanswered,
               connected, pushes, overtaken, addFailed>>

\* bot/field, bot/group, bot/matchmaker and bot/resonance; one bot of
\* bot/matchmaker; bot/matchmaker-ticket; bot/room and bot/sync_obj; bot/dm.
Load == INSTANCE LoadBots
Match == INSTANCE MatchBot
TicketBot == INSTANCE TicketBots WITH seen <- tSeen, raced <- tRaced
List == INSTANCE ListedBots WITH
    Programs <- Lists, program <- lProgram, at <- lAt, bots <- lBots,
    joined <- lJoined, main <- lMain
Dm == INSTANCE DmBots
\* bot/scenario.
Session == INSTANCE SessionScenario
Ticket == INSTANCE TicketScenario WITH
    Bots <- Users, cmds <- tCmds, answers <- tAnswers
Runner == INSTANCE ScenarioRunner WITH crashed <- rCrashed

Units == {"load", "match", "ticket bots", "list", "dm", "walk", "session", "ticket",
          "runner"}

\* unit begins, whichever it is.
Begins ==
    /\ IF unit = "load" THEN Load!Init
       ELSE /\ program = None /\ task = None /\ life = None /\ loop = None
            /\ seen = None /\ botCounter = None /\ raced = None
    /\ IF unit = "ticket bots" THEN TicketBot!Init
       ELSE /\ round = None /\ client = None /\ timer = None /\ dead = None
            /\ botCnt = None /\ tSeen = None /\ tRaced = None /\ hasty = None
    /\ IF unit = "list" THEN List!Init
       ELSE /\ lProgram = None /\ lAt = None /\ lBots = None /\ copy = None
            /\ lJoined = None /\ count = None /\ heard = None /\ lMain = None
            /\ printed = None /\ dropped = None
    /\ IF unit = "dm" THEN Dm!Init
       ELSE /\ main = None /\ next = None /\ bots = None /\ spam = None
            /\ flight = None /\ sends = None /\ counting = None /\ reports = None
    /\ Init
    /\ IF unit = "session" THEN Session!Init
       ELSE /\ idle = None /\ invite = None /\ IsSessionOwner = None
            /\ SessionID = None /\ CurrentNum = None /\ waiting = None
            /\ cmds = None /\ answers = None /\ member = None /\ creator = None
            /\ forgot = None
    /\ IF unit = "ticket" THEN Ticket!Init
       ELSE /\ apart = None /\ run = None /\ trnClient = None /\ handlers = None
            /\ isOwner = None /\ roomID = None /\ battle = None /\ tCmds = None
            /\ tAnswers = None /\ ticket = None /\ match = None /\ room = None
            /\ matches = None /\ lapsed = None /\ failed = None /\ crashed = None
    /\ IF unit = "runner" THEN Runner!Init
       ELSE /\ HowMany = None /\ zero = None /\ name = None /\ fits = None
            /\ at = None /\ size = None /\ spawned = None /\ wg = None /\ clients = None
            /\ kind = None /\ alone = None /\ rCrashed = None
    /\ IF unit = "match" THEN Match!Init
       ELSE /\ isHost = None /\ state = None /\ currentState = None
            /\ noting = None /\ waitCounter = None /\ unanswered = None
            /\ connected = None /\ pushes = None /\ overtaken = None
            /\ addFailed = None
BotsInit == unit \in Units /\ Begins
BotsNext ==
    /\ UNCHANGED unit
    /\ IF unit = "load" THEN Load!Next ELSE UNCHANGED loadVars
    /\ IF unit = "ticket bots" THEN TicketBot!Next ELSE UNCHANGED ticketBotVars
    /\ IF unit = "list" THEN List!Next ELSE UNCHANGED listVars
    /\ IF unit = "dm" THEN Dm!Next ELSE UNCHANGED dmVars
    /\ IF unit = "walk" THEN Next ELSE UNCHANGED vars
    /\ IF unit = "session" THEN Session!Next ELSE UNCHANGED sessionVars
    /\ IF unit = "ticket" THEN Ticket!Next ELSE UNCHANGED ticketVars
    /\ IF unit = "runner" THEN Runner!Next ELSE UNCHANGED runnerVars
    /\ IF unit = "match" THEN Match!Next ELSE UNCHANGED matchVars
botsVars == <<unit, loadVars, matchVars, ticketBotVars, listVars, dmVars, vars,
              sessionVars, ticketVars, runnerVars>>
BotsSpec == BotsInit /\ [][BotsNext]_botsVars
-----------------------------------------------------------------------------
\* What each of them promises, where it runs.
In(u, P) == unit = u => P
TypesOK ==
    /\ In("load", Load!TypeOK) /\ In("ticket bots", TicketBot!TypeOK)
    /\ In("match", Match!TypeOK) /\ In("list", List!TypeOK) /\ In("dm", Dm!TypeOK)
    /\ In("walk", TypeOK) /\ In("session", Session!TypeOK)
    /\ In("ticket", Ticket!TypeOK) /\ In("runner", Runner!TypeOK)
PlaceLostOnlyByRace == In("load", Load!PlaceLostOnlyByRace)
QuietExplained == In("match", Match!QuietExplained)
OverfullExplained == In("ticket bots", TicketBot!OverfullExplained)
CrashExplained == In("list", List!CrashExplained)
PrintedOnce == In("list", List!PrintedOnce)
WholeLoad == In("dm", Dm!WholeLoad)
KnowsItsSession == In("session", Session!KnowsItsSession)
StrayHasForgotten == In("session", Session!StrayHasForgotten)
OneTicketChain == In("ticket", Ticket!OneTicketChain)
CrashNeedsTurn == In("ticket", Ticket!CrashNeedsTurn)
RunCrashExplained == In("runner", Runner!RunCrashExplained)
=============================================================================
