------------------------------ MODULE MatchBot ------------------------------
(***************************************************************************)
(* One bot of the matchmaker load test (bot/matchmaker): the loop of       *)
(* startBot acts on bot.state, a number that the answers and pushes of the *)
(* server change on another goroutine.  Below 21 the bot searches, a       *)
(* failed search adds one; at 21 it hosts; at 22 it waits in its room; at  *)
(* 23, and at any number without a case, it disconnects.                   *)
(***************************************************************************)
EXTENDS Integers, FiniteSets

CONSTANTS Interval,     \* milliseconds between two rounds of the loop
          WaitingTime,  \* how long a bot waits in its room, in the same unit
          MaxPushes     \* bound: pushes the server sends to one bot

VARIABLES isHost,       \* whether startBot made the bot a host
          state,        \* bot.state
          currentState, \* what the loop has last acted on
          noting,       \* the loop is between its switch and currentState = ...
          waitCounter,
          unanswered,   \* commands sent and not answered yet
          connected,    \* whether its client is
          pushes,
          overtaken,    \* history: an answer or a push came while noting
          addFailed     \* history: an add was refused
vars == <<isHost, state, currentState, noting, waitCounter, unanswered,
          connected, pushes, overtaken, addFailed>>

\* 17 is missing from the list of case.
Searching == (-1 .. 16) \union (18 .. 20)
Hosting == 21
Waiting == 22
Leaving == 23

TypeOK ==
    /\ isHost \in BOOLEAN
    /\ state \in Nat /\ currentState \in Nat \union {-1}
    /\ noting \in BOOLEAN
    /\ waitCounter \in Nat
    /\ unanswered \subseteq {"search", "add"}
    /\ connected \in BOOLEAN
    /\ pushes \in 0 .. MaxPushes
    /\ overtaken \in BOOLEAN /\ addFailed \in BOOLEAN

Init ==
    /\ isHost \in BOOLEAN
    /\ state = IF isHost THEN Hosting ELSE 0
    /\ currentState = -1
    /\ noting = FALSE
    /\ waitCounter = 0
    /\ unanswered = {}
    /\ connected = TRUE
    /\ pushes = 0
    /\ overtaken = FALSE
    /\ addFailed = FALSE
-----------------------------------------------------------------------------
\* The loop sleeps and looks again while the state is one it has acted on.
Idle == currentState < Waiting /\ currentState = state
Act == ~noting /\ ~Idle /\ noting' = TRUE

Send(cmd) ==
    unanswered' = IF connected THEN unanswered \union {cmd} ELSE unanswered
Disconnect == connected' = FALSE /\ unanswered' = {}

Search ==
    /\ Act
    /\ state \in Searching
    /\ Send("search")
    /\ UNCHANGED <<isHost, state, currentState, waitCounter, connected,
                   pushes, overtaken, addFailed>>
Host ==
    /\ Act
    /\ state = Hosting
    /\ Send("add")
    /\ UNCHANGED <<isHost, state, currentState, waitCounter, connected, pushes,
                   overtaken, addFailed>>
\* Mutant of Wait: the rounds are not counted.
WaitOn ==
    /\ Act
    /\ state = Waiting
    /\ waitCounter < WaitingTime
    /\ UNCHANGED <<isHost, currentState, state, waitCounter, unanswered, connected,
                   pushes, overtaken, addFailed>>
Wait ==
    /\ Act
    /\ state = Waiting
    /\ waitCounter < WaitingTime
    /\ waitCounter' = waitCounter + Interval
    /\ state' = IF waitCounter' >= WaitingTime THEN Leaving ELSE state
    /\ UNCHANGED <<isHost, currentState, unanswered, connected, pushes,
                   overtaken, addFailed>>
\* The counter goes on after a push has put a leaving bot back; past the limit
\* its value no longer matters.
WaitOver ==
    /\ Act
    /\ state = Waiting
    /\ waitCounter >= WaitingTime
    /\ state' = Leaving
    /\ UNCHANGED <<isHost, currentState, waitCounter, unanswered,
                   connected, pushes, overtaken, addFailed>>
Leave ==
    /\ Act
    /\ state \notin Searching \union {Hosting, Waiting}
    /\ state' = Leaving
    /\ Disconnect
    /\ UNCHANGED <<isHost, currentState, waitCounter, pushes, overtaken,
                   addFailed>>
\* currentState = bot.state, as it is by then.
Note ==
    /\ noting
    /\ noting' = FALSE
    /\ currentState' = state
    /\ UNCHANGED <<isHost, state, waitCounter, unanswered, connected,
                   pushes, overtaken, addFailed>>

\* The callbacks of the client.
Hear(cmds) ==
    /\ connected
    /\ overtaken' = (overtaken \/ noting)
    /\ unanswered' = unanswered \ cmds
    /\ UNCHANGED <<isHost, currentState, noting, waitCounter, connected>>
\* Mutant of OnSearchResponse: a search that failed changes nothing.
OnSearchResponseStays ==
    /\ "search" \in unanswered
    /\ state' \in {state, Waiting}
    /\ Hear({"search"})
    /\ UNCHANGED <<pushes, addFailed>>
OnSearchResponse ==
    /\ "search" \in unanswered
    /\ state' \in {state + 1, Waiting}
    /\ Hear({"search"})
    /\ UNCHANGED <<pushes, addFailed>>
OnAddResponse ==
    /\ "add" \in unanswered
    /\ \/ state' = Waiting /\ UNCHANGED addFailed
       \/ addFailed' = TRUE /\ UNCHANGED state
    /\ Hear({"add"})
    /\ UNCHANGED pushes
\* Another bot has joined the room, or it is full.
OnPush ==
    /\ pushes < MaxPushes
    /\ pushes' = pushes + 1
    /\ state' \in {Waiting, Leaving}
    /\ Hear({})
    /\ UNCHANGED addFailed

Loop == Search \/ Host \/ Wait \/ WaitOver \/ Leave \/ Note
Next == Loop \/ OnSearchResponse \/ OnAddResponse \/ OnPush
Spec == Init /\ [][Next]_vars /\ WF_vars(Loop)
-----------------------------------------------------------------------------
\* A connected bot whose loop has nothing left to do, and that waits for no
\* answer, got there in one of two ways: an answer that came before the loop
\* had noted the state it acted on, or a refused add.
QuietExplained ==
    connected /\ Idle /\ ~noting /\ unanswered = {} => overtaken \/ addFailed

\* A bot that is in its room leaves it in the end: the wait is not started
\* again by the answers and pushes that still come.
WaitEnds == state = Waiting ~> ~connected
=============================================================================
