----------------------------- MODULE TicketBots ------------------------------
(***************************************************************************)
(* How the ticket load test (bot/matchmaker-ticket) keeps its number of    *)
(* bots.  spawnBots looks at botCnt now and then and spawns what is        *)
(* missing; clients count themselves on and off in their callbacks, and a  *)
(* timer takes a client that lives too long off the counter and            *)
(* disconnects it.  Nothing guards botCnt.                                 *)
(***************************************************************************)
EXTENDS Integers, FiniteSets

CONSTANTS Clients,   \* bound: the clients that are ever made
          totalBots

VARIABLES round,     \* spawnBots: asleep, or its i
          client,    \* what each client has come to
          timer,     \* the goroutine that waits for clientTimeout
          dead,
          botCnt,
          seen,      \* botCnt as a callback or a timer has read it, to write it
          raced,     \* history: some update of botCnt has been lost
          hasty      \* history: a round began while a client was not counted yet
vars == <<round, client, timer, dead, botCnt, seen, raced, hasty>>
history == <<raced, hasty>>

Asleep == -1
Up == {c \in Clients : client[c] \in {"connected", "counting", "counted", "down"}}
Uncounted == {c \in Clients : client[c] \in {"connecting", "connected", "counting"}}

TypeOK ==
    /\ round \in Asleep .. Cardinality(Clients)
    /\ client \in [Clients -> {"new", "connecting", "connected", "counting",
                               "counted", "down", "uncounting", "gone"}]
    /\ timer \in [Clients -> {"set", "uncount", "uncounting", "disconnect", "over",
                           "spared"}]
    /\ dead \subseteq Clients
    /\ botCnt \in Int
    /\ seen \in [Clients \X {"client", "timer"} -> Int]
    /\ raced \in BOOLEAN /\ hasty \in BOOLEAN

Init ==
    /\ round = Asleep
    /\ client = [c \in Clients |-> "new"]
    /\ timer = [c \in Clients |-> "set"]
    /\ dead = {}
    /\ botCnt = 0
    /\ seen = [x \in Clients \X {"client", "timer"} |-> 0]
    /\ raced = FALSE /\ hasty = FALSE
-----------------------------------------------------------------------------
Begin ==
    /\ round = Asleep
    /\ totalBots > botCnt
    /\ round' = 0
    /\ hasty' = (hasty \/ Uncounted # {})
    /\ UNCHANGED <<client, timer, dead, botCnt, seen, raced>>
\* Mutant of spawnBot: one more than are missing.
spawnBotMore(c) ==
    /\ round # Asleep /\ round <= totalBots - botCnt
    /\ client[c] = "new"
    /\ round' = round + 1
    /\ client' \in {[client EXCEPT ![c] = s] : s \in {"gone", "connecting"}}
    /\ UNCHANGED <<timer, dead, botCnt, seen, history>>
\* The bound of the loop is looked at again for every i.
spawnBot(c) ==
    /\ round # Asleep /\ round < totalBots - botCnt
    /\ client[c] = "new"
    /\ round' = round + 1
    \* No endpoint, or a client that connects.
    /\ client' \in {[client EXCEPT ![c] = s] : s \in {"gone", "connecting"}}
    /\ UNCHANGED <<timer, dead, botCnt, seen, history>>
End ==
    /\ round # Asleep /\ round >= totalBots - botCnt
    /\ round' = Asleep
    /\ UNCHANGED <<client, timer, dead, botCnt, seen, history>>

GoTo(c, from, to) == client[c] = from /\ client' = [client EXCEPT ![c] = to]
\* The two halves of botCnt++ and botCnt--.
Read(c, who) == seen' = [seen EXCEPT ![<<c, who>>] = botCnt] /\ UNCHANGED <<botCnt, raced>>
Write(c, who, n) ==
    /\ botCnt' = seen[<<c, who>>] + n
    /\ raced' = (raced \/ seen[<<c, who>>] # botCnt)
    /\ seen' = [seen EXCEPT ![<<c, who>>] = 0]

Connected(c) ==
    /\ GoTo(c, "connecting", "connected")
    /\ UNCHANGED <<round, timer, dead, botCnt, seen, history>>
CountRead(c) ==
    /\ GoTo(c, "connected", "counting")
    /\ Read(c, "client")
    /\ UNCHANGED <<round, timer, dead, hasty>>
\* The ticket is issued then.
CountWrite(c) ==
    /\ GoTo(c, "counting", "counted")
    /\ Write(c, "client", 1)
    /\ UNCHANGED <<round, timer, dead, hasty>>
\* The ticket is complete, or the server or the timer has ended the client.
Down(c) ==
    /\ GoTo(c, "counted", "down")
    /\ UNCHANGED <<round, timer, dead, botCnt, seen, history>>
UncountRead(c) ==
    /\ GoTo(c, "down", "uncounting")
    /\ Read(c, "client")
    /\ UNCHANGED <<round, timer, dead, hasty>>
UncountWrite(c) ==
    /\ GoTo(c, "uncounting", "gone")
    /\ Write(c, "client", -1)
    /\ dead' = dead \union {c}
    /\ UNCHANGED <<round, timer, hasty>>

Tick(c, from, to) == timer[c] = from /\ timer' = [timer EXCEPT ![c] = to]
Timeout(c) ==
    /\ client[c] # "new" /\ (client[c] = "gone" => c \in dead)
    /\ Tick(c, "set", IF c \in dead THEN "spared" ELSE "uncount")
    /\ UNCHANGED <<round, client, dead, botCnt, seen, raced, hasty>>
TimeoutRead(c) ==
    /\ Tick(c, "uncount", "uncounting")
    /\ Read(c, "timer")
    /\ UNCHANGED <<round, client, dead, hasty>>
TimeoutWrite(c) ==
    /\ Tick(c, "uncounting", "disconnect")
    /\ Write(c, "timer", -1)
    /\ UNCHANGED <<round, client, dead, hasty>>
\* The OnDisconnect of a client that is up is called, and counts it off again.
Disconnect(c) ==
    /\ Tick(c, "disconnect", "over")
    /\ client' = [client EXCEPT ![c] = IF @ = "counted" THEN "down" ELSE @]
    /\ UNCHANGED <<round, dead, botCnt, seen, history>>

Next ==
    \/ Begin \/ End
    \/ \E c \in Clients :
        \/ spawnBot(c) \/ Connected(c) \/ CountRead(c) \/ CountWrite(c)
        \/ Down(c) \/ UncountRead(c) \/ UncountWrite(c)
        \/ Timeout(c) \/ TimeoutRead(c) \/ TimeoutWrite(c) \/ Disconnect(c)
Spec == Init /\ [][Next]_vars
-----------------------------------------------------------------------------
\* More bots than were asked for are up only after a count was lost, a round
\* that began before the bots of the last one were counted, or a timer that has
\* counted off a bot that its callback counts off too: the loop whose bound
\* moves while bots come and go never overshoots by itself.
OverfullExplained ==
    Cardinality(Up) > totalBots =>
        raced \/ hasty \/ \E c \in Clients : timer[c] \in {"disconnect", "over"}
=============================================================================
