------------------------------ MODULE LoadBots ------------------------------
(***************************************************************************)
(* How the load-test programs keep their number of bots: the field, group, *)
(* matchmaker and resonance bots.  spawnBots starts one goroutine for each *)
(* bot; it asks for an endpoint and connects a client, whose OnConnect     *)
(* starts the bot's loop, and whose OnDisconnect takes the bot off the     *)
(* counter and spawns the next unless the counter says that the house is   *)
(* full.  The counter is a plain variable that the goroutines update       *)
(* without a lock (read, then write), but for the resonance bots, which    *)
(* use sync/atomic.                                                        *)
(***************************************************************************)
EXTENDS Integers, FiniteSets

CONSTANTS Programs,   \* of "field udp", "field tcp", "group udp", "group tcp",
                      \* "matchmaker" and "resonance"
          Bots,       \* the goroutines spawnBots starts, one for each bot
          MaxLives    \* bound: how many clients a goroutine connects

VARIABLES program,    \* the program that runs
          task,       \* what the goroutine of each bot is doing
          life,       \* how many clients it has connected
          loop,       \* startBot of each client: not begun, or the count read
          seen,       \* the count the OnDisconnect of a bot has read
          botCounter,
          raced       \* history: some update of botCounter has been lost
vars == <<program, task, life, loop, seen, botCounter, raced>>

howmany == Cardinality(Bots)
Loops == Bots \X (1 .. MaxLives)
\* What a goroutine is doing, and that it has ended: no endpoint, or full.
Tasks == {"spawn", "endpoint", "connecting", "connected", "disconnected",
          "uncounting", "uncounted"} \union {"refused", "dropped"}

\* Mutant of Uncounts: the matchmaker's bots stay on the counter as well.
UncountsFewer == program \notin {"field udp", "matchmaker"}

\* The field bots of UDP stay on the counter, and those of both protocols
\* look at it once more when they spawn.
Uncounts == program # "field udp"
LooksFirst == program \in {"field udp", "field tcp"}
Atomic == program = "resonance"
\* Where a goroutine begins, and where it goes to fill its place again.
Again == IF LooksFirst THEN "spawn" ELSE "endpoint"

TypeOK ==
    /\ program \in Programs
    /\ task \in [Bots -> Tasks]
    /\ life \in [Bots -> 0 .. MaxLives]
    /\ loop \in [Loops -> {"none", "begun", "counting", "runs"}]
    /\ seen \in [Bots \union Loops -> Int]
    /\ botCounter \in Int
    /\ raced \in BOOLEAN

Init ==
    /\ program \in Programs
    /\ task = [b \in Bots |-> Again]
    /\ life = [b \in Bots |-> 0]
    /\ loop = [l \in Loops |-> "none"]
    /\ seen = [x \in Bots \union Loops |-> 0]
    /\ botCounter = 0
    /\ raced = FALSE
-----------------------------------------------------------------------------
GoTo(b, from, to) == task[b] = from /\ task' = [task EXCEPT ![b] = to]

\* randomSpawnBot returns at once when the house is full.
Spawn(b) ==
    /\ GoTo(b, "spawn", IF botCounter >= howmany THEN "dropped" ELSE "endpoint")
    /\ UNCHANGED <<program, life, loop, seen, botCounter, raced>>

\* utils.Endpoint answers, or the goroutine returns.
Endpoint(b) ==
    /\ GoTo(b, "endpoint", "connecting") \/ GoTo(b, "endpoint", "refused")
    /\ UNCHANGED <<program, life, loop, seen, botCounter, raced>>

\* OnConnect: startBot in a goroutine of its own, or in the callback's.
OnConnect(b) ==
    /\ life[b] < MaxLives
    /\ GoTo(b, "connecting", "connected")
    /\ life' = [life EXCEPT ![b] = @ + 1]
    /\ loop' = [loop EXCEPT ![<<b, life[b] + 1>>] = "begun"]
    /\ UNCHANGED <<program, seen, botCounter, raced>>

OnDisconnect(b) ==
    /\ GoTo(b, "connected", IF Uncounts THEN "disconnected" ELSE "uncounted")
    /\ UNCHANGED <<program, life, loop, seen, botCounter, raced>>

\* The two halves of botCounter++ and botCounter--, by the loop or the
\* callback x: a write is lost on whoever wrote between them.
Read(x) == seen' = [seen EXCEPT ![x] = botCounter]
Write(x, n) ==
    /\ botCounter' = seen[x] + n
    /\ seen' = [seen EXCEPT ![x] = 0]
    /\ raced' = (raced \/ seen[x] # botCounter)
\* atomic.AddInt32
Add(n) == botCounter' = botCounter + n /\ UNCHANGED <<seen, raced>>

CountRead(l) ==
    /\ ~Atomic
    /\ loop[l] = "begun"
    /\ loop' = [loop EXCEPT ![l] = "counting"]
    /\ Read(l)
    /\ UNCHANGED <<program, task, life, botCounter, raced>>
CountWrite(l) ==
    /\ loop[l] = IF Atomic THEN "begun" ELSE "counting"
    /\ loop' = [loop EXCEPT ![l] = "runs"]
    /\ IF Atomic THEN Add(1) ELSE Write(l, 1)
    /\ UNCHANGED <<program, task, life>>
UncountRead(b) ==
    /\ ~Atomic
    /\ GoTo(b, "disconnected", "uncounting")
    /\ Read(b)
    /\ UNCHANGED <<program, life, loop, botCounter, raced>>
UncountWrite(b) ==
    /\ GoTo(b, IF Atomic THEN "disconnected" ELSE "uncounting", "uncounted")
    /\ IF Atomic THEN Add(-1) ELSE Write(b, -1)
    /\ UNCHANGED <<program, life, loop>>

\* The end of OnDisconnect: the bot's place is given up, or filled again.
Respawn(b) ==
    /\ GoTo(b, "uncounted", IF botCounter >= howmany THEN "dropped" ELSE Again)
    /\ UNCHANGED <<program, life, loop, seen, botCounter, raced>>

Next ==
    \/ \E b \in Bots : \/ Spawn(b) \/ Endpoint(b) \/ OnConnect(b)
                       \/ OnDisconnect(b) \/ UncountRead(b) \/ UncountWrite(b)
                       \/ Respawn(b)
    \/ \E l \in Loops : CountRead(l) \/ CountWrite(l)
Spec == Init /\ [][Next]_vars
-----------------------------------------------------------------------------
\* A bot that was disconnected loses its place for good only when an update of
\* the counter was lost before: whatever order the loops and the callbacks run
\* in, a count that is right never says that the house is full to a bot that
\* has just left it.  (The field bots over UDP never leave the counter.)  The
\* resonance bots, whose updates are atomic, always come back.
PlaceLostOnlyByRace ==
    (\E b \in Bots : task[b] = "dropped") => raced \/ program = "field udp"
=============================================================================
