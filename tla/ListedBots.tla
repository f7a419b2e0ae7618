----------------------------- MODULE ListedBots -----------------------------
(***************************************************************************)
(* The load tests that keep their bots in a list: bot/room and, written    *)
(* after it, bot/sync_obj.  spawnBot appends what newBot returns, which is *)
(* nil when the endpoint was refused, and nothing keeps two appends apart. *)
(* Every second printMetrics reads the list again and again, as it is at   *)
(* each time, and sets the counts of its bots to zero at the end.          *)
(***************************************************************************)
EXTENDS Integers, FiniteSets

CONSTANTS Programs,   \* "room" and "sync_obj"
          Bots,       \* the goroutines of spawnBots
          MaxCount    \* bound: messages the bots hear

VARIABLES program,
          at,         \* where spawnBot of each bot is
          bots,       \* bm.bots: the bots on the list, or nil in their place
          copy,       \* the list as the append of each bot has read it
          joined,     \* the bots whose goroutine is in its loop, in a room
          count,      \* broadcastRcvCnt, syncRcvCnt
          heard,      \* history: how many messages were heard
          main,       \* how far the main goroutine is
          printed,    \* history: the sum of the totals it has printed
          dropped     \* history: an append has dropped another one's bot
vars == <<program, at, bots, copy, joined, count, heard, main, printed, dropped>>
spawnVars == <<at, bots, copy, dropped>>

Nil(b) == at[b] = "nil"
Connects == {"connect", "append", "appending", "listed"}

TypeOK ==
    /\ program \in Programs
    /\ at \in [Bots -> Connects \union {"endpoint", "refused", "refusing", "nil"}]
    /\ bots \subseteq Bots
    /\ copy \in [Bots -> SUBSET Bots]
    /\ joined \subseteq Bots
    /\ count \in [Bots -> 0 .. MaxCount]
    /\ heard \in 0 .. MaxCount
    /\ main \in {"sleep", "metrics", "average", "reset", "crashed"}
    /\ printed \in Nat
    /\ dropped \in BOOLEAN

Init ==
    /\ program \in Programs
    /\ at = [b \in Bots |-> "endpoint"]
    /\ bots = {}
    /\ copy = [b \in Bots |-> {}]
    /\ joined = {}
    /\ count = [b \in Bots |-> 0]
    /\ heard = 0
    /\ main = "sleep"
    /\ printed = 0
    /\ dropped = FALSE
-----------------------------------------------------------------------------
GoTo(b, from, to) == at[b] = from /\ at' = [at EXCEPT ![b] = to]

\* newBot: no endpoint, or a client that connects, and an empty room for it.
Endpoint(b) ==
    /\ GoTo(b, "endpoint", "connect") \/ GoTo(b, "endpoint", "refused")
    /\ UNCHANGED <<program, bots, copy, joined, count, heard, main, printed, dropped>>
NewRoom(b) ==
    /\ GoTo(b, "connect", "append")
    /\ UNCHANGED <<program, bots, copy, joined, count, heard, main, printed, dropped>>

\* The two halves of append: the list is read, and written with one more.
AppendRead(b) ==
    /\ GoTo(b, "append", "appending") \/ GoTo(b, "refused", "refusing")
    /\ copy' = [copy EXCEPT ![b] = bots]
    /\ UNCHANGED <<program, bots, joined, count, heard, main, printed, dropped>>
\* Mutant of AppendWrite: the list that append returns is not kept.
AppendWriteLost(b) ==
    /\ GoTo(b, "appending", "listed") \/ GoTo(b, "refusing", "nil")
    /\ copy' = [copy EXCEPT ![b] = {}]
    /\ UNCHANGED <<program, bots, joined, count, heard, main, printed, dropped>>
AppendWrite(b) ==
    /\ GoTo(b, "appending", "listed") \/ GoTo(b, "refusing", "nil")
    /\ bots' = copy[b] \union {b}
    /\ copy' = [copy EXCEPT ![b] = {}]
    /\ dropped' = (dropped \/ ~ bots \subseteq copy[b])
    /\ UNCHANGED <<program, joined, count, heard, main, printed>>

\* handleOnConnect's goroutine, which may be in the room before newBot ends.
SearchAndJoin(b) ==
    /\ at[b] \in Connects
    /\ joined' = joined \union {b}
    /\ UNCHANGED <<program, spawnVars, count, heard, main, printed>>
Hear(b) ==
    /\ b \in joined
    /\ heard < MaxCount
    /\ heard' = heard + 1
    /\ count' = [count EXCEPT ![b] = @ + 1]
    /\ UNCHANGED <<program, spawnVars, joined, main, printed>>
-----------------------------------------------------------------------------
\* A range over the list reads a field of each bot.
NilListed == \E b \in bots : Nil(b)
\* The sum of the counts of some bots, one pair for each message counted.
Counted(bs) == {m \in bs \X (1 .. MaxCount) : m[2] <= count[m[1]]}
Total == Cardinality(Counted(bots))

\* printMetrics: the status of the bots, the total, the averages, the reset.
\* Nothing is divided in bot/sync_obj when the list is empty.
Crashes ==
    \/ NilListed
    \/ main = "average" /\ program = "room" /\ bots = {}
Crash ==
    /\ main # "crashed"
    /\ Crashes
    /\ main' = "crashed"
    /\ UNCHANGED <<program, spawnVars, joined, count, heard, printed>>
Pass(from, to) == main = from /\ ~Crashes /\ main' = to
PrintStatus ==
    /\ Pass("sleep", "metrics")
    /\ UNCHANGED <<program, spawnVars, joined, count, heard, printed>>
PrintTotal ==
    /\ Pass("metrics", "average")
    /\ printed' = printed + Total
    /\ UNCHANGED <<program, spawnVars, joined, count, heard>>
PrintAverage ==
    /\ Pass("average", "reset")
    /\ UNCHANGED <<program, spawnVars, joined, count, heard, printed>>
\* Mutant of ResetCnt: the first total is added to the next.
ResetCntNot ==
    /\ Pass("reset", "sleep")
    /\ UNCHANGED <<program, spawnVars, joined, count, heard, printed>>
ResetCnt ==
    /\ Pass("reset", "sleep")
    /\ count' = [b \in Bots |-> IF b \in bots THEN 0 ELSE count[b]]
    /\ UNCHANGED <<program, spawnVars, joined, heard, printed>>

Next ==
    \/ /\ main # "crashed"
       /\ \E b \in Bots : \/ Endpoint(b) \/ NewRoom(b) \/ AppendRead(b)
                          \/ AppendWrite(b) \/ SearchAndJoin(b) \/ Hear(b)
    \/ Crash \/ PrintStatus \/ PrintTotal \/ PrintAverage \/ ResetCnt
Spec == Init /\ [][Next]_vars
-----------------------------------------------------------------------------
\* The program dies of its report only when an endpoint was refused, or, in
\* bot/room alone, when the first report is due and no bot is on the list yet:
\* appends that overwrite each other never empty a list that had a bot.
CrashExplained ==
    main = "crashed" =>
        \/ \E b \in Bots : Nil(b)
        \/ program = "room" /\ \A b \in Bots : at[b] # "listed"

\* No message is reported twice, though the list grows, and messages come,
\* between the total and the reset: what has been printed was heard.  Appends
\* that overlap can undo this: one drops a bot before its count is reset, and
\* another, which had read the list before, brings the bot back.
PrintedOnce == dropped \/ printed <= heard
=============================================================================
