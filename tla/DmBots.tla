------------------------------- MODULE DmBots -------------------------------
(***************************************************************************)
(* The direct-message load test (bot/dm).  The main goroutine spawns the   *)
(* bots one by one: each must connect before the next is tried, and is     *)
(* left out when its endpoint is refused.  StartLoadTest then starts       *)
(* Howmany goroutines, whatever the length of the list; each draws a bot   *)
(* that is not its own until it has one, and sends to it.  Messages are    *)
(* counted by goroutines of their own, for the report.                     *)
(***************************************************************************)
EXTENDS Integers, Sequences, FiniteSets, SequencesExt

CONSTANTS Howmany,     \* Params.Howmany
          MaxMessages  \* bound: messages sent

VARIABLES main,      \* what the main goroutine is at
          next,      \* its i: the bot it spawns or starts
          bots,      \* the list
          spam,      \* spam of each bot: not started, drawing, or its target
          flight,    \* messages the server has and the target has not
          sends,     \* history: calls of dm.Send
          counting,  \* countSend and countReceive goroutines still to run
          reports    \* the counts since the last report
vars == <<main, next, bots, spam, flight, sends, counting, reports>>
spawnVars == <<main, next, bots>>
countVars == <<counting, reports>>

Uids == 1 .. Howmany
NotStarted == -1
Drawing == 0
Counts == [Sent : Nat, Received : Nat]
Plus(c, which) == [c EXCEPT ![which] = @ + 1]
Zero == [Sent |-> 0, Received |-> 0]

TypeOK ==
    /\ main \in {"endpoint", "connecting", "starting", "report", "crashed"}
    /\ next \in 1 .. Howmany + 1
    /\ bots \in Seq(Uids) /\ Len(bots) <= Howmany
    /\ spam \in [Uids -> {NotStarted, Drawing} \union Uids]
    /\ flight \in 0 .. MaxMessages /\ sends \in 0 .. MaxMessages
    /\ counting \in Counts /\ reports \in Counts

Init ==
    /\ main = "endpoint" /\ next = 1 /\ bots = <<>>
    /\ spam = [u \in Uids |-> NotStarted]
    /\ flight = 0 /\ sends = 0
    /\ counting = Zero /\ reports = Zero
-----------------------------------------------------------------------------
\* main's loop: from one bot to the next, and to StartLoadTest after the last.
Following(n) == IF n = Howmany THEN "starting" ELSE "endpoint"
Advance ==
    /\ main' = Following(next)
    /\ next' = IF next = Howmany THEN 1 ELSE next + 1

\* Spawn: no endpoint, or await.Wait until OnConnect, if that ever comes.
EndpointRefused ==
    /\ main = "endpoint"
    /\ Advance
    /\ UNCHANGED <<bots, spam, flight, sends, countVars>>
Connect ==
    /\ main = "endpoint"
    /\ main' = "connecting"
    /\ UNCHANGED <<next, bots, spam, flight, sends, countVars>>
OnConnect ==
    /\ main = "connecting"
    /\ bots' = Append(bots, next)
    /\ Advance
    /\ UNCHANGED <<spam, flight, sends, countVars>>

\* go spam(bots[i], params), where bots[i] may be out of range.
StartOne ==
    /\ main = "starting"
    /\ IF next \in DOMAIN bots
       THEN /\ spam' = [spam EXCEPT ![bots[next]] = Drawing]
            /\ main' = IF next = Howmany THEN "report" ELSE "starting"
            /\ next' = next + 1
       ELSE main' = "crashed" /\ UNCHANGED <<next, spam>>
    /\ UNCHANGED <<bots, flight, sends, countVars>>

\* Mutant of Draw: the first bot drawn is the target.
DrawAny(u) ==
    /\ spam[u] = Drawing
    /\ \E t \in Range(bots) : spam' = [spam EXCEPT ![u] = t]
    /\ UNCHANGED <<spawnVars, flight, sends, countVars>>

\* getTargetUID: draws until the bot is another.
Draw(u) ==
    /\ spam[u] = Drawing
    /\ \E t \in Range(bots) : spam' = [spam EXCEPT ![u] = IF t = u THEN Drawing ELSE t]
    /\ UNCHANGED <<spawnVars, flight, sends, countVars>>
Send(u) ==
    /\ spam[u] \in Uids
    /\ sends < MaxMessages
    /\ sends' = sends + 1
    /\ flight' = flight + 1
    /\ counting' = Plus(counting, "Sent")
    /\ UNCHANGED <<spawnVars, spam, reports>>
OnPeerSend ==
    /\ flight > 0
    /\ flight' = flight - 1
    /\ counting' = Plus(counting, "Received")
    /\ UNCHANGED <<spawnVars, spam, sends, reports>>
Lost ==
    /\ flight > 0
    /\ flight' = flight - 1
    /\ UNCHANGED <<spawnVars, spam, sends, countVars>>

\* countSend and countReceive, and GetReport, under the mutex.
Count(which) ==
    /\ counting[which] > 0
    /\ counting' = [counting EXCEPT ![which] = @ - 1]
    /\ reports' = Plus(reports, which)
    /\ UNCHANGED <<spawnVars, spam, flight, sends>>
GetReport ==
    /\ main = "report"
    /\ reports' = Zero
    /\ UNCHANGED <<spawnVars, spam, flight, sends, counting>>

Next ==
    /\ main # "crashed"
    /\ \/ EndpointRefused \/ Connect \/ OnConnect \/ StartOne
       \/ \E u \in Uids : Draw(u) \/ Send(u)
       \/ OnPeerSend \/ Lost \/ GetReport
       \/ \E which \in {"Sent", "Received"} : Count(which)
Spec == Init /\ [][Next]_vars
-----------------------------------------------------------------------------
\* The load is that of all bots or of none for long: while main reports, every
\* bot of the parameters is connected and has been started, and whichever bot
\* has a target sends to one that was connected before it began.
WholeLoad ==
    /\ main = "report" => \A u \in Uids : u \in Range(bots) /\ spam[u] # NotStarted
    /\ \A u \in Uids : spam[u] \in Uids => spam[u] # u /\ spam[u] \in Range(bots)
=============================================================================
