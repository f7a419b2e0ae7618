--------------------------- MODULE ScenarioRunner ---------------------------
(***************************************************************************)
(* The runner of bot/scenario.  A run sets up the parameters, starts a     *)
(* goroutine for each client, waits, ends the clients one by one and       *)
(* writes its results.  In server mode each request starts a run of its    *)
(* own, and all of them read the one gp that the last setup has written.   *)
(* The parameters are JSON of the user's: fits says whether their types    *)
(* are those that setup and the scenario's ParseParam ask for.             *)
(***************************************************************************)
EXTENDS Integers, FiniteSets

CONSTANTS Runs,        \* the runs: that of the command line, or those by POST
          MaxClients,  \* bound: howmany of a run
          Names        \* scenarios: "Connect", "Session" and "Ticket"

VARIABLES HowMany, zero, name,  \* gp.HowMany, gp.Duration = 0, scenarioFactory
          fits,     \* gp.Raw: every value drawn from it is of the type asked for
          at,       \* where start of each run is
          size,     \* len(clients)
          spawned,  \* its i: the goroutines it has started
          wg,       \* how far its WaitGroup is from zero
          clients,  \* how far each client is
          kind,     \* the scenario each client is of
          alone,    \* history: no other run was set up since this one
          crashed
vars == <<HowMany, zero, name, fits, at, size, spawned, wg, clients, kind, alone, crashed>>
gpVars == <<HowMany, zero, name, fits>>

Index == 0 .. MaxClients - 1
Numbers == -1 .. MaxClients  \* what howmany may be; -1 is any negative number
Kinds == Names \union {"none"}  \* no scenario before the first setup, or for a client
\* The stages of a run that has no goroutines: not set up, or not for a start.
Idle == {"off", "setup", "failed", "malformed"}
TypeOK ==
    /\ HowMany \in Numbers /\ zero \in BOOLEAN /\ name \in Kinds /\ fits \in BOOLEAN
    /\ at \in [Runs -> Idle \union {"spawn", "wait", "end", "report", "written"}]
    /\ size \in [Runs -> 0 .. MaxClients] /\ spawned \in [Runs -> 0 .. MaxClients]
    /\ wg \in [Runs -> 0 .. MaxClients]
    /\ clients \in [Runs \X Index -> {"none", "go", "unparsed", "running", "connected", "failed"}]
    /\ kind \in [Runs \X Index -> Kinds]
    /\ alone \subseteq Runs
    /\ crashed \in BOOLEAN

Init ==
    /\ HowMany = 0 /\ zero = FALSE /\ name = "none" /\ fits = TRUE
    /\ at = [r \in Runs |-> "off"]
    /\ size = [r \in Runs |-> 0] /\ spawned = [r \in Runs |-> 0]
    /\ wg = [r \in Runs |-> 0]
    /\ clients = [c \in Runs \X Index |-> "none"]
    /\ kind = [c \in Runs \X Index |-> "none"]
    /\ alone = {}
    /\ crashed = FALSE
-----------------------------------------------------------------------------
Goes(r, from, to) == at[r] = from /\ at' = [at EXCEPT ![r] = to]

\* main or handleRun, and setup: whatever run is under way reads gp from now on.
Setup(r) ==
    /\ Goes(r, "off", "setup")
    /\ HowMany' \in Numbers /\ zero' \in BOOLEAN /\ name' \in Names /\ fits' \in BOOLEAN
    /\ alone' = {r}
    /\ UNCHANGED <<size, spawned, wg, clients, kind, crashed>>
\* setup returns an error and the run ends: there is no scenario of the name
\* given, or gp was filled in part before a value of another type came.
SetupFails(r) ==
    /\ Goes(r, "off", "failed")
    /\ \/ fits' \in BOOLEAN /\ UNCHANGED <<HowMany, zero, name>>
       \/ HowMany' \in Numbers /\ zero' \in BOOLEAN /\ name' \in Names /\ fits' = FALSE
    /\ alone' = {}
    /\ UNCHANGED <<size, spawned, wg, clients, kind, crashed>>
\* What the files hold under the name of the pattern is no object.
SetupPanics(r) ==
    /\ Goes(r, "off", "malformed")
    /\ name' \in Names /\ fits' = FALSE /\ crashed' = TRUE
    /\ alone' = {r}
    /\ UNCHANGED <<HowMany, zero, size, spawned, wg, clients, kind>>

\* start: the slice and the WaitGroup.
Start(r) ==
    /\ HowMany >= 0
    /\ Goes(r, "setup", "spawn")
    /\ size' = [size EXCEPT ![r] = HowMany]
    /\ wg' = [wg EXCEPT ![r] = HowMany]
    /\ UNCHANGED <<gpVars, spawned, clients, kind, alone, crashed>>
\* No slice has a negative length.
StartPanics(r) ==
    /\ at[r] = "setup" /\ HowMany < 0
    /\ crashed' = TRUE
    /\ UNCHANGED <<gpVars, at, size, spawned, wg, clients, kind, alone>>

\* Mutant of Spawn: one goroutine more than there are clients.
SpawnMore(r) ==
    /\ at[r] = "spawn"
    /\ spawned[r] <= HowMany
    /\ clients' = [c \in DOMAIN clients |->
                    IF c = <<r, spawned[r]>> THEN "go" ELSE clients[c]]
    /\ spawned' = [spawned EXCEPT ![r] = @ + 1]
    /\ UNCHANGED <<gpVars, at, size, wg, kind, alone, crashed>>
Spawn(r) ==
    /\ at[r] = "spawn"
    /\ spawned[r] < HowMany
    /\ clients' = [clients EXCEPT ![<<r, spawned[r]>>] = "go"]
    /\ spawned' = [spawned EXCEPT ![r] = @ + 1]
    /\ UNCHANGED <<gpVars, at, size, wg, kind, alone, crashed>>
Spawned(r) ==
    /\ spawned[r] >= HowMany
    /\ Goes(r, "spawn", "wait")
    /\ UNCHANGED <<gpVars, size, spawned, wg, clients, kind, alone, crashed>>

\* The goroutine of client i takes its place in the slice, if there is one,
\* has its scenario parse its parameters and, whatever ParseParam returned,
\* asks it for its user: without parameters there is none to ask.
Begin(r, i) ==
    /\ clients[<<r, i>>] = "go"
    /\ \/ i >= size[r] /\ crashed' = TRUE /\ UNCHANGED <<clients, kind>>
       \/ /\ i < size[r]
          /\ kind' = [kind EXCEPT ![<<r, i>>] = name]
          /\ \/ /\ clients' = [clients EXCEPT ![<<r, i>>] = "running"]
                /\ UNCHANGED crashed
             \/ /\ ~fits
                /\ clients' = [clients EXCEPT ![<<r, i>>] = "unparsed"]
                /\ crashed' = TRUE
    /\ UNCHANGED <<gpVars, at, size, spawned, wg, alone>>
\* Run returns, with its client connected or with an error; then wg.Done.
Ran(r, i) ==
    /\ clients[<<r, i>>] = "running"
    /\ \E result \in {"connected", "failed"} :
        clients' = [clients EXCEPT ![<<r, i>>] = result]
    /\ wg' = [wg EXCEPT ![r] = IF @ = 0 THEN 0 ELSE @ - 1]
    /\ crashed' = (wg[r] = 0)
    /\ UNCHANGED <<gpVars, at, size, spawned, kind, alone>>

\* wg.Wait, or the duration is over, at whatever time that is.
Waited(r) ==
    /\ zero => wg[r] = 0
    /\ Goes(r, "wait", "end")
    /\ UNCHANGED <<gpVars, size, spawned, wg, clients, kind, alone, crashed>>

\* OnScenarioEnd of clients 0, 1, ..., as many as gp says now.  That of Ticket
\* takes its metrics and its connection for granted.
CanEnd(r, i) ==
    /\ i < size[r]
    /\ clients[<<r, i>>] \in {"running", "connected", "failed"}
    /\ kind[<<r, i>>] = "Ticket" => clients[<<r, i>>] = "connected"
EndClients(r) ==
    /\ \A i \in 0 .. HowMany - 1 : CanEnd(r, i)
    /\ Goes(r, "end", "report")
    /\ UNCHANGED <<gpVars, size, spawned, wg, clients, kind, alone, crashed>>
EndPanics(r) ==
    /\ at[r] = "end"
    /\ \E i \in 0 .. HowMany - 1 : ~CanEnd(r, i)
    /\ crashed' = TRUE
    /\ UNCHANGED <<gpVars, at, size, spawned, wg, clients, kind, alone>>

\* StopAllMetrics, PrintAllMetrics, WriteCSV.
WriteCSV(r) ==
    /\ Goes(r, "report", "written")
    /\ UNCHANGED <<gpVars, size, spawned, wg, clients, kind, alone, crashed>>

Next ==
    /\ ~crashed
    /\ \E r \in Runs :
        \/ Setup(r) \/ SetupFails(r) \/ SetupPanics(r) \/ Start(r) \/ StartPanics(r)
        \/ Spawn(r) \/ Spawned(r) \/ Waited(r)
        \/ EndClients(r) \/ EndPanics(r) \/ WriteCSV(r)
        \/ \E i \in Index : Begin(r, i) \/ Ran(r, i)
Spec == Init /\ [][Next]_vars
-----------------------------------------------------------------------------
\* The runs that are under way, or left goroutines that have not begun in time.
Unfinished == {r \in Runs : \/ at[r] \notin {"off", "failed", "written"}
                            \/ \E i \in Index : clients[<<r, i>>] \in {"go", "unparsed"}}
Shared == \E r \in Unfinished : r \notin alone

\* The runner's own steps (what Run, OnIdle and the callbacks of a scenario do
\* is not among them) end the process, in a run that has gp to itself, for
\* four reasons only: howmany is negative; the parameters are not of the types
\* asked for, which setup or the goroutine of a client comes to meet; a Ticket
\* client never got its connection; or the duration was over before the
\* goroutine of a client had begun.  It is never that the clients do not agree
\* with the slice or the WaitGroup of their run.
RunCrashExplained ==
    crashed =>
        \/ Shared
        \/ \E r \in Unfinished :
            \/ at[r] = "setup" /\ HowMany < 0
            \/ ~fits /\ \/ at[r] = "malformed"
                        \/ \E i \in Index : clients[<<r, i>>] = "unparsed"
            \/ /\ at[r] = "end"
               /\ \E i \in Index :
                    /\ i < size[r]
                    /\ \/ ~zero /\ clients[<<r, i>>] \in {"none", "go"}
                       \/ kind[<<r, i>>] = "Ticket" /\ clients[<<r, i>>] # "connected"
=============================================================================
