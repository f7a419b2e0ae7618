--------------------------- MODULE Scenarios_proofs --------------------------
(***************************************************************************)
(* What the scenarios of bot/scenario and the runner that starts them      *)
(* promise, for any numbers of bots, sessions, runs and clients, however   *)
(* long their queues.  RunnerInv, SessionInv and TicketInv are the         *)
(* inductive invariants.  The last theorem takes those of Bots_proofs too. *)
(***************************************************************************)
EXTENDS Bots_proofs

-----------------------------------------------------------------------------
(* The runner: ScenarioRunner.                                             *)

\* The clients a WaitGroup still waits for.
Awaited(r) == {i \in 0 .. size[r] - 1 : clients[<<r, i>>] \notin {"connected", "failed"}}
Begun(r) == at[r] \notin Runner!Idle \union {"setup"}
\* Clients are in the order they were spawned in, have a place if they ran, and
\* what came of one without parameters is known.
ClientsInOrder ==
    \A r \in Runs :
        /\ ~Begun(r) => spawned[r] = 0
        /\ \A i \in Runner!Index :
            /\ clients[<<r, i>>] = "none" <=> i >= spawned[r]
            /\ clients[<<r, i>>] \in {"running", "connected", "failed"} => i < size[r]
            /\ clients[<<r, i>>] = "unparsed" => rCrashed
WaitGroups == \A r \in Runs : Begun(r) => wg[r] = Cardinality(Awaited(r))
\* gp is the one of a run that has it to itself.
OwnParameters ==
    \A r \in alone : /\ Begun(r) => spawned[r] <= HowMany /\ size[r] = HowMany
                     /\ at[r] = "end" /\ zero => wg[r] = 0
OneAlone == \A r, s \in alone : r = s
RunnerInv == /\ Runner!TypeOK /\ ClientsInOrder /\ WaitGroups /\ OwnParameters /\ OneAlone
             /\ Runner!RunCrashExplained

RunStages == {"off", "setup", "failed", "malformed", "spawn", "wait", "end", "report",
              "written"}
ClientStages == {"none", "go", "unparsed", "running", "connected", "failed"}

\* A WaitGroup waits for finitely many, and for none if the number is zero.
LEMMA AwaitedFinite ==
    ASSUME Runner!TypeOK, NEW r \in Runs
    PROVE  /\ IsFiniteSet(Awaited(r)) /\ Cardinality(Awaited(r)) \in Nat
           /\ Cardinality(Awaited(r)) <= size[r]
           /\ Cardinality(Awaited(r)) = 0 => Awaited(r) = {}
<1>1. size[r] \in Nat
  BY BotsAssumption DEF Runner!TypeOK
<1>2. IsFiniteSet(0 .. size[r] - 1) /\ Cardinality(0 .. size[r] - 1) = size[r]
  <2>1. ASSUME NEW n \in Nat PROVE IsFiniteSet(0 .. n - 1) /\ Cardinality(0 .. n - 1) = n
    <3>1. /\ IsFiniteSet(0 .. n - 1)
          /\ Cardinality(0 .. n - 1) = IF 0 > n - 1 THEN 0 ELSE (n - 1) - 0 + 1
      BY FS_Interval
    <3> QED
      BY <3>1
  <2> QED
    BY <1>1, <2>1
<1>3. IsFiniteSet(Awaited(r)) /\ Cardinality(Awaited(r)) <= size[r]
  BY <1>2, FS_Subset DEF Awaited
<1> QED
  BY <1>3, FS_CardinalityType, FS_EmptySet

\* No run has begun.
LEMMA RunnerInit == Runner!Init => RunnerInv
<1> SUFFICES ASSUME Runner!Init PROVE RunnerInv
  OBVIOUS
<1>0. MaxClients \in Nat
  BY BotsAssumption
<1>1. /\ HowMany = 0 /\ name = "none" /\ at = [r \in Runs |-> "off"]
      /\ size = [r \in Runs |-> 0] /\ spawned = [r \in Runs |-> 0]
      /\ wg = [r \in Runs |-> 0] /\ clients = [c \in Runs \X Runner!Index |-> "none"]
      /\ kind = [c \in Runs \X Runner!Index |-> "none"] /\ alone = {}
  BY DEF Runner!Init
<1>2. zero \in BOOLEAN /\ fits \in BOOLEAN /\ rCrashed \in BOOLEAN /\ ~rCrashed
  BY DEF Runner!Init
<1>3. Runner!TypeOK
  BY <1>0, <1>1, <1>2 DEF Runner!TypeOK, Runner!Numbers, Runner!Kinds, Runner!Idle
<1>4. ClientsInOrder /\ WaitGroups /\ OwnParameters /\ OneAlone
  BY <1>0, <1>1 DEF ClientsInOrder, WaitGroups, OwnParameters, OneAlone, Begun, Runner!Idle,
     Runner!Index
<1> QED
  BY <1>2, <1>3, <1>4 DEF RunnerInv, Runner!RunCrashExplained

\* Each step of a run or a client keeps the WaitGroups and their parameters in order.
LEMMA RunnerStep == RunnerInv /\ [Runner!Next]_runnerVars => RunnerInv'
<1> SUFFICES ASSUME RunnerInv, [Runner!Next]_runnerVars PROVE RunnerInv'
  OBVIOUS
<1>0. /\ Runner!TypeOK /\ ClientsInOrder /\ WaitGroups /\ OwnParameters /\ OneAlone
      /\ Runner!RunCrashExplained
  BY DEF RunnerInv
<1>y. /\ HowMany \in Runner!Numbers /\ name \in Runner!Kinds /\ MaxClients \in Nat
      /\ Runner!Numbers = -1 .. MaxClients
      /\ at \in [Runs -> RunStages] /\ size \in [Runs -> 0 .. MaxClients]
      /\ spawned \in [Runs -> 0 .. MaxClients] /\ wg \in [Runs -> 0 .. MaxClients]
      /\ clients \in [Runs \X Runner!Index -> ClientStages]
      /\ kind \in [Runs \X Runner!Index -> Runner!Kinds] /\ alone \subseteq Runs
  BY <1>0, BotsAssumption DEF Runner!TypeOK, Runner!Idle, Runner!Numbers, RunStages, ClientStages
<1>z. zero \in BOOLEAN /\ rCrashed \in BOOLEAN /\ fits \in BOOLEAN
  BY <1>0 DEF Runner!TypeOK
<1>g. ASSUME HowMany' \in Runner!Numbers, name' \in Runner!Kinds,
             at' \in [Runs -> RunStages], size' \in [Runs -> 0 .. MaxClients],
             spawned' \in [Runs -> 0 .. MaxClients], wg' \in [Runs -> 0 .. MaxClients],
             clients' \in [Runs \X Runner!Index -> ClientStages],
             kind' \in [Runs \X Runner!Index -> Runner!Kinds], alone' \subseteq Runs,
             zero' \in BOOLEAN, fits' \in BOOLEAN, rCrashed' \in BOOLEAN
      PROVE  Runner!TypeOK'
  BY <1>g DEF Runner!TypeOK, RunStages, ClientStages, Runner!Index, Runner!Numbers, Runner!Kinds,
     Runner!Idle
<1>i. Runner!Index = 0 .. MaxClients - 1
  BY DEF Runner!Index
<1>a. ASSUME size' = size, clients' = clients, NEW r \in Runs
      PROVE  Awaited(r)' = Awaited(r)
  BY <1>a DEF Awaited
<1>s. CASE UNCHANGED runnerVars
  <2>1. UNCHANGED <<HowMany, zero, name, fits, at, size, spawned, wg, clients, kind, alone,
                    rCrashed>>
    BY <1>s DEF runnerVars
  <2>2. Runner!TypeOK' /\ ClientsInOrder' /\ OwnParameters' /\ OneAlone'
    BY <1>0, <2>1 DEF Runner!TypeOK, ClientsInOrder, OwnParameters, OneAlone, Begun,
       Runner!Index, Runner!Numbers, Runner!Kinds, Runner!Idle
  <2>3. WaitGroups'
    BY <1>0, <2>1 DEF WaitGroups, Awaited, Begun
  <2>4. Runner!RunCrashExplained'
    BY <1>0, <2>1 DEF Runner!RunCrashExplained, Runner!Shared, Runner!Unfinished,
       Runner!Index
  <2> QED
    BY <2>2, <2>3, <2>4 DEF RunnerInv
<1> SUFFICES ASSUME ~rCrashed, Runner!Next PROVE RunnerInv'
  BY <1>s DEF Runner!Next
<1>e. ~rCrashed' => Runner!RunCrashExplained'
  BY DEF Runner!RunCrashExplained
<1>b. ASSUME NEW r \in Runs, NEW s \in {"setup", "failed", "malformed"},
             at[r] = "off", at' = [at EXCEPT ![r] = s], alone' \subseteq {r},
             HowMany' \in Runner!Numbers, zero' \in BOOLEAN, name' \in Runner!Kinds,
             fits' \in BOOLEAN, UNCHANGED <<size, spawned, wg, clients, kind>>,
             rCrashed' \in BOOLEAN
      PROVE  Runner!TypeOK' /\ ClientsInOrder' /\ WaitGroups' /\ OwnParameters' /\ OneAlone'
  <2>2. Runner!TypeOK'
    <3>1. alone' \subseteq Runs /\ at' \in [Runs -> RunStages]
      BY <1>b, <1>y DEF RunStages
    <3> QED
      BY <1>g, <1>y, <1>b, <3>1
  <2>3. \A q \in Runs : Begun(q)' <=> Begun(q)
    BY <1>y, <1>b DEF Begun, Runner!Idle
  <2>4. ClientsInOrder'
    BY <1>0, <1>b, <2>3 DEF ClientsInOrder, Runner!Index
  <2>5. WaitGroups'
    BY <1>0, <1>a, <1>b, <2>3 DEF WaitGroups
  <2>6. OwnParameters' /\ OneAlone'
    <3>1. ~Begun(r)' /\ at'[r] # "end"
      BY <1>y, <1>b DEF Begun, Runner!Idle
    <3> QED
      BY <1>b, <3>1 DEF OwnParameters, OneAlone
  <2> QED
    BY <2>2, <2>4, <2>5, <2>6
<1>1. ASSUME NEW r \in Runs, Runner!Setup(r) \/ Runner!SetupFails(r) PROVE RunnerInv'
  <2>1. /\ at[r] = "off" /\ UNCHANGED <<size, spawned, wg, clients, kind, rCrashed>>
        /\ \E s \in {"setup", "failed"} : at' = [at EXCEPT ![r] = s]
        /\ alone' \subseteq {r} /\ HowMany' \in Runner!Numbers /\ zero' \in BOOLEAN
        /\ name' \in Runner!Kinds /\ fits' \in BOOLEAN
    BY <1>1, <1>y, <1>z DEF Runner!Setup, Runner!SetupFails, Runner!Goes, Runner!Kinds
  <2>2. Runner!TypeOK' /\ ClientsInOrder' /\ WaitGroups' /\ OwnParameters' /\ OneAlone'
    BY <1>b, <1>z, <2>1
  <2> QED
    BY <1>e, <2>1, <2>2 DEF RunnerInv
<1>2. ASSUME NEW r \in Runs, Runner!Start(r) PROVE RunnerInv'
  <2>1. /\ UNCHANGED <<HowMany, zero, name, fits, spawned, clients, kind, alone, rCrashed>>
        /\ at[r] = "setup" /\ at' = [at EXCEPT ![r] = "spawn"]
        /\ size' = [size EXCEPT ![r] = HowMany] /\ wg' = [wg EXCEPT ![r] = HowMany]
        /\ HowMany \in 0 .. MaxClients
    BY <1>2, <1>y DEF Runner!Start, Runner!Goes, Runner!gpVars
  <2>2. Runner!TypeOK'
    BY <1>g, <1>y, <1>z, <2>1 DEF RunStages
  <2>3. Begun(r)' /\ \A s \in Runs : s # r => (Begun(s)' <=> Begun(s))
    BY <1>y, <2>1 DEF Begun, Runner!Idle
  <2>4. spawned[r] = 0 /\ \A i \in Runner!Index : clients[<<r, i>>] = "none"
    BY <1>0, <1>i, <2>1 DEF ClientsInOrder, Begun, Runner!Idle
  <2>5. ClientsInOrder'
    BY <1>0, <1>y, <2>1, <2>3, <2>4 DEF ClientsInOrder, Runner!Index
  <2>6. WaitGroups'
    <3>1. Awaited(r)' = 0 .. HowMany - 1
      BY <1>i, <1>y, <2>1, <2>4 DEF Awaited
    <3>2. Cardinality(Awaited(r)') = HowMany
      BY <1>y, <2>1, <3>1, FS_Interval
    <3>3. \A s \in Runs : s # r => Awaited(s)' = Awaited(s) /\ wg'[s] = wg[s]
      BY <1>y, <2>1 DEF Awaited
    <3> QED
      BY <1>0, <1>y, <2>1, <2>3, <3>2, <3>3 DEF WaitGroups
  <2>7. OwnParameters' /\ OneAlone'
    BY <1>0, <1>y, <2>1, <2>3, <2>4 DEF OwnParameters, OneAlone
  <2> QED
    BY <1>e, <2>1, <2>2, <2>5, <2>6, <2>7 DEF RunnerInv
<1>3. ASSUME NEW r \in Runs, Runner!Spawn(r) PROVE RunnerInv'
  <2> DEFINE c == <<r, spawned[r]>>
  <2>1. /\ UNCHANGED <<HowMany, zero, name, fits, at, size, wg, kind, alone, rCrashed>>
        /\ at[r] = "spawn" /\ spawned[r] < HowMany
        /\ clients' = [clients EXCEPT ![c] = "go"]
        /\ spawned' = [spawned EXCEPT ![r] = @ + 1]
    BY <1>3 DEF Runner!Spawn, Runner!gpVars
  <2>2. spawned[r] \in Runner!Index /\ c \in Runs \X Runner!Index
    BY <1>i, <1>y, <2>1
  <2>3. Runner!TypeOK'
    <3>1. clients' \in [Runs \X Runner!Index -> ClientStages]
      BY <1>y, <2>1, <2>2 DEF ClientStages
    <3>2. spawned' \in [Runs -> 0 .. MaxClients]
      BY <1>y, <2>1
    <3> QED
      BY <1>g, <1>y, <1>z, <2>1, <3>1, <3>2
  <2>4. clients[c] = "none"
    BY <1>0, <1>y, <1>i, <2>2 DEF ClientsInOrder
  <2>5. \A s \in Runs : Begun(s)' <=> Begun(s)
    BY <2>1 DEF Begun, Runner!Idle
  <2>6. ClientsInOrder'
    <3>1. SUFFICES ASSUME NEW s \in Runs
                   PROVE  /\ ~Begun(s)' => spawned'[s] = 0
                          /\ \A i \in Runner!Index :
                                /\ clients'[<<s, i>>] = "none" <=> i >= spawned'[s]
                                /\ clients'[<<s, i>>] \in {"running", "connected", "failed"}
                                        => i < size'[s]
                                /\ clients'[<<s, i>>] = "unparsed" => rCrashed'
      BY DEF ClientsInOrder, Runner!Index
    <3>2. CASE s # r
      <4>1. /\ spawned'[s] = spawned[s] /\ size' = size
            /\ \A i \in Runner!Index : clients'[<<s, i>>] = clients[<<s, i>>]
        BY <1>y, <2>1, <3>2
      <4> QED
        BY <1>0, <2>1, <2>5, <4>1 DEF ClientsInOrder
    <3>3. CASE s = r
      <4>1. /\ spawned'[r] = spawned[r] + 1 /\ size' = size
            /\ \A i \in Runner!Index :
                    clients'[<<r, i>>] = IF i = spawned[r] THEN "go" ELSE clients[<<r, i>>]
        BY <1>y, <2>1, <2>2
      <4>2. Begun(r)
        BY <2>1 DEF Begun, Runner!Idle
      <4> QED
        <5>1. SUFFICES ASSUME NEW i \in Runner!Index
                       PROVE  /\ clients'[<<r, i>>] = "none" <=> i >= spawned'[r]
                              /\ clients'[<<r, i>>] \in {"running", "connected", "failed"}
                                    => i < size'[r]
                              /\ clients'[<<r, i>>] = "unparsed" => rCrashed'
          BY <2>5, <3>3, <4>2
        <5>2. /\ clients[<<r, i>>] = "none" <=> i >= spawned[r]
              /\ clients[<<r, i>>] \in {"running", "connected", "failed"} => i < size[r]
              /\ clients[<<r, i>>] = "unparsed" => rCrashed'
          BY <1>0, <2>1 DEF ClientsInOrder
        <5>3. i \in Int /\ spawned[r] \in Int
          BY <1>i, <1>y
        <5>4. CASE i = spawned[r]
          <6>1. clients'[<<r, i>>] = "go"
            BY <4>1, <5>4
          <6>2. ~(i >= spawned'[r])
            BY <4>1, <5>3, <5>4
          <6> QED
            BY <6>1, <6>2
        <5>5. CASE i # spawned[r]
          <6>1. clients'[<<r, i>>] = clients[<<r, i>>]
            BY <4>1, <5>5
          <6>2. i >= spawned'[r] <=> i >= spawned[r]
            BY <4>1, <5>3, <5>5
          <6> QED
            BY <4>1, <5>2, <6>1, <6>2
        <5> QED
          BY <5>4, <5>5
    <3> QED
      BY <3>2, <3>3
  <2>7. WaitGroups'
    <3>1. \A s \in Runs : Awaited(s)' = Awaited(s)
      <4>1. SUFFICES ASSUME NEW s \in Runs,
                            NEW i \in 0 .. size[s] - 1
                     PROVE  clients'[<<s, i>>] \in {"connected", "failed"}
                              <=> clients[<<s, i>>] \in {"connected", "failed"}
        BY <2>1 DEF Awaited
      <4>2. <<s, i>> \in Runs \X Runner!Index
        BY <1>i, <1>y
      <4>3. CASE <<s, i>> = c
        <5>1. clients'[<<s, i>>] = "go" /\ clients[<<s, i>>] = "none"
          BY <1>y, <2>1, <2>4, <4>2, <4>3
        <5> QED
          BY <5>1
      <4>4. CASE <<s, i>> # c
        <5>1. clients'[<<s, i>>] = clients[<<s, i>>]
          BY <1>y, <2>1, <4>2, <4>4
        <5> QED
          BY <5>1
      <4> QED
        BY <4>3, <4>4
    <3> QED
      BY <1>0, <2>1, <2>5, <3>1 DEF WaitGroups
  <2>8. OwnParameters' /\ OneAlone'
    <3>1. spawned'[r] <= HowMany /\ \A s \in Runs : s # r => spawned'[s] = spawned[s]
      BY <1>y, <2>1
    <3> QED
      BY <1>0, <1>y, <2>1, <2>5, <3>1 DEF OwnParameters, OneAlone
  <2> QED
    BY <1>e, <2>1, <2>3, <2>6, <2>7, <2>8 DEF RunnerInv
<1>4. ASSUME NEW r \in Runs,
             Runner!Spawned(r) \/ Runner!Waited(r) \/ Runner!EndClients(r) \/ Runner!WriteCSV(r)
      PROVE  RunnerInv'
  <2>1. /\ UNCHANGED <<HowMany, zero, name, fits, size, spawned, wg, clients, kind, alone, rCrashed>>
        /\ at[r] \in {"spawn", "wait", "end", "report"}
        /\ \E s \in {"wait", "end", "report", "written"} : at' = [at EXCEPT ![r] = s]
        /\ at'[r] = "end" /\ zero => wg[r] = 0
    BY <1>4, <1>y DEF Runner!Spawned, Runner!Waited, Runner!EndClients, Runner!WriteCSV,
       Runner!Goes, Runner!gpVars
  <2>2. Runner!TypeOK'
    BY <1>g, <1>y, <1>z, <2>1 DEF RunStages
  <2>3. \A s \in Runs : Begun(s)' <=> Begun(s)
    BY <1>y, <2>1 DEF Begun, Runner!Idle
  <2>4. ClientsInOrder'
    BY <1>0, <2>1, <2>3 DEF ClientsInOrder, Runner!Index
  <2>5. WaitGroups'
    BY <1>0, <1>a, <2>1, <2>3 DEF WaitGroups
  <2>6. OwnParameters' /\ OneAlone'
    <3>1. \A s \in Runs : s # r => at'[s] = at[s]
      BY <1>y, <2>1
    <3> QED
      BY <1>0, <1>y, <2>1, <2>3, <3>1 DEF OwnParameters, OneAlone
  <2> QED
    BY <1>e, <2>1, <2>2, <2>4, <2>5, <2>6 DEF RunnerInv
<1>5. ASSUME NEW r \in Runs, NEW i \in Runner!Index, Runner!Begin(r, i) PROVE RunnerInv'
  <2>0. UNCHANGED <<HowMany, zero, name, fits, at, size, spawned, wg, alone>>
        /\ clients[<<r, i>>] = "go"
    BY <1>5 DEF Runner!Begin, Runner!gpVars
  <2>1. CASE i < size[r]
    <3>0. i \in Int /\ size[r] \in Int
      BY <1>i, <1>y
    <3>1. PICK stage \in {"running", "unparsed"} :
            /\ clients' = [clients EXCEPT ![<<r, i>>] = stage]
            /\ kind' = [kind EXCEPT ![<<r, i>>] = name]
            /\ stage = "running" => rCrashed' = rCrashed
            /\ stage = "unparsed" => rCrashed' = TRUE /\ ~fits
      BY <1>5, <2>1, <3>0 DEF Runner!Begin
    <3>2. Runner!TypeOK'
      <4>1. clients' \in [Runs \X Runner!Index -> ClientStages]
        BY <1>y, <3>1 DEF ClientStages
      <4>2. kind' \in [Runs \X Runner!Index -> Runner!Kinds]
        BY <1>y, <3>1
      <4> QED
        BY <1>g, <1>y, <1>z, <2>0, <3>1, <4>1, <4>2
    <3>3. ClientsInOrder'
      BY <1>0, <1>y, <2>0, <2>1, <3>1 DEF ClientsInOrder, Begun, Runner!Index
    <3>4. WaitGroups'
      <4>1. \A s \in Runs : Awaited(s)' = Awaited(s)
        <5>1. SUFFICES ASSUME NEW s \in Runs,
                              NEW j \in 0 .. size[s] - 1
                       PROVE  clients'[<<s, j>>] \in {"connected", "failed"}
                                <=> clients[<<s, j>>] \in {"connected", "failed"}
          BY <2>0 DEF Awaited
        <5>2. <<s, j>> \in Runs \X Runner!Index
          BY <1>i, <1>y
        <5>3. CASE <<s, j>> = <<r, i>>
          <6>1. clients'[<<s, j>>] \in {"running", "unparsed"} /\ clients[<<s, j>>] = "go"
            BY <1>y, <2>0, <3>1, <5>2, <5>3
          <6> QED
            BY <6>1
        <5>4. CASE <<s, j>> # <<r, i>>
          <6>1. clients'[<<s, j>>] = clients[<<s, j>>]
            BY <1>y, <3>1, <5>2, <5>4
          <6> QED
            BY <6>1
        <5> QED
          BY <5>3, <5>4
      <4> QED
        BY <1>0, <2>0, <4>1 DEF WaitGroups, Begun
    <3>5. OwnParameters' /\ OneAlone'
      BY <1>0, <2>0 DEF OwnParameters, OneAlone, Begun
    <3>6. Runner!RunCrashExplained'
      <4>1. CASE stage = "running"
        BY <1>e, <3>1, <4>1
      <4>2. CASE stage = "unparsed"
        <5>1. clients'[<<r, i>>] = "unparsed" /\ ~fits'
          BY <1>y, <2>0, <3>1, <4>2
        <5>2. r \in Runner!Unfinished' /\ i \in Runner!Index'
          BY <5>1 DEF Runner!Unfinished, Runner!Index
        <5> QED
          BY <5>1, <5>2 DEF Runner!RunCrashExplained
      <4> QED
        BY <4>1, <4>2
    <3> QED
      BY <3>2, <3>3, <3>4, <3>5, <3>6 DEF RunnerInv
  <2>2. CASE ~(i < size[r])
    <3>1. UNCHANGED <<clients, kind>> /\ rCrashed' = TRUE
      BY <1>5, <2>2 DEF Runner!Begin
    <3>2. Runner!TypeOK'
      BY <1>g, <1>y, <1>z, <2>0, <3>1
    <3>3. ClientsInOrder' /\ OwnParameters' /\ OneAlone'
      BY <1>0, <2>0, <3>1 DEF ClientsInOrder, OwnParameters, OneAlone, Begun, Runner!Index
    <3>4. WaitGroups'
      BY <1>0, <1>a, <2>0, <3>1 DEF WaitGroups, Begun
    <3>5. r \notin alone
      <4>1. SUFFICES ASSUME r \in alone PROVE FALSE
        OBVIOUS
      <4>2. i < spawned[r]
        BY <1>0, <1>i, <1>y, <2>0 DEF ClientsInOrder
      <4>3. Begun(r)
        BY <1>0, <1>i, <1>y, <4>2 DEF ClientsInOrder
      <4>4. spawned[r] <= HowMany /\ size[r] = HowMany
        BY <1>0, <4>1, <4>3 DEF OwnParameters
      <4> QED
        BY <1>i, <1>y, <2>2, <4>2, <4>4
    <3>6. Runner!Shared'
      BY <2>0, <3>1, <3>5 DEF Runner!Shared, Runner!Unfinished, Runner!Index
    <3> QED
      BY <3>2, <3>3, <3>4, <3>6 DEF RunnerInv, Runner!RunCrashExplained
  <2> QED
    BY <2>1, <2>2
<1>6. ASSUME NEW r \in Runs, NEW i \in Runner!Index, Runner!Ran(r, i) PROVE RunnerInv'
  <2>1. PICK result \in {"connected", "failed"} :
            clients' = [clients EXCEPT ![<<r, i>>] = result]
    BY <1>6 DEF Runner!Ran
  <2>2. /\ UNCHANGED <<HowMany, zero, name, fits, at, size, spawned, kind, alone>>
        /\ clients[<<r, i>>] = "running"
        /\ wg' = [wg EXCEPT ![r] = IF @ = 0 THEN 0 ELSE @ - 1]
        /\ rCrashed' = (wg[r] = 0)
    BY <1>6 DEF Runner!Ran, Runner!gpVars
  <2>3. i < size[r] /\ Begun(r) /\ i \in Awaited(r)
    <3>1. i < size[r] /\ i < spawned[r]
      BY <1>0, <1>i, <1>y, <2>2 DEF ClientsInOrder
    <3>2. Begun(r)
      BY <1>0, <1>i, <1>y, <3>1 DEF ClientsInOrder
    <3> QED
      BY <1>i, <1>y, <2>2, <3>1, <3>2 DEF Awaited
  <2>4. Awaited(r)' = Awaited(r) \ {i} /\ \A s \in Runs : s # r => Awaited(s)' = Awaited(s)
    BY <1>i, <1>y, <2>1, <2>2 DEF Awaited
  <2>5. /\ Cardinality(Awaited(r)') = Cardinality(Awaited(r)) - 1
        /\ Cardinality(Awaited(r)) # 0 /\ Cardinality(Awaited(r)) \in Nat
    BY <1>0, <2>3, <2>4, AwaitedFinite, FS_RemoveElement
  <2>6. wg[r] # 0 /\ wg[r] = Cardinality(Awaited(r))
    BY <1>0, <2>3, <2>5 DEF WaitGroups
  <2>7. WaitGroups'
    <3>1. wg'[r] = wg[r] - 1 /\ \A s \in Runs : s # r => wg'[s] = wg[s]
      BY <1>y, <2>2, <2>6
    <3> QED
      BY <1>0, <2>2, <2>4, <2>5, <2>6, <3>1 DEF WaitGroups, Begun
  <2>8. Runner!TypeOK'
    <3>1. clients' \in [Runs \X Runner!Index -> ClientStages]
      BY <1>y, <2>1 DEF ClientStages
    <3>2. wg' \in [Runs -> 0 .. MaxClients]
      BY <1>y, <2>2
    <3>3. rCrashed' \in BOOLEAN
      BY <2>2
    <3> QED
      BY <1>g, <1>y, <1>z, <2>2, <3>1, <3>2, <3>3
  <2>9. ClientsInOrder'
    BY <1>0, <1>y, <2>1, <2>2, <2>3 DEF ClientsInOrder, Begun, Runner!Index
  <2>10. OwnParameters' /\ OneAlone'
    BY <1>0, <1>y, <2>2 DEF OwnParameters, OneAlone, Begun
  <2>11. ~rCrashed'
    BY <2>2, <2>6
  <2> QED
    BY <1>e, <2>7, <2>8, <2>9, <2>10, <2>11 DEF RunnerInv
<1>7. ASSUME NEW r \in Runs, Runner!EndPanics(r) PROVE RunnerInv'
  <2>1. /\ UNCHANGED <<HowMany, zero, name, fits, at, size, spawned, wg, clients, kind, alone>>
        /\ at[r] = "end" /\ rCrashed' = TRUE
    BY <1>7 DEF Runner!EndPanics, Runner!gpVars
  <2>2. PICK i \in 0 .. HowMany - 1 : ~Runner!CanEnd(r, i)
    BY <1>7 DEF Runner!EndPanics
  <2>3. Runner!TypeOK'
    BY <1>g, <1>y, <1>z, <2>1
  <2>4. ClientsInOrder' /\ OwnParameters' /\ OneAlone'
    BY <1>0, <2>1 DEF ClientsInOrder, OwnParameters, OneAlone, Begun, Runner!Index
  <2>5. WaitGroups'
    BY <1>0, <1>a, <2>1 DEF WaitGroups, Begun
  <2>6. r \in Runner!Unfinished'
    BY <2>1 DEF Runner!Unfinished
  <2>7. Runner!RunCrashExplained'
    <3>1. CASE r \notin alone
      BY <2>1, <2>6, <3>1 DEF Runner!RunCrashExplained, Runner!Shared
    <3>2. CASE r \in alone
      <4>1. size[r] = HowMany /\ (zero => wg[r] = 0) /\ Begun(r)
        BY <1>0, <2>1, <3>2 DEF OwnParameters, Begun, Runner!Idle
      <4>2. i < size[r] /\ i \in Runner!Index /\ clients[<<r, i>>] # "unparsed"
        BY <1>0, <1>i, <1>y, <4>1 DEF ClientsInOrder
      <4>3. \/ clients[<<r, i>>] \in {"none", "go"}
            \/ kind[<<r, i>>] = "Ticket" /\ clients[<<r, i>>] # "connected"
        BY <1>y, <2>2, <4>2 DEF Runner!CanEnd, ClientStages
      <4>4. clients[<<r, i>>] \in {"none", "go"} => ~zero
        <5>1. clients[<<r, i>>] \in {"none", "go"} => i \in Awaited(r)
          BY <1>y, <4>1, <4>2 DEF Awaited
        <5>2. zero => Cardinality(Awaited(r)) = 0
          BY <1>0, <4>1 DEF WaitGroups
        <5> QED
          BY <1>0, <5>1, <5>2, AwaitedFinite
      <4>5. /\ at'[r] = "end" /\ i < size'[r]
            /\ \/ ~zero' /\ clients'[<<r, i>>] \in {"none", "go"}
               \/ kind'[<<r, i>>] = "Ticket" /\ clients'[<<r, i>>] # "connected"
        BY <2>1, <4>2, <4>3, <4>4
      <4>6. Runner!Index' = Runner!Index
        BY DEF Runner!Index
      <4> QED
        BY <2>6, <4>2, <4>5, <4>6 DEF Runner!RunCrashExplained
    <3> QED
      BY <3>1, <3>2
  <2> QED
    BY <2>3, <2>4, <2>5, <2>7 DEF RunnerInv
<1>8. ASSUME NEW r \in Runs, Runner!SetupPanics(r) PROVE RunnerInv'
  <2>1. /\ at[r] = "off" /\ UNCHANGED <<HowMany, zero, size, spawned, wg, clients, kind>>
        /\ at' = [at EXCEPT ![r] = "malformed"] /\ alone' = {r}
        /\ name' \in Runner!Kinds /\ fits' = FALSE /\ rCrashed' = TRUE
    BY <1>8 DEF Runner!SetupPanics, Runner!Goes, Runner!Kinds
  <2>2. Runner!TypeOK' /\ ClientsInOrder' /\ WaitGroups' /\ OwnParameters' /\ OneAlone'
    BY <1>b, <1>y, <1>z, <2>1
  <2>3. at'[r] = "malformed"
    BY <1>y, <2>1
  <2>4. Runner!RunCrashExplained'
    BY <2>1, <2>3 DEF Runner!RunCrashExplained, Runner!Unfinished
  <2> QED
    BY <2>2, <2>4 DEF RunnerInv
<1>9. ASSUME NEW r \in Runs, Runner!StartPanics(r) PROVE RunnerInv'
  <2>1. /\ UNCHANGED <<HowMany, zero, name, fits, at, size, spawned, wg, clients, kind, alone>>
        /\ at[r] = "setup" /\ HowMany < 0 /\ rCrashed' = TRUE
    BY <1>9 DEF Runner!StartPanics, Runner!gpVars
  <2>2. Runner!TypeOK'
    BY <1>g, <1>y, <1>z, <2>1
  <2>3. ClientsInOrder' /\ OwnParameters' /\ OneAlone'
    BY <1>0, <2>1 DEF ClientsInOrder, OwnParameters, OneAlone, Begun, Runner!Index, Runner!Idle
  <2>4. WaitGroups'
    BY <1>0, <1>a, <2>1 DEF WaitGroups, Begun, Runner!Idle
  <2>5. Runner!RunCrashExplained'
    BY <2>1 DEF Runner!RunCrashExplained, Runner!Unfinished
  <2> QED
    BY <2>2, <2>3, <2>4, <2>5 DEF RunnerInv
<1> QED
  BY <1>1, <1>2, <1>3, <1>4, <1>5, <1>6, <1>7, <1>8, <1>9 DEF Runner!Next

\* The runner, where it is what runs.
LEMMA RunnerUnit == BotsSpec => [](unit = "runner" => RunnerInv)
<1>1. BotsInit => (unit = "runner" => RunnerInv)
  BY RunnerInit DEF BotsInit, Begins
<1>2. (unit = "runner" => RunnerInv) /\ [BotsNext]_botsVars => (unit = "runner" => RunnerInv)'
  BY RunnerStep DEF BotsNext, botsVars, runnerVars
<1> QED
  BY <1>1, <1>2, PTL DEF BotsSpec

\* The runner's steps end a run that has gp to itself only over a negative howmany, parameters
\* of other types than were asked for, a Ticket client without its connection, or a client
\* whose goroutine had not begun in time: for any number of runs, clients and parameters.
THEOREM RunCrashesExplained == BotsSpec => []RunCrashExplained
<1>1. (unit = "runner" => RunnerInv) => RunCrashExplained
  BY DEF RunnerInv, RunCrashExplained, In
<1> QED
  BY <1>1, RunnerUnit, PTL

-----------------------------------------------------------------------------
(* What a queue is after its last message came, or its first was heard.    *)

\* Append, element by element.
LEMMA AppendAt ==
    ASSUME NEW S, NEW as \in Seq(S), NEW m \in S
    PROVE  /\ Append(as, m) \in Seq(S)
           /\ Len(as) \in Nat /\ Len(Append(as, m)) = Len(as) + 1
           /\ \A i \in 1 .. Len(as) : Append(as, m)[i] = as[i]
           /\ Append(as, m)[Len(as) + 1] = m
<1>1. Append(as, m) \in Seq(S) /\ Len(Append(as, m)) = Len(as) + 1
  BY AppendProperties
<1>2. \A i \in 1 .. Len(as) : Append(as, m)[i] = as[i]
  BY AppendProperties
<1>3. Append(as, m)[Len(as) + 1] = m
  BY AppendProperties
<1>4. Len(as) \in Nat
  BY LenProperties
<1> QED
  BY <1>1, <1>2, <1>3, <1>4

\* Tail, element by element.
LEMMA TailAt ==
    ASSUME NEW S, NEW as \in Seq(S), as # <<>>
    PROVE  /\ Tail(as) \in Seq(S) /\ Head(as) \in S /\ Head(as) = as[1]
           /\ Len(Tail(as)) \in Nat /\ Len(as) = Len(Tail(as)) + 1
           /\ \A i \in 1 .. Len(Tail(as)) : Tail(as)[i] = as[i + 1]
<1>1. Len(as) \in Nat
  BY LenProperties
<1>2. Tail(as) \in Seq(S) /\ Head(as) \in S /\ Len(Tail(as)) = Len(as) - 1
  BY HeadTailProperties
<1>3. \A i \in 1 .. Len(Tail(as)) : Tail(as)[i] = as[i + 1]
  BY HeadTailProperties
<1>4. Len(Tail(as)) \in Nat
  BY <1>2, LenProperties
<1>5. \A n, m \in Nat : m = n - 1 => n = m + 1
  OBVIOUS
<1>6. Len(as) = Len(Tail(as)) + 1
  BY <1>1, <1>2, <1>4, <1>5
<1>7. Head(as) = as[1]
  OBVIOUS
<1> QED
  BY <1>2, <1>3, <1>4, <1>6, <1>7

\* A sequence over a set is one over a larger set.
LEMMA SeqMonotone ==
    ASSUME NEW S, NEW T, S \subseteq T, NEW s \in Seq(S)
    PROVE  s \in Seq(T)
<1>1. Len(s) \in Nat /\ s \in [1 .. Len(s) -> S]
  BY LenProperties
<1>2. s \in [1 .. Len(s) -> T]
  BY <1>1
<1> QED
  BY <1>1, <1>2

-----------------------------------------------------------------------------
(* The session scenario: SessionScenario.                                  *)

\* A leave is among the answers from the i-th to the j-th.
Leave(as, i, j) == \E k \in i .. j : as[k].type = "leave"

\* Leave looks at the messages between its ends only.
LEMMA LeaveSame ==
    ASSUME NEW as, NEW bs, NEW i \in Nat, NEW j \in Nat, \A k \in i .. j : bs[k] = as[k]
    PROVE  Leave(bs, i, j) <=> Leave(as, i, j)
BY DEF Leave

\* One more message at the end.
LEMMA LeaveLast ==
    ASSUME NEW as, NEW i \in Nat, NEW j \in Nat, i <= j + 1
    PROVE  Leave(as, i, j + 1) <=> Leave(as, i, j) \/ as[j + 1].type = "leave"
<1>1. \A k : k \in i .. j + 1 <=> k \in i .. j \/ k = j + 1
  OBVIOUS
<1> QED
  BY <1>1 DEF Leave

\* The first message apart.
LEMMA LeaveFirst ==
    ASSUME NEW as, NEW i \in Nat, NEW j \in Nat, i <= j
    PROVE  Leave(as, i, j) <=> as[i].type = "leave" \/ Leave(as, i + 1, j)
<1>1. \A k : k \in i .. j <=> k = i \/ k \in i + 1 .. j
  OBVIOUS
<1> QED
  BY <1>1 DEF Leave

\* The same messages one place further on.
LEMMA LeaveMoved ==
    ASSUME NEW as, NEW bs, NEW i \in Nat, NEW j \in Nat, \A k \in i .. j : bs[k] = as[k + 1]
    PROVE  Leave(bs, i, j) <=> Leave(as, i + 1, j + 1)
<1>1. ASSUME NEW k \in i .. j, bs[k].type = "leave" PROVE Leave(as, i + 1, j + 1)
  <2>1. k + 1 \in i + 1 .. j + 1
    OBVIOUS
  <2> QED
    BY <1>1, <2>1 DEF Leave
<1>2. ASSUME NEW k \in i + 1 .. j + 1, as[k].type = "leave" PROVE Leave(bs, i, j)
  <2>1. k - 1 \in i .. j /\ (k - 1) + 1 = k
    OBVIOUS
  <2> QED
    BY <1>2, <2>1 DEF Leave
<1> QED
  BY <1>1, <1>2 DEF Leave

\* What bot u thinks (own, sid) and its n answers still to hear (as) agree with
\* the mem and cre of the server.
Thinks(u, as, n, mem, cre, own, sid) ==
    /\ sid # None => mem = sid \/ Leave(as, 1, n)
    /\ sid # None /\ own => cre[sid] = u
    /\ own => mem # None \/ Leave(as, 1, n)
Answered(u, as, n, mem, cre) ==
    \A i \in 1 .. n :
        /\ as[i].type \in {"create", "join"} =>
                as[i].session \in Sessions /\ (mem = as[i].session \/ Leave(as, i + 1, n))
        /\ as[i].type = "create" => cre[as[i].session] = u
        /\ as[i].type = "invite" => as[i].session \in Sessions
\* It does not join as an owner.
JoinsAsGuest(as, n, own) ==
    \A i \in 1 .. n : as[i].type = "join" =>
        /\ own => Leave(as, 1, i - 1)
        /\ \A j \in 1 .. i - 1 : as[j].type = "create" => Leave(as, j + 1, i - 1)
WillKnow(u, as, n, mem, sid, fgt) ==
    mem # None /\ u \notin fgt =>
        \/ sid # None /\ ~Leave(as, 1, n)
        \/ \E i \in 1 .. n : as[i].type \in {"create", "join"} /\ ~Leave(as, i + 1, n)
Agrees(u, as, n, mem, cre, own, sid, fgt) ==
    /\ Thinks(u, as, n, mem, cre, own, sid) /\ Answered(u, as, n, mem, cre)
    /\ JoinsAsGuest(as, n, own) /\ WillKnow(u, as, n, mem, sid, fgt)

\* What an append does to every range of a queue.
LEMMA Appended ==
    ASSUME NEW as, NEW bs, NEW n \in Nat, \A i \in 1 .. n : bs[i] = as[i]
    PROVE  /\ \A i \in 1 .. n + 1 : Leave(bs, i, n + 1)
                            <=> Leave(as, i, n) \/ bs[n + 1].type = "leave"
           /\ \A i \in 1 .. n + 1, j \in 0 .. n : Leave(bs, i, j) <=> Leave(as, i, j)
           /\ ~Leave(bs, n + 2, n + 1)
<1>1. \A i \in 1 .. n + 1, j \in 0 .. n : Leave(bs, i, j) <=> Leave(as, i, j)
  <2> TAKE i \in 1 .. n + 1, j \in 0 .. n
  <2>1. i \in Nat /\ j \in Nat /\ \A k \in i .. j : k \in 1 .. n
    OBVIOUS
  <2>2. \A k \in i .. j : bs[k] = as[k]
    BY <2>1
  <2> QED
    BY <2>1, <2>2, LeaveSame
<1>2. ASSUME NEW i \in 1 .. n + 1 
      PROVE  Leave(bs, i, n + 1) <=> Leave(as, i, n) \/ bs[n + 1].type = "leave"
  <2>1. i \in Nat /\ i <= n + 1 /\ n \in 0 .. n
    OBVIOUS
  <2>2. Leave(bs, i, n + 1) <=> Leave(bs, i, n) \/ bs[n + 1].type = "leave"
    BY <2>1, LeaveLast
  <2> QED
    BY <1>1, <2>1, <2>2
<1>3. ~Leave(bs, n + 2, n + 1)
  BY DEF Leave
<1> QED
  BY <1>1, <1>2, <1>3

\* What the loss of the first message does to every range of a queue.
LEMMA Heard ==
    ASSUME NEW as, NEW bs, NEW n \in Nat, \A i \in 1 .. n : bs[i] = as[i + 1]
    PROVE  /\ Leave(as, 1, n + 1) <=> as[1].type = "leave" \/ Leave(bs, 1, n)
           /\ \A i \in 1 .. n + 1, j \in 0 .. n : Leave(bs, i, j) <=> Leave(as, i + 1, j + 1)
           /\ \A j \in 0 .. n : Leave(as, 1, j + 1) <=> as[1].type = "leave" \/ Leave(as, 2, j + 1)
<1>1. \A i \in 1 .. n + 1, j \in 0 .. n : Leave(bs, i, j) <=> Leave(as, i + 1, j + 1)
  <2> TAKE i \in 1 .. n + 1, j \in 0 .. n
  <2>1. i \in Nat /\ j \in Nat /\ \A k \in i .. j : k \in 1 .. n
    OBVIOUS
  <2>2. \A k \in i .. j : bs[k] = as[k + 1]
    BY <2>1
  <2> QED
    BY <2>1, <2>2, LeaveMoved
<1>2. \A j \in 0 .. n : Leave(as, 1, j + 1) <=> as[1].type = "leave" \/ Leave(as, 2, j + 1)
  <2> TAKE j \in 0 .. n
  <2>1. 1 \in Nat /\ j + 1 \in Nat /\ 1 <= j + 1 /\ 1 + 1 = 2
    OBVIOUS
  <2>2. Leave(as, 1, j + 1) <=> as[1].type = "leave" \/ Leave(as, 1 + 1, j + 1)
    BY <2>1, LeaveFirst
  <2> QED
    BY <2>1, <2>2
<1>3. 1 \in 1 .. n + 1 /\ n \in 0 .. n /\ 1 + 1 = 2
  OBVIOUS
<1> QED
  BY <1>1, <1>2, <1>3

\* Answers that are about others change nothing.
LEMMA OtherAppended ==
    ASSUME NEW u, NEW as, NEW bs, NEW n \in Nat, NEW mem, NEW cre, NEW own, NEW sid, NEW fgt,
           Agrees(u, as, n, mem, cre, own, sid, fgt), \A i \in 1 .. n : bs[i] = as[i],
           bs[n + 1].type \notin {"create", "join", "leave"},
           bs[n + 1].type = "invite" => bs[n + 1].session \in Sessions
    PROVE  Agrees(u, bs, n + 1, mem, cre, own, sid, fgt)
<1>1. /\ \A i \in 1 .. n + 1 : Leave(bs, i, n + 1) <=> Leave(as, i, n)
      /\ \A i \in 1 .. n + 1, j \in 0 .. n : Leave(bs, i, j) <=> Leave(as, i, j)
  BY Appended
<1>2. /\ \A i \in 1 .. n : i \in 1 .. n + 1 /\ i + 1 \in 1 .. n + 1 /\ i - 1 \in 0 .. n
      /\ \A i \in 1 .. n + 1 : i \in 1 .. n \/ i = n + 1
      /\ \A i \in 1 .. n : \A j \in 1 .. i - 1 : j \in 1 .. n
      /\ 1 \in 1 .. n + 1
  OBVIOUS
<1>3. Thinks(u, bs, n + 1, mem, cre, own, sid)
  BY <1>1, <1>2 DEF Agrees, Thinks
<1>4. Answered(u, bs, n + 1, mem, cre)
  BY <1>1, <1>2 DEF Agrees, Answered
<1>5. JoinsAsGuest(bs, n + 1, own)
  BY <1>1, <1>2 DEF Agrees, JoinsAsGuest
<1>6. WillKnow(u, bs, n + 1, mem, sid, fgt)
  BY <1>1, <1>2 DEF Agrees, WillKnow
<1> QED
  BY <1>3, <1>4, <1>5, <1>6 DEF Agrees

\* Nor does hearing them.
LEMMA OtherHeard ==
    ASSUME NEW u, NEW as, NEW bs, NEW n \in Nat, NEW mem, NEW cre, NEW own, NEW sid, NEW fgt,
           Agrees(u, as, n + 1, mem, cre, own, sid, fgt), \A i \in 1 .. n : bs[i] = as[i + 1],
           as[1].type \notin {"create", "join", "leave"}
    PROVE  Agrees(u, bs, n, mem, cre, own, sid, fgt)
<1>1. /\ Leave(as, 1, n + 1) <=> Leave(bs, 1, n)
      /\ \A i \in 1 .. n + 1, j \in 0 .. n : Leave(bs, i, j) <=> Leave(as, i + 1, j + 1)
      /\ \A j \in 0 .. n : Leave(as, 1, j + 1) <=> Leave(as, 2, j + 1)
  BY Heard
<1>2. /\ \A i \in 1 .. n : i + 1 \in 1 .. n + 1 /\ i - 1 \in 0 .. n /\ (i - 1) + 1 = (i + 1) - 1
                           /\ i \in 1 .. n + 1
      /\ \A i \in 1 .. n + 1 : i = 1 \/ (i - 1 \in 1 .. n /\ (i - 1) + 1 = i)
      /\ \A i \in 1 .. n : \A j \in 1 .. i - 1 : j \in 1 .. n /\ j + 1 \in 1 .. (i + 1) - 1
      /\ 1 \in 1 .. n + 1 /\ n \in 0 .. n /\ 1 + 1 = 2
  OBVIOUS
<1>3. Thinks(u, bs, n, mem, cre, own, sid)
  BY <1>1 DEF Agrees, Thinks
<1>4. Answered(u, bs, n, mem, cre)
  <2>1. ASSUME NEW i \in 1 .. n
        PROVE  /\ bs[i].type \in {"create", "join"} =>
                    bs[i].session \in Sessions /\ (mem = bs[i].session \/ Leave(bs, i + 1, n))
               /\ bs[i].type = "create" => cre[bs[i].session] = u
               /\ bs[i].type = "invite" => bs[i].session \in Sessions
    <3>1. i + 1 \in 1 .. n + 1 /\ bs[i] = as[i + 1]
      BY <1>2
    <3>2. Leave(bs, i + 1, n) <=> Leave(as, (i + 1) + 1, n + 1)
      BY <1>1, <1>2, <3>1
    <3> QED
      BY <3>1, <3>2 DEF Agrees, Answered
  <2> QED
    BY <2>1 DEF Answered
<1>5. JoinsAsGuest(bs, n, own)
  <2>1. ASSUME NEW i \in 1 .. n, bs[i].type = "join"
        PROVE  /\ own => Leave(bs, 1, i - 1)
               /\ \A j \in 1 .. i - 1 : bs[j].type = "create" => Leave(bs, j + 1, i - 1)
    <3>1. /\ own => Leave(as, 1, (i + 1) - 1)
          /\ \A j \in 1 .. (i + 1) - 1 : as[j].type = "create" => Leave(as, j + 1, (i + 1) - 1)
      BY <1>2, <2>1 DEF Agrees, JoinsAsGuest
    <3>2. own => Leave(bs, 1, i - 1)
      <4>1. i - 1 \in 0 .. n /\ (i - 1) + 1 = (i + 1) - 1 /\ 1 \in 1 .. n + 1 /\ 1 + 1 = 2
        OBVIOUS
      <4>2. Leave(bs, 1, i - 1) <=> Leave(as, 1 + 1, (i - 1) + 1)
        BY <1>1, <4>1
      <4>3. Leave(as, 1, (i - 1) + 1) <=> Leave(as, 2, (i - 1) + 1)
        BY <1>1, <4>1
      <4> QED
        BY <3>1, <4>1, <4>2, <4>3
    <3>3. ASSUME NEW j \in 1 .. i - 1, bs[j].type = "create"
          PROVE  Leave(bs, j + 1, i - 1)
      <4>1. Leave(as, (j + 1) + 1, (i - 1) + 1)
        BY <1>2, <3>1, <3>3
      <4>2. j + 1 \in 1 .. n + 1 /\ i - 1 \in 0 .. n
        OBVIOUS
      <4> QED
        BY <1>1, <4>1, <4>2
    <3> QED
      BY <3>2, <3>3
  <2> QED
    BY <2>1 DEF JoinsAsGuest
<1>6. WillKnow(u, bs, n, mem, sid, fgt)
  <2>1. ASSUME NEW i \in 1 .. n + 1, as[i].type \in {"create", "join"}, ~Leave(as, i + 1, n + 1)
        PROVE  \E k \in 1 .. n : bs[k].type \in {"create", "join"} /\ ~Leave(bs, k + 1, n)
    <3>1. i - 1 \in 1 .. n /\ bs[i - 1] = as[i]
      BY <1>2, <2>1
    <3>2. Leave(bs, (i - 1) + 1, n) <=> Leave(as, ((i - 1) + 1) + 1, n + 1)
      BY <1>1, <1>2, <3>1
    <3> QED
      BY <1>2, <2>1, <3>1, <3>2
  <2> QED
    BY <1>1, <2>1 DEF Agrees, WillKnow
<1> QED
  BY <1>3, <1>4, <1>5, <1>6 DEF Agrees

\* The server has put the user in a session, and says so.
LEMMA EnterAppended ==
    ASSUME NEW u, NEW as, NEW bs, NEW n \in Nat, NEW cre, NEW own, NEW sid, NEW fgt,
           NEW s \in Sessions, Agrees(u, as, n, None, cre, own, sid, fgt),
           \A i \in 1 .. n : bs[i] = as[i], None \notin Sessions,
           bs[n + 1].type \in {"create", "join"}, bs[n + 1].session = s,
           bs[n + 1].type = "create" => cre[s] = u
    PROVE  Agrees(u, bs, n + 1, s, cre, own, sid, fgt)
<1>1. /\ \A i \in 1 .. n + 1 : Leave(bs, i, n + 1) <=> Leave(as, i, n)
      /\ \A i \in 1 .. n + 1, j \in 0 .. n : Leave(bs, i, j) <=> Leave(as, i, j)
      /\ ~Leave(bs, n + 2, n + 1)
  BY Appended
<1>2. /\ \A i \in 1 .. n : i \in 1 .. n + 1 /\ i + 1 \in 1 .. n + 1 /\ i - 1 \in 0 .. n
      /\ \A i \in 1 .. n + 1 : i \in 1 .. n \/ i = n + 1
      /\ \A i \in 1 .. n : \A j \in 1 .. i - 1 : j \in 1 .. n
      /\ 1 \in 1 .. n + 1 /\ (n + 1) - 1 = n /\ n \in 0 .. n /\ n + 1 \in 1 .. n + 1
      /\ (n + 1) + 1 = n + 2
  OBVIOUS
\* It was in none: each session it heard of, or is to hear of, it leaves first.
<1>3. /\ sid # None => Leave(as, 1, n)
      /\ own => Leave(as, 1, n)
      /\ \A i \in 1 .. n : as[i].type \in {"create", "join"} => Leave(as, i + 1, n)
  BY DEF Agrees, Thinks, Answered
<1>4. Thinks(u, bs, n + 1, s, cre, own, sid)
  BY <1>1, <1>2, <1>3 DEF Agrees, Thinks
<1>5. Answered(u, bs, n + 1, s, cre)
  <2>1. ASSUME NEW i \in 1 .. n
        PROVE  /\ bs[i].type \in {"create", "join"} =>
                    bs[i].session \in Sessions /\ Leave(bs, i + 1, n + 1)
               /\ bs[i].type = "create" => cre[bs[i].session] = u
               /\ bs[i].type = "invite" => bs[i].session \in Sessions
    BY <1>1, <1>2, <1>3 DEF Agrees, Answered
  <2> QED
    BY <1>2, <2>1 DEF Answered
<1>6. JoinsAsGuest(bs, n + 1, own)
  <2>1. ASSUME NEW i \in 1 .. n, bs[i].type = "join"
        PROVE  /\ own => Leave(bs, 1, i - 1)
               /\ \A j \in 1 .. i - 1 : bs[j].type = "create" => Leave(bs, j + 1, i - 1)
    BY <1>1, <1>2, <2>1 DEF Agrees, JoinsAsGuest
  <2>2. /\ own => Leave(bs, 1, n)
        /\ \A j \in 1 .. n : bs[j].type = "create" => Leave(bs, j + 1, n)
    BY <1>1, <1>2, <1>3
  <2> QED
    BY <1>2, <2>1, <2>2 DEF JoinsAsGuest
<1>7. WillKnow(u, bs, n + 1, s, sid, fgt)
  <2>1. bs[n + 1].type \in {"create", "join"} /\ ~Leave(bs, (n + 1) + 1, n + 1)
    BY <1>1, <1>2
  <2> QED
    BY <1>2, <2>1 DEF WillKnow
<1> QED
  BY <1>4, <1>5, <1>6, <1>7 DEF Agrees

\* It has taken the user out of its session.
LEMMA LeaveAppended ==
    ASSUME NEW u, NEW as, NEW bs, NEW n \in Nat, NEW mem, NEW cre, NEW own, NEW sid, NEW fgt,
           Agrees(u, as, n, mem, cre, own, sid, fgt), \A i \in 1 .. n : bs[i] = as[i],
           bs[n + 1].type = "leave"
    PROVE  Agrees(u, bs, n + 1, None, cre, own, sid, fgt)
<1>1. /\ \A i \in 1 .. n + 1 : Leave(bs, i, n + 1)
      /\ \A i \in 1 .. n + 1, j \in 0 .. n : Leave(bs, i, j) <=> Leave(as, i, j)
  BY Appended
<1>2. /\ \A i \in 1 .. n : i \in 1 .. n + 1 /\ i + 1 \in 1 .. n + 1 /\ i - 1 \in 0 .. n
      /\ \A i \in 1 .. n + 1 : i \in 1 .. n \/ i = n + 1
      /\ \A i \in 1 .. n : \A j \in 1 .. i - 1 : j \in 1 .. n
      /\ 1 \in 1 .. n + 1
  OBVIOUS
<1>3. Thinks(u, bs, n + 1, None, cre, own, sid)
  BY <1>1, <1>2 DEF Agrees, Thinks
<1>4. Answered(u, bs, n + 1, None, cre)
  BY <1>1, <1>2 DEF Agrees, Answered
<1>5. JoinsAsGuest(bs, n + 1, own)
  BY <1>1, <1>2 DEF Agrees, JoinsAsGuest
<1> QED
  BY <1>3, <1>4, <1>5 DEF Agrees, WillKnow

\* The bot hears of one of these.
LEMMA EnterHeard ==
    ASSUME NEW u, NEW as, NEW bs, NEW n \in Nat, NEW mem, NEW cre, NEW own \in BOOLEAN,
           NEW own2 \in BOOLEAN, NEW sid, NEW fgt,
           Agrees(u, as, n + 1, mem, cre, own, sid, fgt), \A i \in 1 .. n : bs[i] = as[i + 1],
           None \notin Sessions,
           \/ as[1].type = "create" /\ own2 = TRUE
           \/ as[1].type = "join" /\ own2 = own
    PROVE  Agrees(u, bs, n, mem, cre, own2, as[1].session, fgt)
<1>1. /\ \A i \in 1 .. n + 1, j \in 0 .. n : Leave(bs, i, j) <=> Leave(as, i + 1, j + 1)
      /\ \A j \in 0 .. n : Leave(as, 1, j + 1) <=> Leave(as, 2, j + 1)
  BY Heard
<1>2. /\ \A i \in 1 .. n : i + 1 \in 1 .. n + 1 /\ i - 1 \in 0 .. n /\ (i - 1) + 1 = (i + 1) - 1
                           /\ i \in 1 .. n + 1
      /\ \A i \in 1 .. n + 1 : i = 1 \/ (i - 1 \in 1 .. n /\ (i - 1) + 1 = i)
      /\ \A i \in 1 .. n : \A j \in 1 .. i - 1 : j \in 1 .. n /\ j + 1 \in 1 .. (i + 1) - 1
      /\ 1 \in 1 .. n + 1 /\ n \in 0 .. n /\ 1 + 1 = 2
  OBVIOUS
<1>3. /\ as[1].session \in Sessions
      /\ mem = as[1].session \/ Leave(as, 2, n + 1)
      /\ as[1].type = "create" => cre[as[1].session] = u
  BY <1>2 DEF Agrees, Answered
<1>4. Leave(bs, 1, n) <=> Leave(as, 2, n + 1)
  <2>1. Leave(bs, 1, n) <=> Leave(as, 1 + 1, n + 1)
    BY <1>1, <1>2
  <2> QED
    BY <1>2, <2>1
<1>5. as[1].type = "join" => ~own
  <2>1. ~Leave(as, 1, 1 - 1)
    BY DEF Leave
  <2> QED
    BY <1>2, <2>1 DEF Agrees, JoinsAsGuest
<1>6. Thinks(u, bs, n, mem, cre, own2, as[1].session)
  BY <1>3, <1>4, <1>5 DEF Thinks
<1>7. Answered(u, bs, n, mem, cre)
  <2>1. ASSUME NEW i \in 1 .. n
        PROVE  /\ bs[i].type \in {"create", "join"} =>
                    bs[i].session \in Sessions /\ (mem = bs[i].session \/ Leave(bs, i + 1, n))
               /\ bs[i].type = "create" => cre[bs[i].session] = u
               /\ bs[i].type = "invite" => bs[i].session \in Sessions
    <3>1. i + 1 \in 1 .. n + 1 /\ bs[i] = as[i + 1]
      BY <1>2
    <3>2. Leave(bs, i + 1, n) <=> Leave(as, (i + 1) + 1, n + 1)
      BY <1>1, <1>2, <3>1
    <3> QED
      BY <3>1, <3>2 DEF Agrees, Answered
  <2> QED
    BY <2>1 DEF Answered
<1>8. JoinsAsGuest(bs, n, own2)
  <2>1. ASSUME NEW i \in 1 .. n, bs[i].type = "join"
        PROVE  /\ own2 => Leave(bs, 1, i - 1)
               /\ \A j \in 1 .. i - 1 : bs[j].type = "create" => Leave(bs, j + 1, i - 1)
    <3>1. \A j \in 1 .. (i + 1) - 1 : as[j].type = "create" => Leave(as, j + 1, (i + 1) - 1)
      BY <1>2, <2>1 DEF Agrees, JoinsAsGuest
    <3>2. own2 => Leave(bs, 1, i - 1)
      <4>1. i - 1 \in 0 .. n /\ (i - 1) + 1 = (i + 1) - 1 /\ 1 \in 1 .. n + 1 /\ 1 + 1 = 2
            /\ 1 \in 1 .. (i + 1) - 1
        OBVIOUS
      <4>2. Leave(bs, 1, i - 1) <=> Leave(as, 1 + 1, (i - 1) + 1)
        BY <1>1, <4>1
      <4>3. own2 => as[1].type = "create"
        BY <1>5
      <4> QED
        BY <3>1, <4>1, <4>2, <4>3
    <3>3. ASSUME NEW j \in 1 .. i - 1, bs[j].type = "create"
          PROVE  Leave(bs, j + 1, i - 1)
      <4>1. Leave(as, (j + 1) + 1, (i - 1) + 1)
        BY <1>2, <3>1, <3>3
      <4>2. j + 1 \in 1 .. n + 1 /\ i - 1 \in 0 .. n
        OBVIOUS
      <4> QED
        BY <1>1, <4>1, <4>2
    <3> QED
      BY <3>2, <3>3
  <2> QED
    BY <2>1 DEF JoinsAsGuest
<1>9. WillKnow(u, bs, n, mem, as[1].session, fgt)
  <2>1. ASSUME NEW i \in 2 .. n + 1, as[i].type \in {"create", "join"}, ~Leave(as, i + 1, n + 1)
        PROVE  \E k \in 1 .. n : bs[k].type \in {"create", "join"} /\ ~Leave(bs, k + 1, n)
    <3>0. i - 1 \in 1 .. n /\ (i - 1) + 1 = i /\ i \in 1 .. n + 1
      OBVIOUS
    <3>1. bs[i - 1] = as[i]
      BY <3>0
    <3>2. Leave(bs, (i - 1) + 1, n) <=> Leave(as, ((i - 1) + 1) + 1, n + 1)
      BY <1>1, <1>2, <3>0
    <3> QED
      BY <1>2, <2>1, <3>0, <3>1, <3>2
  <2>2. \A i \in 1 .. n + 1 : i = 1 \/ i \in 2 .. n + 1
    OBVIOUS
  <2>3. as[1].session # None
    BY <1>3
  <2>4. Leave(as, 1, n + 1) <=> Leave(as, 2, n + 1)
    BY <1>1, <1>2
  <2> QED
    BY <1>2, <1>4, <2>1, <2>2, <2>3, <2>4 DEF Agrees, WillKnow
<1> QED
  BY <1>6, <1>7, <1>8, <1>9 DEF Agrees

\* The bot hears that it left.
LEMMA LeaveHeard ==
    ASSUME NEW u, NEW as, NEW bs, NEW n \in Nat, NEW mem, NEW cre, NEW own, NEW sid, NEW fgt,
           Agrees(u, as, n + 1, mem, cre, own, sid, fgt), \A i \in 1 .. n : bs[i] = as[i + 1],
           as[1].type = "leave"
    PROVE  Agrees(u, bs, n, mem, cre, FALSE, None, fgt)
<1>1. /\ Leave(as, 1, n + 1)
      /\ \A i \in 1 .. n + 1, j \in 0 .. n : Leave(bs, i, j) <=> Leave(as, i + 1, j + 1)
  BY Heard
<1>2. /\ \A i \in 1 .. n : i + 1 \in 1 .. n + 1 /\ i - 1 \in 0 .. n /\ (i - 1) + 1 = (i + 1) - 1
                           /\ i \in 1 .. n + 1
      /\ \A i \in 1 .. n : \A j \in 1 .. i - 1 : j \in 1 .. n /\ j + 1 \in 1 .. (i + 1) - 1
      /\ 1 \in 1 .. n + 1 /\ n \in 0 .. n
  OBVIOUS
<1>3. Thinks(u, bs, n, mem, cre, FALSE, None)
  BY DEF Thinks
<1>4. Answered(u, bs, n, mem, cre)
  <2>1. ASSUME NEW i \in 1 .. n
        PROVE  /\ bs[i].type \in {"create", "join"} =>
                    bs[i].session \in Sessions /\ (mem = bs[i].session \/ Leave(bs, i + 1, n))
               /\ bs[i].type = "create" => cre[bs[i].session] = u
               /\ bs[i].type = "invite" => bs[i].session \in Sessions
    <3>1. i + 1 \in 1 .. n + 1 /\ bs[i] = as[i + 1]
      BY <1>2
    <3>2. Leave(bs, i + 1, n) <=> Leave(as, (i + 1) + 1, n + 1)
      BY <1>1, <1>2, <3>1
    <3> QED
      BY <3>1, <3>2 DEF Agrees, Answered
  <2> QED
    BY <2>1 DEF Answered
<1>5. JoinsAsGuest(bs, n, FALSE)
  <2>1. ASSUME NEW i \in 1 .. n, bs[i].type = "join", NEW j \in 1 .. i - 1, bs[j].type = "create"
        PROVE  Leave(bs, j + 1, i - 1)
    <3>1. \A k \in 1 .. (i + 1) - 1 : as[k].type = "create" => Leave(as, k + 1, (i + 1) - 1)
      BY <1>2, <2>1 DEF Agrees, JoinsAsGuest
    <3>2. Leave(as, (j + 1) + 1, (i - 1) + 1)
      BY <1>2, <2>1, <3>1
    <3>3. j + 1 \in 1 .. n + 1 /\ i - 1 \in 0 .. n
      OBVIOUS
    <3> QED
      BY <1>1, <3>2, <3>3
  <2> QED
    BY <2>1 DEF JoinsAsGuest
<1>6. WillKnow(u, bs, n, mem, None, fgt)
  <2>1. ASSUME NEW i \in 2 .. n + 1, as[i].type \in {"create", "join"}, ~Leave(as, i + 1, n + 1)
        PROVE  \E k \in 1 .. n : bs[k].type \in {"create", "join"} /\ ~Leave(bs, k + 1, n)
    <3>0. i - 1 \in 1 .. n /\ (i - 1) + 1 = i /\ i \in 1 .. n + 1
      OBVIOUS
    <3>1. bs[i - 1] = as[i]
      BY <3>0
    <3>2. Leave(bs, (i - 1) + 1, n) <=> Leave(as, ((i - 1) + 1) + 1, n + 1)
      BY <1>1, <1>2, <3>0
    <3> QED
      BY <1>2, <2>1, <3>0, <3>1, <3>2
  <2>2. \A i \in 1 .. n + 1 : i = 1 \/ i \in 2 .. n + 1
    OBVIOUS
  <2> QED
    BY <1>1, <2>1, <2>2 DEF Agrees, WillKnow
<1> QED
  BY <1>3, <1>4, <1>5, <1>6 DEF Agrees

\* Sessions that others create are nothing to a bot.
LEMMA CreatedByOthers ==
    ASSUME NEW u, NEW as, NEW n, NEW mem, NEW cre, NEW cre2, NEW own, NEW sid, NEW fgt,
           Agrees(u, as, n, mem, cre, own, sid, fgt), sid \in Sessions \union {None},
           \A r \in Sessions : cre[r] = u => cre2[r] = u
    PROVE  Agrees(u, as, n, mem, cre2, own, sid, fgt)
BY DEF Agrees, Thinks, Answered

\* Nor is it one that ceases to think that it is an owner.
LEMMA Resets ==
    ASSUME NEW u, NEW as, NEW n, NEW mem, NEW cre, NEW own, NEW sid, NEW fgt,
           Agrees(u, as, n, mem, cre, own, sid, fgt)
    PROVE  Agrees(u, as, n, mem, cre, FALSE, sid, fgt)
BY DEF Agrees, Thinks, JoinsAsGuest

\* A bot that forgets its session, as its OnIdle does, is recorded.
LEMMA Forgets ==
    ASSUME NEW u, NEW as, NEW n, NEW mem, NEW cre, NEW own, NEW sid, NEW sid2, NEW fgt, NEW fgt2,
           Agrees(u, as, n, mem, cre, own, sid, fgt), fgt \subseteq fgt2,
           sid2 = sid \/ (sid2 = None /\ (sid # None => u \in fgt2))
    PROVE  Agrees(u, as, n, mem, cre, own, sid2, fgt2)
BY DEF Agrees, Thinks, WillKnow

MT == Session!MessageType
Asked == {m \in MT : m.type = "join" => m.session \in Sessions}
Agreed(u) == Agrees(u, answers[u], Len(answers[u]), member[u], creator, IsSessionOwner[u],
                    SessionID[u], forgot)
SessionInv == /\ Session!TypeOK /\ cmds \in [Users -> Seq(Asked)]
              /\ \A u \in Users : Agreed(u)

\* An instance has a Cardinality of its own.
LEMMA SessionCardinality == \A S : Session!Cardinality(S) = Cardinality(S)
BY DEF Session!Cardinality, Cardinality

\* Nobody is in a session or thinks so.
LEMMA SessionInit == Session!Init => SessionInv
<1> SUFFICES ASSUME Session!Init PROVE SessionInv
  OBVIOUS
<1>1. Session!TypeOK
  <2>1. Session!Cardinality(Users) \in Nat
    BY SessionCardinality, FS_CardinalityType, BotsAssumption
  <2>2. <<>> \in Seq(MT)
    OBVIOUS
  <2> QED
    BY <2>1, <2>2 DEF Session!Init, Session!TypeOK, Session!NoInvite, MT
<1>2. cmds \in [Users -> Seq(Asked)]
  BY DEF Session!Init
<1>3. ASSUME NEW u \in Users PROVE Agreed(u)
  <2>1. /\ answers[u] = <<>> /\ member[u] = None /\ IsSessionOwner[u] = FALSE
        /\ SessionID[u] = None
    BY DEF Session!Init
  <2>2. Len(answers[u]) = 0
    BY <2>1
  <2> QED
    BY <2>1, <2>2 DEF Agreed, Agrees, Thinks, Answered, JoinsAsGuest, WillKnow
<1> QED
  BY <1>1, <1>2, <1>3 DEF SessionInv

\* Each step of a bot or of the server keeps each bot in agreement with the server.
LEMMA SessionStep == SessionInv /\ [Session!Next]_sessionVars => SessionInv'
<1> SUFFICES ASSUME SessionInv, [Session!Next]_sessionVars PROVE SessionInv'
  OBVIOUS
<1> DEFINE card == Session!Cardinality(Users)
           stages == {"off", "sleep", "reset", "forget", "start", "search", "reserve"}
           lists == [found : SUBSET Users, got : SUBSET Users, list : SUBSET Users]
           some == Sessions \union {None}
<1>0. Session!TypeOK /\ \A u \in Users : Agreed(u)
  BY DEF SessionInv
<1>y. /\ idle \in [Users -> stages] /\ invite \in [Users -> lists]
      /\ SessionID \in [Users -> some] /\ CurrentNum \in [Users -> 0 .. card]
      /\ cmds \in [Users -> Seq(Asked)] /\ answers \in [Users -> Seq(MT)]
      /\ member \in [Users -> some] /\ creator \in [Sessions -> Users \union {None}]
      /\ forgot \subseteq Users
  BY DEF SessionInv, Session!TypeOK, MT
<1>z. IsSessionOwner \in [Users -> BOOLEAN] /\ waiting \in [Users -> BOOLEAN]
  BY <1>0 DEF Session!TypeOK
<1>n. card \in Nat /\ None \notin Sessions /\ None \notin Users
  BY SessionCardinality, FS_CardinalityType, BotsAssumption, NoneAssumption
<1>m. /\ \A m \in Asked : m \in MT
      /\ \A s \in some, k \in 0 .. card, us \in SUBSET Users,
            x \in {"create", "join", "leave", "info", "invite", "joined"} :
                /\ Session!Message(x, s, k, us) \in MT
                /\ Session!Message(x, s, k, us).type = x
                /\ Session!Message(x, s, k, us).session = s
                /\ Session!Message(x, s, k, us).num = k
                /\ Session!Message(x, s, k, us).users = us
  BY DEF Asked, MT, Session!MessageType, Session!Message
<1>g. ASSUME idle' \in [Users -> stages], invite' \in [Users -> lists],
             SessionID' \in [Users -> some], CurrentNum' \in [Users -> 0 .. card],
             cmds' \in [Users -> Seq(Asked)], answers' \in [Users -> Seq(MT)],
             member' \in [Users -> some], creator' \in [Sessions -> Users \union {None}],
             forgot' \subseteq Users,
             IsSessionOwner' \in [Users -> BOOLEAN], waiting' \in [Users -> BOOLEAN],
             \A u \in Users : Agreed(u)'
      PROVE  SessionInv'
  <2>1. cmds' \in [Users -> Seq(MT)]
    <3>1. \A u \in Users : cmds'[u] \in Seq(MT)
      BY <1>g, SeqMonotone DEF Asked
    <3> QED
      BY <1>g, <3>1
  <2> QED
    BY <1>g, <2>1 DEF SessionInv, Session!TypeOK, MT, Session!MessageType
<1> HIDE DEF card, stages, lists, some
<1>q. ASSUME UNCHANGED <<answers, member, creator, IsSessionOwner, SessionID, forgot>>
      PROVE  \A u \in Users : Agreed(u)'
  BY <1>0, <1>q DEF Agreed
<1>c. ASSUME NEW u \in Users,
             \/ Session!Quiet
             \/ \E x \in {"create", "leave", "info"} : Session!RSend(u, Session!Plain(x))
             \/ \E us \in SUBSET Users : Session!RSend(u, Session!Message("invite", None, 0, us))
             \/ \E s \in Sessions : Session!RSend(u, Session!Message("join", s, 0, {}))
      PROVE  cmds' \in [Users -> Seq(Asked)]
  <2>1. CASE Session!Quiet
    BY <1>y, <2>1 DEF Session!Quiet
  <2>2. ASSUME NEW m \in Asked, Session!RSend(u, m)
        PROVE  cmds' \in [Users -> Seq(Asked)]
    <3>1. cmds[u] \in Seq(Asked)
      BY <1>y
    <3>2. Append(cmds[u], m) \in Seq(Asked)
      BY <3>1, AppendAt
    <3> QED
      BY <1>y, <2>2, <3>2 DEF Session!RSend
  <2>3. None \in some /\ 0 \in 0 .. card /\ {} \in SUBSET Users /\ Sessions \subseteq some
    BY <1>n DEF some
  <2>4. \A x \in {"create", "leave", "info"} : Session!Plain(x) \in Asked
    BY <1>m, <2>3 DEF Session!Plain, Asked
  <2>5. \A us \in SUBSET Users : Session!Message("invite", None, 0, us) \in Asked
    BY <1>m, <2>3 DEF Asked
  <2>6. \A s \in Sessions : Session!Message("join", s, 0, {}) \in Asked
    BY <1>m, <2>3 DEF Asked
  <2> QED
    BY <1>c, <2>1, <2>2, <2>4, <2>5, <2>6
<1>s. CASE UNCHANGED sessionVars
  <2>1. UNCHANGED <<idle, invite, IsSessionOwner, SessionID, CurrentNum, waiting, cmds,
                    answers, member, creator, forgot>>
    BY <1>s DEF sessionVars
  <2> QED
    BY <1>g, <1>q, <1>y, <1>z, <2>1
\* OnIdle and inviteSession touch neither what the bot knows nor the server.
<1>1. ASSUME NEW u \in Users,
             \/ Session!Run(u) \/ Session!IdleOut(u) \/ Session!IdleInvite(u)
             \/ Session!IdleLeave(u) \/ Session!IdleStart(u)
             \/ Session!SearchSome(u) \/ Session!SearchNone(u) \/ Session!Get(u)
             \/ Session!Set(u) \/ Session!SendInvite(u)
      PROVE  SessionInv'
  <2>1. UNCHANGED <<SessionID, IsSessionOwner, CurrentNum, answers, member, creator, forgot>>
    BY <1>1 DEF Session!Run, Session!IdleOut, Session!IdleInvite, Session!IdleLeave,
       Session!IdleStart, Session!SearchSome, Session!SearchNone, Session!Get, Session!Set,
       Session!SendInvite, Session!Start, Session!botVars, Session!serverVars
  <2>2. idle' \in [Users -> stages]
    <3>1. idle' = idle \/ \E s \in stages : idle' = [idle EXCEPT ![u] = s]
      BY <1>1 DEF Session!Run, Session!IdleOut, Session!IdleInvite, Session!IdleLeave,
         Session!IdleStart, Session!SearchSome, Session!SearchNone, Session!Get, Session!Set,
         Session!SendInvite, Session!Goes, stages
    <3> QED
      BY <1>y, <3>1
  <2>3. waiting' \in [Users -> BOOLEAN]
    <3>1. waiting' = waiting \/ \E m, x : m \in Users /\ x \in BOOLEAN
                                        /\ waiting' = [waiting EXCEPT ![m] = x]
      <4>1. CASE Session!Set(u)
        <5>1. PICK m \in invite[u].got : waiting' = [waiting EXCEPT ![m] = FALSE]
          BY <4>1 DEF Session!Set
        <5>2. m \in Users
          BY <1>y DEF lists
        <5> QED
          BY <5>1, <5>2
      <4>2. CASE ~Session!Set(u)
        BY <1>1, <4>2 DEF Session!Run, Session!IdleOut, Session!IdleInvite,
           Session!IdleLeave, Session!IdleStart, Session!SearchSome, Session!SearchNone,
           Session!Get, Session!SendInvite, Session!Start, Session!botVars
      <4> QED
        BY <4>1, <4>2
    <3> QED
      BY <1>z, <3>1
  <2>4. cmds' \in [Users -> Seq(Asked)]
    <3>1. CASE Session!Run(u) \/ Session!IdleStart(u)
      <4>1. Session!Quiet \/ Session!RSend(u, Session!Plain("create"))
        BY <3>1 DEF Session!Run, Session!IdleStart, Session!Start
      <4> QED
        BY <1>c, <4>1
    <3>2. CASE Session!IdleLeave(u) \/ Session!SearchNone(u)
      <4>1. Session!Quiet \/ Session!RSend(u, Session!Plain("leave"))
        BY <3>2 DEF Session!IdleLeave, Session!SearchNone, Session!leaveSession
      <4> QED
        BY <1>c, <4>1
    <3>3. CASE Session!SendInvite(u)
      <4>1. Session!RSend(u, Session!Message("invite", None, 0, invite[u].list))
        BY <3>3 DEF Session!SendInvite
      <4>2. invite[u].list \in SUBSET Users
        BY <1>y DEF lists
      <4> QED
        BY <1>c, <4>1, <4>2
    <3>4. CASE \/ Session!IdleOut(u) \/ Session!IdleInvite(u) \/ Session!SearchSome(u)
               \/ Session!Get(u) \/ Session!Set(u)
      BY <1>y, <3>4 DEF Session!IdleOut, Session!IdleInvite, Session!SearchSome,
         Session!Get, Session!Set
    <3> QED
      BY <1>1, <3>1, <3>2, <3>3, <3>4
  <2>5. invite' \in [Users -> lists]
    <3>1. invite[u] \in lists
      BY <1>y
    <3>2. CASE Session!SearchSome(u)
      <4>1. PICK found \in SUBSET Users :
                invite' = [invite EXCEPT ![u] = [Session!NoInvite EXCEPT !.found = found]]
        BY <3>2 DEF Session!SearchSome
      <4>2. [Session!NoInvite EXCEPT !.found = found] \in lists
        BY DEF Session!NoInvite, lists
      <4> QED
        BY <1>y, <4>1, <4>2
    <3>3. CASE Session!Get(u)
      <4>1. PICK m \in invite[u].found :
                invite' = [invite EXCEPT ![u] =
                    [found |-> @.found \ {m}, list |-> @.list,
                     got |-> IF waiting[m] THEN {m} ELSE {}]]
        BY <3>3 DEF Session!Get
      <4>2. m \in Users
        BY <3>1 DEF lists
      <4> QED
        BY <1>y, <3>1, <4>1, <4>2 DEF lists
    <3>4. CASE Session!Set(u)
      <4>1. PICK m \in invite[u].got :
                invite' = [invite EXCEPT ![u] =
                    [found |-> @.found, got |-> {}, list |-> @.list \union {m}]]
        BY <3>4 DEF Session!Set
      <4>2. m \in Users
        BY <3>1 DEF lists
      <4> QED
        BY <1>y, <3>1, <4>1, <4>2 DEF lists
    <3>5. CASE Session!SendInvite(u)
      <4>1. invite' = [invite EXCEPT ![u] = Session!NoInvite]
        BY <3>5 DEF Session!SendInvite
      <4>2. Session!NoInvite \in lists
        BY DEF Session!NoInvite, lists
      <4> QED
        BY <1>y, <4>1, <4>2
    <3>6. CASE \/ Session!Run(u) \/ Session!IdleOut(u) \/ Session!IdleInvite(u)
               \/ Session!IdleLeave(u) \/ Session!IdleStart(u) \/ Session!SearchNone(u)
      BY <1>y, <3>6 DEF Session!Run, Session!IdleOut, Session!IdleInvite, Session!IdleLeave,
         Session!IdleStart, Session!SearchNone
    <3> QED
      BY <1>1, <3>2, <3>3, <3>4, <3>5, <3>6
  <2> QED
    BY <1>g, <1>q, <1>y, <1>z, <2>1, <2>2, <2>3, <2>4, <2>5
<1>2. ASSUME NEW u \in Users, Session!IdleReset(u) PROVE SessionInv'
  <2>1. /\ UNCHANGED <<invite, SessionID, CurrentNum, waiting, cmds, answers, member,
                       creator, forgot>>
        /\ idle' = [idle EXCEPT ![u] = "forget"]
        /\ IsSessionOwner' = [IsSessionOwner EXCEPT ![u] = FALSE]
    BY <1>2 DEF Session!IdleReset, Session!Goes, Session!serverVars
  <2>2. idle' \in [Users -> stages] /\ IsSessionOwner' \in [Users -> BOOLEAN]
    BY <1>y, <1>z, <2>1 DEF stages
  <2>3. ASSUME NEW v \in Users PROVE Agreed(v)'
    <3>1. IsSessionOwner'[v] = IsSessionOwner[v] \/ IsSessionOwner'[v] = FALSE
      BY <1>z, <2>1
    <3>2. Agrees(v, answers[v], Len(answers[v]), member[v], creator, IsSessionOwner[v],
                 SessionID[v], forgot)
      BY <1>0 DEF Agreed
    <3>3. Agrees(v, answers[v], Len(answers[v]), member[v], creator, FALSE, SessionID[v],
                 forgot)
      BY <3>2, Resets
    <3> QED
      BY <2>1, <3>1, <3>2, <3>3 DEF Agreed
  <2> QED
    BY <1>g, <1>y, <1>z, <2>1, <2>2, <2>3
<1>3. ASSUME NEW u \in Users, Session!IdleForget(u) PROVE SessionInv'
  <2>1. /\ UNCHANGED <<invite, IsSessionOwner, CurrentNum, cmds, answers, member, creator>>
        /\ idle' = [idle EXCEPT ![u] = "start"]
        /\ SessionID' = [SessionID EXCEPT ![u] = None]
        /\ waiting' = [waiting EXCEPT ![u] = FALSE]
        /\ forgot' = IF SessionID[u] # None THEN forgot \union {u} ELSE forgot
    BY <1>3 DEF Session!IdleForget, Session!Goes, Session!IsInSession, Session!serverVars
  <2>2. /\ idle' \in [Users -> stages] /\ SessionID' \in [Users -> some]
        /\ forgot' \subseteq Users
    BY <1>y, <2>1 DEF stages, some
  <2>3. waiting' \in [Users -> BOOLEAN]
    BY <1>z, <2>1
  <2>4. ASSUME NEW v \in Users PROVE Agreed(v)'
    <3>1. /\ SessionID'[v] = SessionID[v]
                \/ (SessionID'[v] = None /\ (SessionID[v] # None => v \in forgot'))
          /\ forgot \subseteq forgot'
      BY <1>y, <2>1
    <3>2. Agrees(v, answers[v], Len(answers[v]), member[v], creator, IsSessionOwner[v],
                 SessionID[v], forgot)
      BY <1>0 DEF Agreed
    <3>3. Agrees(v, answers[v], Len(answers[v]), member[v], creator, IsSessionOwner[v],
                 SessionID'[v], forgot')
      BY <3>1, <3>2, Forgets
    <3> QED
      BY <2>1, <3>3 DEF Agreed
  <2> QED
    BY <1>g, <1>y, <1>z, <2>1, <2>2, <2>3, <2>4
\* A bot hears its next answer; the others hear nothing.
<1>h. ASSUME NEW u \in Users, answers[u] # <<>>,
             answers' = [answers EXCEPT ![u] = Tail(@)], UNCHANGED <<member, creator, forgot>>,
             \A v \in Users : v # u => SessionID'[v] = SessionID[v]
                                       /\ IsSessionOwner'[v] = IsSessionOwner[v],
             LET as == answers[u]
                 bs == Tail(as)
                 n == Len(bs)
             IN  \/ /\ Head(as).type \notin {"create", "join", "leave"}
                    /\ SessionID'[u] = SessionID[u] /\ IsSessionOwner'[u] = IsSessionOwner[u]
                 \/ /\ Head(as).type = "create" /\ IsSessionOwner'[u] = TRUE
                    /\ SessionID'[u] = Head(as).session
                 \/ /\ Head(as).type = "join" /\ IsSessionOwner'[u] = IsSessionOwner[u]
                    /\ SessionID'[u] = Head(as).session
                 \/ /\ Head(as).type = "leave" /\ IsSessionOwner'[u] = FALSE
                    /\ SessionID'[u] = None
      PROVE  /\ answers' \in [Users -> Seq(MT)] /\ Head(answers[u]) \in MT
             /\ Head(answers[u]).type \in {"create", "join", "invite"}
                    => Head(answers[u]).session \in Sessions
             /\ \A v \in Users : Agreed(v)'
  <2> DEFINE as == answers[u]
             bs == Tail(as)
             n == Len(bs)
  <2>1. /\ bs \in Seq(MT) /\ Head(as) \in MT /\ Head(as) = as[1]
        /\ n \in Nat /\ Len(as) = n + 1
        /\ \A i \in 1 .. n : bs[i] = as[i + 1]
    <3>1. as \in Seq(MT)
      BY <1>y
    <3> QED
      BY <1>h, <3>1, TailAt
  <2>2. answers' \in [Users -> Seq(MT)] /\ answers'[u] = bs
        /\ \A v \in Users : v # u => answers'[v] = answers[v]
    BY <1>h, <1>y, <2>1
  <2>3. IsSessionOwner[u] \in BOOLEAN
    BY <1>z
  <2>4. Agrees(u, as, n + 1, member[u], creator, IsSessionOwner[u], SessionID[u], forgot)
    BY <1>0, <2>1 DEF Agreed
  <2>5. as[1].type \in {"create", "join", "invite"} => as[1].session \in Sessions
    <3>1. 1 \in 1 .. n + 1
      BY <2>1
    <3> QED
      BY <2>4, <3>1 DEF Agrees, Answered
  <2>6. ASSUME NEW v \in Users, v # u PROVE Agreed(v)'
    BY <1>0, <1>h, <2>2, <2>6 DEF Agreed
  <2> HIDE DEF as, bs, n
  <2>7. CASE as[1].type \notin {"create", "join", "leave"}
    <3>1. Agrees(u, bs, n, member[u], creator, IsSessionOwner[u], SessionID[u], forgot)
      BY <2>1, <2>4, <2>7, OtherHeard
    <3>2. Agreed(u)'
      BY <1>h, <2>1, <2>2, <2>7, <3>1 DEF Agreed, as, bs, n
    <3>3. Head(answers[u]) = as[1] /\ Head(answers[u]) \in MT
      BY <2>1 DEF as
    <3> QED
      BY <2>2, <2>5, <2>6, <3>2, <3>3
  <2>8. CASE as[1].type = "create"
    <3>1. Agrees(u, bs, n, member[u], creator, TRUE, as[1].session, forgot)
      BY <1>n, <2>1, <2>3, <2>4, <2>8, EnterHeard
    <3>2. Agreed(u)'
      BY <1>h, <2>1, <2>2, <2>8, <3>1 DEF Agreed, as, bs, n
    <3>3. Head(answers[u]) = as[1] /\ Head(answers[u]) \in MT
      BY <2>1 DEF as
    <3> QED
      BY <2>2, <2>5, <2>6, <3>2, <3>3
  <2>9. CASE as[1].type = "join"
    <3>1. Agrees(u, bs, n, member[u], creator, IsSessionOwner[u], as[1].session, forgot)
      BY <1>n, <2>1, <2>3, <2>4, <2>9, EnterHeard
    <3>2. Agreed(u)'
      BY <1>h, <2>1, <2>2, <2>9, <3>1 DEF Agreed, as, bs, n
    <3>3. Head(answers[u]) = as[1] /\ Head(answers[u]) \in MT
      BY <2>1 DEF as
    <3> QED
      BY <2>2, <2>5, <2>6, <3>2, <3>3
  <2>10. CASE as[1].type = "leave"
    <3>1. Agrees(u, bs, n, member[u], creator, FALSE, None, forgot)
      BY <2>1, <2>4, <2>10, LeaveHeard
    <3>2. Agreed(u)'
      BY <1>h, <2>1, <2>2, <2>10, <3>1 DEF Agreed, as, bs, n
    <3>3. Head(answers[u]) = as[1] /\ Head(answers[u]) \in MT
      BY <2>1 DEF as
    <3> QED
      BY <2>2, <2>5, <2>6, <3>2, <3>3
  <2> QED
    BY <2>7, <2>8, <2>9, <2>10
<1>4. ASSUME NEW u \in Users, Session!handleSessionInvite(u) \/ Session!handleSessionJoined(u)
      PROVE  SessionInv'
  <2>1. /\ answers[u] # <<>> /\ Head(answers[u]).type \in {"invite", "joined"}
        /\ answers' = [answers EXCEPT ![u] = Tail(@)]
        /\ UNCHANGED <<idle, invite, forgot, member, creator, IsSessionOwner, SessionID,
                       CurrentNum, waiting>>
    BY <1>4 DEF Session!handleSessionInvite, Session!handleSessionJoined, Session!Hear,
       Session!controlVars, Session!serverVars
  <2>2. /\ answers' \in [Users -> Seq(MT)]
        /\ Head(answers[u]).type = "invite" => Head(answers[u]).session \in Sessions
        /\ \A v \in Users : Agreed(v)'
    BY <1>h, <2>1
  <2>3. cmds' \in [Users -> Seq(Asked)]
    <3>1. CASE Session!handleSessionInvite(u)
      <4>1. \/ Session!Quiet
            \/ Session!RSend(u, Session!Message("join", Head(answers[u]).session, 0, {}))
        BY <3>1 DEF Session!handleSessionInvite
      <4>2. Head(answers[u]).type = "invite"
        BY <3>1 DEF Session!handleSessionInvite, Session!Hear
      <4> QED
        BY <1>c, <2>2, <4>1, <4>2
    <3>2. CASE Session!handleSessionJoined(u)
      <4>1. Session!RSend(u, Session!Plain("info"))
        BY <3>2 DEF Session!handleSessionJoined
      <4> QED
        BY <1>c, <4>1
    <3> QED
      BY <1>4, <3>1, <3>2
  <2> QED
    BY <1>g, <1>y, <1>z, <2>1, <2>2, <2>3
<1>5. ASSUME NEW u \in Users, Session!handleOnCreateSession(u) PROVE SessionInv'
  <2>1. /\ answers[u] # <<>> /\ Head(answers[u]).type = "create"
        /\ answers' = [answers EXCEPT ![u] = Tail(@)]
        /\ SessionID' = [SessionID EXCEPT ![u] = Head(answers[u]).session]
        /\ IsSessionOwner' = [IsSessionOwner EXCEPT ![u] = TRUE]
        /\ UNCHANGED <<idle, invite, forgot, member, creator, CurrentNum, waiting, cmds>>
    BY <1>5 DEF Session!handleOnCreateSession, Session!Hear, Session!controlVars,
       Session!serverVars
  <2>2. /\ SessionID'[u] = Head(answers[u]).session /\ IsSessionOwner'[u] = TRUE
        /\ \A v \in Users : v # u => SessionID'[v] = SessionID[v]
                                     /\ IsSessionOwner'[v] = IsSessionOwner[v]
    BY <1>y, <1>z, <2>1
  <2>3. /\ answers' \in [Users -> Seq(MT)] /\ Head(answers[u]).session \in Sessions
        /\ \A v \in Users : Agreed(v)'
    BY <1>h, <2>1, <2>2
  <2>4. SessionID' \in [Users -> some]
    BY <1>y, <2>1, <2>3 DEF some
  <2>5. IsSessionOwner' \in [Users -> BOOLEAN]
    BY <1>z, <2>1
  <2> QED
    BY <1>g, <1>y, <1>z, <2>1, <2>3, <2>4, <2>5
<1>6. ASSUME NEW u \in Users, Session!handleOnJoinedSession(u) PROVE SessionInv'
  <2>1. /\ answers[u] # <<>> /\ Head(answers[u]).type = "join"
        /\ answers' = [answers EXCEPT ![u] = Tail(@)]
        /\ SessionID' = [SessionID EXCEPT ![u] = Head(answers[u]).session]
        /\ UNCHANGED <<idle, invite, forgot, member, creator, IsSessionOwner, CurrentNum,
                       waiting, cmds>>
    BY <1>6 DEF Session!handleOnJoinedSession, Session!Hear, Session!controlVars,
       Session!serverVars
  <2>2. /\ SessionID'[u] = Head(answers[u]).session
        /\ \A v \in Users : v # u => SessionID'[v] = SessionID[v]
    BY <1>y, <2>1
  <2>3. /\ answers' \in [Users -> Seq(MT)] /\ Head(answers[u]).session \in Sessions
        /\ \A v \in Users : Agreed(v)'
    BY <1>h, <2>1, <2>2
  <2>4. SessionID' \in [Users -> some]
    BY <1>y, <2>1, <2>3 DEF some
  <2> QED
    BY <1>g, <1>y, <1>z, <2>1, <2>3, <2>4
<1>7. ASSUME NEW u \in Users, Session!handleOnLeaveSession(u) PROVE SessionInv'
  <2>1. /\ answers[u] # <<>> /\ Head(answers[u]).type = "leave"
        /\ answers' = [answers EXCEPT ![u] = Tail(@)]
        /\ SessionID' = [SessionID EXCEPT ![u] = None]
        /\ IsSessionOwner' = [IsSessionOwner EXCEPT ![u] = FALSE]
        /\ waiting' = [waiting EXCEPT ![u] = FALSE]
        /\ UNCHANGED <<idle, invite, forgot, member, creator, CurrentNum, cmds>>
    BY <1>7 DEF Session!handleOnLeaveSession, Session!Hear, Session!controlVars,
       Session!serverVars
  <2>2. /\ SessionID'[u] = None /\ IsSessionOwner'[u] = FALSE
        /\ \A v \in Users : v # u => SessionID'[v] = SessionID[v]
                                     /\ IsSessionOwner'[v] = IsSessionOwner[v]
    BY <1>y, <1>z, <2>1
  <2>3. answers' \in [Users -> Seq(MT)] /\ \A v \in Users : Agreed(v)'
    BY <1>h, <2>1, <2>2
  <2>4. SessionID' \in [Users -> some]
    BY <1>y, <2>1 DEF some
  <2>5. IsSessionOwner' \in [Users -> BOOLEAN] /\ waiting' \in [Users -> BOOLEAN]
    BY <1>z, <2>1
  <2> QED
    BY <1>g, <1>y, <1>z, <2>1, <2>3, <2>4, <2>5
<1>8. ASSUME NEW u \in Users, Session!handleOnGetSessionInfo(u) PROVE SessionInv'
  <2>1. /\ answers[u] # <<>> /\ Head(answers[u]).type = "info"
        /\ answers' = [answers EXCEPT ![u] = Tail(@)]
        /\ CurrentNum' = [CurrentNum EXCEPT ![u] = Head(answers[u]).num]
        /\ UNCHANGED <<idle, invite, forgot, member, creator, IsSessionOwner, SessionID,
                       waiting, cmds>>
    BY <1>8 DEF Session!handleOnGetSessionInfo, Session!Hear, Session!controlVars,
       Session!serverVars
  <2>2. /\ answers' \in [Users -> Seq(MT)] /\ Head(answers[u]) \in MT
        /\ \A v \in Users : Agreed(v)'
    BY <1>h, <2>1
  <2>3. CurrentNum' \in [Users -> 0 .. card]
    <3>1. Head(answers[u]).num \in 0 .. card
      BY <2>2 DEF MT, Session!MessageType, card
    <3> QED
      BY <1>y, <2>1, <3>1
  <2> QED
    BY <1>g, <1>y, <1>z, <2>1, <2>2, <2>3
\* The server answers a user, or pushes to it.
<1>a. ASSUME NEW v \in Users, NEW m \in MT, answers'[v] = Append(answers[v], m),
             UNCHANGED <<IsSessionOwner, SessionID, forgot>>,
             \/ /\ m.type \notin {"create", "join", "leave"}
                /\ m.type = "invite" => m.session \in Sessions
                /\ member'[v] = member[v] /\ creator' = creator
             \/ /\ m.type \in {"create", "join"} /\ m.session \in Sessions
                /\ member[v] = None /\ member'[v] = m.session
                /\ m.type = "create" => creator'[m.session] = v
                /\ \A r \in Sessions : creator[r] = v => creator'[r] = v
             \/ /\ m.type = "leave" /\ member'[v] = None /\ creator' = creator
      PROVE  answers'[v] \in Seq(MT) /\ Agreed(v)'
  <2> DEFINE as == answers[v]
             bs == Append(as, m)
             n == Len(as)
  <2>1. as \in Seq(MT)
    BY <1>y
  <2>2. bs \in Seq(MT) /\ n \in Nat /\ Len(bs) = n + 1
        /\ \A i \in 1 .. n : bs[i] = as[i]
    BY <2>1, AppendAt
  <2>3. bs[n + 1] = m
    BY <2>1, AppendAt
  <2>4. Agrees(v, as, n, member[v], creator, IsSessionOwner[v], SessionID[v], forgot)
    BY <1>0 DEF Agreed
  <2>5. SessionID[v] \in Sessions \union {None}
    BY <1>y DEF some
  <2>6. answers'[v] = bs
    BY <1>a
  <2> HIDE DEF as, bs, n
  <2>7. CASE /\ m.type \notin {"create", "join", "leave"}
             /\ m.type = "invite" => m.session \in Sessions
             /\ member'[v] = member[v] /\ creator' = creator
    <3>1. Agrees(v, bs, n + 1, member[v], creator, IsSessionOwner[v], SessionID[v], forgot)
      BY <2>2, <2>3, <2>4, <2>7, OtherAppended
    <3> QED
      BY <1>a, <2>2, <2>6, <2>7, <3>1 DEF Agreed
  <2>8. CASE /\ m.type \in {"create", "join"} /\ m.session \in Sessions
             /\ member[v] = None /\ member'[v] = m.session
             /\ m.type = "create" => creator'[m.session] = v
             /\ \A r \in Sessions : creator[r] = v => creator'[r] = v
    <3>1. Agrees(v, as, n, None, creator, IsSessionOwner[v], SessionID[v], forgot)
      BY <2>4, <2>8
    <3>2. Agrees(v, as, n, None, creator', IsSessionOwner[v], SessionID[v], forgot)
      BY <2>5, <2>8, <3>1, CreatedByOthers
    <3>3. bs[n + 1].type = "create" => creator'[m.session] = v
      BY <2>3, <2>8
    <3>4. Agrees(v, bs, n + 1, m.session, creator', IsSessionOwner[v], SessionID[v], forgot)
      BY <1>n, <2>2, <2>3, <2>8, <3>2, <3>3, EnterAppended
    <3> QED
      BY <1>a, <2>2, <2>6, <2>8, <3>4 DEF Agreed
  <2>9. CASE m.type = "leave" /\ member'[v] = None /\ creator' = creator
    <3>1. Agrees(v, bs, n + 1, None, creator, IsSessionOwner[v], SessionID[v], forgot)
      BY <2>2, <2>3, <2>4, <2>9, LeaveAppended
    <3> QED
      BY <1>a, <2>2, <2>6, <2>9, <3>1 DEF Agreed
  <2> QED
    BY <1>a, <2>7, <2>8, <2>9
<1>t. ASSUME NEW u \in Users, NEW x, Session!Take(u, x)
      PROVE  /\ UNCHANGED <<idle, invite, forgot, IsSessionOwner, SessionID, CurrentNum, waiting>>
             /\ cmds' \in [Users -> Seq(Asked)]
             /\ Head(cmds[u]) \in Asked /\ Head(cmds[u]).type = x
  <2>1. /\ UNCHANGED <<idle, invite, forgot, IsSessionOwner, SessionID, CurrentNum, waiting>>
        /\ cmds[u] # <<>> /\ cmds' = [cmds EXCEPT ![u] = Tail(@)]
        /\ Head(cmds[u]).type = x
    BY <1>t DEF Session!Take, Session!controlVars, Session!botVars
  <2>2. cmds[u] \in Seq(Asked)
    BY <1>y
  <2>3. Tail(cmds[u]) \in Seq(Asked) /\ Head(cmds[u]) \in Asked
    BY <2>1, <2>2, TailAt
  <2> QED
    BY <1>y, <2>1, <2>3
<1>e. None \in some /\ 0 \in 0 .. card /\ {} \in SUBSET Users /\ Sessions \subseteq some
  BY <1>n DEF some
<1>9. ASSUME NEW u \in Users, Session!Create(u) PROVE SessionInv'
  <2>1. /\ Session!Take(u, "create") /\ member[u] = None
        /\ \E s \in Sessions :
            /\ creator[s] = None
            /\ creator' = [creator EXCEPT ![s] = u]
            /\ member' = [member EXCEPT ![u] = s]
            /\ answers' = Session!Push({u}, Session!Message("create", s, 0, {}))
    BY <1>9 DEF Session!Create
  <2>2. PICK s \in Sessions :
            /\ creator[s] = None
            /\ creator' = [creator EXCEPT ![s] = u]
            /\ member' = [member EXCEPT ![u] = s]
            /\ answers' = Session!Push({u}, Session!Message("create", s, 0, {}))
    BY <2>1
  <2>3. /\ UNCHANGED <<idle, invite, forgot, IsSessionOwner, SessionID, CurrentNum, waiting>>
        /\ cmds' \in [Users -> Seq(Asked)]
    BY <1>t, <2>1
  <2>4. /\ creator' \in [Sessions -> Users \union {None}] /\ member' \in [Users -> some]
        /\ creator'[s] = u /\ member'[u] = s
        /\ \A r \in Sessions : r # s => creator'[r] = creator[r]
        /\ \A v \in Users : v # u => member'[v] = member[v]
    BY <1>e, <1>y, <2>2
  <2>5. \A v \in Users, r \in Sessions : creator[r] = v => creator'[r] = v
    BY <1>n, <2>2, <2>4
  <2> DEFINE m == Session!Message("create", s, 0, {})
  <2>6. m \in MT /\ m.type = "create" /\ m.session = s
    BY <1>e, <1>m
  <2>7. /\ answers' = [v \in Users |-> IF v = u THEN Append(answers[v], m) ELSE answers[v]]
    BY <2>2 DEF Session!Push
  <2> HIDE DEF m
  <2>8. ASSUME NEW v \in Users PROVE answers'[v] \in Seq(MT) /\ Agreed(v)'
    <3>1. CASE v = u
      <4>1. answers'[v] = Append(answers[v], m)
        BY <2>7, <3>1
      <4> QED
        BY <1>a, <2>1, <2>3, <2>4, <2>5, <2>6, <3>1, <4>1
    <3>2. CASE v # u
      <4>1. answers'[v] = answers[v] /\ member'[v] = member[v]
        BY <2>4, <2>7, <3>2
      <4>2. SessionID[v] \in Sessions \union {None}
        BY <1>y DEF some
      <4>3. Agrees(v, answers[v], Len(answers[v]), member[v], creator, IsSessionOwner[v],
                   SessionID[v], forgot)
        BY <1>0 DEF Agreed
      <4>4. Agrees(v, answers[v], Len(answers[v]), member[v], creator', IsSessionOwner[v],
                   SessionID[v], forgot)
        BY <2>5, <4>2, <4>3, CreatedByOthers
      <4> QED
        BY <1>y, <2>3, <4>1, <4>4 DEF Agreed
    <3> QED
      BY <3>1, <3>2
  <2>9. answers' \in [Users -> Seq(MT)]
    BY <2>7, <2>8
  <2> QED
    BY <1>g, <1>y, <1>z, <2>3, <2>4, <2>8, <2>9
<1>10. ASSUME NEW u \in Users, Session!Join(u) PROVE SessionInv'
  <2> DEFINE s == Head(cmds[u]).session
             m == Session!Message("join", s, 0, {})
             told == Session!Plain("joined")
  <2>1. /\ Session!Take(u, "join") /\ member[u] = None
        /\ creator' = creator /\ member' = [member EXCEPT ![u] = s]
        /\ answers' = [v \in Users |->
                IF v = u THEN Append(answers[u], m)
                ELSE IF v \in Session!Members(s) THEN Append(answers[v], told)
                ELSE answers[v]]
    BY <1>10 DEF Session!Join
  <2>2. /\ UNCHANGED <<idle, invite, forgot, IsSessionOwner, SessionID, CurrentNum, waiting>>
        /\ cmds' \in [Users -> Seq(Asked)] /\ s \in Sessions
    BY <1>t, <2>1 DEF Asked
  <2>3. m \in MT /\ m.type = "join" /\ m.session = s
    BY <1>e, <1>m, <2>2
  <2>4. told \in MT /\ told.type = "joined"
    BY <1>e, <1>m DEF Session!Plain
  <2> HIDE DEF s, m, told
  <2>5. member' \in [Users -> some] /\ member'[u] = s
        /\ \A v \in Users : v # u => member'[v] = member[v]
    BY <1>e, <1>y, <2>1, <2>2
  <2>6. ASSUME NEW v \in Users PROVE answers'[v] \in Seq(MT) /\ Agreed(v)'
    <3>1. CASE v = u
      <4>1. answers'[v] = Append(answers[v], m)
        BY <2>1, <3>1
      <4> QED
        BY <1>a, <2>1, <2>2, <2>3, <2>5, <3>1, <4>1
    <3>2. CASE v # u /\ v \in Session!Members(s)
      <4>1. answers'[v] = Append(answers[v], told)
        BY <2>1, <3>2
      <4> QED
        BY <1>a, <2>1, <2>2, <2>4, <2>5, <3>2, <4>1
    <3>3. CASE v # u /\ v \notin Session!Members(s)
      <4>1. answers'[v] = answers[v]
        BY <2>1, <3>3
      <4> QED
        BY <1>0, <1>y, <2>1, <2>2, <2>5, <3>3, <4>1 DEF Agreed
    <3> QED
      BY <3>1, <3>2, <3>3
  <2>7. answers' \in [Users -> Seq(MT)]
    BY <2>1, <2>6
  <2> QED
    BY <1>g, <1>y, <1>z, <2>1, <2>2, <2>5, <2>6, <2>7
<1>11. ASSUME NEW u \in Users, Session!LeaveSession(u) PROVE SessionInv'
  <2> DEFINE m == Session!Plain("leave")
  <2>1. /\ Session!Take(u, "leave") /\ creator' = creator
        /\ member' = [member EXCEPT ![u] = None]
        /\ answers' = [v \in Users |-> IF v = u THEN Append(answers[v], m) ELSE answers[v]]
    BY <1>11 DEF Session!LeaveSession, Session!Push
  <2>2. /\ UNCHANGED <<idle, invite, forgot, IsSessionOwner, SessionID, CurrentNum, waiting>>
        /\ cmds' \in [Users -> Seq(Asked)]
    BY <1>t, <2>1
  <2>3. m \in MT /\ m.type = "leave"
    BY <1>e, <1>m DEF Session!Plain
  <2> HIDE DEF m
  <2>4. member' \in [Users -> some] /\ member'[u] = None
        /\ \A v \in Users : v # u => member'[v] = member[v]
    BY <1>e, <1>y, <2>1
  <2>5. ASSUME NEW v \in Users PROVE answers'[v] \in Seq(MT) /\ Agreed(v)'
    <3>1. CASE v = u
      <4>1. answers'[v] = Append(answers[v], m)
        BY <2>1, <3>1
      <4> QED
        BY <1>a, <2>1, <2>2, <2>3, <2>4, <3>1, <4>1
    <3>2. CASE v # u
      <4>1. answers'[v] = answers[v]
        BY <2>1, <3>2
      <4> QED
        BY <1>0, <1>y, <2>1, <2>2, <2>4, <3>2, <4>1 DEF Agreed
    <3> QED
      BY <3>1, <3>2
  <2>6. answers' \in [Users -> Seq(MT)]
    BY <2>1, <2>5
  <2> QED
    BY <1>g, <1>y, <1>z, <2>1, <2>2, <2>4, <2>5, <2>6
\* What the server says of a session to others than those it puts in or takes out.
<1>o. ASSUME NEW us, NEW m \in MT, m.type \in {"info", "invite"},
             m.type = "invite" => m.session \in Sessions,
             UNCHANGED <<forgot, IsSessionOwner, SessionID, member, creator>>,
             answers' = Session!Push(us, m)
      PROVE  answers' \in [Users -> Seq(MT)] /\ \A v \in Users : Agreed(v)'
  <2>1. answers' = [v \in Users |-> IF v \in us THEN Append(answers[v], m) ELSE answers[v]]
    BY <1>o DEF Session!Push
  <2>2. ASSUME NEW v \in Users PROVE answers'[v] \in Seq(MT) /\ Agreed(v)'
    <3>1. CASE v \in us
      <4>1. answers'[v] = Append(answers[v], m)
        BY <2>1, <3>1
      <4> QED
        BY <1>a, <1>o, <4>1
    <3>2. CASE v \notin us
      <4>1. answers'[v] = answers[v]
        BY <2>1, <3>2
      <4> QED
        BY <1>0, <1>o, <1>y, <4>1 DEF Agreed
    <3> QED
      BY <3>1, <3>2
  <2> QED
    BY <2>1, <2>2
<1>12. ASSUME NEW u \in Users, Session!Info(u) PROVE SessionInv'
  <2> DEFINE ms == Session!Members(member[u])
             m == Session!Message("info", None, Session!Cardinality(ms), {})
  <2>1. /\ Session!Take(u, "info") /\ UNCHANGED <<member, creator>>
        /\ answers' = Session!Push({u}, m)
    BY <1>12 DEF Session!Info, Session!serverVars
  <2>2. /\ UNCHANGED <<idle, invite, forgot, IsSessionOwner, SessionID, CurrentNum, waiting>>
        /\ cmds' \in [Users -> Seq(Asked)]
    BY <1>t, <2>1
  <2>3. Session!Cardinality(ms) \in 0 .. card
    <3>1. ms \subseteq Users
      BY DEF Session!Members
    <3>2. IsFiniteSet(Users)
      BY BotsAssumption
    <3>3. /\ IsFiniteSet(ms) /\ Cardinality(ms) <= Cardinality(Users)
          /\ Cardinality(ms) \in Nat /\ Cardinality(Users) \in Nat
      BY <3>1, <3>2, FS_Subset, FS_CardinalityType
    <3> QED
      BY <3>3, SessionCardinality DEF card
  <2>4. m \in MT /\ m.type = "info"
    BY <1>e, <1>m, <2>3
  <2> HIDE DEF m
  <2>5. answers' \in [Users -> Seq(MT)] /\ \A v \in Users : Agreed(v)'
    BY <1>o, <2>1, <2>2, <2>4
  <2> QED
    BY <1>g, <1>y, <1>z, <2>1, <2>2, <2>5
<1>13. ASSUME NEW u \in Users, Session!Invite(u) PROVE SessionInv'
  <2> DEFINE m == Session!Message("invite", member[u], 0, {})
  <2>1. /\ Session!Take(u, "invite") /\ member[u] # None /\ UNCHANGED <<member, creator>>
        /\ answers' = Session!Push(Head(cmds[u]).users, m)
    BY <1>13 DEF Session!Invite, Session!serverVars
  <2>2. /\ UNCHANGED <<idle, invite, forgot, IsSessionOwner, SessionID, CurrentNum, waiting>>
        /\ cmds' \in [Users -> Seq(Asked)]
    BY <1>t, <2>1
  <2>3. member[u] \in Sessions
    BY <1>y, <2>1 DEF some
  <2>4. m \in MT /\ m.type = "invite" /\ m.session \in Sessions
    BY <1>e, <1>m, <2>3
  <2> HIDE DEF m
  <2>5. answers' \in [Users -> Seq(MT)] /\ \A v \in Users : Agreed(v)'
    BY <1>o, <2>1, <2>2, <2>4
  <2> QED
    BY <1>g, <1>y, <1>z, <2>1, <2>2, <2>5
<1>14. ASSUME NEW u \in Users, Session!Refuse(u) PROVE SessionInv'
  <2>1. /\ UNCHANGED <<answers, member, creator>>
        /\ \E x \in {"create", "join", "leave", "info", "invite"} : Session!Take(u, x)
    BY <1>14 DEF Session!Refuse, Session!serverVars
  <2>2. /\ UNCHANGED <<idle, invite, forgot, IsSessionOwner, SessionID, CurrentNum, waiting>>
        /\ cmds' \in [Users -> Seq(Asked)]
    BY <1>t, <2>1
  <2> QED
    BY <1>g, <1>q, <1>y, <1>z, <2>1, <2>2
<1> QED
  <2>1. CASE UNCHANGED sessionVars
    BY <1>s, <2>1
  <2>2. CASE Session!Next
    BY <1>1, <1>2, <1>3, <1>4, <1>5, <1>6, <1>7, <1>8, <1>9, <1>10, <1>11, <1>12, <1>13,
       <1>14, <2>2 DEF Session!Next
  <2> QED
    BY <2>1, <2>2

\* The session scenario, where it runs.
LEMMA SessionUnit == BotsSpec => [](unit = "session" => SessionInv)
<1>1. BotsInit => (unit = "session" => SessionInv)
  BY SessionInit DEF BotsInit, Begins
<1>2. (unit = "session" => SessionInv) /\ [BotsNext]_botsVars
        => (unit = "session" => SessionInv)'
  BY SessionStep DEF BotsNext, botsVars, sessionVars
<1> QED
  BY <1>1, <1>2, PTL DEF BotsSpec

\* A bot of the session scenario that thinks it is in a session is in that one,
\* or is to hear that it left, and owns it only if it created it.
THEOREM SessionsKnown == BotsSpec => []KnowsItsSession
<1>1. (unit = "session" => SessionInv) => KnowsItsSession
  <2> SUFFICES ASSUME SessionInv, NEW u \in Users, SessionID[u] # None
               PROVE  /\ member[u] = SessionID[u] \/ Session!Coming(u, "leave")
                      /\ IsSessionOwner[u] => creator[SessionID[u]] = u
    BY DEF KnowsItsSession, In, Session!KnowsItsSession, Session!IsInSession
  <2>1. answers[u] \in Seq(MT)
    BY DEF SessionInv, Session!TypeOK, MT
  <2>2. DOMAIN answers[u] = 1 .. Len(answers[u])
    BY <2>1, LenProperties
  <2>3. Agrees(u, answers[u], Len(answers[u]), member[u], creator, IsSessionOwner[u],
               SessionID[u], forgot)
    BY DEF SessionInv, Agreed
  <2> QED
    BY <2>2, <2>3 DEF Agrees, Thinks, Leave, Session!Coming
<1> QED
  BY <1>1, SessionUnit, PTL

\* It is in one it does not know of only if its OnIdle forgot it.
THEOREM StraysHaveForgotten == BotsSpec => []StrayHasForgotten
<1>1. (unit = "session" => SessionInv) => StrayHasForgotten
  <2> SUFFICES ASSUME SessionInv, NEW u \in Users, member[u] # None, SessionID[u] = None,
                      u \notin forgot
               PROVE  Session!Coming(u, "create") \/ Session!Coming(u, "join")
    BY DEF StrayHasForgotten, In, Session!StrayHasForgotten, Session!IsInSession
  <2>1. answers[u] \in Seq(MT)
    BY DEF SessionInv, Session!TypeOK, MT
  <2>2. DOMAIN answers[u] = 1 .. Len(answers[u])
    BY <2>1, LenProperties
  <2>3. WillKnow(u, answers[u], Len(answers[u]), member[u], SessionID[u], forgot)
    BY DEF SessionInv, Agreed, Agrees
  <2> QED
    BY <2>2, <2>3 DEF WillKnow, Session!Coming
<1> QED
  BY <1>1, SessionUnit, PTL

-----------------------------------------------------------------------------
(* The ticket scenario: TicketScenario.                                    *)

\* How many messages of type x a queue holds, and where they are.
Count(ms, x) == Ticket!Waiting(ms, x)
Places(ms, n, x) == {i \in 1 .. n : ms[i].type = x}

\* Waiting counts the places that hold a message of the type.
LEMMA Counted1 ==
    ASSUME NEW S, NEW ms \in Seq(S), NEW x
    PROVE  /\ Count(ms, x) = Cardinality(Places(ms, Len(ms), x))
           /\ Count(ms, x) \in Nat
           /\ IsFiniteSet(Places(ms, Len(ms), x))
<1>1. DOMAIN ms = 1 .. Len(ms) /\ Len(ms) \in Nat
  BY LenProperties
<1>2. Count(ms, x) = Cardinality(Places(ms, Len(ms), x))
  <2>1. \A T : Ticket!Cardinality(T) = Cardinality(T)
    BY DEF Ticket!Cardinality, Cardinality
  <2> QED
    BY <1>1, <2>1 DEF Count, Ticket!Waiting, Places
<1>3. IsFiniteSet(1 .. Len(ms))
  BY <1>1, FS_Interval
<1>4. IsFiniteSet(Places(ms, Len(ms), x))
  BY <1>3, FS_Subset DEF Places
<1> QED
  BY <1>2, <1>4, FS_CardinalityType

\* A message more.
LEMMA CountAppend ==
    ASSUME NEW S, NEW ms \in Seq(S), NEW m \in S, NEW x
    PROVE  Count(Append(ms, m), x) = IF m.type = x THEN Count(ms, x) + 1 ELSE Count(ms, x)
<1> DEFINE n == Len(ms)
           bs == Append(ms, m)
<1>1. bs \in Seq(S) /\ n \in Nat /\ Len(bs) = n + 1 /\ \A i \in 1 .. n : bs[i] = ms[i]
  BY AppendAt
<1>2. bs[n + 1] = m
  BY AppendAt
<1>3. /\ Count(ms, x) = Cardinality(Places(ms, n, x)) /\ IsFiniteSet(Places(ms, n, x))
      /\ Count(bs, x) = Cardinality(Places(bs, n + 1, x))
  BY <1>1, Counted1
<1> HIDE DEF n, bs
<1>4. \A i : i \in 1 .. n + 1 <=> i \in 1 .. n \/ i = n + 1
  BY <1>1
<1>5. n + 1 \notin Places(ms, n, x)
  BY <1>1 DEF Places
<1>6. Places(bs, n + 1, x) = IF m.type = x THEN Places(ms, n, x) \union {n + 1}
                             ELSE Places(ms, n, x)
  BY <1>1, <1>2, <1>4 DEF Places
<1>7. Cardinality(Places(ms, n, x) \union {n + 1}) = Cardinality(Places(ms, n, x)) + 1
  BY <1>3, <1>5, FS_AddElement
<1> QED
  BY <1>3, <1>6, <1>7 DEF bs

\* A message less.
LEMMA CountTail ==
    ASSUME NEW S, NEW ms \in Seq(S), ms # <<>>, NEW x
    PROVE  Count(ms, x) = IF Head(ms).type = x THEN Count(Tail(ms), x) + 1
                          ELSE Count(Tail(ms), x)
<1> DEFINE bs == Tail(ms)
           n == Len(bs)
           P == Places(bs, n, x)
           Q == Places(ms, n + 1, x)
           f == [i \in P |-> i + 1]
<1>1. /\ bs \in Seq(S) /\ Head(ms) = ms[1] /\ n \in Nat /\ Len(ms) = n + 1
      /\ \A i \in 1 .. n : bs[i] = ms[i + 1]
  BY TailAt
<1>2. /\ Count(ms, x) = Cardinality(Q) /\ IsFiniteSet(Q)
      /\ Count(bs, x) = Cardinality(P) /\ IsFiniteSet(P)
  BY <1>1, Counted1
<1> HIDE DEF bs, n
<1>3. \A i \in P : i \in 1 .. n /\ i + 1 \in 1 .. n + 1 /\ i + 1 # 1 /\ ms[i + 1].type = x
  BY <1>1 DEF Places
<1>4. \A j \in Q : j # 1 => j - 1 \in 1 .. n /\ (j - 1) + 1 = j
  BY <1>1 DEF Places
<1>5. \A j \in Q \ {1} : j - 1 \in P
  BY <1>1, <1>4 DEF Places
<1>6. f \in [P -> Q \ {1}]
  BY <1>3 DEF Places
<1>7. \A j \in Q \ {1} : \E i \in P : f[i] = j
  BY <1>4, <1>5
<1>8. \A i, j \in P : f[i] = f[j] => i = j
  BY <1>3
<1> HIDE DEF P, Q, f
<1>9. f \in Bijection(P, Q \ {1})
  BY <1>6, <1>7, <1>8 DEF Bijection, Injection, Surjection, IsInjective
<1>10. Cardinality(Q \ {1}) = Cardinality(P)
  BY <1>2, <1>9, FS_Bijection DEF ExistsBijection
<1>11. 1 \in Q <=> Head(ms).type = x
  BY <1>1 DEF Places, Q
<1>12. Cardinality(Q \ {1}) = IF 1 \in Q THEN Cardinality(Q) - 1 ELSE Cardinality(Q)
  BY <1>2, FS_RemoveElement
<1>13. Cardinality(Q) \in Nat /\ Cardinality(P) \in Nat
  BY <1>2, FS_CardinalityType
<1>14. Cardinality(Q) = IF Head(ms).type = x THEN Cardinality(P) + 1 ELSE Cardinality(P)
  BY <1>10, <1>11, <1>12, <1>13
<1> QED
  BY <1>2, <1>14 DEF bs

\* Messages of other types are not counted.
LEMMA CountConcat ==
    ASSUME NEW S, NEW ms \in Seq(S), NEW ns \in Seq(S), NEW x,
           \A i \in 1 .. Len(ns) : ns[i].type # x
    PROVE  ms \o ns \in Seq(S) /\ Count(ms \o ns, x) = Count(ms, x)
<1> DEFINE n == Len(ms)
           k == Len(ns)
           bs == ms \o ns
<1>1. n \in Nat /\ k \in Nat
  BY LenProperties
<1>2. bs \in Seq(S) /\ Len(bs) = n + k
  BY ConcatProperties
<1>3. \A i \in 1 .. n + k : bs[i] = IF i <= n THEN ms[i] ELSE ns[i - n]
  BY ConcatProperties
<1>4. /\ Count(ms, x) = Cardinality(Places(ms, n, x))
      /\ Count(bs, x) = Cardinality(Places(bs, n + k, x))
  BY <1>2, Counted1
<1>5. \A i \in 1 .. k : ns[i].type # x
  OBVIOUS
<1> HIDE DEF n, k, bs
<1>6. \A i \in 1 .. n : i \in 1 .. n + k /\ bs[i] = ms[i]
  BY <1>1, <1>3
<1>7. ASSUME NEW i \in 1 .. n + k, i \notin 1 .. n PROVE bs[i].type # x
  <2>1. i - n \in 1 .. k /\ ~(i <= n)
    BY <1>1, <1>7
  <2> QED
    BY <1>3, <1>5, <2>1
<1>8. Places(bs, n + k, x) = Places(ms, n, x)
  BY <1>6, <1>7 DEF Places
<1> QED
  BY <1>2, <1>4, <1>8 DEF bs

\* Among the first n of a queue, no broadcast comes before the first complete,
\* and there is a complete.
Told(ms, n) == \A i \in 1 .. n : ms[i].type = "broadcast" =>
                    \E k \in 1 .. n : k < i /\ ms[k].type = "complete"
Coming(ms, n) == \E k \in 1 .. n : ms[k].type = "complete"

\* Told and Coming outlast every message but a broadcast that nothing precedes.
LEMMA ToldAppend ==
    ASSUME NEW S, NEW ms \in Seq(S), NEW m \in S
    PROVE  LET bs == Append(ms, m)
           IN  /\ Told(ms, Len(ms)) /\ (m.type = "broadcast" => Coming(ms, Len(ms)))
                    => Told(bs, Len(bs))
               /\ Coming(ms, Len(ms)) \/ m.type = "complete" => Coming(bs, Len(bs))
<1> DEFINE n == Len(ms)
           bs == Append(ms, m)
<1>1. n \in Nat /\ Len(bs) = n + 1 /\ \A i \in 1 .. n : bs[i] = ms[i]
  BY AppendAt
<1>2. bs[n + 1] = m
  BY AppendAt
<1>n. Len(ms) = n /\ bs = Append(ms, m)
  OBVIOUS
<1> HIDE DEF n, bs
<1>3. /\ \A i \in 1 .. n + 1 : i \in 1 .. n \/ i = n + 1
      /\ \A i \in 1 .. n : i \in 1 .. n + 1 /\ i < n + 1
      /\ n + 1 \in 1 .. n + 1
  BY <1>1
<1>4. ASSUME Told(ms, n), m.type = "broadcast" => Coming(ms, n) PROVE Told(bs, n + 1)
  <2>1. ASSUME NEW i \in 1 .. n + 1, bs[i].type = "broadcast"
        PROVE  \E k \in 1 .. n + 1 : k < i /\ bs[k].type = "complete"
    <3>1. CASE i \in 1 .. n
      BY <1>1, <1>3, <1>4, <2>1, <3>1 DEF Told
    <3>2. CASE i = n + 1
      BY <1>1, <1>2, <1>3, <1>4, <2>1, <3>2 DEF Coming
    <3> QED
      BY <1>3, <3>1, <3>2
  <2> QED
    BY <2>1 DEF Told
<1>5. Coming(ms, n) \/ m.type = "complete" => Coming(bs, n + 1)
  BY <1>1, <1>2, <1>3 DEF Coming
<1> QED
  BY <1>1, <1>4, <1>5, <1>n

\* They outlast whatever is heard but a completion.
LEMMA ToldTail ==
    ASSUME NEW S, NEW ms \in Seq(S), ms # <<>>, Head(ms).type # "complete"
    PROVE  LET bs == Tail(ms)
           IN  /\ Told(ms, Len(ms)) => Told(bs, Len(bs)) /\ Head(ms).type # "broadcast"
               /\ Coming(ms, Len(ms)) => Coming(bs, Len(bs))
<1> DEFINE bs == Tail(ms)
           n == Len(bs)
<1>1. /\ Head(ms) = ms[1] /\ n \in Nat /\ Len(ms) = n + 1
      /\ \A i \in 1 .. n : bs[i] = ms[i + 1]
  BY TailAt
<1>n. Len(bs) = n /\ bs = Tail(ms)
  OBVIOUS
<1> HIDE DEF n, bs
<1>2. /\ \A i \in 1 .. n : i + 1 \in 1 .. n + 1
      /\ \A k \in 1 .. n + 1 : k = 1 \/ (k - 1 \in 1 .. n /\ (k - 1) + 1 = k)
      /\ \A k, i \in 1 .. n + 1 : k < i + 1 => k - 1 < i
      /\ 1 \in 1 .. n + 1 /\ \A i \in 1 .. n : i \in 1 .. n + 1
      /\ \A k \in 1 .. n + 1 : ~(k < 1)
  BY <1>1
<1>3. ms[1].type # "complete"
  BY <1>1
<1>4. ASSUME NEW k \in 1 .. n + 1, ms[k].type = "complete"
      PROVE  k - 1 \in 1 .. n /\ bs[k - 1].type = "complete"
  <2>1. k # 1
    BY <1>3, <1>4
  <2>2. k - 1 \in 1 .. n /\ (k - 1) + 1 = k
    BY <1>2, <2>1
  <2> QED
    BY <1>1, <1>4, <2>2
<1>5. ASSUME Told(ms, n + 1) PROVE Told(bs, n) /\ ms[1].type # "broadcast"
  <2>1. ASSUME NEW i \in 1 .. n, bs[i].type = "broadcast"
        PROVE  \E k \in 1 .. n : k < i /\ bs[k].type = "complete"
    <3>1. i + 1 \in 1 .. n + 1 /\ ms[i + 1].type = "broadcast"
      BY <1>1, <1>2, <2>1
    <3>2. PICK k \in 1 .. n + 1 : k < i + 1 /\ ms[k].type = "complete"
      BY <1>5, <3>1 DEF Told
    <3>3. k - 1 < i
      BY <1>2, <3>2
    <3> QED
      BY <1>4, <3>2, <3>3
  <2>2. ms[1].type # "broadcast"
    BY <1>2, <1>5 DEF Told
  <2> QED
    BY <2>1, <2>2 DEF Told
<1>6. Coming(ms, n + 1) => Coming(bs, n)
  BY <1>4 DEF Coming
<1> QED
  BY <1>1, <1>5, <1>6, <1>n

TMT == Ticket!MessageType
mm(b) == tAnswers[b]["mm"]
Ticketed(b) == IF ticket[b] = "none" THEN 0 ELSE 1
Chain(b) == Count(tCmds[b]["mm"], "issue") + Count(mm(b), "error") + Count(mm(b), "left")
            + Ticketed(b)
\* A bot that runs has one, of a ticket and what makes for one.
Chained(b) == IF run[b] = "on" THEN Chain(b) = 1 \/ (Chain(b) = 0 /\ b \in lapsed)
              ELSE Chain(b) = 0

\* Its turn client could not be made.
Without(b) == apart /\ b \in failed
\* What is registered for a match comes before what is heard of the match.
Turned(b) ==
    /\ handlers[b] + Count(mm(b), "complete") <= matches[b]
    /\ battle[b].calls > 0 => handlers[b] > 0
    /\ battle[b].calls = 0 => battle[b].at = "fight"
    /\ trnClient[b] \/ handlers[b] = 0 \/ (apart /\ battle[b].at = "leaveRoom")
    /\ handlers[b] > 0 \/ Without(b) \/ Told(mm(b), Len(mm(b)))
    /\ handlers[b] > 0 \/ Without(b) \/ Coming(mm(b), Len(mm(b)))
            \/ \A a \in Users : b \notin match[a]
TicketInv == /\ Ticket!TypeOK /\ Ticket!CrashNeedsTurn
             /\ \A b \in Users : Chained(b)
             /\ ~crashed => \A b \in Users : Turned(b)

\* An empty queue holds nothing.
LEMMA CountNone == \A x : Count(<<>>, x) = 0
<1> TAKE x
<1>1. Count(<<>>, x) = Cardinality(Places(<<>>, Len(<<>>), x))
  <2>1. <<>> \in Seq(TMT)
    OBVIOUS
  <2> QED
    BY <2>1, Counted1
<1>2. Places(<<>>, Len(<<>>), x) = {}
  BY DEF Places
<1> QED
  BY <1>1, <1>2, FS_EmptySet

\* No bot has a ticket, or runs.
LEMMA TicketInit == Ticket!Init => TicketInv
<1> SUFFICES ASSUME Ticket!Init PROVE TicketInv
  OBVIOUS
<1>1. /\ run = [b \in Users |-> "off"] /\ handlers = [b \in Users |-> 0]
      /\ roomID = [b \in Users |-> None] /\ battle = [b \in Users |-> Ticket!Idle]
      /\ tCmds = [b \in Users |-> [c \in Ticket!ClientKinds |-> <<>>]]
      /\ tAnswers = [b \in Users |-> [c \in Ticket!ClientKinds |-> <<>>]]
      /\ ticket = [b \in Users |-> "none"] /\ match = [b \in Users |-> {}]
      /\ room = [b \in Users |-> {}] /\ matches = [b \in Users |-> 0]
      /\ lapsed = {} /\ failed = {} 
  BY DEF Ticket!Init
<1>2. /\ apart \in BOOLEAN /\ trnClient = [b \in Users |-> FALSE]
      /\ isOwner = [b \in Users |-> FALSE] /\ crashed = FALSE
  BY DEF Ticket!Init
<1>3. Ticket!TypeOK
  <2>1. MaxMatches \in Nat
    BY BotsAssumption
  <2>2. <<>> \in Seq(Ticket!MessageType)
    OBVIOUS
  <2>3. /\ run \in [Users -> {"off", "on"}] /\ handlers \in [Users -> 0 .. MaxMatches]
        /\ roomID \in [Users -> Users \union {None}]
        /\ ticket \in [Users -> {"none", "queued", "matched"}]
        /\ match \in [Users -> SUBSET Users] /\ room \in [Users -> SUBSET Users]
        /\ matches \in [Users -> 0 .. MaxMatches]
        /\ lapsed \subseteq Users /\ failed \subseteq Users
    BY <1>1, <2>1
  <2>4. battle \in [Users -> [calls : 0 .. MaxMatches,
                            at : {"fight", "leaveRoom", "leaveTicket"}]]
    BY <1>1, <2>1 DEF Ticket!Idle
  <2>5. /\ tCmds \in [Users -> [Ticket!ClientKinds -> Seq(Ticket!MessageType)]]
        /\ tAnswers \in [Users -> [Ticket!ClientKinds -> Seq(Ticket!MessageType)]]
    BY <1>1, <2>2
  <2>6. /\ trnClient \in [Users -> BOOLEAN] /\ isOwner \in [Users -> BOOLEAN]
        /\ crashed \in BOOLEAN
    BY <1>2
  <2> QED
    BY <1>2, <2>3, <2>4, <2>5, <2>6 DEF Ticket!TypeOK
<1>4. ASSUME NEW b \in Users PROVE Chained(b) /\ Turned(b)
  <2>1. tCmds[b]["mm"] = <<>> /\ mm(b) = <<>>
    BY <1>1 DEF mm, Ticket!ClientKinds
  <2>2. /\ Count(tCmds[b]["mm"], "issue") = 0 /\ Count(mm(b), "error") = 0
        /\ Count(mm(b), "left") = 0 /\ Count(mm(b), "complete") = 0
    BY <2>1, CountNone
  <2>3. Len(mm(b)) = 0
    BY <2>1
  <2>4. Told(mm(b), Len(mm(b)))
    BY <2>3 DEF Told
  <2>5. Chained(b)
    BY <1>1, <2>2 DEF Chained, Chain, Ticketed
  <2> QED
    BY <1>1, <2>2, <2>4, <2>5 DEF Turned, Ticket!Idle
<1> QED
  BY <1>2, <1>3, <1>4 DEF TicketInv, Ticket!CrashNeedsTurn

\* Each step of a bot or of the servers keeps every chain, and every turn client before its
\* use, unless the scenario has died.
LEMMA TicketStep == TicketInv /\ [Ticket!Next]_ticketVars => TicketInv'
<1> SUFFICES ASSUME TicketInv, [Ticket!Next]_ticketVars PROVE TicketInv'
  OBVIOUS
<1> DEFINE ats == {"fight", "leaveRoom", "leaveTicket"}
           rooms == Users \union {None}
           kinds == {"mm", "turn"}
           queues == [kinds -> Seq(TMT)]
           types == {"issue", "leave", "broadcast", "create", "join", "leaveRoom",
                     "error", "complete", "left", "created", "joined"}
<1>0. /\ Ticket!TypeOK /\ Ticket!CrashNeedsTurn
      /\ \A b \in Users : Chained(b)
      /\ (~crashed => \A b \in Users : Turned(b))
  BY DEF TicketInv
<1>y. /\ run \in [Users -> {"off", "on"}] /\ handlers \in [Users -> 0 .. MaxMatches]
      /\ roomID \in [Users -> rooms]
      /\ battle \in [Users -> [calls : 0 .. MaxMatches, at : ats]]
      /\ tCmds \in [Users -> queues] /\ tAnswers \in [Users -> queues]
      /\ ticket \in [Users -> {"none", "queued", "matched"}]
      /\ match \in [Users -> SUBSET Users] /\ room \in [Users -> SUBSET Users]
      /\ matches \in [Users -> 0 .. MaxMatches]
      /\ lapsed \subseteq Users /\ failed \subseteq Users /\ MaxMatches \in Nat
  BY <1>0, BotsAssumption DEF Ticket!TypeOK, TMT, Ticket!ClientKinds
<1>z. /\ apart \in BOOLEAN /\ trnClient \in [Users -> BOOLEAN]
      /\ isOwner \in [Users -> BOOLEAN] /\ crashed \in BOOLEAN
  BY <1>0 DEF Ticket!TypeOK
<1>m. /\ \A x \in types, r \in rooms :
            /\ Ticket!Message(x, r) \in TMT
            /\ Ticket!Message(x, r).type = x /\ Ticket!Message(x, r).room = r
      /\ \A m \in TMT : m.room \in rooms
      /\ None \in rooms /\ Users \subseteq rooms
  BY DEF TMT, Ticket!MessageType, Ticket!Message
<1>g. ASSUME run' \in [Users -> {"off", "on"}], handlers' \in [Users -> 0 .. MaxMatches],
             roomID' \in [Users -> rooms],
             battle' \in [Users -> [calls : 0 .. MaxMatches, at : ats]],
             tCmds' \in [Users -> queues], tAnswers' \in [Users -> queues],
             ticket' \in [Users -> {"none", "queued", "matched"}],
             match' \in [Users -> SUBSET Users], room' \in [Users -> SUBSET Users],
             matches' \in [Users -> 0 .. MaxMatches],
             lapsed' \subseteq Users, failed' \subseteq Users,
             apart' \in BOOLEAN, trnClient' \in [Users -> BOOLEAN],
             isOwner' \in [Users -> BOOLEAN], crashed' \in BOOLEAN
      PROVE  Ticket!TypeOK'
  BY <1>g DEF Ticket!TypeOK, TMT, Ticket!ClientKinds, Ticket!MessageType
<1> HIDE DEF ats, rooms, kinds, queues, types
\* What sending, taking, hearing and pushing do to the queues that count.
<1> DEFINE Asks(v) == Count(tCmds[v]["mm"], "issue")
<1>k. /\ "mm" \in kinds /\ "turn" \in kinds /\ Ticket!Turn \in kinds
      /\ \A c \in kinds, v \in Users : tCmds[v][c] \in Seq(TMT) /\ tAnswers[v][c] \in Seq(TMT)
      /\ \A v \in Users : mm(v) = tAnswers[v]["mm"] /\ mm(v) \in Seq(TMT)
  <2>1. "mm" \in kinds /\ "turn" \in kinds /\ Ticket!Turn \in kinds
    BY DEF kinds, Ticket!Turn
  <2>2. \A c \in kinds, v \in Users : tCmds[v][c] \in Seq(TMT) /\ tAnswers[v][c] \in Seq(TMT)
    BY <1>y DEF queues
  <2> QED
    BY <2>1, <2>2 DEF mm
<1>s. ASSUME NEW b \in Users, NEW c \in kinds, NEW ns \in Seq(TMT), Ticket!RSend(b, c, ns)
      PROVE  /\ \A v \in Users, d \in kinds : tCmds'[v][d] = IF v = b /\ d = c
                        THEN tCmds[v][d] \o ns ELSE tCmds[v][d]
             /\ tCmds[b][c] \o ns \in Seq(TMT)
             /\ tCmds' \in [Users -> queues]
  <2>1. tCmds[b][c] \o ns \in Seq(TMT)
    BY <1>k, ConcatProperties
  <2>2. tCmds' = [tCmds EXCEPT ![b][c] = tCmds[b][c] \o ns]
    BY <1>s DEF Ticket!RSend
  <2> QED
    BY <1>y, <2>1, <2>2 DEF queues
<1>n. ASSUME NEW b \in Users, NEW c \in kinds, NEW ns \in Seq(TMT), Ticket!RSend(b, c, ns),
             \A i \in 1 .. Len(ns) : ns[i].type # "issue"
      PROVE  tCmds' \in [Users -> queues] /\ \A v \in Users : Asks(v)' = Asks(v)
  <2>1. Count(tCmds[b][c] \o ns, "issue") = Count(tCmds[b][c], "issue")
    BY <1>k, <1>n, CountConcat
  <2> QED
    BY <1>k, <1>n, <1>s, <2>1
<1>o. ASSUME NEW b \in Users, NEW c \in kinds, NEW m \in TMT, Ticket!RSend(b, c, <<m>>),
             m.type # "issue"
      PROVE  tCmds' \in [Users -> queues] /\ \A v \in Users : Asks(v)' = Asks(v)
  <2>1. <<m>> \in Seq(TMT) /\ \A i \in 1 .. Len(<<m>>) : <<m>>[i].type # "issue"
    BY <1>o
  <2> QED
    BY <1>n, <1>o, <2>1
<1>i. ASSUME NEW b \in Users, Ticket!issueTicket(b)
      PROVE  /\ tCmds' \in [Users -> queues] /\ Asks(b)' = Asks(b) + 1
             /\ \A v \in Users : v # b => Asks(v)' = Asks(v)
  <2> DEFINE m == Ticket!Message("issue", None)
  <2>1. m \in TMT /\ m.type = "issue"
    BY <1>m DEF types
  <2>2. <<m>> \in Seq(TMT) /\ Ticket!RSend(b, "mm", <<m>>)
    BY <1>i, <2>1 DEF Ticket!issueTicket
  <2> HIDE DEF m
  <2>3. /\ tCmds' \in [Users -> queues] /\ tCmds'[b]["mm"] = tCmds[b]["mm"] \o <<m>>
        /\ \A v \in Users : v # b => tCmds'[v]["mm"] = tCmds[v]["mm"]
    <3>1. "mm" \in kinds
      BY <1>k
    <3>2. tCmds' \in [Users -> queues]
      BY <1>s, <2>2, <3>1
    <3>3. tCmds' = [tCmds EXCEPT ![b]["mm"] = tCmds[b]["mm"] \o <<m>>]
      BY <2>2 DEF Ticket!RSend
    <3>4. \A v \in Users : tCmds'[v]["mm"] = IF v = b THEN tCmds[b]["mm"] \o <<m>>
                                             ELSE tCmds[v]["mm"]
      BY <1>y, <3>1, <3>3 DEF queues
    <3> QED
      BY <3>2, <3>4
  <2>4. tCmds[b]["mm"] \o <<m>> = Append(tCmds[b]["mm"], m)
    BY <1>k, <2>1, AppendIsConcat
  <2>5. Count(Append(tCmds[b]["mm"], m), "issue") = Count(tCmds[b]["mm"], "issue") + 1
    BY <1>k, <2>1, CountAppend
  <2> QED
    BY <2>3, <2>4, <2>5
<1>t. ASSUME NEW b \in Users, NEW c \in kinds, NEW x, Ticket!Take(b, c, x)
      PROVE  /\ UNCHANGED <<run, roomID, handlers, battle, failed>>
             /\ UNCHANGED <<apart, trnClient, isOwner, crashed>>
             /\ tCmds' \in [Users -> queues]
             /\ Head(tCmds[b][c]) \in TMT /\ Head(tCmds[b][c]).type = x
             /\ c = "mm" /\ x = "issue" => Asks(b) = Asks(b)' + 1
             /\ \A v \in Users : v # b \/ x # "issue" => Asks(v)' = Asks(v)
  <2>1. UNCHANGED <<run, roomID, handlers, battle, failed>>
    BY <1>t DEF Ticket!Take, Ticket!botVars
  <2>2. UNCHANGED <<apart, trnClient, isOwner, crashed>>
    BY <1>t DEF Ticket!Take, Ticket!botVars
  <2>3. /\ tCmds[b][c] # <<>> /\ Head(tCmds[b][c]).type = x
        /\ tCmds' = [tCmds EXCEPT ![b][c] = Tail(tCmds[b][c])]
    BY <1>t DEF Ticket!Take
  <2>4. tCmds[b][c] \in Seq(TMT)
    BY <1>k
  <2>5. Tail(tCmds[b][c]) \in Seq(TMT) /\ Head(tCmds[b][c]) \in TMT
    BY <2>3, <2>4, TailAt
  <2>6. /\ tCmds' \in [Users -> queues]
        /\ \A v \in Users, d \in kinds : tCmds'[v][d] = IF v = b /\ d = c
                        THEN Tail(tCmds[v][d]) ELSE tCmds[v][d]
    BY <1>y, <2>3, <2>5 DEF queues
  <2>7. Count(tCmds[b][c], "issue") = IF x = "issue" THEN Count(Tail(tCmds[b][c]), "issue") + 1
                                      ELSE Count(Tail(tCmds[b][c]), "issue")
    BY <2>3, <2>4, CountTail
  <2>8. \A v \in Users : v # b \/ x # "issue" => Asks(v)' = Asks(v)
    BY <1>k, <2>6, <2>7
  <2>9. c = "mm" /\ x = "issue" => Asks(b) = Asks(b)' + 1
    BY <1>k, <2>6, <2>7
  <2> QED
    BY <2>1, <2>2, <2>3, <2>5, <2>6, <2>8, <2>9
<1>h. ASSUME NEW b \in Users, NEW c \in kinds, NEW x, Ticket!Hear(b, c, x),
             \/ tAnswers' = Ticket!Heard(b, c)
             \/ c = "mm" /\ tAnswers' = [Ticket!Heard(b, c) EXCEPT ![b]["turn"] = <<>>]
      PROVE  /\ UNCHANGED <<run, ticket, match, room, matches, lapsed>> /\ UNCHANGED apart
             /\ tAnswers' \in [Users -> queues]
             /\ Head(tAnswers[b][c]) \in TMT /\ tAnswers[b][c] # <<>>
             /\ Head(tAnswers[b][c]).type = x
             /\ \A v \in Users : mm(v)' = IF v = b /\ c = "mm" THEN Tail(mm(v)) ELSE mm(v)
  <2>1. UNCHANGED <<run, ticket, match, room, matches, lapsed>>
    BY <1>h DEF Ticket!Hear, Ticket!serverVars
  <2>2. UNCHANGED apart
    BY <1>h DEF Ticket!Hear
  <2>3. tAnswers[b][c] # <<>> /\ Head(tAnswers[b][c]).type = x
    BY <1>h DEF Ticket!Hear
  <2>4. tAnswers[b][c] \in Seq(TMT)
    BY <1>k
  <2>5. Tail(tAnswers[b][c]) \in Seq(TMT) /\ Head(tAnswers[b][c]) \in TMT
    BY <2>3, <2>4, TailAt
  <2>6. <<>> \in Seq(TMT)
    OBVIOUS
  <2>7. Ticket!Heard(b, c) = [tAnswers EXCEPT ![b][c] = Tail(tAnswers[b][c])]
    BY DEF Ticket!Heard
  <2>8. /\ tAnswers' \in [Users -> queues]
        /\ \A v \in Users : tAnswers'[v]["mm"] = IF v = b /\ c = "mm"
                        THEN Tail(tAnswers[v]["mm"]) ELSE tAnswers[v]["mm"]
    <3>1. /\ Ticket!Heard(b, c) \in [Users -> queues]
          /\ \A v \in Users : Ticket!Heard(b, c)[v] =
                IF v = b THEN [tAnswers[v] EXCEPT ![c] = Tail(tAnswers[v][c])]
                ELSE tAnswers[v]
      <4>1. [tAnswers[b] EXCEPT ![c] = Tail(tAnswers[b][c])] \in queues
        BY <1>y, <2>5 DEF queues
      <4>2. Ticket!Heard(b, c) =
                [tAnswers EXCEPT ![b] = [tAnswers[b] EXCEPT ![c] = Tail(tAnswers[b][c])]]
        BY <2>7
      <4> QED
        BY <1>y, <4>1, <4>2
    <3>2. \A v \in Users : Ticket!Heard(b, c)[v]["mm"] = IF v = b /\ c = "mm"
                        THEN Tail(tAnswers[v]["mm"]) ELSE tAnswers[v]["mm"]
      <4> TAKE v \in Users
      <4>1. tAnswers[v] \in [kinds -> Seq(TMT)] /\ "mm" \in kinds
        BY <1>k, <1>y DEF queues
      <4> QED
        BY <3>1, <4>1
    <3>3. CASE tAnswers' = Ticket!Heard(b, c)
      BY <3>1, <3>2, <3>3
    <3>4. CASE c = "mm" /\ tAnswers' = [Ticket!Heard(b, c) EXCEPT ![b]["turn"] = <<>>]
      <4>1. tAnswers' \in [Users -> queues]
        BY <1>k, <2>6, <3>1, <3>4 DEF queues
      <4>2. \A v \in Users : tAnswers'[v]["mm"] = Ticket!Heard(b, c)[v]["mm"]
        <5> TAKE v \in Users
        <5>1. Ticket!Heard(b, c)[v] \in [kinds -> Seq(TMT)] /\ "mm" \in kinds
              /\ "mm" # "turn"
          BY <1>k, <3>1 DEF queues
        <5>2. tAnswers'[v] = IF v = b THEN [Ticket!Heard(b, c)[v] EXCEPT !["turn"] = <<>>]
                             ELSE Ticket!Heard(b, c)[v]
          BY <3>1, <3>4
        <5> QED
          BY <5>1, <5>2
      <4> QED
        BY <3>2, <4>1, <4>2
    <3> QED
      BY <1>h, <3>3, <3>4
  <2> QED
    BY <2>1, <2>2, <2>3, <2>5, <2>8 DEF mm
<1>p. ASSUME NEW bs, NEW c \in kinds, NEW m \in TMT, Ticket!Push(bs, c, m)
      PROVE  /\ tAnswers' \in [Users -> queues]
             /\ \A v \in Users : mm(v)' = IF v \in bs /\ c = "mm" THEN Append(mm(v), m)
                                          ELSE mm(v)
  <2>1. tAnswers' = [v \in Users |-> IF v \in bs
                        THEN [tAnswers[v] EXCEPT ![c] = Append(tAnswers[v][c], m)]
                        ELSE tAnswers[v]]
    BY <1>p DEF Ticket!Push
  <2>2. \A v \in Users : Append(tAnswers[v][c], m) \in Seq(TMT)
    BY <1>k, AppendAt
  <2>3. tAnswers' \in [Users -> queues]
    BY <1>y, <2>1, <2>2 DEF queues
  <2>4. \A v \in Users : tAnswers'[v]["mm"] = IF v \in bs /\ c = "mm"
                THEN Append(tAnswers[v]["mm"], m) ELSE tAnswers[v]["mm"]
    BY <1>k, <1>y, <2>1 DEF queues
  <2> QED
    BY <2>3, <2>4 DEF mm
\* A step that is not about v leaves its chain and its match as they are.
<1> DEFINE Grows(v, m) == m \in TMT /\ mm(v)' = Append(mm(v), m)
           Shrinks(v) == mm(v) # <<>> /\ mm(v)' = Tail(mm(v))
<1>x. ASSUME NEW v \in Users, run'[v] = run[v], v \in lapsed => v \in lapsed',
             Asks(v)' = Asks(v),
             Ticketed(v)' = Ticketed(v),
             \/ mm(v)' = mm(v)
             \/ \E m : Grows(v, m) /\ m.type \notin {"error", "left"}
             \/ Shrinks(v) /\ Head(mm(v)).type \notin {"error", "left"}
      PROVE  Chained(v)'
  <2>1. mm(v) \in Seq(TMT)
    BY <1>k
  <2>2. Count(mm(v)', "error") = Count(mm(v), "error")
        /\ Count(mm(v)', "left") = Count(mm(v), "left")
    <3>1. CASE mm(v)' = mm(v)
      BY <3>1
    <3>2. CASE \E m : Grows(v, m) /\ m.type \notin {"error", "left"}
      BY <2>1, <3>2, CountAppend
    <3>3. CASE Shrinks(v) /\ Head(mm(v)).type \notin {"error", "left"}
      BY <2>1, <3>3, CountTail
    <3> QED
      BY <1>x, <3>1, <3>2, <3>3
  <2>3. Chain(v)' = Chain(v)
    BY <1>x, <2>2 DEF Chain
  <2> QED
    BY <1>0, <1>x, <2>3 DEF Chained
\* What Turned says of its answers, where its handlers stay.
<1>u. ASSUME NEW v \in Users, ~crashed, handlers'[v] = handlers[v],
             UNCHANGED apart, matches'[v] = matches[v], v \in failed => v \in failed',
             \A a \in Users : v \in match'[a] => \E d \in Users : v \in match[d],
             \/ mm(v)' = mm(v)
             \/ \E m : /\ Grows(v, m) /\ m.type # "complete"
                       /\ m.type = "broadcast" => \E a \in Users : v \in match[a]
             \/ Shrinks(v) /\ Head(mm(v)).type # "complete"
      PROVE  /\ handlers'[v] + Count(mm(v)', "complete") <= matches'[v]
             /\ handlers'[v] > 0 \/ Without(v)' \/ Told(mm(v)', Len(mm(v)'))
             /\ handlers'[v] > 0 \/ Without(v)' \/ Coming(mm(v)', Len(mm(v)'))
                    \/ \A a \in Users : v \notin match'[a]
  <2>1. mm(v) \in Seq(TMT)
    BY <1>k
  <2>2. Turned(v)
    BY <1>0, <1>u
  <2>3. Without(v) => Without(v)'
    BY <1>u DEF Without
  <2>4. Count(mm(v)', "complete") = Count(mm(v), "complete")
    <3>1. CASE mm(v)' = mm(v)
      BY <3>1
    <3>2. CASE \E m : Grows(v, m) /\ m.type # "complete"
      BY <2>1, <3>2, CountAppend
    <3>3. CASE Shrinks(v) /\ Head(mm(v)).type # "complete"
      BY <2>1, <3>3, CountTail
    <3> QED
      BY <1>u, <3>1, <3>2, <3>3
  <2>5. Coming(mm(v), Len(mm(v))) => Coming(mm(v)', Len(mm(v)'))
    <3>1. CASE mm(v)' = mm(v)
      BY <3>1
    <3>2. CASE \E m : Grows(v, m)
      BY <2>1, <3>2, ToldAppend
    <3>3. CASE Shrinks(v) /\ Head(mm(v)).type # "complete"
      BY <2>1, <3>3, ToldTail
    <3> QED
      BY <1>u, <3>1, <3>2, <3>3
  <2>6. handlers[v] > 0 \/ Without(v) \/ Told(mm(v)', Len(mm(v)'))
    <3>1. SUFFICES ASSUME ~(handlers[v] > 0 \/ Without(v))
                   PROVE  Told(mm(v)', Len(mm(v)'))
      OBVIOUS
    <3>2. /\ Told(mm(v), Len(mm(v)))
          /\ Coming(mm(v), Len(mm(v))) \/ \A a \in Users : v \notin match[a]
      BY <2>2, <3>1 DEF Turned
    <3>3. CASE mm(v)' = mm(v)
      BY <3>2, <3>3
    <3>4. CASE \E m : /\ Grows(v, m)
                      /\ m.type = "broadcast" => \E a \in Users : v \in match[a]
      BY <2>1, <3>2, <3>4, ToldAppend
    <3>5. CASE Shrinks(v) /\ Head(mm(v)).type # "complete"
      BY <2>1, <3>2, <3>5, ToldTail
    <3> QED
      BY <1>u, <3>3, <3>4, <3>5
  <2>7. handlers'[v] + Count(mm(v)', "complete") <= matches'[v]
    BY <1>u, <2>2, <2>4 DEF Turned
  <2>8. handlers'[v] > 0 \/ Without(v)' \/ Told(mm(v)', Len(mm(v)'))
    BY <1>u, <2>3, <2>6
  <2>9. handlers'[v] > 0 \/ Without(v)' \/ Coming(mm(v)', Len(mm(v)'))
            \/ \A a \in Users : v \notin match'[a]
    BY <1>u, <2>2, <2>3, <2>5 DEF Turned
  <2> QED
    BY <2>7, <2>8, <2>9
<1>v. ASSUME NEW v \in Users, ~crashed, handlers'[v] = handlers[v], battle'[v] = battle[v],
             trnClient'[v] = trnClient[v], UNCHANGED apart, matches'[v] = matches[v],
             v \in failed => v \in failed',
             \A a \in Users : v \in match'[a] => \E d \in Users : v \in match[d],
             \/ mm(v)' = mm(v)
             \/ \E m : /\ Grows(v, m) /\ m.type # "complete"
                       /\ m.type = "broadcast" => \E a \in Users : v \in match[a]
             \/ Shrinks(v) /\ Head(mm(v)).type # "complete"
      PROVE  Turned(v)'
  <2>1. Turned(v)
    BY <1>0, <1>v
  <2>2. /\ battle'[v].calls > 0 => handlers'[v] > 0
        /\ battle'[v].calls = 0 => battle'[v].at = "fight"
    BY <1>v, <2>1 DEF Turned
  <2>3. trnClient'[v] \/ handlers'[v] = 0 \/ (apart' /\ battle'[v].at = "leaveRoom")
    BY <1>v, <2>1 DEF Turned
  <2>4. /\ handlers'[v] + Count(mm(v)', "complete") <= matches'[v]
        /\ handlers'[v] > 0 \/ Without(v)' \/ Told(mm(v)', Len(mm(v)'))
        /\ handlers'[v] > 0 \/ Without(v)' \/ Coming(mm(v)', Len(mm(v)'))
                \/ \A a \in Users : v \notin match'[a]
    BY <1>u, <1>v
  <2> QED
    BY <2>2, <2>3, <2>4 DEF Turned
\* What is heard is the first of a queue, and the queue loses it.
<1>c. ASSUME NEW b \in Users, NEW c \in kinds, NEW x, Ticket!Hear(b, c, x),
             \/ tAnswers' = Ticket!Heard(b, c)
             \/ c = "mm" /\ tAnswers' = [Ticket!Heard(b, c) EXCEPT ![b]["turn"] = <<>>]
      PROVE  \A v \in Users : \/ mm(v)' = mm(v)
                              \/ v = b /\ Shrinks(v) /\ Head(mm(v)).type = x
  <2>1. /\ tAnswers[b][c] # <<>> /\ Head(tAnswers[b][c]).type = x
        /\ \A v \in Users : mm(v)' = IF v = b /\ c = "mm" THEN Tail(mm(v)) ELSE mm(v)
    BY <1>c, <1>h
  <2> QED
    BY <1>k, <2>1
<1>e. ASSUME ~crashed' PROVE Ticket!CrashNeedsTurn'
  BY <1>e DEF Ticket!CrashNeedsTurn
<1>w. CASE UNCHANGED ticketVars
  <2>1. UNCHANGED <<run, handlers, roomID, battle, tCmds, tAnswers, ticket, match, room, matches,
                    lapsed, failed>>
    BY <1>w DEF ticketVars
  <2>2. UNCHANGED <<apart, trnClient, isOwner, crashed>>
    BY <1>w DEF ticketVars
  <2>3. Ticket!TypeOK' /\ Ticket!CrashNeedsTurn'
    BY <1>0, <2>1, <2>2 DEF Ticket!TypeOK, Ticket!CrashNeedsTurn, Ticket!ClientKinds,
       Ticket!MessageType
  <2>4. \A v \in Users : mm(v)' = mm(v) /\ Asks(v)' = Asks(v) /\ Ticketed(v)' = Ticketed(v)
    BY <2>1 DEF mm, Ticketed
  <2>5. \A v \in Users : Chained(v)'
    BY <1>x, <2>1, <2>4
  <2>6. ~crashed => \A v \in Users : Turned(v)'
    BY <1>v, <2>1, <2>2, <2>4
  <2> QED
    BY <2>2, <2>3, <2>5, <2>6 DEF TicketInv
<1> SUFFICES ASSUME ~crashed, Ticket!Next PROVE TicketInv'
  BY <1>w DEF Ticket!Next
<1>r. \A v \in Users : Turned(v)
  BY <1>0
<1>1. ASSUME NEW b \in Users, Ticket!Run(b) PROVE TicketInv'
  <2>1. /\ UNCHANGED <<handlers, roomID, battle, tAnswers, ticket, match, room, matches, lapsed,
                       failed>>
        /\ run[b] = "off" /\ run' = [run EXCEPT ![b] = "on"]
        /\ Ticket!issueTicket(b)
    BY <1>1 DEF Ticket!Run, Ticket!botVars, Ticket!serverVars
  <2>2. UNCHANGED <<apart, trnClient, isOwner, crashed>>
    BY <1>1 DEF Ticket!Run, Ticket!botVars, Ticket!Lives
  <2>3. /\ tCmds' \in [Users -> queues] /\ Asks(b)' = Asks(b) + 1
        /\ \A v \in Users : v # b => Asks(v)' = Asks(v)
    BY <1>i, <2>1
  <2>4. Ticket!TypeOK'
    <3>1. run' \in [Users -> {"off", "on"}]
      BY <1>y, <2>1
    <3> QED
      BY <1>g, <1>y, <1>z, <2>1, <2>2, <2>3, <3>1
  <2>5. \A v \in Users : mm(v)' = mm(v) /\ Ticketed(v)' = Ticketed(v)
    BY <2>1 DEF mm, Ticketed
  <2>6. ASSUME NEW v \in Users PROVE Chained(v)'
    <3>1. CASE v # b
      BY <1>x, <1>y, <2>1, <2>3, <2>5, <3>1
    <3>2. CASE v = b
      <4>1. Chain(b) = 0
        BY <1>0, <2>1 DEF Chained
      <4>2. /\ Asks(b) \in Nat /\ Count(mm(b), "error") \in Nat /\ Count(mm(b), "left") \in Nat
            /\ Ticketed(b) \in Nat
        BY <1>k, Counted1 DEF Ticketed
      <4>3. Chain(b)' = 1
        BY <2>3, <2>5, <4>1, <4>2 DEF Chain
      <4> QED
        BY <1>y, <2>1, <3>2, <4>3 DEF Chained
    <3> QED
      BY <3>1, <3>2
  <2>7. \A v \in Users : Turned(v)'
    BY <1>v, <2>1, <2>2, <2>5
  <2> QED
    BY <1>e, <2>2, <2>4, <2>6, <2>7 DEF TicketInv
<1>2. ASSUME NEW b \in Users, Ticket!OnIdle(b) PROVE TicketInv'
  <2>1. /\ UNCHANGED <<run, handlers, roomID, battle, tAnswers, ticket, match, room, matches,
                       lapsed, failed>>
        /\ Ticket!RSend(b, "mm", <<Ticket!Message("leave", None)>>)
    BY <1>2 DEF Ticket!OnIdle, Ticket!botVars, Ticket!serverVars, Ticket!leaveTicket
  <2>2. UNCHANGED <<apart, trnClient, isOwner, crashed>>
    BY <1>2 DEF Ticket!OnIdle, Ticket!botVars, Ticket!Lives
  <2>3. tCmds' \in [Users -> queues] /\ \A v \in Users : Asks(v)' = Asks(v)
    <3>1. Ticket!Message("leave", None) \in TMT /\ Ticket!Message("leave", None).type = "leave"
      BY <1>m DEF types
    <3> QED
      BY <1>k, <1>o, <2>1, <3>1
  <2>4. Ticket!TypeOK'
    BY <1>g, <1>y, <1>z, <2>1, <2>2, <2>3
  <2>5. \A v \in Users : mm(v)' = mm(v) /\ Ticketed(v)' = Ticketed(v)
    BY <2>1 DEF mm, Ticketed
  <2>6. \A v \in Users : Chained(v)'
    BY <1>x, <2>1, <2>3, <2>5
  <2>7. \A v \in Users : Turned(v)'
    BY <1>v, <2>1, <2>2, <2>5
  <2> QED
    BY <1>e, <2>2, <2>4, <2>6, <2>7 DEF TicketInv
\* The answer that makes it ask for the next ticket.
<1>3. ASSUME NEW b \in Users, Ticket!handleTicketIssueError(b) \/ Ticket!handleTicketLeave(b)
      PROVE  TicketInv'
  <2>1. PICK x \in {"error", "left"} : Ticket!Hear(b, "mm", x)
    BY <1>3 DEF Ticket!handleTicketIssueError, Ticket!handleTicketLeave
  <2>2. /\ tAnswers' = Ticket!Heard(b, "mm") /\ Ticket!issueTicket(b)
        /\ UNCHANGED <<handlers, roomID, battle, failed>>
    BY <1>3 DEF Ticket!handleTicketIssueError, Ticket!handleTicketLeave, Ticket!botVars
  <2>3. UNCHANGED <<trnClient, isOwner, crashed>>
    BY <1>3 DEF Ticket!handleTicketIssueError, Ticket!handleTicketLeave, Ticket!botVars,
       Ticket!Lives
  <2>4. /\ UNCHANGED <<run, ticket, match, room, matches, lapsed>> /\ UNCHANGED apart
        /\ tAnswers' \in [Users -> queues]
        /\ tAnswers[b]["mm"] # <<>> /\ Head(tAnswers[b]["mm"]).type = x
        /\ \A v \in Users : mm(v)' = IF v = b THEN Tail(mm(v)) ELSE mm(v)
    <3>1. "mm" \in kinds
      BY <1>k
    <3> QED
      BY <1>h, <2>1, <2>2, <3>1
  <2>5. mm(b) # <<>> /\ mm(b) \in Seq(TMT) /\ Head(mm(b)).type = x /\ mm(b)' = Tail(mm(b))
    BY <1>k, <2>4
  <2>6. /\ tCmds' \in [Users -> queues] /\ Asks(b)' = Asks(b) + 1
        /\ \A v \in Users : v # b => Asks(v)' = Asks(v)
    BY <1>i, <2>2
  <2>7. Ticket!TypeOK'
    BY <1>g, <1>y, <1>z, <2>2, <2>3, <2>4, <2>6
  <2>8. \A v \in Users : Ticketed(v)' = Ticketed(v)
    BY <2>4 DEF Ticketed
  <2>9. ASSUME NEW v \in Users PROVE Chained(v)'
    <3>1. CASE v # b
      BY <1>x, <2>4, <2>6, <2>8, <3>1
    <3>2. CASE v = b
      <4>1. /\ Asks(b) \in Nat /\ Count(mm(b)', "error") \in Nat /\ Count(mm(b)', "left") \in Nat
            /\ Ticketed(b) \in Nat
        <5>1. mm(b)' \in Seq(TMT)
          BY <2>5, TailAt
        <5> QED
          BY <1>k, <5>1, Counted1 DEF Ticketed
      <4>2. /\ Count(mm(b), "error") = IF x = "error" THEN Count(mm(b)', "error") + 1
                                       ELSE Count(mm(b)', "error")
            /\ Count(mm(b), "left") = IF x = "left" THEN Count(mm(b)', "left") + 1
                                      ELSE Count(mm(b)', "left")
        BY <2>5, CountTail
      <4>3. \A a1, a2, e1, e2, l1, l2, t \in Nat :
                /\ a2 = a1 + 1
                /\ \/ e1 = e2 + 1 /\ l1 = l2
                   \/ e1 = e2 /\ l1 = l2 + 1
                => a2 + e2 + l2 + t = a1 + e1 + l1 + t
        OBVIOUS
      <4>4. \/ Count(mm(b), "error") = Count(mm(b)', "error") + 1
                /\ Count(mm(b), "left") = Count(mm(b)', "left")
            \/ Count(mm(b), "error") = Count(mm(b)', "error")
                /\ Count(mm(b), "left") = Count(mm(b)', "left") + 1
        BY <2>1, <4>2
      <4>5. Asks(b)' \in Nat /\ Count(mm(b), "error") \in Nat /\ Count(mm(b), "left") \in Nat
        BY <2>5, <2>6, <4>1, Counted1
      <4>6. Chain(b)' = Chain(b)
        <5>1. Asks(b)' + Count(mm(b)', "error") + Count(mm(b)', "left") + Ticketed(b)
                = Asks(b) + Count(mm(b), "error") + Count(mm(b), "left") + Ticketed(b)
          BY <2>6, <4>1, <4>3, <4>4, <4>5
        <5> QED
          BY <2>8, <5>1 DEF Chain
      <4> QED
        BY <1>0, <2>4, <3>2, <4>6 DEF Chained
    <3> QED
      BY <3>1, <3>2
  <2>10. \A v \in Users : Turned(v)'
    BY <1>v, <2>1, <2>2, <2>3, <2>4, <2>5
  <2> QED
    BY <1>e, <2>3, <2>7, <2>9, <2>10 DEF TicketInv
<1>4. ASSUME NEW b \in Users, Ticket!onCreateRoom(b) PROVE TicketInv'
  <2> DEFINE c == Ticket!Turn
             r == Head(tAnswers[b][c]).room
             ns == [i \in 1 .. handlers[b] |-> Ticket!Message("broadcast", r)]
  <2>1. /\ Ticket!Hear(b, c, "created") /\ tAnswers' = Ticket!Heard(b, c)
        /\ roomID' = [roomID EXCEPT ![b] = r]
        /\ Ticket!RSend(b, "mm", ns)
        /\ UNCHANGED <<handlers, battle, failed>>
    BY <1>4 DEF Ticket!onCreateRoom
  <2>2. UNCHANGED <<trnClient, isOwner, crashed>>
    BY <1>4 DEF Ticket!onCreateRoom, Ticket!Lives
  <2>3. c \in kinds
    BY <1>k
  <2> HIDE DEF c
  <2>4. /\ UNCHANGED <<run, ticket, match, room, matches, lapsed>> /\ UNCHANGED apart
        /\ tAnswers' \in [Users -> queues] /\ Head(tAnswers[b][c]) \in TMT
    BY <1>h, <2>1, <2>3
  <2>5. \A v \in Users : mm(v)' = mm(v) \/ (Shrinks(v) /\ Head(mm(v)).type = "created")
    BY <1>c, <2>1, <2>3
  <2>6. r \in rooms /\ handlers[b] \in Nat
    BY <1>m, <1>y, <2>4
  <2>7. ns \in Seq(TMT) /\ \A i \in 1 .. Len(ns) : ns[i].type # "issue"
    <3>1. /\ Ticket!Message("broadcast", r) \in TMT
          /\ Ticket!Message("broadcast", r).type = "broadcast"
      BY <1>m, <2>6 DEF types
    <3>2. ns \in [1 .. handlers[b] -> TMT]
      BY <3>1
    <3>3. ns \in Seq(TMT) /\ Len(ns) = handlers[b]
      BY <2>6, <3>2, SeqDef
    <3> QED
      BY <3>1, <3>3
  <2> HIDE DEF r, ns
  <2>8. tCmds' \in [Users -> queues] /\ \A v \in Users : Asks(v)' = Asks(v)
    BY <1>k, <1>n, <2>1, <2>7
  <2>9. roomID' \in [Users -> rooms]
    BY <1>y, <2>1, <2>6
  <2>10. Ticket!TypeOK'
    BY <1>g, <1>y, <1>z, <2>1, <2>2, <2>4, <2>8, <2>9
  <2>11. \A v \in Users : Ticketed(v)' = Ticketed(v)
    BY <2>4 DEF Ticketed
  <2>12. \A v \in Users : Chained(v)'
    BY <1>x, <2>4, <2>5, <2>8, <2>11
  <2>13. \A v \in Users : Turned(v)'
    BY <1>v, <2>1, <2>2, <2>4, <2>5
  <2> QED
    BY <1>e, <2>2, <2>10, <2>12, <2>13 DEF TicketInv
<1>5. ASSUME NEW b \in Users, Ticket!handleTicketComplete(b) PROVE TicketInv'
  <2> DEFINE owner == Head(tAnswers[b]["mm"]).room = b
             Connects == Ticket!Connected(b)
             Fails == Ticket!NotConnected(b)
  <2>1. /\ Ticket!Hear(b, "mm", "complete")
        /\ Connects \/ Fails
        /\ \/ tAnswers' = Ticket!Heard(b, "mm")
           \/ tAnswers' = [Ticket!Heard(b, "mm") EXCEPT ![b]["turn"] = <<>>]
        /\ UNCHANGED <<roomID, battle>>
    BY <1>5 DEF Ticket!handleTicketComplete
  <2>2. isOwner' = [isOwner EXCEPT ![b] = owner]
    BY <1>5 DEF Ticket!handleTicketComplete
  <2>3. \/ /\ tCmds' = tCmds \/ Ticket!RSend(b, Ticket!Turn, <<Ticket!Message("create", None)>>)
           /\ crashed' = crashed
        \/ tCmds' = tCmds /\ crashed' = TRUE /\ ~trnClient'[b]
    BY <1>5 DEF Ticket!handleTicketComplete, Ticket!createRoom, Ticket!Crash, Ticket!Lives
  <2>4. "mm" \in kinds
    BY <1>k
  <2>5. /\ UNCHANGED <<run, ticket, match, room, matches, lapsed>> /\ UNCHANGED apart
        /\ tAnswers' \in [Users -> queues] /\ tAnswers[b]["mm"] # <<>>
        /\ Head(tAnswers[b]["mm"]).type = "complete"
        /\ \A v \in Users : mm(v)' = IF v = b THEN Tail(mm(v)) ELSE mm(v)
    <3>1. CASE tAnswers' = Ticket!Heard(b, "mm")
      BY <1>h, <2>1, <2>4, <3>1
    <3>2. CASE tAnswers' = [Ticket!Heard(b, "mm") EXCEPT ![b]["turn"] = <<>>]
      BY <1>h, <2>1, <2>4, <3>2
    <3> QED
      BY <2>1, <3>1, <3>2
  <2>6. tCmds' \in [Users -> queues] /\ \A v \in Users : Asks(v)' = Asks(v)
    <3>1. Ticket!Message("create", None) \in TMT /\ Ticket!Message("create", None).type = "create"
      BY <1>m DEF types
    <3> QED
      BY <1>k, <1>o, <1>y, <2>3, <3>1
  <2>7. /\ mm(b) \in Seq(TMT) /\ mm(b) # <<>> /\ mm(b)' = Tail(mm(b))
        /\ Head(mm(b)).type = "complete"
    BY <1>k, <2>5
  <2>8. /\ Count(mm(b), "complete") = Count(mm(b)', "complete") + 1
        /\ Count(mm(b), "complete") \in Nat /\ Count(mm(b)', "complete") \in Nat
    <3>1. Tail(mm(b)) \in Seq(TMT)
      BY <2>7, TailAt
    <3> QED
      BY <2>7, <3>1, Counted1, CountTail
  <2>9. /\ handlers[b] \in Nat /\ matches[b] \in Nat /\ matches[b] <= MaxMatches
        /\ handlers[b] + Count(mm(b), "complete") <= matches[b]
    BY <1>r, <1>y DEF Turned
  \* Its turn client is there, with one handler more than before at most; or it is not.
  <2>10. /\ \A v \in Users : v # b => handlers'[v] = handlers[v]
         /\ handlers' \in [Users -> 0 .. MaxMatches]
         /\ handlers'[b] + Count(mm(b)', "complete") <= matches[b]
         /\ Connects => handlers'[b] > 0
         /\ Fails => handlers'[b] = handlers[b] /\ b \in failed'
         /\ failed \subseteq failed' /\ failed' \subseteq Users
    <3>1. CASE Connects
      <4>1. handlers' = [handlers EXCEPT ![b] = IF apart THEN 1 ELSE handlers[b] + 1]
            /\ failed' = failed
        BY <3>1 DEF Ticket!Connected
      <4>2. handlers'[b] = IF apart THEN 1 ELSE handlers[b] + 1
        BY <1>y, <4>1
      <4>3. /\ handlers'[b] \in 0 .. MaxMatches /\ handlers'[b] > 0
            /\ handlers'[b] + Count(mm(b)', "complete") <= matches[b]
        <5>1. handlers'[b] \in Nat /\ handlers'[b] > 0 /\ handlers'[b] <= handlers[b] + 1
          BY <2>9, <4>2
        <5>2. \A h, g, c, d, n, k \in Nat :
                  h <= g + 1 /\ c = d + 1 /\ g + c <= n /\ n <= k => h + d <= n /\ h <= k
          OBVIOUS
        <5>3. MaxMatches \in Nat
          BY <1>y
        <5> QED
          BY <2>8, <2>9, <5>1, <5>2, <5>3
      <4>4. \A v \in Users : v # b => handlers'[v] = handlers[v]
        BY <1>y, <4>1
      <4>5. handlers' \in [Users -> 0 .. MaxMatches]
        BY <1>y, <4>1, <4>2, <4>3
      <4>6. Fails => handlers'[b] = handlers[b] /\ b \in failed'
        BY <1>y DEF Ticket!NotConnected
      <4> QED
        BY <1>y, <4>1, <4>3, <4>4, <4>5, <4>6
    <3>2. CASE Fails
      <4>1. handlers' = handlers /\ failed' = failed \union {b} /\ trnClient' = trnClient
        BY <3>2 DEF Ticket!NotConnected
      <4>2. Connects => handlers'[b] > 0
        BY <1>y, <2>9 DEF Ticket!Connected
      <4>3. handlers'[b] + Count(mm(b)', "complete") <= matches[b]
        <5>1. \A g, c, d, n \in Nat : c = d + 1 /\ g + c <= n => g + d <= n
          OBVIOUS
        <5> QED
          BY <2>8, <2>9, <4>1, <5>1
      <4> QED
        BY <1>y, <4>1, <4>2, <4>3
    <3> QED
      BY <2>1, <3>1, <3>2
  <2>11. /\ trnClient' \in [Users -> BOOLEAN] /\ isOwner' \in [Users -> BOOLEAN]
         /\ crashed' \in BOOLEAN
         /\ \A v \in Users : v # b => trnClient'[v] = trnClient[v]
         /\ Connects => trnClient'[b]
         /\ Fails => trnClient'[b] = trnClient[b] /\ apart
    <3>1. /\ trnClient' \in [Users -> BOOLEAN]
          /\ \A v \in Users : v # b => trnClient'[v] = trnClient[v]
      BY <1>z, <2>1 DEF Ticket!Connected, Ticket!NotConnected
    <3>2. Connects => trnClient'[b]
      BY <1>z DEF Ticket!Connected
    <3>3. Fails => trnClient'[b] = trnClient[b] /\ apart
      BY DEF Ticket!NotConnected
    <3>4. isOwner' \in [Users -> BOOLEAN] /\ crashed' \in BOOLEAN
      BY <1>z, <2>2, <2>3
    <3> QED
      BY <3>1, <3>2, <3>3, <3>4
  <2> HIDE DEF owner, Connects, Fails
  <2>12. Ticket!TypeOK'
    BY <1>g, <1>y, <1>z, <2>1, <2>5, <2>6, <2>10, <2>11
  <2>13. \A v \in Users : Chained(v)'
    <3>1. \A v \in Users : Ticketed(v)' = Ticketed(v)
      BY <2>5 DEF Ticketed
    <3> QED
      BY <1>x, <2>5, <2>6, <2>7, <3>1
  <2>14. ASSUME NEW v \in Users PROVE Turned(v)'
    <3>1. CASE v # b
      BY <1>v, <2>1, <2>5, <2>10, <2>11, <3>1
    <3>2. CASE v = b
      <4>1. Turned(b)
        BY <1>r
      <4>2. handlers'[b] + Count(mm(b)', "complete") <= matches'[b]
        BY <2>5, <2>10
      <4>3. /\ battle'[b].calls > 0 => handlers'[b] > 0
            /\ battle'[b].calls = 0 => battle'[b].at = "fight"
        BY <2>1, <2>10, <4>1 DEF Turned
      <4>4. trnClient'[b] \/ handlers'[b] = 0 \/ (apart' /\ battle'[b].at = "leaveRoom")
        BY <2>1, <2>5, <2>10, <2>11, <4>1 DEF Turned
      <4>5. handlers'[b] > 0 \/ Without(b)'
        BY <2>1, <2>5, <2>10, <2>11 DEF Without
      <4>6. Turned(b)'
        BY <4>2, <4>3, <4>4, <4>5 DEF Turned
      <4> QED
        BY <3>2, <4>6
    <3> QED
      BY <3>1, <3>2
  <2>15. Ticket!CrashNeedsTurn'
    BY <2>1, <2>3, <2>5, <2>10, <2>11 DEF Ticket!CrashNeedsTurn
  <2> QED
    BY <2>12, <2>13, <2>14, <2>15 DEF TicketInv
<1>6. ASSUME NEW b \in Users, Ticket!handleTicketBroadcast(b) PROVE TicketInv'
  <2> DEFINE r == Head(tAnswers[b]["mm"]).room
  <2>1. /\ Ticket!Hear(b, "mm", "broadcast") /\ tAnswers' = Ticket!Heard(b, "mm")
        /\ roomID' = roomID \/ roomID' = [roomID EXCEPT ![b] = r]
        /\ UNCHANGED <<handlers, battle, failed>>
    BY <1>6 DEF Ticket!handleTicketBroadcast
  <2>2. UNCHANGED <<trnClient, isOwner>>
    BY <1>6 DEF Ticket!handleTicketBroadcast
  <2>3. \/ /\ tCmds' = tCmds \/ Ticket!RSend(b, Ticket!Turn, <<Ticket!Message("join", r)>>)
           /\ crashed' = crashed
        \/ tCmds' = tCmds /\ crashed' = TRUE /\ ~trnClient[b]
    BY <1>6 DEF Ticket!handleTicketBroadcast, Ticket!Crash, Ticket!Lives
  <2>4. "mm" \in kinds
    BY <1>k
  <2>5. /\ UNCHANGED <<run, ticket, match, room, matches, lapsed>> /\ UNCHANGED apart
        /\ tAnswers' \in [Users -> queues] /\ tAnswers[b]["mm"] # <<>>
        /\ Head(tAnswers[b]["mm"]).type = "broadcast" /\ Head(tAnswers[b]["mm"]) \in TMT
    BY <1>h, <2>1, <2>4
  <2>6. \A v \in Users : mm(v)' = mm(v) \/ (Shrinks(v) /\ Head(mm(v)).type = "broadcast")
    BY <1>c, <2>1, <2>4
  <2>7. r \in rooms
    BY <1>m, <2>5
  <2> HIDE DEF r
  <2>8. tCmds' \in [Users -> queues] /\ \A v \in Users : Asks(v)' = Asks(v)
    <3>1. Ticket!Message("join", r) \in TMT /\ Ticket!Message("join", r).type = "join"
      BY <1>m, <2>7 DEF types
    <3> QED
      BY <1>k, <1>o, <1>y, <2>3, <3>1
  <2>9. roomID' \in [Users -> rooms] /\ crashed' \in BOOLEAN
    <3>1. roomID' \in [Users -> rooms]
      BY <1>y, <2>1, <2>7
    <3>2. crashed' \in BOOLEAN
      BY <1>z, <2>3
    <3> QED
      BY <3>1, <3>2
  <2>10. Ticket!TypeOK'
    BY <1>g, <1>y, <1>z, <2>1, <2>2, <2>5, <2>8, <2>9
  <2>11. \A v \in Users : Chained(v)'
    <3>1. \A v \in Users : Ticketed(v)' = Ticketed(v)
      BY <2>5 DEF Ticketed
    <3> QED
      BY <1>x, <2>5, <2>6, <2>8, <3>1
  <2>12. \A v \in Users : Turned(v)'
    BY <1>v, <2>1, <2>2, <2>5, <2>6
  \* With neither a turn client nor a failure, no broadcast comes first.
  <2>13. ASSUME crashed' PROVE Ticket!CrashNeedsTurn'
    <3>1. ~trnClient[b] /\ Turned(b)
      BY <1>r, <2>3, <2>13
    <3>2. CASE apart /\ battle[b].at = "leaveRoom"
      BY <2>1, <2>5, <3>2 DEF Ticket!CrashNeedsTurn
    <3>3. CASE handlers[b] = 0
      <4>1. ~(handlers[b] > 0)
        BY <3>3
      <4>2. mm(b) \in Seq(TMT) /\ mm(b) # <<>> /\ Head(mm(b)).type = "broadcast"
        BY <1>k, <2>5
      <4>3. ~Told(mm(b), Len(mm(b)))
        BY <4>2, ToldTail
      <4>4. Without(b)
        BY <3>1, <4>1, <4>3 DEF Turned
      <4> QED
        BY <2>1, <2>5, <4>4 DEF Without, Ticket!CrashNeedsTurn
    <3> QED
      BY <3>1, <3>2, <3>3 DEF Turned
  <2> QED
    BY <1>e, <2>10, <2>11, <2>12, <2>13 DEF TicketInv
<1>7. ASSUME NEW b \in Users, Ticket!Battle(b) PROVE TicketInv'
  <2> DEFINE c == Ticket!Turn
  <2>1. /\ Ticket!Hear(b, c, "joined") /\ tAnswers' = Ticket!Heard(b, c)
        /\ battle' = [battle EXCEPT ![b] = [calls |-> handlers[b], at |-> "fight"]]
        /\ ~(battle[b].calls > 0)
        /\ UNCHANGED <<handlers, roomID, tCmds, failed>>
    <3>1. Ticket!Hear(b, c, "joined") /\ tAnswers' = Ticket!Heard(b, c)
          /\ UNCHANGED <<handlers, roomID, tCmds, failed>>
      BY <1>7 DEF Ticket!Battle
    <3>2. battle' = [battle EXCEPT ![b] = [Ticket!Idle EXCEPT !.calls = handlers[b]]]
      BY <1>7 DEF Ticket!Battle
    <3>3. [Ticket!Idle EXCEPT !.calls = handlers[b]] = [calls |-> handlers[b], at |-> "fight"]
      BY DEF Ticket!Idle
    <3>4. ~(battle[b].calls > 0)
      BY <3>1 DEF Ticket!Hear, Ticket!Busy
    <3> QED
      BY <3>1, <3>2, <3>3, <3>4
  <2>2. UNCHANGED <<trnClient, isOwner, crashed>>
    BY <1>7 DEF Ticket!Battle
  <2>3. c \in kinds
    BY <1>k
  <2> HIDE DEF c
  <2>4. /\ UNCHANGED <<run, ticket, match, room, matches, lapsed>> /\ UNCHANGED apart
        /\ tAnswers' \in [Users -> queues]
    BY <1>h, <2>1, <2>3
  <2>5. \A v \in Users : mm(v)' = mm(v) \/ (Shrinks(v) /\ Head(mm(v)).type = "joined")
    BY <1>c, <2>1, <2>3
  <2>6. /\ battle' \in [Users -> [calls : 0 .. MaxMatches, at : ats]]
        /\ \A v \in Users : battle'[v] = IF v = b THEN [calls |-> handlers[b], at |-> "fight"]
                                          ELSE battle[v]
    BY <1>y, <2>1 DEF ats
  <2>7. Ticket!TypeOK'
    BY <1>g, <1>y, <1>z, <2>1, <2>2, <2>4, <2>6
  <2>8. \A v \in Users : Chained(v)'
    <3>1. \A v \in Users : Ticketed(v)' = Ticketed(v) /\ Asks(v)' = Asks(v)
      BY <2>1, <2>4 DEF Ticketed
    <3> QED
      BY <1>x, <2>4, <2>5, <3>1
  <2>9. ASSUME NEW v \in Users PROVE Turned(v)'
    <3>1. CASE v # b
      BY <1>v, <2>1, <2>2, <2>4, <2>5, <2>6, <3>1
    <3>2. CASE v = b
      <4>1. /\ handlers'[b] + Count(mm(b)', "complete") <= matches'[b]
            /\ handlers'[b] > 0 \/ Without(b)' \/ Told(mm(b)', Len(mm(b)'))
            /\ handlers'[b] > 0 \/ Without(b)' \/ Coming(mm(b)', Len(mm(b)'))
                    \/ \A a \in Users : b \notin match'[a]
        BY <1>u, <2>1, <2>4, <2>5
      <4>2. /\ battle'[b].calls > 0 => handlers'[b] > 0
            /\ battle'[b].calls = 0 => battle'[b].at = "fight"
        BY <2>1, <2>6
      <4>3. trnClient[b] \/ handlers[b] = 0
        <5>1. battle[b].calls = 0
          BY <1>y, <2>1
        <5> QED
          BY <1>r, <5>1 DEF Turned
      <4>4. trnClient'[b] \/ handlers'[b] = 0
        BY <2>1, <2>2, <4>3
      <4>5. Turned(b)'
        BY <4>1, <4>2, <4>4 DEF Turned
      <4> QED
        BY <3>2, <4>5
    <3> QED
      BY <3>1, <3>2
  <2> QED
    BY <1>e, <2>2, <2>7, <2>8, <2>9 DEF TicketInv
\* A call of battle goes on.
<1>8. ASSUME NEW b \in Users, Ticket!BattleOver(b) \/ Ticket!LeaveRoom(b) \/ Ticket!LeaveTicket(b)
      PROVE  TicketInv'
  <2>1. /\ UNCHANGED <<run, tAnswers, ticket, match, room, matches, lapsed, failed, handlers,
                       roomID>>
        /\ battle[b].calls > 0
    BY <1>8 DEF Ticket!BattleOver, Ticket!LeaveRoom, Ticket!LeaveTicket, Ticket!At,
       Ticket!serverVars
  <2>2. UNCHANGED <<apart, isOwner>>
    BY <1>8 DEF Ticket!BattleOver, Ticket!LeaveRoom, Ticket!LeaveTicket, Ticket!At
  <2>3. /\ tCmds' \in [Users -> queues] /\ \A v \in Users : Asks(v)' = Asks(v)
        /\ \A v \in Users : v # b => battle'[v] = battle[v]
        /\ battle' \in [Users -> [calls : 0 .. MaxMatches, at : ats]]
        /\ battle'[b].calls > 0 \/ battle'[b].at = "fight"
    <3>1. CASE Ticket!BattleOver(b)
      <4>1. tCmds' = tCmds /\ battle' = [battle EXCEPT ![b].at = "leaveRoom"]
        BY <3>1 DEF Ticket!BattleOver
      <4> QED
        BY <1>y, <2>1, <4>1 DEF ats
    <3>2. CASE Ticket!LeaveRoom(b)
      <4> DEFINE m == Ticket!Message("leaveRoom", roomID[b])
      <4>1. /\ battle' = [battle EXCEPT ![b].at = "leaveTicket"]
            /\ tCmds' = tCmds \/ Ticket!RSend(b, Ticket!Turn, <<m>>)
        BY <3>2 DEF Ticket!LeaveRoom, Ticket!Crash
      <4>2. m \in TMT /\ m.type = "leaveRoom"
        BY <1>m, <1>y DEF types
      <4> HIDE DEF m
      <4>3. tCmds' \in [Users -> queues] /\ \A v \in Users : Asks(v)' = Asks(v)
        BY <1>k, <1>o, <1>y, <4>1, <4>2
      <4>4. /\ \A v \in Users : v # b => battle'[v] = battle[v]
            /\ battle' \in [Users -> [calls : 0 .. MaxMatches, at : ats]]
            /\ battle'[b].calls = battle[b].calls
        BY <1>y, <4>1 DEF ats
      <4> QED
        BY <2>1, <4>3, <4>4
    <3>3. CASE Ticket!LeaveTicket(b)
      <4> DEFINE m == Ticket!Message("leave", None)
      <4>1. /\ battle' = [battle EXCEPT ![b] = [calls |-> battle[b].calls - 1, at |-> "fight"]]
            /\ Ticket!RSend(b, "mm", <<m>>)
        BY <3>3 DEF Ticket!LeaveTicket, Ticket!leaveTicket
      <4>2. m \in TMT /\ m.type = "leave"
        BY <1>m DEF types
      <4> HIDE DEF m
      <4>3. tCmds' \in [Users -> queues] /\ \A v \in Users : Asks(v)' = Asks(v)
        BY <1>k, <1>o, <4>1, <4>2
      <4>4. battle[b].calls - 1 \in 0 .. MaxMatches
        BY <1>y, <2>1
      <4>5. battle' \in [Users -> [calls : 0 .. MaxMatches, at : ats]]
        BY <1>y, <4>1, <4>4 DEF ats
      <4> QED
        BY <1>y, <2>1, <4>1, <4>3, <4>5
    <3> QED
      BY <1>8, <3>1, <3>2, <3>3
  <2>4. handlers[b] > 0 /\ (trnClient[b] \/ (apart /\ battle[b].at = "leaveRoom"))
    BY <1>r, <1>y, <2>1 DEF Turned
  \* The turn client goes when the battle is over, and is missed until the room is left.
  <2>5. /\ trnClient' \in [Users -> BOOLEAN] /\ crashed' \in BOOLEAN
        /\ \A v \in Users : v # b => trnClient'[v] = trnClient[v]
        /\ ~crashed' => trnClient'[b] \/ (apart' /\ battle'[b].at = "leaveRoom")
        /\ Ticket!CrashNeedsTurn'
    <3>1. CASE Ticket!BattleOver(b)
      <4>1. /\ trnClient' = IF apart THEN [trnClient EXCEPT ![b] = FALSE] ELSE trnClient
            /\ crashed' = crashed
        BY <3>1 DEF Ticket!BattleOver
      <4>2. battle'[b].at = "leaveRoom"
        BY <1>y, <3>1 DEF Ticket!BattleOver
      <4>3. ~crashed'
        BY <4>1
      <4> QED
        BY <1>e, <1>z, <2>2, <2>4, <4>1, <4>2, <4>3
    <3>2. CASE Ticket!LeaveRoom(b)
      <4>1. /\ trnClient' = trnClient /\ crashed' \in BOOLEAN
            /\ crashed' => ~trnClient[b]
            /\ ~crashed' => trnClient[b]
        BY <1>z, <3>2 DEF Ticket!LeaveRoom, Ticket!Crash, Ticket!Lives
      <4>2. battle'[b].at = "leaveTicket"
        BY <1>y, <3>2 DEF Ticket!LeaveRoom
      <4>3. crashed' => apart'
        BY <2>2, <2>4, <4>1
      <4>4. Ticket!CrashNeedsTurn'
        BY <4>2, <4>3 DEF Ticket!CrashNeedsTurn
      <4> QED
        BY <1>z, <4>1, <4>4
    <3>3. CASE Ticket!LeaveTicket(b)
      <4>1. trnClient' = trnClient /\ crashed' = crashed /\ battle[b].at = "leaveTicket"
        BY <3>3 DEF Ticket!LeaveTicket, Ticket!At, Ticket!Lives
      <4>2. ~crashed'
        BY <4>1
      <4> QED
        BY <1>e, <1>z, <2>4, <4>1, <4>2
    <3> QED
      BY <1>8, <3>1, <3>2, <3>3
  <2>6. Ticket!TypeOK'
    BY <1>g, <1>y, <1>z, <2>1, <2>2, <2>3, <2>5
  <2>7. \A v \in Users : mm(v)' = mm(v) /\ Ticketed(v)' = Ticketed(v)
    BY <2>1 DEF mm, Ticketed
  <2>8. \A v \in Users : Chained(v)'
    BY <1>x, <2>1, <2>3, <2>7
  <2>9. ASSUME ~crashed', NEW v \in Users PROVE Turned(v)'
    <3>1. CASE v # b
      BY <1>v, <2>1, <2>2, <2>3, <2>5, <2>7, <3>1
    <3>2. CASE v = b
      <4>1. /\ handlers'[b] + Count(mm(b)', "complete") <= matches'[b]
            /\ handlers'[b] > 0 \/ Without(b)' \/ Told(mm(b)', Len(mm(b)'))
            /\ handlers'[b] > 0 \/ Without(b)' \/ Coming(mm(b)', Len(mm(b)'))
                    \/ \A a \in Users : b \notin match'[a]
        BY <1>u, <2>1, <2>2, <2>7
      <4>2. /\ battle'[b].calls > 0 => handlers'[b] > 0
            /\ battle'[b].calls = 0 => battle'[b].at = "fight"
        BY <2>1, <2>3, <2>4
      <4>3. trnClient'[b] \/ (apart' /\ battle'[b].at = "leaveRoom")
        BY <2>5, <2>9
      <4>4. Turned(b)'
        BY <4>1, <4>2, <4>3 DEF Turned
      <4> QED
        BY <3>2, <4>4
    <3> QED
      BY <3>1, <3>2
  <2> QED
    BY <2>5, <2>6, <2>8, <2>9 DEF TicketInv
<1>9. ASSUME NEW b \in Users, Ticket!Issue(b) PROVE TicketInv'
  <2>1. /\ UNCHANGED <<tAnswers, match, room, matches, lapsed>>
        /\ ticket[b] = "none" /\ ticket' = [ticket EXCEPT ![b] = "queued"]
        /\ Ticket!Take(b, "mm", "issue")
    BY <1>9 DEF Ticket!Issue
  <2>2. /\ UNCHANGED <<run, roomID, handlers, battle, failed>>
        /\ tCmds' \in [Users -> queues] /\ Asks(b) = Asks(b)' + 1
        /\ \A v \in Users : v # b => Asks(v)' = Asks(v)
    BY <1>k, <1>t, <2>1
  <2>3. UNCHANGED <<apart, trnClient, isOwner, crashed>>
    BY <1>k, <1>t, <2>1
  <2>4. Ticket!TypeOK'
    <3>1. ticket' \in [Users -> {"none", "queued", "matched"}]
      BY <1>y, <2>1
    <3> QED
      BY <1>g, <1>y, <1>z, <2>1, <2>2, <2>3, <3>1
  <2>5. /\ \A v \in Users : mm(v)' = mm(v)
        /\ \A v \in Users : v # b => Ticketed(v)' = Ticketed(v)
        /\ Ticketed(b) = 0 /\ Ticketed(b)' = 1
    BY <1>y, <2>1 DEF mm, Ticketed
  <2>6. ASSUME NEW v \in Users PROVE Chained(v)'
    <3>1. CASE v # b
      BY <1>x, <2>1, <2>2, <2>5, <3>1
    <3>2. CASE v = b
      <4>1. /\ Asks(b) \in Nat /\ Count(mm(b), "error") \in Nat /\ Count(mm(b), "left") \in Nat
            /\ Asks(b)' \in Nat
        <5>1. tCmds'[b]["mm"] \in Seq(TMT)
          BY <1>k, <2>2 DEF queues
        <5> QED
          BY <1>k, <5>1, Counted1
      <4>2. \A a1, a2, e, l \in Nat : a1 = a2 + 1 => a2 + e + l + 1 = a1 + e + l + 0
        OBVIOUS
      <4>3. Asks(b)' + Count(mm(b), "error") + Count(mm(b), "left") + 1
              = Asks(b) + Count(mm(b), "error") + Count(mm(b), "left") + 0
        BY <2>2, <4>1, <4>2
      <4>4. Chain(b)' = Chain(b)
        BY <2>5, <4>3 DEF Chain
      <4> QED
        BY <1>0, <2>1, <2>2, <3>2, <4>4 DEF Chained
    <3> QED
      BY <3>1, <3>2
  <2>7. \A v \in Users : Turned(v)'
    BY <1>v, <2>1, <2>2, <2>3, <2>5
  <2> QED
    BY <1>e, <2>3, <2>4, <2>6, <2>7 DEF TicketInv
<1>10. ASSUME NEW b \in Users, Ticket!RefuseIssue(b) PROVE TicketInv'
  <2> DEFINE m == Ticket!Message("error", None)
  <2>1. /\ UNCHANGED <<ticket, match, room, matches, lapsed>>
        /\ Ticket!Take(b, "mm", "issue") /\ Ticket!Push({b}, "mm", m)
    BY <1>10 DEF Ticket!RefuseIssue, Ticket!serverVars
  <2>2. /\ UNCHANGED <<run, roomID, handlers, battle, failed>>
        /\ tCmds' \in [Users -> queues] /\ Asks(b) = Asks(b)' + 1
        /\ \A v \in Users : v # b => Asks(v)' = Asks(v)
    BY <1>k, <1>t, <2>1
  <2>3. UNCHANGED <<apart, trnClient, isOwner, crashed>>
    BY <1>k, <1>t, <2>1
  <2>4. m \in TMT /\ m.type = "error"
    BY <1>m DEF types
  <2> HIDE DEF m
  <2>5. /\ tAnswers' \in [Users -> queues]
        /\ \A v \in Users : mm(v)' = IF v = b THEN Append(mm(v), m) ELSE mm(v)
    <3>1. /\ tAnswers' \in [Users -> queues]
          /\ \A v \in Users : mm(v)' = IF v \in {b} /\ "mm" = "mm" THEN Append(mm(v), m)
                                       ELSE mm(v)
      BY <1>k, <1>p, <2>1, <2>4
    <3> QED
      BY <3>1
  <2>6. Ticket!TypeOK'
    BY <1>g, <1>y, <1>z, <2>1, <2>2, <2>3, <2>5
  <2>7. \A v \in Users : Ticketed(v)' = Ticketed(v)
    BY <2>1 DEF Ticketed
  <2>8. ASSUME NEW v \in Users PROVE Chained(v)'
    <3>1. CASE v # b
      BY <1>x, <2>1, <2>2, <2>5, <2>7, <3>1
    <3>2. CASE v = b
      <4>1. /\ Asks(b) \in Nat /\ Count(mm(b), "error") \in Nat /\ Count(mm(b), "left") \in Nat
            /\ Asks(b)' \in Nat /\ Ticketed(b) \in Nat
        <5>1. tCmds'[b]["mm"] \in Seq(TMT)
          BY <1>k, <2>2 DEF queues
        <5> QED
          BY <1>k, <5>1, Counted1 DEF Ticketed
      <4>2. /\ Count(mm(b)', "error") = Count(mm(b), "error") + 1
            /\ Count(mm(b)', "left") = Count(mm(b), "left")
        <5>1. mm(b)' = Append(mm(b), m) /\ mm(b) \in Seq(TMT)
          BY <1>k, <2>5
        <5>2. "error" # "left"
          OBVIOUS
        <5> QED
          BY <2>4, <5>1, <5>2, CountAppend
      <4>3. \A a1, a2, e, l, k \in Nat : a1 = a2 + 1 => a2 + (e + 1) + l + k = a1 + e + l + k
        OBVIOUS
      <4>4. Asks(b)' + (Count(mm(b), "error") + 1) + Count(mm(b), "left") + Ticketed(b)
              = Asks(b) + Count(mm(b), "error") + Count(mm(b), "left") + Ticketed(b)
        BY <2>2, <4>1, <4>3
      <4>5. Chain(b)' = Chain(b)
        BY <2>7, <4>2, <4>4 DEF Chain
      <4> QED
        BY <1>0, <2>1, <2>2, <3>2, <4>5 DEF Chained
    <3> QED
      BY <3>1, <3>2
  <2>9. \A v \in Users : Turned(v)'
    BY <1>v, <2>1, <2>2, <2>3, <2>4, <2>5
  <2> QED
    BY <1>e, <2>3, <2>6, <2>8, <2>9 DEF TicketInv
<1>11. ASSUME Ticket!Complete PROVE TicketInv'
  <2>1. PICK bs \in SUBSET {b \in Users : ticket[b] = "queued" /\ matches[b] < MaxMatches} :
            /\ \E owner \in bs : Ticket!Push(bs, "mm", Ticket!Message("complete", owner))
            /\ ticket' = [b \in Users |-> IF b \in bs THEN "matched" ELSE ticket[b]]
            /\ match' = [b \in Users |-> IF b \in bs THEN bs ELSE match[b]]
            /\ matches' = [b \in Users |-> IF b \in bs THEN matches[b] + 1 ELSE matches[b]]
    BY <1>11 DEF Ticket!Complete
  <2>2. UNCHANGED <<run, handlers, roomID, battle, tCmds, failed, room, lapsed>>
    BY <1>11 DEF Ticket!Complete, Ticket!botVars
  <2>3. UNCHANGED <<apart, trnClient, isOwner, crashed>>
    BY <1>11 DEF Ticket!Complete, Ticket!botVars
  <2>4. PICK m \in TMT : m.type = "complete" /\ Ticket!Push(bs, "mm", m)
    <3>1. \A owner \in bs : /\ Ticket!Message("complete", owner) \in TMT
                            /\ Ticket!Message("complete", owner).type = "complete"
      BY <1>m DEF types
    <3> QED
      BY <2>1, <3>1
  <2>5. /\ tAnswers' \in [Users -> queues]
        /\ \A v \in Users : mm(v)' = IF v \in bs THEN Append(mm(v), m) ELSE mm(v)
    BY <1>k, <1>p, <2>4
  <2>6. /\ bs \subseteq Users
        /\ \A v \in bs : ticket[v] = "queued" /\ matches[v] < MaxMatches
    OBVIOUS
  <2>7. Ticket!TypeOK'
    <3>1. ticket' \in [Users -> {"none", "queued", "matched"}]
      BY <1>y, <2>1
    <3>2. match' \in [Users -> SUBSET Users]
      BY <1>y, <2>1, <2>6
    <3>3. matches' \in [Users -> 0 .. MaxMatches]
      BY <1>y, <2>1, <2>6
    <3> QED
      BY <1>g, <1>y, <1>z, <2>2, <2>3, <2>5, <3>1, <3>2, <3>3
  <2>8. \A v \in Users : Asks(v)' = Asks(v) /\ Ticketed(v)' = Ticketed(v)
    BY <1>y, <2>1, <2>2, <2>6 DEF Ticketed
  <2>9. \A v \in Users : Chained(v)'
    BY <1>x, <2>2, <2>4, <2>5, <2>8
  <2>10. ASSUME NEW v \in Users PROVE Turned(v)'
    <3>1. CASE v \notin bs
      <4>1. matches'[v] = matches[v] /\ mm(v)' = mm(v)
        BY <2>1, <2>5, <3>1
      <4>2. \A a \in Users : v \in match'[a] => \E d \in Users : v \in match[d]
        BY <2>1, <3>1
      <4> QED
        BY <1>v, <2>2, <2>3, <4>1, <4>2
    <3>2. CASE v \in bs
      <4>1. mm(v) \in Seq(TMT) /\ mm(v)' = Append(mm(v), m) /\ Turned(v)
        BY <1>k, <1>r, <2>5, <3>2
      <4>2. Count(mm(v)', "complete") = Count(mm(v), "complete") + 1
        BY <2>4, <4>1, CountAppend
      <4>3. handlers'[v] + Count(mm(v)', "complete") <= matches'[v]
        <5>1. Count(mm(v), "complete") \in Nat
          BY <4>1, Counted1
        <5>2. matches'[v] = matches[v] + 1 /\ handlers'[v] = handlers[v]
              /\ handlers[v] \in Nat /\ matches[v] \in Nat
          BY <1>y, <2>1, <2>2, <3>2
        <5>3. handlers[v] + Count(mm(v), "complete") <= matches[v]
          BY <4>1 DEF Turned
        <5>4. \A h, c, n \in Nat : h + c <= n => h + (c + 1) <= n + 1
          OBVIOUS
        <5>5. handlers[v] + (Count(mm(v), "complete") + 1) <= matches[v] + 1
          BY <5>1, <5>2, <5>3, <5>4
        <5> QED
          BY <4>2, <5>2, <5>5
      <4>4. /\ battle'[v].calls > 0 => handlers'[v] > 0
            /\ battle'[v].calls = 0 => battle'[v].at = "fight"
        BY <2>2, <4>1 DEF Turned
      <4>5. trnClient'[v] \/ handlers'[v] = 0 \/ (apart' /\ battle'[v].at = "leaveRoom")
        BY <2>2, <2>3, <4>1 DEF Turned
      <4>6. handlers'[v] > 0 \/ Without(v)' \/ Told(mm(v)', Len(mm(v)'))
        <5>1. handlers[v] > 0 \/ Without(v) \/ Told(mm(v), Len(mm(v)))
          BY <4>1 DEF Turned
        <5>2. Told(mm(v), Len(mm(v))) => Told(mm(v)', Len(mm(v)'))
          BY <2>4, <4>1, ToldAppend
        <5> QED
          BY <2>2, <2>3, <5>1, <5>2 DEF Without
      <4>7. Coming(mm(v)', Len(mm(v)'))
        BY <2>4, <4>1, ToldAppend
      <4> QED
        BY <4>3, <4>4, <4>5, <4>6, <4>7 DEF Turned
    <3> QED
      BY <3>1, <3>2
  <2> QED
    BY <1>e, <2>3, <2>7, <2>9, <2>10 DEF TicketInv
<1>12. ASSUME NEW b \in Users, Ticket!Lapse(b) PROVE TicketInv'
  <2>1. /\ ticket[b] = "queued" /\ ticket' = [ticket EXCEPT ![b] = "none"]
        /\ lapsed' = lapsed \union {b}
        /\ UNCHANGED <<run, handlers, roomID, battle, tCmds, tAnswers, failed, match, room,
                       matches>>
    BY <1>12 DEF Ticket!Lapse, Ticket!botVars
  <2>2. UNCHANGED <<apart, trnClient, isOwner, crashed>>
    BY <1>12 DEF Ticket!Lapse, Ticket!botVars
  <2>3. Ticket!TypeOK'
    <3>1. /\ ticket' \in [Users -> {"none", "queued", "matched"}]
          /\ lapsed' \subseteq Users
      BY <1>y, <2>1
    <3> QED
      BY <1>g, <1>y, <1>z, <2>1, <2>2, <3>1
  <2>4. /\ \A v \in Users : mm(v)' = mm(v) /\ Asks(v)' = Asks(v)
        /\ \A v \in Users : v # b => Ticketed(v)' = Ticketed(v)
        /\ Ticketed(b) = 1 /\ Ticketed(b)' = 0
    BY <1>y, <2>1 DEF mm, Ticketed
  \* The ticket was all it had.
  <2>5. ASSUME NEW v \in Users PROVE Chained(v)'
    <3>1. CASE v # b
      BY <1>x, <2>1, <2>4, <3>1
    <3>2. CASE v = b
      <4>1. /\ Asks(b) \in Nat /\ Count(mm(b), "error") \in Nat /\ Count(mm(b), "left") \in Nat
        BY <1>k, Counted1
      <4>2. \A a, e, l \in Nat : a + e + l + 1 # 0 /\ (a + e + l + 1 = 1 => a + e + l + 0 = 0)
        OBVIOUS
      <4>3. /\ Asks(b) + Count(mm(b), "error") + Count(mm(b), "left") + 1 # 0
            /\ Asks(b) + Count(mm(b), "error") + Count(mm(b), "left") + 1 = 1
                  => Asks(b) + Count(mm(b), "error") + Count(mm(b), "left") + 0 = 0
        BY <4>1, <4>2
      <4>4. Chain(b) # 0 /\ (Chain(b) = 1 => Chain(b)' = 0)
        BY <2>4, <4>3 DEF Chain
      <4>5. b \in lapsed' /\ run'[b] = "on"
        BY <1>0, <2>1, <4>4 DEF Chained
      <4> QED
        BY <1>0, <2>1, <3>2, <4>4, <4>5 DEF Chained
    <3> QED
      BY <3>1, <3>2
  <2>6. \A v \in Users : Turned(v)'
    BY <1>v, <2>1, <2>2, <2>4
  <2> QED
    BY <1>e, <2>2, <2>3, <2>5, <2>6 DEF TicketInv
<1>13. ASSUME NEW b \in Users, Ticket!Left(b) PROVE TicketInv'
  <2> DEFINE m == Ticket!Message("left", None)
  <2>1. /\ UNCHANGED <<room, matches, lapsed>> /\ Ticket!Take(b, "mm", "leave")
        /\ ticket' = [ticket EXCEPT ![b] = "none"]
        /\ match' = [a \in Users |-> IF a = b THEN {} ELSE match[a] \ {b}]
        /\ \/ ticket[b] = "none" /\ tAnswers' = tAnswers
           \/ ticket[b] # "none" /\ Ticket!Push({b}, "mm", m)
    BY <1>13 DEF Ticket!Left
  <2>2. /\ UNCHANGED <<run, roomID, handlers, battle, failed>>
        /\ tCmds' \in [Users -> queues]
        /\ \A v \in Users : Asks(v)' = Asks(v)
    BY <1>k, <1>t, <2>1
  <2>3. UNCHANGED <<apart, trnClient, isOwner, crashed>>
    BY <1>k, <1>t, <2>1
  <2>4. m \in TMT /\ m.type = "left"
    BY <1>m DEF types
  <2> HIDE DEF m
  <2>5. /\ tAnswers' \in [Users -> queues]
        /\ \A v \in Users : v # b => mm(v)' = mm(v)
        /\ mm(b)' = IF ticket[b] = "none" THEN mm(b) ELSE Append(mm(b), m)
    <3>1. CASE ticket[b] = "none" /\ tAnswers' = tAnswers
      BY <1>y, <3>1 DEF mm
    <3>2. CASE ticket[b] # "none" /\ Ticket!Push({b}, "mm", m)
      <4>1. /\ tAnswers' \in [Users -> queues]
            /\ \A v \in Users : mm(v)' = IF v \in {b} /\ "mm" = "mm" THEN Append(mm(v), m)
                                       ELSE mm(v)
        BY <1>k, <1>p, <2>4, <3>2
      <4> QED
        BY <3>2, <4>1
    <3> QED
      BY <2>1, <3>1, <3>2
  <2>6. /\ ticket' \in [Users -> {"none", "queued", "matched"}]
        /\ match' \in [Users -> SUBSET Users]
        /\ \A v, a \in Users : v \in match'[a] => v \in match[a]
    BY <1>y, <2>1
  <2>7. Ticket!TypeOK'
    BY <1>g, <1>y, <1>z, <2>1, <2>2, <2>3, <2>5, <2>6
  <2>8. /\ \A v \in Users : v # b => Ticketed(v)' = Ticketed(v)
        /\ Ticketed(b) = (IF ticket[b] = "none" THEN 0 ELSE 1) /\ Ticketed(b)' = 0
    BY <1>y, <2>1 DEF Ticketed
  <2>9. ASSUME NEW v \in Users PROVE Chained(v)'
    <3>1. CASE v # b \/ ticket[b] = "none"
      BY <1>x, <2>1, <2>2, <2>5, <2>8, <3>1
    <3>2. CASE v = b /\ ticket[b] # "none"
      <4>1. /\ Asks(b) \in Nat /\ Count(mm(b), "error") \in Nat /\ Count(mm(b), "left") \in Nat
        BY <1>k, Counted1
      <4>2. /\ Count(mm(b)', "error") = Count(mm(b), "error")
            /\ Count(mm(b)', "left") = Count(mm(b), "left") + 1
        <5>1. mm(b)' = Append(mm(b), m) /\ mm(b) \in Seq(TMT)
          BY <1>k, <2>5, <3>2
        <5>2. "error" # "left"
          OBVIOUS
        <5> QED
          BY <2>4, <5>1, <5>2, CountAppend
      <4>3. \A a, e, l \in Nat : a + e + (l + 1) + 0 = a + e + l + 1
        OBVIOUS
      <4>4. Asks(b) + Count(mm(b), "error") + (Count(mm(b), "left") + 1) + 0
              = Asks(b) + Count(mm(b), "error") + Count(mm(b), "left") + 1
        BY <4>1, <4>3
      <4>5. Ticketed(b) = 1
        BY <2>8, <3>2
      <4>6. Chain(b)' = Chain(b)
        BY <2>2, <2>8, <4>2, <4>4, <4>5 DEF Chain
      <4> QED
        BY <1>0, <2>1, <2>2, <3>2, <4>6 DEF Chained
    <3> QED
      BY <3>1, <3>2
  <2>10. \A v \in Users : Turned(v)'
    BY <1>v, <2>1, <2>2, <2>3, <2>4, <2>5, <2>6
  <2> QED
    BY <1>e, <2>3, <2>7, <2>9, <2>10 DEF TicketInv
<1>14. ASSUME NEW b \in Users, Ticket!Broadcast(b) PROVE TicketInv'
  <2> DEFINE m == Ticket!Message("broadcast", Head(tCmds[b]["mm"]).room)
  <2>1. /\ UNCHANGED <<ticket, match, room, matches, lapsed>>
        /\ Ticket!Take(b, "mm", "broadcast") /\ Ticket!Push(match[b], "mm", m)
    BY <1>14 DEF Ticket!Broadcast, Ticket!serverVars
  <2>2. /\ UNCHANGED <<run, roomID, handlers, battle, failed>>
        /\ tCmds' \in [Users -> queues] /\ Head(tCmds[b]["mm"]) \in TMT
        /\ \A v \in Users : Asks(v)' = Asks(v)
    BY <1>k, <1>t, <2>1
  <2>3. UNCHANGED <<apart, trnClient, isOwner, crashed>>
    BY <1>k, <1>t, <2>1
  <2>4. m \in TMT /\ m.type = "broadcast"
    BY <1>m, <2>2 DEF types
  <2> HIDE DEF m
  <2>5. /\ tAnswers' \in [Users -> queues]
        /\ \A v \in Users : mm(v)' = IF v \in match[b] THEN Append(mm(v), m) ELSE mm(v)
    <3>1. /\ tAnswers' \in [Users -> queues]
          /\ \A v \in Users : mm(v)' = IF v \in match[b] /\ "mm" = "mm" THEN Append(mm(v), m)
                                       ELSE mm(v)
      BY <1>k, <1>p, <2>1, <2>4
    <3> QED
      BY <3>1
  <2>6. Ticket!TypeOK'
    BY <1>g, <1>y, <1>z, <2>1, <2>2, <2>3, <2>5
  <2>7. \A v \in Users : Chained(v)'
    <3>1. \A v \in Users : Ticketed(v)' = Ticketed(v)
      BY <2>1 DEF Ticketed
    <3> QED
      BY <1>x, <2>1, <2>2, <2>4, <2>5, <3>1
  <2>8. \A v \in Users : Turned(v)'
    BY <1>v, <2>1, <2>2, <2>3, <2>4, <2>5
  <2> QED
    BY <1>e, <2>3, <2>6, <2>7, <2>8 DEF TicketInv
\* The turn server, whose answers are of none of the types that count.
<1>15. ASSUME NEW b \in Users, Ticket!Create(b) \/ Ticket!Join(b) \/ Ticket!Leave(b)
       PROVE  TicketInv'
  <2> DEFINE c == Ticket!Turn
             r == Head(tCmds[b][c]).room
  <2>1. PICK x \in {"create", "join", "leaveRoom"} : Ticket!Take(b, c, x)
    BY <1>15 DEF Ticket!Create, Ticket!Join, Ticket!Leave
  <2>2. UNCHANGED <<ticket, match, matches, lapsed>>
    BY <1>15 DEF Ticket!Create, Ticket!Join, Ticket!Leave
  <2>3. c \in kinds
    BY <1>k
  <2>4. /\ UNCHANGED <<run, roomID, handlers, battle, failed>>
        /\ tCmds' \in [Users -> queues] /\ Head(tCmds[b][c]) \in TMT
        /\ \A v \in Users : Asks(v)' = Asks(v)
    BY <1>t, <2>1, <2>3
  <2>5. UNCHANGED <<apart, trnClient, isOwner, crashed>>
    BY <1>t, <2>1, <2>3
  <2>6. r \in rooms
    BY <1>m, <2>4
  <2>7. \/ tAnswers' = tAnswers
        \/ \E bs : \E m \in TMT : m.type \in {"created", "joined"} /\ Ticket!Push(bs, c, m)
    <3>1. CASE Ticket!Create(b)
      <4>1. Ticket!Push({b}, c, Ticket!Message("created", b))
        BY <3>1 DEF Ticket!Create
      <4>2. /\ Ticket!Message("created", b) \in TMT
            /\ Ticket!Message("created", b).type = "created"
        BY <1>m DEF types
      <4> QED
        BY <4>1, <4>2
    <3>2. CASE Ticket!Join(b)
      <4>1. \E bs : Ticket!Push(bs, c, Ticket!Message("joined", r))
        BY <3>2 DEF Ticket!Join
      <4>2. /\ Ticket!Message("joined", r) \in TMT
            /\ Ticket!Message("joined", r).type = "joined"
        BY <1>m, <2>6 DEF types
      <4> QED
        BY <4>1, <4>2
    <3>3. CASE Ticket!Leave(b)
      BY <3>3 DEF Ticket!Leave
    <3> QED
      BY <1>15, <3>1, <3>2, <3>3
  <2>8. room' \in [Users -> SUBSET Users]
    <3>1. \/ room' = [room EXCEPT ![b] = {b}]
          \/ room' = [room EXCEPT ![r] = room[r] \union {b}]
          \/ room' = [room EXCEPT ![r] = room[r] \ {b}]
          \/ room' = room
      BY <1>15 DEF Ticket!Create, Ticket!Join, Ticket!Leave
    <3> HIDE DEF r
    <3> QED
      BY <1>y, <3>1
  <2> HIDE DEF c, r
  <2>9. /\ tAnswers' \in [Users -> queues]
        /\ \A v \in Users : \/ mm(v)' = mm(v)
                            \/ \E m : Grows(v, m) /\ m.type \in {"created", "joined"}
    <3>1. CASE tAnswers' = tAnswers
      BY <1>y, <3>1 DEF mm
    <3>2. ASSUME NEW bs, NEW m \in TMT, m.type \in {"created", "joined"}, Ticket!Push(bs, c, m)
          PROVE  <2>9
      BY <1>p, <2>3, <3>2
    <3> QED
      BY <2>7, <3>1, <3>2
  <2>10. Ticket!TypeOK'
    BY <1>g, <1>y, <1>z, <2>2, <2>4, <2>5, <2>8, <2>9
  <2>11. \A v \in Users : Chained(v)'
    <3>1. \A v \in Users : Ticketed(v)' = Ticketed(v)
      BY <2>2 DEF Ticketed
    <3> QED
      BY <1>x, <2>2, <2>4, <2>9, <3>1
  <2>12. \A v \in Users : Turned(v)'
    BY <1>v, <2>2, <2>4, <2>5, <2>9
  <2> QED
    BY <1>e, <2>5, <2>10, <2>11, <2>12 DEF TicketInv
<1> QED
  BY <1>1, <1>2, <1>3, <1>4, <1>5, <1>6, <1>7, <1>8, <1>9, <1>10, <1>11, <1>12, <1>13, <1>14,
     <1>15 DEF Ticket!Next

\* The ticket scenario, where it runs.
LEMMA TicketUnit == BotsSpec => [](unit = "ticket" => TicketInv)
<1>1. BotsInit => (unit = "ticket" => TicketInv)
  BY TicketInit DEF BotsInit, Begins
<1>2. (unit = "ticket" => TicketInv) /\ [BotsNext]_botsVars => (unit = "ticket" => TicketInv)'
  BY TicketStep DEF BotsNext, botsVars
<1> QED
  BY <1>1, <1>2, PTL DEF BotsSpec

\* A bot that runs has exactly one of a ticket, a command for one and an answer that makes it
\* ask, but for tickets that ran out: its callbacks keep it so, in whichever order they come.
THEOREM TicketsAreChained == BotsSpec => []OneTicketChain
<1>1. TicketInv => Ticket!OneTicketChain
  <2> SUFFICES ASSUME TicketInv, NEW b \in Users, run[b] = "on"
               PROVE  \/ Chain(b) = 1
                      \/ Chain(b) = 0 /\ b \in lapsed
    BY DEF Ticket!OneTicketChain, Chain, Count, mm, Ticketed
  <2> QED
    BY DEF TicketInv, Chained
<1>2. (unit = "ticket" => TicketInv) => OneTicketChain
  BY <1>1 DEF OneTicketChain, In
<1> QED
  BY <1>2, TicketUnit, PTL

\* No callback of the ticket scenario uses a turn client it has not, but where that is a client
\* of its own which could not be made, or which a battle has let go of.
THEOREM CrashesNeedTurn == BotsSpec => []CrashNeedsTurn
<1>1. (unit = "ticket" => TicketInv) => CrashNeedsTurn
  BY DEF TicketInv, CrashNeedsTurn, In
<1> QED
  BY <1>1, TicketUnit, PTL

-----------------------------------------------------------------------------
\* Every program under bot/ keeps its types, whichever runs.
THEOREM TypesAreKept == BotsSpec => []TypesOK
<1>1. /\ LoadInv => Load!TypeOK
      /\ MatchInv => Match!TypeOK
      /\ TicketBotInv => TicketBot!TypeOK
      /\ ListInv => List!TypeOK
      /\ DmInv => Dm!TypeOK
      /\ WalkInv => TypeOK
      /\ RunnerInv => Runner!TypeOK
      /\ SessionInv => Session!TypeOK
      /\ TicketInv => Ticket!TypeOK
  BY DEF LoadInv, MatchInv, TicketBotInv, ListInv, DmInv, WalkInv, RunnerInv, SessionInv, TicketInv
<1>2. /\ unit = "load" => LoadInv
      /\ unit = "match" => MatchInv
      /\ unit = "ticket bots" => TicketBotInv
      /\ unit = "list" => ListInv
      /\ unit = "dm" => DmInv
      /\ unit = "walk" => WalkInv
      /\ unit = "runner" => RunnerInv
      /\ unit = "session" => SessionInv
      /\ unit = "ticket" => TicketInv
      => TypesOK
  BY <1>1 DEF TypesOK, In
<1> QED
  BY <1>2, LoadUnit, MatchUnit, TicketBotUnit, ListUnit, DmUnit, WalkUnit, RunnerUnit,
     SessionUnit, TicketUnit, PTL
=============================================================================
