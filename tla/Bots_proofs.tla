----------------------------- MODULE Bots_proofs -----------------------------
(***************************************************************************)
(* What the load tests under bot/ promise, for any number of bots, clients,*)
(* lives and messages, and how a field bot walks, for every map, range and *)
(* set of angles.  Each program has an inductive invariant of its own      *)
(* (LoadInv, MatchInv, TicketBotInv, ListInv, DmInv, WalkInv); its Unit    *)
(* lemma says that the invariant holds wherever the program runs.          *)
(***************************************************************************)
EXTENDS Bots, TLAPS, FiniteSetTheorems, SequenceTheorems

-----------------------------------------------------------------------------
(* bot/field, bot/group, bot/matchmaker and bot/resonance: LoadBots.       *)

\* The bots on the counter, but for what the loops in Owed have still to add.
Holding == {b \in Bots : task[b] \in {"connected", "disconnected", "uncounting"}}
Owed == {l \in Load!Loops : loop[l] \in {"begun", "counting"}}
NotYet == \A l \in Load!Loops : l[2] > life[l[1]] => loop[l] = "none"
Balance == botCounter + Cardinality(Owed) = Cardinality(Holding)
LoadInv ==
    /\ Load!TypeOK
    /\ NotYet
    /\ program = "field udp" \/ raced \/ Balance
    /\ Load!PlaceLostOnlyByRace

\* An instance has a Cardinality of its own.
LEMMA LoadCardinality == \A S : Load!Cardinality(S) = Cardinality(S)
BY DEF Load!Cardinality, Cardinality

\* The sets that are counted are finite, and howmany is the number of bots.
LEMMA LoadFinite ==
    ASSUME Load!TypeOK
    PROVE  /\ IsFiniteSet(Holding) /\ Cardinality(Holding) \in Nat
           /\ IsFiniteSet(Owed) /\ Cardinality(Owed) \in Nat
           /\ Load!howmany = Cardinality(Bots) /\ Load!howmany \in Nat
           /\ IsFiniteSet(Bots) /\ MaxLives \in Nat
<1>0. IsFiniteSet(Bots) /\ MaxLives \in Nat
  BY BotsAssumption
<1>1. IsFiniteSet(1 .. MaxLives)
  BY <1>0, FS_Interval
<1>2. IsFiniteSet(Load!Loops)
  BY <1>0, <1>1, FS_Product DEF Load!Loops
<1>3. IsFiniteSet(Holding) /\ IsFiniteSet(Owed)
  BY <1>0, <1>2, FS_Subset DEF Holding, Owed
<1>4. Load!howmany = Cardinality(Bots)
  BY LoadCardinality DEF Load!howmany
<1> QED
  BY <1>0, <1>3, <1>4, FS_CardinalityType

\* Nobody is counted before the first connects.
LEMMA LoadInit == Load!Init => LoadInv
<1> SUFFICES ASSUME Load!Init PROVE LoadInv
  OBVIOUS
<1>0. Load!Again \in Load!Tasks /\ 0 \in 0 .. MaxLives
  BY BotsAssumption DEF Load!Tasks, Load!Again
<1>1. Load!TypeOK
  <2>1. /\ task \in [Bots -> Load!Tasks] /\ life \in [Bots -> 0 .. MaxLives]
        /\ loop \in [Load!Loops -> {"none", "begun", "counting", "runs"}]
        /\ seen \in [Bots \union Load!Loops -> Int] /\ botCounter \in Int
    BY <1>0 DEF Load!Init
  <2>2. program \in Programs /\ raced \in BOOLEAN
    BY DEF Load!Init
  <2> QED
    BY <2>1, <2>2 DEF Load!TypeOK
<1>2. Holding = {} /\ Owed = {}
  BY DEF Load!Init, Holding, Owed, Load!Again
<1>3. Cardinality(Holding) = 0 /\ Cardinality(Owed) = 0
  BY <1>2, FS_EmptySet
<1>4. Load!PlaceLostOnlyByRace /\ NotYet
  BY DEF Load!Init, Load!PlaceLostOnlyByRace, Load!Again, NotYet
<1>5. Balance
  BY <1>3 DEF Load!Init, Balance
<1> QED
  BY <1>1, <1>4, <1>5 DEF LoadInv

\* The types are kept.
LEMMA LoadTypes ==
    ASSUME Load!TypeOK, Load!Next
    PROVE  Load!TypeOK'
<1> USE DEF Load!TypeOK, Load!GoTo, Load!Tasks
<1>1. ASSUME NEW b \in Bots,
             Load!Spawn(b) \/ Load!Endpoint(b) \/ Load!OnDisconnect(b) \/ Load!Respawn(b)
      PROVE  Load!TypeOK'
  BY <1>1 DEF Load!Spawn, Load!Endpoint, Load!OnDisconnect, Load!Respawn, Load!Again
<1>2. ASSUME NEW b \in Bots, Load!OnConnect(b)
      PROVE  Load!TypeOK'
  BY <1>2, BotsAssumption DEF Load!OnConnect, Load!Loops
<1>3. ASSUME NEW b \in Bots, Load!UncountRead(b) \/ Load!UncountWrite(b)
      PROVE  Load!TypeOK'
  <2>1. /\ UNCHANGED <<program, life, loop>>
        /\ task' \in [Bots -> Load!Tasks] /\ botCounter' \in Int
        /\ seen' \in [Bots \union Load!Loops -> Int]
    BY <1>3 DEF Load!UncountRead, Load!UncountWrite, Load!Read, Load!Write, Load!Add
  <2>2. raced' \in BOOLEAN
    BY <1>3 DEF Load!UncountRead, Load!UncountWrite, Load!Write, Load!Add
  <2> QED
    BY <2>1, <2>2
<1>4. ASSUME NEW l \in Load!Loops, Load!CountRead(l) \/ Load!CountWrite(l)
      PROVE  Load!TypeOK'
  <2>1. /\ UNCHANGED <<program, life, task>>
        /\ loop' \in [Load!Loops -> {"none", "begun", "counting", "runs"}]
        /\ botCounter' \in Int /\ seen' \in [Bots \union Load!Loops -> Int]
    BY <1>4 DEF Load!CountRead, Load!CountWrite, Load!Read, Load!Write, Load!Add
  <2>2. raced' \in BOOLEAN
    BY <1>4 DEF Load!CountRead, Load!CountWrite, Load!Write, Load!Add
  <2> QED
    BY <2>1, <2>2
<1> QED
  BY <1>1, <1>2, <1>3, <1>4 DEF Load!Next

\* A count that is right never says that the house is full to a bot outside.
LEMMA LoadHasPlace ==
    ASSUME Load!TypeOK, NEW b \in Bots \ Holding, Balance
    PROVE  botCounter < Load!howmany
<1>1. Holding \subseteq Bots \ {b}
  BY DEF Holding
<1>2. /\ IsFiniteSet(Bots \ {b})
      /\ Cardinality(Bots \ {b}) = Load!howmany - 1
  BY LoadFinite, FS_RemoveElement
<1>3. Cardinality(Holding) <= Load!howmany - 1
  BY <1>1, <1>2, FS_Subset
<1>4. botCounter \in Int
  BY DEF Load!TypeOK
<1> QED
  BY <1>3, <1>4, LoadFinite DEF Balance

\* Each step keeps the count, or records the race that lost it.
LEMMA LoadStep == LoadInv /\ [Load!Next]_loadVars => LoadInv'
<1> SUFFICES ASSUME LoadInv, [Load!Next]_loadVars PROVE LoadInv'
  OBVIOUS
<1>0. /\ Load!TypeOK /\ NotYet /\ Load!PlaceLostOnlyByRace
      /\ program = "field udp" \/ raced \/ Balance
  BY DEF LoadInv
<1>s. CASE UNCHANGED loadVars
  BY <1>0, <1>s DEF loadVars, LoadInv, Load!TypeOK, Load!Loops, Owed, Holding,
     Load!PlaceLostOnlyByRace, NotYet, Balance
<1>t. ASSUME Load!Next PROVE Load!TypeOK'
  BY <1>0, <1>t, LoadTypes
<1>f. /\ IsFiniteSet(Holding) /\ Cardinality(Holding) \in Nat
      /\ IsFiniteSet(Owed) /\ Cardinality(Owed) \in Nat
  BY <1>0, LoadFinite
<1>y. /\ task \in [Bots -> Load!Tasks] /\ life \in [Bots -> 0 .. MaxLives]
      /\ loop \in [Load!Loops -> {"none", "begun", "counting", "runs"}]
      /\ botCounter \in Int /\ MaxLives \in Nat
  BY <1>0, BotsAssumption DEF Load!TypeOK
<1>1. ASSUME NEW b \in Bots, Load!Spawn(b) \/ Load!Respawn(b)
      PROVE  LoadInv'
  <2>0. UNCHANGED <<program, life, loop, botCounter, raced>>
    BY <1>1 DEF Load!Spawn, Load!Respawn
  <2>1. b \notin Holding
    BY <1>1 DEF Holding, Load!Spawn, Load!Respawn, Load!GoTo
  <2>2. Holding' = Holding /\ Owed' = Owed
    BY <1>y, <1>1, <2>0, <2>1 DEF Holding, Owed, Load!Spawn, Load!Respawn, Load!GoTo,
       Load!Again, Load!Loops
  <2>3. task'[b] = "dropped" => botCounter >= Load!howmany
    BY <1>y, <1>1 DEF Load!Spawn, Load!Respawn, Load!GoTo, Load!Again
  <2>4. task'[b] = "dropped" => raced \/ program = "field udp"
    <3>1. Balance => task'[b] # "dropped"
      BY <1>0, <1>y, <2>1, <2>3, LoadHasPlace, LoadFinite
    <3> QED
      BY <1>0, <3>1
  <2>5. \A a \in Bots : a # b => task'[a] = task[a]
    BY <1>y, <1>1 DEF Load!Spawn, Load!Respawn, Load!GoTo
  <2>6. Load!PlaceLostOnlyByRace'
    BY <1>0, <2>0, <2>4, <2>5 DEF Load!PlaceLostOnlyByRace
  <2>7. Load!TypeOK'
    BY <1>t, <1>1 DEF Load!Next
  <2>8. NotYet' /\ (Balance' <=> Balance)
    BY <1>0, <2>0, <2>2 DEF NotYet, Balance, Load!Loops
  <2> QED
    BY <1>0, <2>0, <2>6, <2>7, <2>8 DEF LoadInv
<1>2. ASSUME NEW b \in Bots, Load!Endpoint(b) \/ Load!OnDisconnect(b)
      PROVE  LoadInv'
  <2>0. UNCHANGED <<program, life, loop, botCounter, raced>>
    BY <1>2 DEF Load!Endpoint, Load!OnDisconnect
  <2>1. task'[b] # "dropped" /\ \A a \in Bots : a # b => task'[a] = task[a]
    BY <1>y, <1>2 DEF Load!Endpoint, Load!OnDisconnect, Load!GoTo
  <2>2. Owed' = Owed /\ NotYet'
    BY <1>0, <2>0 DEF Owed, NotYet, Load!Loops
  <2>3. program # "field udp" => Holding' = Holding
    BY <1>y, <1>2 DEF Load!Endpoint, Load!OnDisconnect, Load!GoTo,
       Holding, Load!Uncounts
  <2>4. Load!PlaceLostOnlyByRace'
    BY <1>0, <2>0, <2>1 DEF Load!PlaceLostOnlyByRace
  <2>5. Load!TypeOK'
    BY <1>t, <1>2 DEF Load!Next
  <2>6. program # "field udp" => (Balance' <=> Balance)
    BY <2>0, <2>2, <2>3 DEF Balance
  <2> QED
    BY <1>0, <2>0, <2>2, <2>4, <2>5, <2>6 DEF LoadInv
<1>3. ASSUME NEW b \in Bots, Load!OnConnect(b)
      PROVE  LoadInv'
  <2> DEFINE l == <<b, life[b] + 1>>
  <2>0. UNCHANGED <<program, botCounter, raced>>
    BY <1>3 DEF Load!OnConnect
  <2>a. /\ task[b] = "connecting" /\ task' = [task EXCEPT ![b] = "connected"]
        /\ life[b] < MaxLives /\ life' = [life EXCEPT ![b] = @ + 1]
        /\ loop' = [loop EXCEPT ![l] = "begun"]
    BY <1>3 DEF Load!OnConnect, Load!GoTo
  <2>b. l \in Load!Loops /\ l[1] = b /\ l[2] = life[b] + 1
    BY <1>y, <2>a DEF Load!Loops
  <2>1. loop[l] = "none"
    <3>1. l[2] > life[l[1]]
      BY <1>y, <2>b
    <3> HIDE DEF l
    <3> QED BY <1>0, <2>b, <3>1 DEF NotYet
  <2>2. b \notin Holding /\ l \notin Owed
    BY <2>a, <2>1 DEF Holding, Owed
  <2>3. Holding' = Holding \union {b}
    BY <1>y, <2>a DEF Holding
  <2>4. Owed' = Owed \union {l}
    <3> HIDE DEF l
    <3> QED BY <1>y, <2>a, <2>b DEF Owed, Load!Loops
  <2>5. /\ Cardinality(Holding') = Cardinality(Holding) + 1
        /\ Cardinality(Owed') = Cardinality(Owed) + 1
    BY <1>f, <2>2, <2>3, <2>4, FS_AddElement
  <2>6. NotYet'
    <3>1. SUFFICES ASSUME NEW m \in Load!Loops, m[2] > life'[m[1]]
                   PROVE  loop'[m] = "none"
      BY DEF NotYet, Load!Loops
    <3>2. m[1] \in Bots /\ m[2] \in Int
      BY DEF Load!Loops
    <3>3. m # l /\ m[2] > life[m[1]]
      BY <1>y, <2>a, <2>b, <3>1, <3>2
    <3> QED
      BY <1>0, <1>y, <2>a, <3>3 DEF NotYet
  <2>7. Load!PlaceLostOnlyByRace'
    BY <1>0, <1>y, <2>0, <2>a DEF Load!PlaceLostOnlyByRace
  <2>8. Load!TypeOK'
    BY <1>t, <1>3 DEF Load!Next
  <2>9. Balance => Balance'
    BY <1>f, <1>y, <2>0, <2>5 DEF Balance
  <2> QED
    BY <1>0, <2>0, <2>6, <2>7, <2>8, <2>9 DEF LoadInv
<1>4. ASSUME NEW l \in Load!Loops, Load!CountRead(l)
      PROVE  LoadInv'
  <2>0. /\ UNCHANGED <<program, task, life, botCounter, raced>>
        /\ loop[l] = "begun" /\ loop' = [loop EXCEPT ![l] = "counting"]
    BY <1>4 DEF Load!CountRead, Load!Read
  <2>1. Owed' = Owed /\ Holding' = Holding
    BY <1>y, <2>0 DEF Owed, Holding, Load!Loops
  <2>2. Load!TypeOK'
    BY <1>t, <1>4 DEF Load!Next
  <2>3. NotYet'
    BY <1>0, <1>y, <2>0 DEF NotYet, Load!Loops
  <2>4. Load!PlaceLostOnlyByRace' /\ (Balance' <=> Balance)
    BY <1>0, <2>0, <2>1 DEF Load!PlaceLostOnlyByRace, Balance
  <2> QED
    BY <1>0, <2>0, <2>2, <2>3, <2>4 DEF LoadInv
<1>5. ASSUME NEW l \in Load!Loops, Load!CountWrite(l)
      PROVE  LoadInv'
  <2>0. /\ UNCHANGED <<program, task, life>>
        /\ loop[l] \in {"begun", "counting"} /\ loop' = [loop EXCEPT ![l] = "runs"]
    BY <1>5 DEF Load!CountWrite
  <2>1. /\ raced => raced'
        /\ raced' \/ botCounter' = botCounter + 1
    BY <1>0, <1>5, <1>y DEF Load!CountWrite, Load!Write, Load!Add
  <2>2. Owed' = Owed \ {l} /\ l \in Owed /\ Holding' = Holding
    BY <1>y, <2>0 DEF Owed, Holding, Load!Loops
  <2>3. Cardinality(Owed') = Cardinality(Owed) - 1
    BY <1>f, <2>2, FS_RemoveElement
  <2>5. Load!TypeOK'
    BY <1>t, <1>5 DEF Load!Next
  <2>6. NotYet'
    BY <1>0, <1>y, <2>0 DEF NotYet, Load!Loops
  <2>7. Load!PlaceLostOnlyByRace'
    BY <1>0, <2>0, <2>1 DEF Load!PlaceLostOnlyByRace
  <2>8. Balance /\ botCounter' = botCounter + 1 => Balance'
    BY <1>f, <1>y, <2>2, <2>3 DEF Balance
  <2> QED
    BY <1>0, <2>0, <2>1, <2>5, <2>6, <2>7, <2>8 DEF LoadInv
<1>6. ASSUME NEW b \in Bots, Load!UncountRead(b)
      PROVE  LoadInv'
  <2>0. /\ UNCHANGED <<program, life, loop, botCounter, raced>>
        /\ task[b] = "disconnected" /\ task' = [task EXCEPT ![b] = "uncounting"]
    BY <1>6 DEF Load!UncountRead, Load!Read, Load!GoTo
  <2>1. Owed' = Owed /\ Holding' = Holding
    BY <1>y, <2>0 DEF Owed, Holding, Load!Loops
  <2>2. Load!TypeOK'
    BY <1>t, <1>6 DEF Load!Next
  <2>3. NotYet' /\ (Balance' <=> Balance)
    BY <1>0, <2>0, <2>1 DEF NotYet, Balance, Load!Loops
  <2>4. Load!PlaceLostOnlyByRace'
    BY <1>0, <1>y, <2>0 DEF Load!PlaceLostOnlyByRace
  <2> QED
    BY <1>0, <2>0, <2>2, <2>3, <2>4 DEF LoadInv
<1>7. ASSUME NEW b \in Bots, Load!UncountWrite(b)
      PROVE  LoadInv'
  <2>0. /\ UNCHANGED <<program, life, loop>> /\ b \in Holding
        /\ task' = [task EXCEPT ![b] = "uncounted"]
    BY <1>7 DEF Load!UncountWrite, Load!GoTo, Holding
  <2>1. /\ raced => raced'
        /\ raced' \/ botCounter' = botCounter - 1
    BY <1>0, <1>7, <1>y DEF Load!UncountWrite, Load!Write, Load!Add, Load!TypeOK
  <2>2. Holding' = Holding \ {b} /\ Owed' = Owed
    BY <1>y, <2>0 DEF Owed, Holding, Load!Loops
  <2>3. Cardinality(Holding') = Cardinality(Holding) - 1
    BY <1>f, <2>0, <2>2, FS_RemoveElement
  <2>5. Load!TypeOK'
    BY <1>t, <1>7 DEF Load!Next
  <2>6. NotYet'
    BY <1>0, <2>0 DEF NotYet, Load!Loops
  <2>7. Load!PlaceLostOnlyByRace'
    BY <1>0, <1>y, <2>0, <2>1 DEF Load!PlaceLostOnlyByRace
  <2>8. Balance /\ botCounter' = botCounter - 1 => Balance'
    BY <1>f, <1>y, <2>2, <2>3 DEF Balance
  <2> QED
    BY <1>0, <2>0, <2>1, <2>5, <2>6, <2>7, <2>8 DEF LoadInv
<1> QED
  BY <1>s, <1>1, <1>2, <1>3, <1>4, <1>5, <1>6, <1>7 DEF Load!Next

\* The population, where it is the program that runs.
LEMMA LoadUnit == BotsSpec => [](unit = "load" => LoadInv)
<1>1. BotsInit => (unit = "load" => LoadInv)
  BY LoadInit DEF BotsInit, Begins
<1>2. (unit = "load" => LoadInv) /\ [BotsNext]_botsVars => (unit = "load" => LoadInv)'
  BY LoadStep DEF BotsNext, botsVars, loadVars
<1> QED
  BY <1>1, <1>2, PTL DEF BotsSpec

\* A bot of bot/group, bot/matchmaker or bot/resonance that was disconnected loses its place
\* for good only after an update of botCounter was lost to another.
THEOREM PlacesLostByRaces == BotsSpec => []PlaceLostOnlyByRace
<1>1. (unit = "load" => LoadInv) => PlaceLostOnlyByRace
  BY DEF LoadInv, PlaceLostOnlyByRace, In
<1> QED
  BY <1>1, LoadUnit, PTL

\* The resonance bots count with sync/atomic, and so no update of theirs is lost.
AtomicCounts == unit = "load" /\ program = "resonance" => ~raced

LEMMA AtomicSteps == AtomicCounts /\ [BotsNext]_botsVars => AtomicCounts'
<1> SUFFICES ASSUME AtomicCounts, [BotsNext]_botsVars, unit' = "load", program' = "resonance"
             PROVE  ~raced'
  BY DEF AtomicCounts
<1>1. CASE UNCHANGED <<unit, loadVars>>
  BY <1>1 DEF AtomicCounts, loadVars
<1>2. CASE UNCHANGED unit /\ Load!Next
  <2>1. program = "resonance" /\ (Load!Atomic => UNCHANGED raced)
    BY <1>2 DEF Load!Next, Load!Spawn, Load!Endpoint, Load!OnConnect, Load!OnDisconnect,
       Load!UncountRead, Load!UncountWrite, Load!Respawn, Load!CountRead, Load!CountWrite, Load!Add
  <2> QED
    BY <1>2, <2>1 DEF Load!Atomic, AtomicCounts
<1> QED
  BY <1>1, <1>2 DEF BotsNext, botsVars

\* Every resonance bot comes back, and its counter is right: with the bots that have still to
\* be counted it is the number of those that are connected or have not been taken off
\* (bot/resonance/main.go).
THEOREM ResonanceKeepsItsNumber ==
    BotsSpec => [](unit = "load" /\ program = "resonance" =>
                       Balance /\ \A b \in Bots : task[b] # "dropped")
<1>1. BotsInit => AtomicCounts
  BY DEF BotsInit, Begins, Load!Init, AtomicCounts
<1>2. (unit = "load" => LoadInv) /\ AtomicCounts =>
          (unit = "load" /\ program = "resonance" =>
               Balance /\ \A b \in Bots : task[b] # "dropped")
  BY DEF LoadInv, Load!PlaceLostOnlyByRace, AtomicCounts
<1> QED
  BY <1>1, <1>2, AtomicSteps, LoadUnit, PTL DEF BotsSpec

-----------------------------------------------------------------------------
(* One bot of bot/matchmaker: MatchBot.                                    *)

\* A bot that has noted the state it acted on never falls back to it by a failed
\* search, and the loop never rests without an answer to come.
MatchForward == currentState <= state \/ state >= 22
Awaiting == \/ ~connected \/ overtaken \/ addFailed \/ unanswered # {}
            \/ state >= 22 \/ (~noting /\ currentState # state)
MatchInv == Match!TypeOK /\ MatchForward /\ Awaiting

USE DEF Match!Waiting, Match!Hosting, Match!Leaving

\* A bot starts with the search or the wait of its role to be acted on.
LEMMA MatchInit == Match!Init => MatchInv
<1> SUFFICES ASSUME Match!Init PROVE MatchInv
  OBVIOUS
<1>1. state \in Nat /\ currentState = -1 /\ waitCounter = 0 /\ pushes = 0 /\ unanswered = {}
  BY DEF Match!Init
<1>2. /\ isHost \in BOOLEAN /\ noting \in BOOLEAN /\ connected \in BOOLEAN
      /\ overtaken \in BOOLEAN /\ addFailed \in BOOLEAN /\ ~noting
  BY DEF Match!Init
<1>3. pushes \in 0 .. MaxPushes
  BY <1>1, BotsAssumption
<1>4. currentState <= state /\ currentState # state
  BY <1>1
<1> QED
  BY <1>1, <1>2, <1>3, <1>4 DEF MatchInv, Match!TypeOK, MatchForward, Awaiting

\* The types are kept.
LEMMA MatchTypes ==
    ASSUME Match!TypeOK, Match!Next
    PROVE  Match!TypeOK'
<1>0. state \in Nat /\ waitCounter \in Nat /\ pushes \in 0 .. MaxPushes /\ Interval \in Nat
      /\ MaxPushes \in Nat /\ currentState \in Nat \union {-1}
      /\ unanswered \subseteq {"search", "add"}
  BY BotsAssumption DEF Match!TypeOK
<1>1. /\ state' \in Nat /\ waitCounter' \in Nat /\ pushes' \in 0 .. MaxPushes
      /\ currentState' \in Nat \union {-1}
      /\ unanswered' \subseteq {"search", "add"}
  <2>1. CASE Match!Search \/ Match!Host
    BY <1>0, <2>1 DEF Match!Search, Match!Host, Match!Send
  <2>2. CASE Match!Wait
    BY <1>0, <2>2 DEF Match!Wait
  <2>3. CASE Match!WaitOver \/ Match!Leave
    <3>1. /\ state' = 23 /\ unanswered' \in {unanswered, {}}
          /\ UNCHANGED <<currentState, waitCounter, pushes>>
      BY <2>3 DEF Match!WaitOver, Match!Leave, Match!Disconnect
    <3> QED
      BY <1>0, <3>1
  <2>4. CASE Match!Note
    BY <1>0, <2>4 DEF Match!Note
  <2>5. CASE Match!OnSearchResponse
    BY <1>0, <2>5 DEF Match!OnSearchResponse, Match!Hear
  <2>6. CASE Match!OnAddResponse
    BY <1>0, <2>6 DEF Match!OnAddResponse, Match!Hear
  <2>7. CASE Match!OnPush
    BY <1>0, <2>7 DEF Match!OnPush, Match!Hear
  <2> QED
    BY <2>1, <2>2, <2>3, <2>4, <2>5, <2>6, <2>7 DEF Match!Next, Match!Loop
<1>2. /\ isHost' \in BOOLEAN /\ noting' \in BOOLEAN /\ connected' \in BOOLEAN
      /\ overtaken' \in BOOLEAN /\ addFailed' \in BOOLEAN
  BY DEF Match!TypeOK, Match!Next, Match!Loop, Match!Search, Match!Host, Match!Wait,
     Match!WaitOver, Match!Leave, Match!Note, Match!OnSearchResponse,
     Match!OnAddResponse, Match!OnPush, Match!Hear, Match!Act, Match!Disconnect
<1> QED
  BY <1>1, <1>2 DEF Match!TypeOK

\* Each step leaves an answer to come, a state to act on, or the reason why not.
LEMMA MatchStep == MatchInv /\ [Match!Next]_matchVars => MatchInv'
<1> SUFFICES ASSUME MatchInv, [Match!Next]_matchVars PROVE MatchInv'
  OBVIOUS
<1>0. Match!TypeOK /\ MatchForward /\ Awaiting
  BY DEF MatchInv
<1>y. state \in Nat /\ currentState \in Nat \union {-1}
  BY <1>0 DEF Match!TypeOK
<1>s. CASE UNCHANGED matchVars
  BY <1>0, <1>s DEF matchVars, MatchInv, Match!TypeOK, MatchForward, Awaiting
<1>t. ASSUME Match!Next PROVE Match!TypeOK'
  BY <1>0, <1>t, MatchTypes
<1>1. ASSUME Match!Search \/ Match!Host
      PROVE  MatchForward' /\ Awaiting'
  <2>1. UNCHANGED <<state, currentState, connected>>
    BY <1>1 DEF Match!Search, Match!Host
  <2>2. connected => unanswered' # {}
    BY <1>1 DEF Match!Search, Match!Host, Match!Send
  <2> QED
    BY <1>0, <2>1, <2>2 DEF MatchForward, Awaiting
<1>2. ASSUME Match!Wait \/ Match!WaitOver \/ Match!Leave
      PROVE  MatchForward' /\ Awaiting'
  <2>1. state' >= 22
    BY <1>2 DEF Match!Wait, Match!WaitOver, Match!Leave
  <2> QED
    BY <2>1 DEF MatchForward, Awaiting
<1>3. ASSUME Match!Note
      PROVE  MatchForward' /\ Awaiting'
  <2>1. /\ currentState' = state /\ state' = state /\ noting
        /\ UNCHANGED <<connected, overtaken, addFailed, unanswered>>
    BY <1>3 DEF Match!Note
  <2>2. MatchForward'
    BY <1>y, <2>1 DEF MatchForward
  <2> QED
    BY <1>0, <2>1, <2>2 DEF Awaiting
<1>4. ASSUME Match!OnSearchResponse
      PROVE  MatchForward' /\ Awaiting'
  <2>1. /\ state' \in {state + 1, 22} /\ currentState' = currentState
        /\ noting' = noting /\ overtaken' = (overtaken \/ noting)
    BY <1>4 DEF Match!OnSearchResponse, Match!Hear
  <2>2. /\ currentState' <= state' \/ state' >= 22
        /\ state' >= 22 \/ currentState' # state'
    BY <1>0, <1>y, <2>1 DEF MatchForward
  <2> QED
    BY <2>1, <2>2 DEF MatchForward, Awaiting
<1>5. ASSUME Match!OnAddResponse
      PROVE  MatchForward' /\ Awaiting'
  <2>1. CASE state' = 22
    BY <2>1 DEF MatchForward, Awaiting
  <2>2. CASE addFailed' = TRUE /\ state' = state
    <3>1. currentState' = currentState
      BY <1>5 DEF Match!OnAddResponse, Match!Hear
    <3> QED
      BY <1>0, <2>2, <3>1 DEF MatchForward, Awaiting
  <2> QED
    BY <1>5, <2>1, <2>2 DEF Match!OnAddResponse
<1>6. ASSUME Match!OnPush
      PROVE  MatchForward' /\ Awaiting'
  <2>1. state' >= 22
    BY <1>6 DEF Match!OnPush
  <2> QED
    BY <2>1 DEF MatchForward, Awaiting
<1> QED
  BY <1>s, <1>t, <1>1, <1>2, <1>3, <1>4, <1>5, <1>6 DEF Match!Next, Match!Loop, MatchInv

\* A bot of bot/matchmaker, where it is the program that runs.
LEMMA MatchUnit == BotsSpec => [](unit = "match" => MatchInv)
<1>1. BotsInit => (unit = "match" => MatchInv)
  BY MatchInit DEF BotsInit, Begins
<1>2. (unit = "match" => MatchInv) /\ [BotsNext]_botsVars => (unit = "match" => MatchInv)'
  BY MatchStep DEF BotsNext, botsVars, matchVars
<1> QED
  BY <1>1, <1>2, PTL DEF BotsSpec

\* A bot whose loop has nothing left to act on, with no answer to come, was overtaken by a
\* push between its two writes of the state, or could not add itself.
THEOREM QuietBotsExplained == BotsSpec => []QuietExplained
<1>1. MatchInv => Match!QuietExplained
  <2>1. Match!Idle /\ state \in Int => ~(state >= 22) /\ currentState = state
    BY DEF Match!Idle
  <2> QED
    BY <2>1 DEF MatchInv, Awaiting, Match!QuietExplained, Match!TypeOK
<1>2. (unit = "match" => MatchInv) => QuietExplained
  BY <1>1 DEF QuietExplained, In
<1> QED
  BY <1>2, MatchUnit, PTL

-----------------------------------------------------------------------------
(* bot/matchmaker-ticket: TicketBots.                                      *)

\* The clients that botCnt counts, or should, and those that have been made.
OnCount == {c \in Clients : client[c] \in {"counted", "down", "uncounting"}}
Made == {c \in Clients : client[c] # "new"}
\* Nothing has come between a client and its place on the count.
Calm == ~tRaced /\ ~hasty /\ \A c \in Clients : timer[c] \notin {"disconnect", "over"}
NumUncounted == Cardinality(TicketBot!Uncounted)
CountRight == botCnt = Cardinality(OnCount)
RoundRight == round # -1 => NumUncounted <= round
NotTooMany == NumUncounted + Cardinality(OnCount) <= totalBots
RoundMade == round <= Cardinality(Made)
TicketBotInv == /\ TicketBot!TypeOK /\ RoundMade
                /\ Calm => CountRight /\ RoundRight /\ NotTooMany

USE DEF TicketBot!Asleep

\* An instance has a Cardinality of its own.
LEMMA TicketBotCardinality == \A S : TicketBot!Cardinality(S) = Cardinality(S)
BY DEF TicketBot!Cardinality, Cardinality

\* The sets that are counted are finite.
LEMMA ClientSets ==
    /\ IsFiniteSet(Clients) /\ Cardinality(Clients) \in Nat
    /\ IsFiniteSet(TicketBot!Uncounted) /\ NumUncounted \in Nat
    /\ IsFiniteSet(OnCount) /\ Cardinality(OnCount) \in Nat
    /\ IsFiniteSet(Made) /\ Cardinality(Made) \in Nat
    /\ Cardinality(Made) <= Cardinality(Clients)
<1>1. IsFiniteSet(Clients)
  BY BotsAssumption
<1>2. /\ TicketBot!Uncounted \subseteq Clients /\ OnCount \subseteq Clients
      /\ Made \subseteq Clients
  BY DEF TicketBot!Uncounted, OnCount, Made
<1>3. /\ IsFiniteSet(TicketBot!Uncounted) /\ IsFiniteSet(OnCount) /\ IsFiniteSet(Made)
      /\ Cardinality(Made) <= Cardinality(Clients)
  BY <1>1, <1>2, FS_Subset
<1> QED
  BY <1>1, <1>3, FS_CardinalityType DEF NumUncounted

\* There are no clients at first.
LEMMA TicketBotInit == TicketBot!Init => TicketBotInv
<1> SUFFICES ASSUME TicketBot!Init PROVE TicketBotInv
  OBVIOUS
<1>1. /\ round = -1 /\ client = [c \in Clients |-> "new"]
      /\ timer = [c \in Clients |-> "set"] /\ dead = {} /\ botCnt = 0
      /\ tSeen = [x \in Clients \X {"client", "timer"} |-> 0]
  BY DEF TicketBot!Init
<1>2. tRaced \in BOOLEAN /\ hasty \in BOOLEAN
  BY DEF TicketBot!Init
<1>3. TicketBot!Uncounted = {} /\ OnCount = {} /\ Made = {}
  BY <1>1 DEF TicketBot!Uncounted, OnCount, Made
<1>4. NumUncounted = 0 /\ Cardinality(OnCount) = 0 /\ Cardinality(Made) = 0
  BY <1>3, FS_EmptySet DEF NumUncounted
<1>5. round \in -1 .. TicketBot!Cardinality(Clients)
  BY <1>1, ClientSets, TicketBotCardinality
<1>6. TicketBot!TypeOK
  BY <1>1, <1>2, <1>5 DEF TicketBot!TypeOK
<1>7. totalBots \in Nat
  BY BotsAssumption
<1>8. CountRight /\ RoundRight /\ NotTooMany /\ RoundMade
  BY <1>1, <1>4, <1>7 DEF CountRight, RoundRight, NotTooMany, RoundMade
<1> QED
  BY <1>6, <1>8 DEF TicketBotInv

\* The types are kept; a round has made no fewer clients than it has counted.
LEMMA TicketBotTypes ==
    ASSUME TicketBot!TypeOK, RoundMade, TicketBot!Next
    PROVE  TicketBot!TypeOK'
<1> DEFINE Stage == {"new", "connecting", "connected", "counting",
                     "counted", "down", "uncounting", "gone"}
           Times == {"set", "uncount", "uncounting", "disconnect", "over", "spared"}
           Writers == Clients \X {"client", "timer"}
<1>y. /\ round \in -1 .. Cardinality(Clients) /\ Cardinality(Clients) \in Nat
      /\ client \in [Clients -> Stage] /\ timer \in [Clients -> Times]
      /\ dead \subseteq Clients /\ botCnt \in Int /\ tSeen \in [Writers -> Int]
  BY TicketBotCardinality, ClientSets DEF TicketBot!TypeOK
<1>g. ASSUME round' \in -1 .. Cardinality(Clients), client' \in [Clients -> Stage],
             timer' \in [Clients -> Times], dead' \subseteq Clients, botCnt' \in Int,
             tSeen' \in [Writers -> Int], tRaced' \in BOOLEAN, hasty' \in BOOLEAN
      PROVE  TicketBot!TypeOK'
  BY <1>g, TicketBotCardinality DEF TicketBot!TypeOK
<1>b. tRaced' \in BOOLEAN /\ hasty' \in BOOLEAN
  BY DEF TicketBot!TypeOK, TicketBot!Next, TicketBot!Begin, TicketBot!End,
     TicketBot!spawnBot, TicketBot!Connected, TicketBot!CountRead, TicketBot!CountWrite,
     TicketBot!Down, TicketBot!UncountRead, TicketBot!UncountWrite, TicketBot!Timeout,
     TicketBot!TimeoutRead, TicketBot!TimeoutWrite, TicketBot!Disconnect,
     TicketBot!history, TicketBot!Read, TicketBot!Write
<1>1. ASSUME TicketBot!Begin \/ TicketBot!End PROVE TicketBot!TypeOK'
  <2>1. UNCHANGED <<client, timer, dead, botCnt, tSeen>> /\ round' \in {-1, 0}
    BY <1>1 DEF TicketBot!Begin, TicketBot!End
  <2> QED
    BY <1>b, <1>g, <1>y, <2>1
<1>2. ASSUME NEW c \in Clients, TicketBot!spawnBot(c) PROVE TicketBot!TypeOK'
  <2>1. /\ UNCHANGED <<timer, dead, botCnt, tSeen>> /\ client[c] = "new"
        /\ round' = round + 1 /\ round # -1
        /\ client' \in {[client EXCEPT ![c] = s] : s \in {"gone", "connecting"}}
    BY <1>2 DEF TicketBot!spawnBot
  <2>2. client' \in [Clients -> Stage]
    BY <1>y, <2>1
  <2>3. round + 1 <= Cardinality(Clients)
    <3>1. Made \subseteq Clients \ {c}
      BY <2>1 DEF Made
    <3>2. /\ IsFiniteSet(Clients \ {c})
          /\ Cardinality(Clients \ {c}) = Cardinality(Clients) - 1
      BY ClientSets, FS_RemoveElement
    <3>3. Cardinality(Made) <= Cardinality(Clients) - 1
      BY <3>1, <3>2, FS_Subset
    <3> QED
      BY <1>y, <3>3, ClientSets DEF RoundMade
  <2>4. round' \in -1 .. Cardinality(Clients)
    BY <1>y, <2>1, <2>3
  <2> QED
    BY <1>b, <1>g, <1>y, <2>1, <2>2, <2>4
<1>3. ASSUME NEW c \in Clients,
             TicketBot!Connected(c) \/ TicketBot!CountRead(c) \/ TicketBot!CountWrite(c)
             \/ TicketBot!Down(c) \/ TicketBot!UncountRead(c) \/ TicketBot!UncountWrite(c)
      PROVE  TicketBot!TypeOK'
  <2>1. UNCHANGED <<round, timer>>
    BY <1>3 DEF TicketBot!Connected, TicketBot!CountRead, TicketBot!CountWrite,
       TicketBot!Down, TicketBot!UncountRead, TicketBot!UncountWrite
  <2>2. client' \in [Clients -> Stage] /\ dead' \subseteq Clients
    BY <1>3, <1>y DEF TicketBot!Connected, TicketBot!CountRead, TicketBot!CountWrite,
       TicketBot!Down, TicketBot!UncountRead, TicketBot!UncountWrite, TicketBot!GoTo
  <2>3. botCnt' \in Int /\ tSeen' \in [Writers -> Int]
    BY <1>3, <1>y DEF TicketBot!Connected, TicketBot!CountRead, TicketBot!CountWrite,
       TicketBot!Down, TicketBot!UncountRead, TicketBot!UncountWrite, TicketBot!Read,
       TicketBot!Write
  <2> QED
    BY <1>b, <1>g, <1>y, <2>1, <2>2, <2>3
<1>4. ASSUME NEW c \in Clients,
             TicketBot!Timeout(c) \/ TicketBot!TimeoutRead(c) \/ TicketBot!TimeoutWrite(c)
             \/ TicketBot!Disconnect(c)
      PROVE  TicketBot!TypeOK'
  <2>1. UNCHANGED <<round, dead>>
    BY <1>4 DEF TicketBot!Timeout, TicketBot!TimeoutRead, TicketBot!TimeoutWrite,
       TicketBot!Disconnect
  <2>2. client' \in [Clients -> Stage] /\ timer' \in [Clients -> Times]
    BY <1>4, <1>y DEF TicketBot!Timeout, TicketBot!TimeoutRead, TicketBot!TimeoutWrite,
       TicketBot!Disconnect, TicketBot!Tick
  <2>3. botCnt' \in Int /\ tSeen' \in [Writers -> Int]
    BY <1>4, <1>y DEF TicketBot!Timeout, TicketBot!TimeoutRead, TicketBot!TimeoutWrite,
       TicketBot!Disconnect, TicketBot!Read, TicketBot!Write
  <2> QED
    BY <1>b, <1>g, <1>y, <2>1, <2>2, <2>3
<1> QED
  BY <1>1, <1>2, <1>3, <1>4 DEF TicketBot!Next

\* Each step keeps the counts, or is one of those that end the calm.
LEMMA TicketBotStep == TicketBotInv /\ [TicketBot!Next]_ticketBotVars => TicketBotInv'
<1> SUFFICES ASSUME TicketBotInv, [TicketBot!Next]_ticketBotVars PROVE TicketBotInv'
  OBVIOUS
<1>0. /\ TicketBot!TypeOK /\ RoundMade
      /\ Calm => CountRight /\ RoundRight /\ NotTooMany
  BY DEF TicketBotInv
<1>t. ASSUME TicketBot!Next PROVE TicketBot!TypeOK'
  BY <1>0, <1>t, TicketBotTypes
<1>y. /\ client \in [Clients -> {"new", "connecting", "connected", "counting",
                                 "counted", "down", "uncounting", "gone"}]
      /\ timer \in [Clients -> {"set", "uncount", "uncounting", "disconnect", "over",
                                "spared"}]
      /\ round \in Int /\ botCnt \in Int /\ totalBots \in Nat
  BY <1>0, BotsAssumption, TicketBotCardinality, ClientSets DEF TicketBot!TypeOK
<1>f. /\ IsFiniteSet(TicketBot!Uncounted) /\ NumUncounted \in Nat
      /\ IsFiniteSet(OnCount) /\ Cardinality(OnCount) \in Nat
      /\ IsFiniteSet(Made) /\ Cardinality(Made) \in Nat
  BY ClientSets
\* The sets of clients stay as they are when the clients do.
<1>k. ASSUME client' = client
      PROVE  /\ TicketBot!Uncounted' = TicketBot!Uncounted /\ OnCount' = OnCount
             /\ Made' = Made /\ NumUncounted' = NumUncounted
  BY <1>k DEF TicketBot!Uncounted, OnCount, Made, NumUncounted
<1>s. CASE UNCHANGED ticketBotVars
  <2>1. UNCHANGED <<round, client, timer, dead, botCnt, tSeen, tRaced, hasty>>
    BY <1>s DEF ticketBotVars
  <2> QED
    BY <1>0, <1>k, <2>1 DEF TicketBotInv, TicketBot!TypeOK, Calm, CountRight, RoundRight,
       NotTooMany, RoundMade
<1>1. ASSUME TicketBot!Begin PROVE TicketBotInv'
  <2>1. /\ UNCHANGED <<client, timer, botCnt, tRaced>> /\ round' = 0
        /\ hasty' = (hasty \/ TicketBot!Uncounted # {})
    BY <1>1 DEF TicketBot!Begin
  <2>2. Calm' => Calm /\ TicketBot!Uncounted = {}
    BY <2>1 DEF Calm
  <2>3. Calm' => NumUncounted' = 0
    BY <1>k, <2>1, <2>2, FS_EmptySet DEF NumUncounted
  <2>4. Calm' => CountRight' /\ NotTooMany' /\ RoundRight'
    BY <1>0, <1>k, <2>1, <2>2, <2>3 DEF CountRight, NotTooMany, RoundRight
  <2>5. RoundMade'
    BY <1>f, <1>k, <2>1 DEF RoundMade
  <2> QED
    BY <1>1, <1>t, <2>4, <2>5 DEF TicketBotInv, TicketBot!Next
<1>2. ASSUME TicketBot!End PROVE TicketBotInv'
  <2>1. /\ UNCHANGED <<client, timer, botCnt, tRaced, hasty>> /\ round' = -1
    BY <1>2 DEF TicketBot!End, TicketBot!history
  <2>2. Calm' => CountRight' /\ NotTooMany' /\ RoundRight'
    BY <1>0, <1>k, <2>1 DEF Calm, CountRight, NotTooMany, RoundRight
  <2>3. RoundMade'
    BY <1>f, <1>k, <2>1 DEF RoundMade
  <2> QED
    BY <1>2, <1>t, <2>2, <2>3 DEF TicketBotInv, TicketBot!Next
<1>3. ASSUME NEW c \in Clients, TicketBot!spawnBot(c) PROVE TicketBotInv'
  <2>1. PICK s \in {"gone", "connecting"} :
            /\ client' = [client EXCEPT ![c] = s] /\ client[c] = "new"
            /\ UNCHANGED <<timer, botCnt, tRaced, hasty>>
            /\ round # -1 /\ round < totalBots - botCnt /\ round' = round + 1
    BY <1>3 DEF TicketBot!spawnBot, TicketBot!history
  <2>2. c \notin TicketBot!Uncounted /\ c \notin OnCount /\ c \notin Made
    BY <2>1 DEF TicketBot!Uncounted, OnCount, Made
  <2>3. /\ OnCount' = OnCount /\ Made' = Made \union {c}
        /\ TicketBot!Uncounted' \in {TicketBot!Uncounted, TicketBot!Uncounted \union {c}}
    BY <1>y, <2>1 DEF TicketBot!Uncounted, OnCount, Made
  <2>4. NumUncounted' = NumUncounted \/ NumUncounted' = NumUncounted + 1
    BY <1>f, <2>2, <2>3, FS_AddElement DEF NumUncounted
  <2>5. Cardinality(Made') = Cardinality(Made) + 1
    BY <1>f, <2>2, <2>3, FS_AddElement
  <2>6. RoundMade'
    BY <1>0, <1>f, <1>y, <2>1, <2>5 DEF RoundMade
  <2>7. ASSUME Calm' PROVE CountRight' /\ NotTooMany' /\ RoundRight'
    <3>1. Calm
      BY <2>1, <2>7 DEF Calm
    <3>2. CountRight /\ NumUncounted <= round
      BY <1>0, <2>1, <3>1 DEF RoundRight
    <3>3. \A u, n \in Nat : \A r, t \in Int : u <= r /\ r < t - n
                => u <= r + 1 /\ u + 1 <= r + 1 /\ u + n <= t /\ u + 1 + n <= t
      OBVIOUS
    <3>4. round < totalBots - Cardinality(OnCount)
      BY <2>1, <3>2 DEF CountRight
    <3>5. /\ NumUncounted <= round + 1 /\ NumUncounted + 1 <= round + 1
          /\ NumUncounted + Cardinality(OnCount) <= totalBots
          /\ NumUncounted + 1 + Cardinality(OnCount) <= totalBots
      BY <1>f, <1>y, <3>2, <3>3, <3>4
    <3>6. NotTooMany' /\ RoundRight'
      BY <2>1, <2>3, <2>4, <3>5 DEF NotTooMany, RoundRight
    <3> QED
      BY <2>1, <2>3, <3>2, <3>6 DEF CountRight
  <2> QED
    BY <1>3, <1>t, <2>6, <2>7 DEF TicketBotInv, TicketBot!Next
\* On the way to the count, or on it.
<1>4. ASSUME NEW c \in Clients,
             TicketBot!Connected(c) \/ TicketBot!CountRead(c) \/ TicketBot!Down(c)
             \/ TicketBot!UncountRead(c)
      PROVE  TicketBotInv'
  <2>1. UNCHANGED <<round, timer, botCnt, tRaced, hasty>>
    BY <1>4 DEF TicketBot!Connected, TicketBot!CountRead, TicketBot!Down,
       TicketBot!UncountRead, TicketBot!Read, TicketBot!history
  <2>2. PICK s : /\ client' = [client EXCEPT ![c] = s]
                 /\ \/ /\ client[c] \in {"connecting", "connected"}
                       /\ s \in {"connected", "counting"}
                    \/ /\ client[c] \in {"counted", "down"} /\ s \in {"down", "uncounting"}
    BY <1>4 DEF TicketBot!Connected, TicketBot!CountRead, TicketBot!Down,
       TicketBot!UncountRead, TicketBot!GoTo
  <2>3. /\ TicketBot!Uncounted' = TicketBot!Uncounted /\ OnCount' = OnCount
        /\ Made' = Made
    BY <1>y, <2>2 DEF TicketBot!Uncounted, OnCount, Made
  <2>4. Calm' => CountRight' /\ NotTooMany' /\ RoundRight'
    BY <1>0, <2>1, <2>3 DEF Calm, CountRight, NotTooMany, RoundRight, NumUncounted
  <2>5. RoundMade'
    BY <1>0, <2>1, <2>3 DEF RoundMade
  <2> QED
    BY <1>4, <1>t, <2>4, <2>5 DEF TicketBotInv, TicketBot!Next
<1>5. ASSUME NEW c \in Clients, TicketBot!CountWrite(c) PROVE TicketBotInv'
  <2>1. /\ UNCHANGED <<round, timer, hasty>> /\ client[c] = "counting"
        /\ client' = [client EXCEPT ![c] = "counted"]
        /\ tRaced => tRaced'
    BY <1>5 DEF TicketBot!CountWrite, TicketBot!GoTo, TicketBot!Write
  <2>2. tRaced' \/ botCnt' = botCnt + 1
    BY <1>5 DEF TicketBot!CountWrite, TicketBot!Write
  <2>3. c \in TicketBot!Uncounted /\ c \notin OnCount /\ c \in Made
    BY <2>1 DEF TicketBot!Uncounted, OnCount, Made
  <2>4. /\ TicketBot!Uncounted' = TicketBot!Uncounted \ {c}
        /\ OnCount' = OnCount \union {c} /\ Made' = Made
    BY <1>y, <2>1 DEF TicketBot!Uncounted, OnCount, Made
  <2>5. /\ NumUncounted' = NumUncounted - 1
        /\ Cardinality(OnCount') = Cardinality(OnCount) + 1
    BY <1>f, <2>3, <2>4, FS_AddElement, FS_RemoveElement DEF NumUncounted
  <2>6. ASSUME Calm' PROVE CountRight' /\ NotTooMany' /\ RoundRight'
    <3>1. CountRight /\ RoundRight /\ NotTooMany /\ botCnt' = botCnt + 1
      BY <1>0, <2>1, <2>2, <2>6 DEF Calm
    <3>2. \A u, n \in Nat : \A r, t \in Int : /\ u <= r => u - 1 <= r
                                            /\ u + n <= t => u - 1 + (n + 1) <= t
      OBVIOUS
    <3>3. NotTooMany'
      BY <1>f, <1>y, <2>5, <3>1, <3>2 DEF NotTooMany
    <3>4. RoundRight'
      BY <1>f, <1>y, <2>1, <2>5, <3>1, <3>2 DEF RoundRight
    <3> QED
      BY <2>5, <3>1, <3>3, <3>4 DEF CountRight
  <2>7. RoundMade'
    BY <1>0, <2>1, <2>4 DEF RoundMade
  <2> QED
    BY <1>5, <1>t, <2>6, <2>7 DEF TicketBotInv, TicketBot!Next
<1>6. ASSUME NEW c \in Clients, TicketBot!UncountWrite(c) PROVE TicketBotInv'
  <2>1. /\ UNCHANGED <<round, timer, hasty>> /\ client[c] = "uncounting"
        /\ client' = [client EXCEPT ![c] = "gone"]
        /\ tRaced => tRaced'
    BY <1>6 DEF TicketBot!UncountWrite, TicketBot!GoTo, TicketBot!Write
  <2>2. tRaced' \/ botCnt' = botCnt - 1
    BY <1>6, <1>y DEF TicketBot!UncountWrite, TicketBot!Write
  <2>3. c \notin TicketBot!Uncounted /\ c \in OnCount /\ c \in Made
    BY <2>1 DEF TicketBot!Uncounted, OnCount, Made
  <2>4. /\ TicketBot!Uncounted' = TicketBot!Uncounted
        /\ OnCount' = OnCount \ {c} /\ Made' = Made
    BY <1>y, <2>1 DEF TicketBot!Uncounted, OnCount, Made
  <2>5. /\ NumUncounted' = NumUncounted
        /\ Cardinality(OnCount') = Cardinality(OnCount) - 1
    BY <1>f, <2>3, <2>4, FS_RemoveElement DEF NumUncounted
  <2>6. ASSUME Calm' PROVE CountRight' /\ NotTooMany' /\ RoundRight'
    <3>1. CountRight /\ RoundRight /\ NotTooMany /\ botCnt' = botCnt - 1
      BY <1>0, <2>1, <2>2, <2>6 DEF Calm
    <3>2. \A u, n \in Nat : \A t \in Int : u + n <= t => u + (n - 1) <= t
      OBVIOUS
    <3>3. NotTooMany'
      BY <1>f, <1>y, <2>5, <3>1, <3>2 DEF NotTooMany
    <3>4. RoundRight'
      BY <2>1, <2>5, <3>1 DEF RoundRight
    <3> QED
      BY <2>5, <3>1, <3>3, <3>4 DEF CountRight
  <2>7. RoundMade'
    BY <1>0, <2>1, <2>4 DEF RoundMade
  <2> QED
    BY <1>6, <1>t, <2>6, <2>7 DEF TicketBotInv, TicketBot!Next
\* The timer.
<1>7. ASSUME NEW c \in Clients, TicketBot!Timeout(c) \/ TicketBot!TimeoutRead(c)
      PROVE  TicketBotInv'
  <2>1. /\ UNCHANGED <<round, client, botCnt, tRaced, hasty>>
        /\ timer[c] \in {"set", "uncount"}
        /\ \E s : timer' = [timer EXCEPT ![c] = s]
    BY <1>7 DEF TicketBot!Timeout, TicketBot!TimeoutRead, TicketBot!Tick, TicketBot!Read
  <2>2. Calm' => Calm
    <3>1. \A a \in Clients : a = c \/ timer'[a] = timer[a]
      BY <1>y, <2>1
    <3> QED
      BY <2>1, <3>1 DEF Calm
  <2>3. Calm' => CountRight' /\ NotTooMany' /\ RoundRight'
    BY <1>0, <1>k, <2>1, <2>2 DEF CountRight, NotTooMany, RoundRight
  <2>4. RoundMade'
    BY <1>0, <1>k, <2>1 DEF RoundMade
  <2> QED
    BY <1>7, <1>t, <2>3, <2>4 DEF TicketBotInv, TicketBot!Next
<1>8. ASSUME NEW c \in Clients, TicketBot!TimeoutWrite(c) \/ TicketBot!Disconnect(c)
      PROVE  TicketBotInv'
  <2>1. round' = round /\ timer'[c] \in {"disconnect", "over"}
    BY <1>8, <1>y DEF TicketBot!TimeoutWrite, TicketBot!Disconnect, TicketBot!Tick
  <2>2. ~Calm'
    BY <2>1 DEF Calm
  <2>3. Made' = Made
    BY <1>8, <1>y DEF TicketBot!TimeoutWrite, TicketBot!Disconnect, Made
  <2>4. RoundMade'
    BY <1>0, <2>1, <2>3 DEF RoundMade
  <2> QED
    BY <1>8, <1>t, <2>2, <2>4 DEF TicketBotInv, TicketBot!Next
<1> QED
  BY <1>s, <1>1, <1>2, <1>3, <1>4, <1>5, <1>6, <1>7, <1>8 DEF TicketBot!Next

\* bot/matchmaker-ticket, where it is the program that runs.
LEMMA TicketBotUnit == BotsSpec => [](unit = "ticket bots" => TicketBotInv)
<1>1. BotsInit => (unit = "ticket bots" => TicketBotInv)
  BY TicketBotInit DEF BotsInit, Begins
<1>2. (unit = "ticket bots" => TicketBotInv) /\ [BotsNext]_botsVars
        => (unit = "ticket bots" => TicketBotInv)'
  BY TicketBotStep DEF BotsNext, botsVars, ticketBotVars
<1> QED
  BY <1>1, <1>2, PTL DEF BotsSpec

\* More clients of bot/matchmaker-ticket are up than were asked for only after a lost update of
\* botCnt, a round that began before a client was counted, or a timer that counted off a bot
\* its callback counts off too: the moving bound of a round is never the cause.
THEOREM OverfullBotsExplained == BotsSpec => []OverfullExplained
<1>1. TicketBotInv => TicketBot!OverfullExplained
  <2> SUFFICES ASSUME TicketBotInv, Calm
               PROVE  ~(TicketBot!Cardinality(TicketBot!Up) > totalBots)
    BY DEF TicketBot!OverfullExplained, Calm
  <2>1. TicketBot!Up \subseteq TicketBot!Uncounted \union OnCount
        /\ TicketBot!Uncounted \intersect OnCount = {}
    BY DEF TicketBot!Up, TicketBot!Uncounted, OnCount
  <2>2. /\ IsFiniteSet(TicketBot!Uncounted \union OnCount)
        /\ Cardinality(TicketBot!Uncounted \union OnCount)
                = NumUncounted + Cardinality(OnCount) - Cardinality({})
    BY <2>1, ClientSets, FS_Union DEF NumUncounted
  <2>3. /\ IsFiniteSet(TicketBot!Up)
        /\ Cardinality(TicketBot!Up) <= Cardinality(TicketBot!Uncounted \union OnCount)
    BY <2>1, <2>2, FS_Subset
  <2>4. NotTooMany
    BY DEF TicketBotInv
  <2>5. /\ Cardinality(TicketBot!Up) \in Nat
        /\ Cardinality(TicketBot!Uncounted \union OnCount) \in Nat /\ totalBots \in Nat
    BY <2>2, <2>3, FS_CardinalityType, BotsAssumption
  <2>6. \A u, n, a, b, t \in Nat : a <= b /\ b = u + n - 0 /\ u + n <= t => ~(a > t)
    OBVIOUS
  <2>7. ~(Cardinality(TicketBot!Up) > totalBots)
    BY <2>2, <2>3, <2>4, <2>5, <2>6, ClientSets, FS_EmptySet DEF NotTooMany
  <2> QED
    BY <2>7, TicketBotCardinality
<1>2. (unit = "ticket bots" => TicketBotInv) => OverfullExplained
  BY <1>1 DEF OverfullExplained, In
<1> QED
  BY <1>2, TicketBotUnit, PTL

-----------------------------------------------------------------------------
(* bot/room and bot/sync_obj: ListedBots.                                  *)

ListBounded == \A b \in Bots : count[b] <= heard
ListKept == (\E b \in Bots : lAt[b] = "listed") => lBots # {}
\* What is counted and not printed yet, at most.
Unprinted == Cardinality(List!Counted(IF lMain \in {"average", "reset"} THEN Bots \ lBots
                                      ELSE Bots))
ListPrinted == \/ dropped
               \/ /\ printed <= heard
                  /\ lMain # "crashed" => printed + Unprinted <= heard
ListInv == List!TypeOK /\ ListBounded /\ ListKept /\ List!CrashExplained /\ ListPrinted

\* An instance has a Cardinality of its own.
LEMMA ListCardinality == \A S : List!Cardinality(S) = Cardinality(S)
BY DEF List!Cardinality, Cardinality

\* The counts of fewer bots are fewer, and those of two sets of bots add up.
LEMMA CountedFinite ==
    ASSUME NEW S \in SUBSET Bots
    PROVE  IsFiniteSet(List!Counted(S)) /\ Cardinality(List!Counted(S)) \in Nat
<1>1. IsFiniteSet(1 .. MaxCount)
  BY BotsAssumption, FS_Interval
<1>2. IsFiniteSet(Bots \X (1 .. MaxCount))
  BY <1>1, BotsAssumption, FS_Product
<1>3. IsFiniteSet(List!Counted(S))
  BY <1>2, FS_Subset DEF List!Counted
<1> QED
  BY <1>3, FS_CardinalityType

\* Fewer bots have counted no more.
LEMMA CountedFewer ==
    ASSUME NEW S \in SUBSET Bots, NEW T \in SUBSET S
    PROVE  Cardinality(List!Counted(T)) <= Cardinality(List!Counted(S))
<1>1. List!Counted(T) \subseteq List!Counted(S)
  BY DEF List!Counted
<1> QED
  BY <1>1, CountedFinite, FS_Subset

\* What all bots have counted is what some have, and what the others have.
LEMMA CountedTogether ==
    ASSUME NEW S \in SUBSET Bots
    PROVE  Cardinality(List!Counted(Bots)) =
                Cardinality(List!Counted(S)) + Cardinality(List!Counted(Bots \ S))
<1> DEFINE A == List!Counted(S)  B == List!Counted(Bots \ S)
<1>1. List!Counted(Bots) = A \union B /\ A \intersect B = {}
  BY DEF List!Counted
<1>2. IsFiniteSet(A) /\ IsFiniteSet(B) /\ Cardinality(A) \in Nat /\ Cardinality(B) \in Nat
  BY CountedFinite
<1> HIDE DEF A, B
<1>3. Cardinality(A \union B) = Cardinality(A) + Cardinality(B) - Cardinality({})
  BY <1>1, <1>2, FS_Union
<1>4. Cardinality(A \union B) = Cardinality(A) + Cardinality(B)
  BY <1>2, <1>3, FS_EmptySet
<1> QED
  BY <1>1, <1>4 DEF A, B
\* What another count of the bots would be.
Pairs(f, S) == {m \in S \X (1 .. MaxCount) : m[2] <= f[m[1]]}

\* One more message heard is at most one more counted.
LEMMA CountedOneMore ==
    ASSUME NEW f \in [Bots -> 0 .. MaxCount], NEW b \in Bots, NEW S \in SUBSET Bots,
           IsFiniteSet(Pairs(f, S))
    PROVE  /\ Cardinality(Pairs([f EXCEPT ![b] = @ + 1], S)) \in Nat
           /\ Cardinality(Pairs([f EXCEPT ![b] = @ + 1], S)) <= Cardinality(Pairs(f, S)) + 1
<1> DEFINE m == <<b, f[b] + 1>>
           g == [f EXCEPT ![b] = @ + 1]
<1>1. Pairs(g, S) \subseteq Pairs(f, S) \union {m}
  BY BotsAssumption DEF Pairs
<1> HIDE DEF m, g
<1>2. /\ IsFiniteSet(Pairs(f, S) \union {m})
      /\ Cardinality(Pairs(f, S) \union {m}) <= Cardinality(Pairs(f, S)) + 1
  <2>1. Cardinality(Pairs(f, S)) \in Nat
    BY FS_CardinalityType
  <2>2. /\ IsFiniteSet(Pairs(f, S) \union {m})
        /\ Cardinality(Pairs(f, S) \union {m}) =
                IF m \in Pairs(f, S) THEN Cardinality(Pairs(f, S))
                ELSE Cardinality(Pairs(f, S)) + 1
    BY FS_AddElement
  <2> QED
    BY <2>1, <2>2
<1>3. /\ IsFiniteSet(Pairs(g, S))
      /\ Cardinality(Pairs(g, S)) <= Cardinality(Pairs(f, S) \union {m})
  BY <1>1, <1>2, FS_Subset
<1>4. Cardinality(Pairs(g, S)) \in Nat /\ Cardinality(Pairs(f, S)) \in Nat
      /\ Cardinality(Pairs(f, S) \union {m}) \in Nat
  BY <1>2, <1>3, FS_CardinalityType
<1>5. Cardinality(Pairs(g, S)) <= Cardinality(Pairs(f, S)) + 1
  BY <1>2, <1>3, <1>4
<1> QED
  BY <1>4, <1>5 DEF g

\* Nothing is counted, and nothing printed.
LEMMA ListInit == List!Init => ListInv
<1> SUFFICES ASSUME List!Init PROVE ListInv
  OBVIOUS
<1>1. /\ lProgram \in Lists /\ lAt = [b \in Bots |-> "endpoint"] /\ lBots = {}
      /\ copy = [b \in Bots |-> {}] /\ lJoined = {} /\ count = [b \in Bots |-> 0]
      /\ heard = 0 /\ lMain = "sleep" /\ printed = 0
  BY DEF List!Init
<1>2. dropped \in BOOLEAN
  BY DEF List!Init
<1>3. 0 \in 0 .. MaxCount
  BY BotsAssumption
<1>4. List!TypeOK
  BY <1>1, <1>2, <1>3 DEF List!TypeOK, List!Connects
<1>5. List!Counted(Bots) = {}
  BY <1>1 DEF List!Counted
<1>6. printed + Unprinted <= heard
  BY <1>1, <1>5, FS_EmptySet DEF Unprinted
<1>7. ListBounded /\ ListKept /\ List!CrashExplained
  BY <1>1 DEF ListBounded, ListKept, List!CrashExplained
<1> QED
  BY <1>1, <1>4, <1>6, <1>7 DEF ListInv, ListPrinted

\* The types are kept.
LEMMA ListTypes ==
    ASSUME List!TypeOK, ListBounded, List!Next
    PROVE  List!TypeOK'
<1>y. /\ lProgram \in Lists
      /\ lAt \in [Bots -> List!Connects \union {"endpoint", "refused", "refusing", "nil"}]
      /\ lBots \subseteq Bots /\ copy \in [Bots -> SUBSET Bots] /\ lJoined \subseteq Bots
      /\ count \in [Bots -> 0 .. MaxCount] /\ heard \in 0 .. MaxCount
      /\ lMain \in {"sleep", "metrics", "average", "reset", "crashed"}
      /\ printed \in Nat /\ MaxCount \in Nat
  BY BotsAssumption DEF List!TypeOK
<1>c. {"connect", "append", "appending", "listed"} \subseteq List!Connects
  BY DEF List!Connects
<1>d. dropped' \in BOOLEAN
  BY DEF List!TypeOK, List!Next, List!Endpoint, List!NewRoom, List!AppendRead,
     List!AppendWrite, List!SearchAndJoin, List!Hear, List!Crash, List!PrintStatus,
     List!PrintTotal, List!PrintAverage, List!ResetCnt, List!spawnVars
<1>t. Cardinality(List!Counted(lBots)) \in Nat
  BY <1>y, CountedFinite
<1>1. ASSUME NEW b \in Bots, List!Endpoint(b) \/ List!NewRoom(b)
      PROVE  List!TypeOK'
  <2>1. UNCHANGED <<lProgram, lBots, copy, lJoined, count, heard, lMain, printed>>
    BY <1>1 DEF List!Endpoint, List!NewRoom
  <2>2. lAt' \in [Bots -> List!Connects \union {"endpoint", "refused", "refusing", "nil"}]
    BY <1>1, <1>y, <1>c DEF List!Endpoint, List!NewRoom, List!GoTo
  <2> QED
    BY <1>d, <1>y, <2>1, <2>2 DEF List!TypeOK
<1>2. ASSUME NEW b \in Bots, List!AppendRead(b) \/ List!AppendWrite(b)
      PROVE  List!TypeOK'
  <2>1. UNCHANGED <<lProgram, lJoined, count, heard, lMain, printed>>
    BY <1>2 DEF List!AppendRead, List!AppendWrite
  <2>2. lAt' \in [Bots -> List!Connects \union {"endpoint", "refused", "refusing", "nil"}]
    BY <1>2, <1>y, <1>c DEF List!AppendRead, List!AppendWrite, List!GoTo
  <2>3. lBots' \subseteq Bots /\ copy' \in [Bots -> SUBSET Bots]
    BY <1>2, <1>y DEF List!AppendRead, List!AppendWrite
  <2> QED
    BY <1>d, <1>y, <2>1, <2>2, <2>3 DEF List!TypeOK
<1>3. ASSUME NEW b \in Bots, List!SearchAndJoin(b) \/ List!Hear(b)
      PROVE  List!TypeOK'
  <2>1. UNCHANGED <<lProgram, lAt, lBots, copy, lMain, printed>>
    BY <1>3 DEF List!SearchAndJoin, List!Hear, List!spawnVars
  <2>2. lJoined' \subseteq Bots
    BY <1>3, <1>y DEF List!SearchAndJoin, List!Hear
  <2>3. count' \in [Bots -> 0 .. MaxCount] /\ heard' \in 0 .. MaxCount
    BY <1>3, <1>y DEF List!SearchAndJoin, List!Hear, ListBounded
  <2> QED
    BY <1>d, <1>y, <2>1, <2>2, <2>3 DEF List!TypeOK
<1>4. ASSUME List!Crash \/ List!PrintStatus \/ List!PrintTotal \/ List!PrintAverage
             \/ List!ResetCnt
      PROVE  List!TypeOK'
  <2>1. UNCHANGED <<lProgram, lAt, lBots, copy, lJoined, heard>>
    BY <1>4 DEF List!Crash, List!PrintStatus, List!PrintTotal, List!PrintAverage,
       List!ResetCnt, List!spawnVars
  <2>2. lMain' \in {"sleep", "metrics", "average", "reset", "crashed"}
    BY <1>4 DEF List!Crash, List!PrintStatus, List!PrintTotal, List!PrintAverage,
       List!ResetCnt, List!Pass
  <2>3. count' \in [Bots -> 0 .. MaxCount]
    BY <1>4, <1>y DEF List!Crash, List!PrintStatus, List!PrintTotal, List!PrintAverage,
       List!ResetCnt
  <2>4. printed' \in Nat
    BY <1>4, <1>y, <1>t, ListCardinality DEF List!Crash, List!PrintStatus,
       List!PrintTotal, List!PrintAverage, List!ResetCnt, List!Total
  <2> QED
    BY <1>d, <1>y, <2>1, <2>2, <2>3, <2>4 DEF List!TypeOK
<1> QED
  BY <1>1, <1>2, <1>3, <1>4 DEF List!Next

\* Each step of the bots and of the report keeps what is printed within what was heard.
LEMMA ListStep == ListInv /\ [List!Next]_listVars => ListInv'
<1> SUFFICES ASSUME ListInv, [List!Next]_listVars PROVE ListInv'
  OBVIOUS
<1>0. List!TypeOK /\ ListBounded /\ ListKept /\ List!CrashExplained /\ ListPrinted
  BY DEF ListInv
<1>y. /\ lAt \in [Bots -> List!Connects \union {"endpoint", "refused", "refusing", "nil"}]
      /\ lBots \subseteq Bots /\ copy \in [Bots -> SUBSET Bots]
      /\ count \in [Bots -> 0 .. MaxCount] /\ heard \in 0 .. MaxCount
      /\ printed \in Nat /\ MaxCount \in Nat
  BY <1>0, BotsAssumption DEF List!TypeOK
<1>s. CASE UNCHANGED listVars
  <2>1. List!Counted(Bots)' = List!Counted(Bots)
        /\ List!Counted(Bots \ lBots)' = List!Counted(Bots \ lBots)
    BY <1>s DEF listVars, List!Counted
  <2> QED
    BY <1>0, <1>s, <2>1 DEF listVars, ListInv, List!TypeOK, ListBounded, ListKept,
       List!CrashExplained, ListPrinted, Unprinted, List!Nil
<1>t. ASSUME List!Next PROVE List!TypeOK'
  BY <1>0, <1>t, ListTypes
<1>n. printed \in Nat /\ heard \in Nat
  BY <1>y
<1>u. Unprinted \in Nat
  BY <1>y, CountedFinite DEF Unprinted
<1>1. ASSUME NEW b \in Bots, List!Endpoint(b) \/ List!NewRoom(b) \/ List!AppendRead(b),
             lMain # "crashed"
      PROVE  ListBounded' /\ ListKept' /\ List!CrashExplained' /\ ListPrinted'
  <2>1. UNCHANGED <<lBots, count, heard, lMain, printed, dropped>>
    BY <1>1 DEF List!Endpoint, List!NewRoom, List!AppendRead
  <2>2. \A a \in Bots : lAt'[a] = "listed" => lAt[a] = "listed"
    BY <1>y, <1>1 DEF List!Endpoint, List!NewRoom, List!AppendRead, List!GoTo
  <2>3. Unprinted' = Unprinted
    BY <2>1 DEF Unprinted, List!Counted
  <2> QED
    BY <1>0, <1>1, <2>1, <2>2, <2>3 DEF ListBounded, ListKept, List!CrashExplained,
       ListPrinted
<1>2. ASSUME NEW b \in Bots, List!AppendWrite(b), lMain # "crashed"
      PROVE  ListBounded' /\ ListKept' /\ List!CrashExplained' /\ ListPrinted'
  <2>1. /\ UNCHANGED <<count, heard, lMain, printed>> /\ b \in lBots'
        /\ lBots' = copy[b] \union {b}
    BY <1>2 DEF List!AppendWrite
  <2>2. dropped \/ dropped' \/ lBots \subseteq lBots'
    BY <1>2 DEF List!AppendWrite
  <2>3. dropped => dropped'
    BY <1>2 DEF List!AppendWrite
  <2>4. ASSUME lBots \subseteq lBots' PROVE Unprinted' <= Unprinted
    <3>1. lBots' \subseteq Bots
      BY <1>y, <2>1
    <3>2. Cardinality(List!Counted(Bots \ lBots')) <= Cardinality(List!Counted(Bots \ lBots))
      BY <2>4, CountedFewer
    <3>3. List!Counted(Bots)' = List!Counted(Bots)
          /\ List!Counted(Bots \ lBots)' = List!Counted(Bots \ lBots')
      BY <2>1 DEF List!Counted
    <3> QED
      BY <1>u, <2>1, <3>2, <3>3 DEF Unprinted
  <2>5. Unprinted' \in Nat
    <3>1. Unprinted' = Cardinality(List!Counted(IF lMain \in {"average", "reset"}
                                                THEN Bots \ lBots' ELSE Bots))
      BY <2>1 DEF Unprinted, List!Counted
    <3> QED
      BY <3>1, CountedFinite
  <2>6. ListPrinted'
    <3>1. CASE dropped \/ dropped'
      BY <2>3, <3>1 DEF ListPrinted
    <3>2. CASE ~dropped /\ ~dropped'
      <4>1. lBots \subseteq lBots' /\ printed <= heard /\ printed + Unprinted <= heard
        BY <1>0, <1>2, <2>2, <3>2 DEF ListPrinted
      <4>2. printed' <= heard' /\ printed' + Unprinted' <= heard'
        <5>1. printed' = printed /\ heard' = heard /\ Unprinted' <= Unprinted
          BY <2>1, <2>4, <4>1
        <5>2. \A p, u, v, h \in Nat : p + u <= h /\ v <= u => p + v <= h
          OBVIOUS
        <5> QED
          BY <1>n, <1>u, <2>5, <4>1, <5>1, <5>2
      <4> QED
        BY <4>2 DEF ListPrinted
    <3> QED
      BY <3>1, <3>2
  <2> QED
    BY <1>0, <1>2, <2>1, <2>6 DEF ListBounded, ListKept, List!CrashExplained
<1>3. ASSUME NEW b \in Bots, List!SearchAndJoin(b), lMain # "crashed"
      PROVE  ListBounded' /\ ListKept' /\ List!CrashExplained' /\ ListPrinted'
  <2>1. UNCHANGED <<lAt, lBots, count, heard, lMain, printed, dropped>>
    BY <1>3 DEF List!SearchAndJoin, List!spawnVars
  <2>2. Unprinted' = Unprinted
    BY <2>1 DEF Unprinted, List!Counted
  <2> QED
    BY <1>0, <1>3, <2>1, <2>2 DEF ListBounded, ListKept, List!CrashExplained, ListPrinted
<1>4. ASSUME NEW b \in Bots, List!Hear(b), lMain # "crashed"
      PROVE  ListBounded' /\ ListKept' /\ List!CrashExplained' /\ ListPrinted'
  <2>1. /\ UNCHANGED <<lAt, lBots, lMain, printed, dropped>> /\ heard < MaxCount
        /\ heard' = heard + 1 /\ count' = [count EXCEPT ![b] = @ + 1]
    BY <1>4 DEF List!Hear, List!spawnVars
  <2>2. count[b] <= heard /\ count[b] \in Nat
    BY <1>0, <1>y DEF ListBounded
  <2>3. count[b] + 1 <= MaxCount /\ count \in [Bots -> 0 .. MaxCount]
    BY <1>y, <2>1, <2>2
  <2>4. Unprinted' <= Unprinted + 1 /\ Unprinted' \in Nat
    <3> DEFINE S == IF lMain \in {"average", "reset"} THEN Bots \ lBots ELSE Bots
    <3>1. /\ Unprinted = Cardinality(Pairs(count, S)) /\ IsFiniteSet(Pairs(count, S))
          /\ Unprinted' = Cardinality(Pairs(count', S))
      <4>1. Pairs(count, S) = List!Counted(S) /\ S \subseteq Bots
        BY DEF Pairs, List!Counted
      <4> QED
        BY <2>1, <4>1, CountedFinite DEF Unprinted, Pairs, List!Counted
    <3> HIDE DEF S
    <3> QED
      <4>1. S \subseteq Bots
        BY DEF S
      <4>2. /\ Cardinality(Pairs([count EXCEPT ![b] = @ + 1], S)) \in Nat
            /\ Cardinality(Pairs([count EXCEPT ![b] = @ + 1], S))
                    <= Cardinality(Pairs(count, S)) + 1
        BY <2>3, <3>1, <4>1, CountedOneMore
      <4> QED
        BY <2>1, <3>1, <4>2
  <2>6. ListBounded'
    BY <1>0, <1>y, <2>1, <2>2 DEF ListBounded
  <2>7. printed <= heard => printed <= heard'
    BY <1>y, <2>1
  <2>8. printed + Unprinted <= heard => printed' + Unprinted' <= heard'
    <3>1. printed' = printed /\ heard' = heard + 1
      BY <2>1
    <3>2. \A p, u, v, h \in Nat : p + u <= h /\ v <= u + 1 => p + v <= h + 1
      OBVIOUS
    <3> QED
      BY <1>n, <1>u, <2>4, <3>1, <3>2
  <2> QED
    BY <1>0, <1>4, <2>1, <2>6, <2>7, <2>8 DEF ListKept, List!CrashExplained, ListPrinted
<1>5. ASSUME List!Crash
      PROVE  ListBounded' /\ ListKept' /\ List!CrashExplained' /\ ListPrinted'
  <2>1. /\ UNCHANGED <<lAt, lBots, lProgram, count, heard, printed, dropped>>
        /\ lMain' = "crashed" /\ List!Crashes
    BY <1>5 DEF List!Crash, List!spawnVars
  <2>2. \/ \E b \in Bots : List!Nil(b)
        \/ lProgram = "room" /\ lBots = {}
    BY <1>y, <2>1 DEF List!Crashes, List!NilListed
  <2>3. List!CrashExplained'
    BY <1>0, <2>1, <2>2 DEF List!CrashExplained, List!Nil, ListKept
  <2> QED
    BY <1>0, <2>1, <2>3 DEF ListBounded, ListKept, ListPrinted
<1>6. ASSUME List!PrintStatus \/ List!PrintAverage
      PROVE  ListBounded' /\ ListKept' /\ List!CrashExplained' /\ ListPrinted'
  <2>1. /\ UNCHANGED <<lAt, lBots, count, heard, printed, dropped>> /\ lMain # "crashed"
        /\ lMain' # "crashed"
        /\ lMain \in {"average", "reset"} <=> lMain' \in {"average", "reset"}
    BY <1>6 DEF List!PrintStatus, List!PrintAverage, List!Pass, List!spawnVars
  <2>2. Unprinted' = Unprinted
    BY <2>1 DEF Unprinted, List!Counted
  <2> QED
    BY <1>0, <2>1, <2>2 DEF ListBounded, ListKept, List!CrashExplained, ListPrinted
<1>7. ASSUME List!PrintTotal
      PROVE  ListBounded' /\ ListKept' /\ List!CrashExplained' /\ ListPrinted'
  <2>1. /\ UNCHANGED <<lAt, lBots, count, heard, dropped>> /\ lMain = "metrics"
        /\ lMain' = "average" /\ printed' = printed + Cardinality(List!Counted(lBots))
    BY <1>7, ListCardinality DEF List!PrintTotal, List!Pass, List!spawnVars, List!Total
  <2>2. /\ Unprinted = Cardinality(List!Counted(Bots))
        /\ Unprinted' = Cardinality(List!Counted(Bots \ lBots))
    BY <2>1 DEF Unprinted, List!Counted
  <2>3. Unprinted = Cardinality(List!Counted(lBots)) + Unprinted'
    BY <1>y, <2>2, CountedTogether
  <2>4. Cardinality(List!Counted(lBots)) \in Nat /\ Unprinted' \in Nat
    BY <1>y, <2>2, CountedFinite
  <2>5. printed + Unprinted <= heard
            => printed' <= heard' /\ printed' + Unprinted' <= heard'
    BY <1>y, <2>1, <2>3, <2>4
  <2> QED
    BY <1>0, <2>1, <2>5 DEF ListBounded, ListKept, List!CrashExplained, ListPrinted
<1>8. ASSUME List!ResetCnt
      PROVE  ListBounded' /\ ListKept' /\ List!CrashExplained' /\ ListPrinted'
  <2>1. /\ UNCHANGED <<lAt, lBots, printed, heard, dropped>> /\ lMain = "reset"
        /\ lMain' = "sleep" /\ count' = [b \in Bots |-> IF b \in lBots THEN 0 ELSE count[b]]
    BY <1>8 DEF List!ResetCnt, List!Pass, List!spawnVars
  <2>2. List!Counted(Bots)' = List!Counted(Bots \ lBots)
    BY <1>y, <2>1 DEF List!Counted
  <2>3. Unprinted' = Unprinted
    BY <2>1, <2>2 DEF Unprinted
  <2>4. ListBounded'
    BY <1>0, <1>y, <2>1 DEF ListBounded
  <2> QED
    BY <1>0, <2>1, <2>3, <2>4 DEF ListKept, List!CrashExplained, ListPrinted
<1> QED
  BY <1>s, <1>t, <1>1, <1>2, <1>3, <1>4, <1>5, <1>6, <1>7, <1>8 DEF List!Next, ListInv

\* bot/room and bot/sync_obj, where one of them runs.
LEMMA ListUnit == BotsSpec => [](unit = "list" => ListInv)
<1>1. BotsInit => (unit = "list" => ListInv)
  BY ListInit DEF BotsInit, Begins
<1>2. (unit = "list" => ListInv) /\ [BotsNext]_botsVars => (unit = "list" => ListInv)'
  BY ListStep DEF BotsNext, botsVars, listVars
<1> QED
  BY <1>1, <1>2, PTL DEF BotsSpec

\* The report kills its program only after a refused endpoint, or on the first, empty list of
\* bot/room: appends that overwrite each other never empty a list that had a bot.
THEOREM CrashesExplained == BotsSpec => []CrashExplained
<1>1. (unit = "list" => ListInv) => CrashExplained
  BY DEF ListInv, CrashExplained, In
<1> QED
  BY <1>1, ListUnit, PTL

\* Unless an append dropped a bot, the totals printed so far are of messages that were heard,
\* whatever was heard or listed between the total and the reset.
THEOREM NoneIsPrintedTwice == BotsSpec => []PrintedOnce
<1>1. (unit = "list" => ListInv) => PrintedOnce
  BY DEF ListInv, ListPrinted, List!PrintedOnce, PrintedOnce, In
<1> QED
  BY <1>1, ListUnit, PTL

-----------------------------------------------------------------------------
(* bot/dm: DmBots.                                                         *)

USE DEF Dm!NotStarted, Dm!Drawing

\* How many bots have been tried.  The list has them all only if none was
\* refused, and then each is in its place.
Tried == IF main \in {"endpoint", "connecting"} THEN next - 1 ELSE Howmany
InPlace == /\ Len(bots) <= Tried
           /\ Len(bots) = Tried => \A i \in 1 .. Len(bots) : bots[i] = i
Connecting == main \in {"endpoint", "connecting"} => next <= Howmany
Starting ==
    main = "starting" =>
        /\ next <= Howmany
        /\ \A j \in 1 .. next - 1 : j <= Len(bots) /\ spam[bots[j]] # Dm!NotStarted
Reporting ==
    main = "report" =>
        Len(bots) = Howmany /\ \A u \in Dm!Uids : spam[u] # Dm!NotStarted
Targets ==
    \A u \in Dm!Uids : spam[u] \in Dm!Uids =>
        spam[u] # u /\ \E i \in 1 .. Len(bots) : bots[i] = spam[u]
Known == flight <= sends
DmInv == Dm!TypeOK /\ Known /\ InPlace /\ Connecting /\ Starting /\ Reporting /\ Targets

\* The list is empty, and the first bot is being spawned.
LEMMA DmInit == Dm!Init => DmInv
<1> SUFFICES ASSUME Dm!Init PROVE DmInv
  OBVIOUS
<1>0. Howmany \in Nat /\ Howmany >= 1 /\ MaxMessages \in Nat
  BY BotsAssumption
<1>1. /\ main = "endpoint" /\ next = 1 /\ bots = <<>> /\ flight = 0 /\ sends = 0
      /\ spam = [u \in Dm!Uids |-> -1]
      /\ counting = Dm!Zero /\ reports = Dm!Zero
  BY DEF Dm!Init
<1>2. Dm!TypeOK
  BY <1>0, <1>1 DEF Dm!TypeOK, Dm!Zero, Dm!Counts
<1>3. InPlace /\ Connecting /\ Starting /\ Reporting /\ Targets /\ Known
  BY <1>0, <1>1 DEF Known, InPlace, Tried, Connecting, Starting, Reporting, Targets, Dm!Uids
<1> QED
  BY <1>2, <1>3 DEF DmInv

\* Each step keeps the list in order as long as it is complete.
LEMMA DmStep == DmInv /\ [Dm!Next]_dmVars => DmInv'
<1> SUFFICES ASSUME DmInv, [Dm!Next]_dmVars PROVE DmInv'
  OBVIOUS
<1>0. Dm!TypeOK /\ Known /\ InPlace /\ Connecting /\ Starting /\ Reporting /\ Targets
  BY DEF DmInv
<1>y. /\ next \in 1 .. Howmany + 1 /\ bots \in Seq(Dm!Uids) /\ Len(bots) <= Howmany
      /\ spam \in [Dm!Uids -> {-1, 0} \union Dm!Uids] /\ Len(bots) \in Nat
      /\ flight \in 0 .. MaxMessages /\ sends \in 0 .. MaxMessages
      /\ counting \in Dm!Counts /\ reports \in Dm!Counts
      /\ Howmany \in Nat /\ Howmany >= 1 /\ MaxMessages \in Nat
  BY <1>0, BotsAssumption DEF Dm!TypeOK
<1>s. CASE UNCHANGED dmVars
  BY <1>0, <1>s DEF dmVars, DmInv, Dm!TypeOK, Known, InPlace, Tried, Connecting, Starting,
     Reporting, Targets
<1>1. ASSUME Dm!EndpointRefused PROVE DmInv'
  <2>1. /\ main = "endpoint" /\ UNCHANGED <<bots, spam, flight, sends, counting, reports>>
        /\ main' = (IF next = Howmany THEN "starting" ELSE "endpoint")
        /\ next' = (IF next = Howmany THEN 1 ELSE next + 1)
    BY <1>1 DEF Dm!EndpointRefused, Dm!Advance, Dm!Following, Dm!countVars
  <2>2. next <= Howmany /\ Len(bots) <= next - 1
    BY <1>0, <2>1 DEF Connecting, InPlace, Tried
  <2>3. Tried' = next
    BY <1>y, <2>1, <2>2 DEF Tried
  <2>4. InPlace' /\ Connecting' /\ Starting' /\ Reporting' /\ Targets' /\ Known'
    BY <1>0, <1>y, <2>1, <2>2, <2>3 DEF Known, InPlace, Connecting, Starting, Reporting, Targets
  <2>5. Dm!TypeOK'
    BY <1>0, <1>y, <2>1, <2>2 DEF Dm!TypeOK
  <2> QED
    BY <2>4, <2>5 DEF DmInv
<1>2. ASSUME Dm!Connect PROVE DmInv'
  <2>1. /\ main = "endpoint" /\ main' = "connecting"
        /\ UNCHANGED <<next, bots, spam, flight, sends, counting, reports>>
    BY <1>2 DEF Dm!Connect, Dm!countVars
  <2> QED
    BY <1>0, <1>y, <2>1 DEF DmInv, Dm!TypeOK, Known, InPlace, Tried, Connecting, Starting,
       Reporting, Targets
<1>3. ASSUME Dm!OnConnect PROVE DmInv'
  <2>1. /\ main = "connecting" /\ UNCHANGED <<spam, flight, sends, counting, reports>>
        /\ bots' = Append(bots, next)
        /\ main' = (IF next = Howmany THEN "starting" ELSE "endpoint")
        /\ next' = (IF next = Howmany THEN 1 ELSE next + 1)
    BY <1>3 DEF Dm!OnConnect, Dm!Advance, Dm!Following, Dm!countVars
  <2>2. /\ next <= Howmany /\ next \in Dm!Uids
        /\ Len(bots) <= next - 1
        /\ Len(bots) = next - 1 => \A i \in 1 .. Len(bots) : bots[i] = i
    BY <1>0, <1>y, <2>1 DEF Connecting, InPlace, Tried, Dm!Uids
  <2>3. /\ bots' \in Seq(Dm!Uids) /\ Len(bots') = Len(bots) + 1
        /\ \A i \in 1 .. Len(bots) : bots'[i] = bots[i]
        /\ bots'[Len(bots) + 1] = next
    <3>1. bots \in Seq(Dm!Uids) /\ next \in Dm!Uids /\ bots' = Append(bots, next)
      BY <1>y, <2>1, <2>2
    <3> QED
      BY <3>1, AppendProperties
  <2>4. Tried' = next
    BY <1>y, <2>1, <2>2 DEF Tried
  <2>5. InPlace'
    <3>1. SUFFICES ASSUME Len(bots') = next, NEW i \in 1 .. Len(bots')
                   PROVE  bots'[i] = i
      BY <1>y, <2>2, <2>3, <2>4 DEF InPlace
    <3>2. CASE i = next
      BY <1>y, <2>3, <3>1, <3>2
    <3>3. CASE i # next
      BY <1>y, <2>2, <2>3, <3>1, <3>3
    <3> QED
      BY <3>2, <3>3
  <2>6. Targets' /\ Known'
    BY <1>0, <1>y, <2>1, <2>3 DEF Targets, Known
  <2>7. Connecting' /\ Starting' /\ Reporting'
    <3>1. CASE next = Howmany
      BY <1>y, <2>1, <3>1 DEF Connecting, Starting, Reporting
    <3>2. CASE next # Howmany
      BY <1>0, <1>y, <2>1, <2>2, <3>2 DEF Connecting, Starting, Reporting
    <3> QED
      BY <3>1, <3>2
  <2>8. Dm!TypeOK'
    <3>1. /\ main' \in {"starting", "endpoint"} /\ Len(bots') <= Howmany
      BY <1>y, <2>1, <2>2, <2>3
    <3>2. next' \in 1 .. Howmany + 1
      BY <1>y, <2>1, <2>2
    <3> QED
      BY <1>0, <1>y, <2>1, <2>3, <3>1, <3>2 DEF Dm!TypeOK
  <2> QED
    BY <2>5, <2>6, <2>7, <2>8 DEF DmInv
<1>4. ASSUME Dm!StartOne PROVE DmInv'
  <2>0. main = "starting" /\ UNCHANGED <<bots, flight, sends, counting, reports>>
    BY <1>4 DEF Dm!StartOne, Dm!countVars
  <2>d. DOMAIN bots = 1 .. Len(bots)
    BY <1>y
  <2>1. CASE next \notin DOMAIN bots
    <3>1. main' = "crashed" /\ UNCHANGED <<next, spam>>
      BY <1>4, <2>1 DEF Dm!StartOne
    <3> QED
      BY <1>0, <1>y, <2>0, <3>1 DEF DmInv, Dm!TypeOK, Known, InPlace, Tried, Connecting,
         Starting, Reporting, Targets
  <2>2. CASE next \in DOMAIN bots
    <3>1. /\ spam' = [spam EXCEPT ![bots[next]] = 0]
          /\ main' = (IF next = Howmany THEN "report" ELSE "starting")
          /\ next' = next + 1
      BY <1>4, <2>2 DEF Dm!StartOne
    <3>2. next <= Howmany /\ next <= Len(bots) /\ bots[next] \in Dm!Uids
      BY <1>0, <1>y, <2>0, <2>2, <2>d DEF Starting
    <3>3. /\ \A u \in Dm!Uids : spam[u] # -1 => spam'[u] # -1
          /\ spam'[bots[next]] # -1
          /\ \A u \in Dm!Uids : spam'[u] \in Dm!Uids => spam'[u] = spam[u]
      BY <1>y, <3>1, <3>2 DEF Dm!Uids
    <3>4. \A j \in 1 .. next : j <= Len(bots) /\ spam'[bots[j]] # -1
      <4>1. \A j \in 1 .. next - 1 : j <= Len(bots) /\ spam[bots[j]] # -1
        BY <1>0, <2>0 DEF Starting
      <4>2. \A j \in 1 .. Len(bots) : bots[j] \in Dm!Uids
        BY <1>y
      <4>3. \A j \in 1 .. next : j = next \/ j \in 1 .. next - 1
        BY <1>y
      <4> QED
        BY <1>y, <3>2, <3>3, <4>1, <4>2, <4>3
    <3>5. InPlace' /\ Targets' /\ Connecting' /\ Known'
      BY <1>0, <1>y, <2>0, <3>1, <3>3 DEF Known, InPlace, Tried, Targets, Connecting
    <3>6. Starting'
      BY <1>y, <2>0, <3>1, <3>2, <3>4 DEF Starting
    <3>7. Reporting'
      <4>1. SUFFICES ASSUME next = Howmany
                     PROVE  Len(bots) = Howmany /\ \A u \in Dm!Uids : spam'[u] # -1
        BY <2>0, <3>1 DEF Reporting
      <4>2. Len(bots) = Howmany
        BY <1>y, <3>2, <4>1
      <4>3. \A i \in 1 .. Howmany : bots[i] = i
        BY <1>0, <1>y, <2>0, <4>2 DEF InPlace, Tried
      <4> QED
        BY <3>4, <4>1, <4>2, <4>3 DEF Dm!Uids
    <3>8. Dm!TypeOK'
      BY <1>0, <1>y, <2>0, <3>1, <3>2 DEF Dm!TypeOK
    <3> QED
      BY <3>5, <3>6, <3>7, <3>8 DEF DmInv
  <2> QED
    BY <2>1, <2>2
<1>5. ASSUME NEW u \in Dm!Uids, Dm!Draw(u) PROVE DmInv'
  <2>1. PICK i \in 1 .. Len(bots) :
            /\ spam[u] = 0
            /\ spam' = [spam EXCEPT ![u] = IF bots[i] = u THEN 0 ELSE bots[i]]
            /\ UNCHANGED <<main, next, bots, flight, sends, counting, reports>>
    <3>1. PICK t \in Dm!Range(bots) :
              spam' = [spam EXCEPT ![u] = IF t = u THEN 0 ELSE t]
      BY <1>5 DEF Dm!Draw
    <3>2. PICK i \in 1 .. Len(bots) : t = bots[i]
      BY <1>y DEF Dm!Range
    <3> QED
      BY <1>5, <3>1, <3>2 DEF Dm!Draw, Dm!spawnVars, Dm!countVars
  <2>2. bots[i] \in Dm!Uids /\ bots[i] # -1
    BY <1>y, <2>1 DEF Dm!Uids
  <2>3. \A v \in Dm!Uids : spam[v] # -1 => spam'[v] # -1
    BY <1>y, <2>1, <2>2
  <2>4. Targets'
    <3>1. SUFFICES ASSUME NEW v \in Dm!Uids, spam'[v] \in Dm!Uids
                   PROVE  spam'[v] # v /\ \E k \in 1 .. Len(bots) : bots[k] = spam'[v]
      BY <2>1 DEF Targets
    <3>2. CASE v = u
      <4>1. spam'[u] = bots[i] /\ bots[i] # u
        BY <1>y, <2>1, <3>1, <3>2 DEF Dm!Uids
      <4> QED
        BY <2>1, <3>2, <4>1
    <3>3. CASE v # u
      BY <1>0, <1>y, <2>1, <3>1, <3>3 DEF Targets
    <3> QED
      BY <3>2, <3>3
  <2>5. InPlace' /\ Connecting' /\ Known'
    BY <1>0, <2>1 DEF Known, InPlace, Tried, Connecting
  <2>6. Starting' /\ Reporting'
    <3>1. \A j \in 1 .. Len(bots) : bots[j] \in Dm!Uids
      BY <1>y
    <3> QED
      BY <1>0, <1>y, <2>1, <2>3, <3>1 DEF Starting, Reporting
  <2>7. Dm!TypeOK'
    BY <1>0, <1>y, <2>1, <2>2 DEF Dm!TypeOK
  <2> QED
    BY <2>4, <2>5, <2>6, <2>7 DEF DmInv
\* The messages and their counts leave the bots as they are.
<1>6. ASSUME UNCHANGED <<main, next, bots, spam>>,
             flight' \in 0 .. MaxMessages, sends' \in 0 .. MaxMessages,
             flight' <= sends', counting' \in Dm!Counts, reports' \in Dm!Counts
      PROVE  DmInv'
  BY <1>0, <1>y, <1>6 DEF DmInv, Dm!TypeOK, Known, InPlace, Tried, Connecting, Starting,
     Reporting, Targets
<1>c. \A c \in Dm!Counts : \A w \in {"Sent", "Received"} :
        /\ [c EXCEPT ![w] = @ + 1] \in Dm!Counts
        /\ c[w] > 0 => [c EXCEPT ![w] = @ - 1] \in Dm!Counts
  BY DEF Dm!Counts
<1>7. ASSUME NEW u \in Dm!Uids, Dm!Send(u) PROVE DmInv'
  <2>1. /\ UNCHANGED <<main, next, bots, spam, reports>> /\ sends < MaxMessages
        /\ sends' = sends + 1 /\ flight' = flight + 1
        /\ counting' = [counting EXCEPT !["Sent"] = @ + 1]
    BY <1>7 DEF Dm!Send, Dm!spawnVars, Dm!Plus
  <2>2. /\ flight' \in 0 .. MaxMessages /\ sends' \in 0 .. MaxMessages
        /\ flight' <= sends'
    BY <1>0, <1>y, <2>1 DEF Known
  <2>3. counting' \in Dm!Counts
    BY <1>c, <1>y, <2>1
  <2> QED
    BY <1>y, <1>6, <2>1, <2>2, <2>3
<1>8. ASSUME Dm!OnPeerSend \/ Dm!Lost PROVE DmInv'
  <2>1. /\ UNCHANGED <<main, next, bots, spam, sends, reports>> /\ flight > 0
        /\ flight' = flight - 1
        /\ counting' \in {counting, [counting EXCEPT !["Received"] = @ + 1]}
    BY <1>8 DEF Dm!OnPeerSend, Dm!Lost, Dm!spawnVars, Dm!Plus, Dm!countVars
  <2>2. /\ flight' \in 0 .. MaxMessages /\ sends' \in 0 .. MaxMessages
        /\ flight' <= sends'
    BY <1>0, <1>y, <2>1 DEF Known
  <2>3. counting' \in Dm!Counts
    BY <1>c, <1>y, <2>1
  <2> QED
    BY <1>y, <1>6, <2>1, <2>2, <2>3
<1>9. ASSUME NEW w \in {"Sent", "Received"}, Dm!Count(w) PROVE DmInv'
  <2>1. /\ UNCHANGED <<main, next, bots, spam, flight, sends>> /\ counting[w] > 0
        /\ counting' = [counting EXCEPT ![w] = @ - 1]
        /\ reports' = [reports EXCEPT ![w] = @ + 1]
    BY <1>9 DEF Dm!Count, Dm!spawnVars, Dm!Plus
  <2> QED
    BY <1>0, <1>c, <1>y, <1>6, <2>1 DEF Known
<1>10. ASSUME Dm!GetReport PROVE DmInv'
  <2>1. /\ UNCHANGED <<main, next, bots, spam, flight, sends, counting>>
        /\ reports' \in Dm!Counts
    BY <1>10 DEF Dm!GetReport, Dm!spawnVars, Dm!Zero, Dm!Counts
  <2> QED
    BY <1>0, <1>y, <1>6, <2>1 DEF Known
<1> QED
  BY <1>s, <1>1, <1>2, <1>3, <1>4, <1>5, <1>7, <1>8, <1>9, <1>10 DEF Dm!Next

\* bot/dm, where it is the program that runs.
LEMMA DmUnit == BotsSpec => [](unit = "dm" => DmInv)
<1>1. BotsInit => (unit = "dm" => DmInv)
  BY DmInit DEF BotsInit, Begins
<1>2. (unit = "dm" => DmInv) /\ [BotsNext]_botsVars => (unit = "dm" => DmInv)'
  BY DmStep DEF BotsNext, botsVars, dmVars
<1> QED
  BY <1>1, <1>2, PTL DEF BotsSpec

\* When main of bot/dm reports, every bot that was asked for sends, and each bot with a target
\* sends to another one on the list.
THEOREM LoadIsWhole == BotsSpec => []WholeLoad
<1>1. DmInv => Dm!WholeLoad
  <2> SUFFICES ASSUME DmInv PROVE Dm!WholeLoad
    OBVIOUS
  <2>0. Dm!TypeOK /\ InPlace /\ Reporting /\ Targets
    BY DEF DmInv
  <2>1. bots \in Seq(Dm!Uids) /\ Howmany \in Nat
    BY <2>0, BotsAssumption DEF Dm!TypeOK
  <2>2. \A i \in 1 .. Len(bots) : bots[i] \in Dm!Range(bots)
    BY <2>1 DEF Dm!Range
  <2>3. ASSUME main = "report", NEW u \in Dm!Uids
        PROVE  u \in Dm!Range(bots) /\ spam[u] # Dm!NotStarted
    <3>1. Len(bots) = Howmany /\ \A i \in 1 .. Howmany : bots[i] = i
      BY <2>0, <2>1, <2>3 DEF Reporting, InPlace, Tried
    <3> QED
      BY <2>0, <2>2, <2>3, <3>1 DEF Reporting, Dm!Uids
  <2>4. ASSUME NEW u \in Dm!Uids, spam[u] \in Dm!Uids
        PROVE  spam[u] # u /\ spam[u] \in Dm!Range(bots)
    BY <2>0, <2>2, <2>4 DEF Targets
  <2> QED
    BY <2>3, <2>4 DEF Dm!WholeLoad
<1>2. (unit = "dm" => DmInv) => WholeLoad
  BY <1>1 DEF WholeLoad, In
<1> QED
  BY <1>2, DmUnit, PTL

-----------------------------------------------------------------------------
(* The walk of a bot of bot/field: FieldWalk.  Along each axis the Syncs are*)

USE DEF nbSyncPerMovement, AtRest, Legs

\* A ninth, rounded towards zero, is short of the ninth part by less than one.
LEMMA Ninth ==
    ASSUME NEW p \in Int, NEW e \in Int
    PROVE  /\ Step(p, e) \in Int
           /\ p <= e => /\ 0 <= Step(p, e)
                        /\ 9 * Step(p, e) <= e - p
                        /\ e - p < 9 * Step(p, e) + 9
           /\ e <= p => /\ Step(p, e) <= 0
                        /\ e - p <= 9 * Step(p, e)
                        /\ 9 * Step(p, e) - 9 < e - p
<1>1. \A d \in Nat : /\ d \div 9 \in Nat
                     /\ 9 * (d \div 9) <= d /\ d < 9 * (d \div 9) + 9
  BY SMT
<1>2. CASE e - p >= 0
  <2>1. e - p \in Nat /\ Step(p, e) = (e - p) \div 9
    BY <1>2 DEF Step, Truncate
  <2> QED BY <1>1, <1>2, <2>1
<1>3. CASE ~(e - p >= 0)
  <2>1. -(e - p) \in Nat /\ Step(p, e) = -((-(e - p)) \div 9)
    BY <1>3 DEF Step, Truncate
  <2> QED BY <1>1, <1>3, <2>1
<1> QED BY <1>2, <1>3

\* So many ninths on the way lie between the start and the end of the walk.
LEMMA Way ==
    ASSUME NEW p \in Int, NEW e \in Int, NEW n \in 0 .. 9
    PROVE  /\ p + n * Step(p, e) \in Int
           /\ Between(p, p + n * Step(p, e), e)
           /\ n = 9 => Distance(p + n * Step(p, e), e) < 9
<1> DEFINE s == Step(p, e)
<1>1. s \in Int /\ (p <= e => 0 <= s /\ 9 * s <= e - p /\ e - p < 9 * s + 9)
                /\ (e <= p => s <= 0 /\ e - p <= 9 * s /\ 9 * s - 9 < e - p)
  BY Ninth
<1> HIDE DEF s
<1>2. /\ n * s \in Int
      /\ 0 <= s => 0 <= n * s /\ n * s <= 9 * s
      /\ s <= 0 => n * s <= 0 /\ 9 * s <= n * s
  <2>1. n = 0 \/ n = 1 \/ n = 2 \/ n = 3 \/ n = 4 \/ n = 5 \/ n = 6 \/ n = 7
            \/ n = 8 \/ n = 9
    OBVIOUS
  <2> QED BY <1>1, <2>1
<1>3. Between(p, p + n * s, e)
  BY <1>1, <1>2 DEF Between
<1>4. n = 9 => Distance(p + n * s, e) < 9
  BY <1>1 DEF Distance
<1> QED BY <1>2, <1>3, <1>4 DEF s
-----------------------------------------------------------------------------
\* One axis of the walk: where it has got to after n Syncs.
Axis(p, c, e, n) ==
    \/ n \in 0 .. 9 /\ c = p + n * Step(p, e)
    \/ n = 10 /\ c = e

WalkInv ==
    /\ TypeOK
    /\ pos \in Map /\ prev \in Map
    /\ \A a \in {1, 2} : Axis(prev[a], cur[a], pos[a], leg)
    /\ SyncsOnMap

\* Half a map is a whole number of units.
LEMMA HalfNat == Half \in Nat
BY MapLargerThanRange DEF Half

\* What lies between two points of the map lies on it.
LEMMA AxisBetween ==
    ASSUME NEW p \in Int, NEW e \in Int, NEW c \in Int, NEW n \in 0 .. 10,
           Axis(p, c, e, n)
    PROVE  /\ Between(p, c, e)
           /\ n = 9 => Distance(c, e) < 9
<1>1. CASE n \in 0 .. 9 /\ c = p + n * Step(p, e)
  BY <1>1, Way
<1>2. CASE n = 10 /\ c = e
  BY <1>2 DEF Between
<1> QED BY <1>1, <1>2 DEF Axis

\* The map is convex along each axis.
LEMMA BetweenOnMap ==
    ASSUME NEW p \in -Half .. Half, NEW e \in -Half .. Half, NEW c \in Int,
           Between(p, c, e)
    PROVE  c \in -Half .. Half
BY HalfNat DEF Between

\* Where a turn leads is a whole number.
LEMMA ToInt ==
    ASSUME NEW x \in Int, NEW t \in Int
    PROVE  To(x, t) \in Int
<1>1. Scale \in Nat /\ Scale > 0
  BY MapLargerThanRange
<1>2. x * Scale + t \in Int
  BY <1>1
<1>3. \A n \in Int : Truncate(n, Scale) \in Int
  BY <1>1 DEF Truncate
<1> QED BY <1>2, <1>3 DEF To

\* One more ninth is told along an axis.
LEMMA AxisStep ==
    ASSUME NEW p \in Int, NEW e \in Int, NEW c \in Int, NEW n \in 0 .. 8,
           Axis(p, c, e, n)
    PROVE  /\ c + Step(p, e) \in Int
           /\ Axis(p, c + Step(p, e), e, n + 1)
<1> DEFINE s == Step(p, e)
<1>1. s \in Int
  BY Ninth
<1>2. c = p + n * s
  BY DEF Axis
<1> HIDE DEF s
<1>3. n * s \in Int /\ (n + 1) * s = n * s + s
  BY <1>1
<1>4. c + s = p + (n + 1) * s
  BY <1>1, <1>2, <1>3
<1>5. n + 1 \in 0 .. 9
  OBVIOUS
<1> QED BY <1>1, <1>4, <1>5 DEF Axis, s
-----------------------------------------------------------------------------
\* A bot that has not moved has told its way.
THEOREM WalkInit == Init => WalkInv
<1> SUFFICES ASSUME Init PROVE WalkInv
  OBVIOUS
<1>1. pos \in Map /\ prev = pos /\ cur = pos /\ leg = 10
  BY MapLargerThanRange DEF Init
<1>2. pos \in Int \X Int
  BY <1>1, HalfNat DEF Map
<1>3. TypeOK
  <2>1. leg \in 0 .. 10 /\ syncs \subseteq Int \X Int
    BY <1>1 DEF Init
  <2>3. joined \in BOOLEAN
    BY DEF Init
  <2>2. prev \in Int \X Int /\ cur \in Int \X Int
    BY <1>1, <1>2
  <2> QED BY <1>2, <2>1, <2>2, <2>3 DEF TypeOK
<1>4. \A a \in {1, 2} : Axis(prev[a], cur[a], pos[a], leg)
  BY <1>1 DEF Axis
<1>5. SyncsOnMap
  BY DEF Init, SyncsOnMap
<1> QED BY <1>1, <1>3, <1>4, <1>5 DEF WalkInv

\* A walk that is set out for keeps the invariant: nothing is told of it yet.
LEMMA SetKeeps ==
    ASSUME WalkInv, NEW to \in Map, Set(to)
    PROVE  WalkInv'
<1>1. pos' = to /\ prev' = pos /\ cur' = pos /\ leg' = 0
      /\ joined' = joined /\ syncs' = syncs
  BY DEF Set
<1>2. to \in Int \X Int /\ pos \in Int \X Int
  BY HalfNat DEF Map, WalkInv, TypeOK
<1>3. TypeOK'
  BY <1>1, <1>2 DEF WalkInv, TypeOK
<1>4. \A a \in {1, 2} : Axis(pos[a], pos[a], to[a], 0)
  <2> SUFFICES ASSUME NEW a \in {1, 2} PROVE Axis(pos[a], pos[a], to[a], 0)
    OBVIOUS
  <2>1. pos[a] \in Int /\ to[a] \in Int
    BY <1>2
  <2>2. Step(pos[a], to[a]) \in Int
    BY <2>1, Ninth
  <2> QED BY <2>1, <2>2 DEF Axis
<1>5. SyncsOnMap'
  BY <1>1 DEF WalkInv, SyncsOnMap
<1>6. pos' \in Map /\ prev' \in Map
  BY <1>1 DEF WalkInv
<1>7. (\A a \in {1, 2} : Axis(prev[a], cur[a], pos[a], leg))'
  BY <1>1, <1>4
<1> QED BY <1>3, <1>5, <1>6, <1>7, HalfNat DEF WalkInv, Map

\* A Sync of a point on the map, as far on the way as it says.
LEMMA TellKeeps ==
    ASSUME WalkInv, NEW point \in Map, Tell(point), cur' = point, leg \in 0 .. 9,
           \A a \in {1, 2} : Axis(prev[a], point[a], pos[a], leg + 1)
    PROVE  WalkInv'
<1>1. /\ pos' = pos /\ prev' = prev /\ joined' = joined
      /\ leg' = leg + 1 /\ syncs' = syncs \union {point}
  BY DEF Tell
<1>2. point \in Int \X Int
  BY HalfNat DEF Map
<1>3. TypeOK'
  BY <1>1, <1>2 DEF WalkInv, TypeOK
<1>4. SyncsOnMap'
  BY <1>1 DEF WalkInv, SyncsOnMap, Map, Half
<1>5. pos' \in Map /\ prev' \in Map
  BY <1>1 DEF WalkInv
<1>6. (\A a \in {1, 2} : Axis(prev[a], cur[a], pos[a], leg))'
  BY <1>1
<1> QED BY <1>3, <1>4, <1>5, <1>6 DEF WalkInv, Map, Half

\* Every step of a walk keeps its invariant.
THEOREM WalkStep == WalkInv /\ [Next]_vars => WalkInv'
<1> SUFFICES ASSUME WalkInv, [Next]_vars PROVE WalkInv'
  OBVIOUS
<1>0. /\ pos \in Map /\ prev \in Map /\ TypeOK
      /\ pos \in Int \X Int /\ prev \in Int \X Int /\ cur \in Int \X Int
  BY DEF WalkInv, TypeOK
<1>1. CASE Join
  BY <1>1 DEF Join, WalkInv, TypeOK, SyncsOnMap, Map, Half
<1>2. CASE Move
  <2>1. PICK turn \in Turns : nextMoveIsInArea(End(turn)) /\ Set(End(turn))
    BY <1>2 DEF Move
  <2>2. turn \in Int \X Int
    BY TurnsInRange, MapLargerThanRange
  <2>3. To(pos[1], turn[1]) \in Int /\ To(pos[2], turn[2]) \in Int
    BY <1>0, <2>2, ToInt
  <2>4. To(pos[1], turn[1]) \in -Half .. Half /\ To(pos[2], turn[2]) \in -Half .. Half
    BY <2>1, <2>3, HalfNat DEF nextMoveIsInArea, OnSide, End
  <2>5. End(turn) \in Map
    BY <2>4 DEF End, Map
  <2> QED BY <2>1, <2>5, SetKeeps
<1>3. CASE Stand
  BY <1>0, <1>3, SetKeeps DEF Stand
<1>4. CASE Walk
  <2>1. leg \in 0 .. 8
    BY <1>4 DEF Walk, WalkInv, TypeOK
  <2>2. \A a \in {1, 2} : Axis(prev[a], cur[a], pos[a], leg)
    BY DEF WalkInv
  <2>3. \A a \in {1, 2} : /\ Next9th[a] = cur[a] + Step(prev[a], pos[a])
                          /\ Next9th[a] \in Int
                          /\ Axis(prev[a], Next9th[a], pos[a], leg + 1)
    <3> SUFFICES ASSUME NEW a \in {1, 2}
                 PROVE  /\ Next9th[a] = cur[a] + Step(prev[a], pos[a])
                        /\ Next9th[a] \in Int
                        /\ Axis(prev[a], Next9th[a], pos[a], leg + 1)
      OBVIOUS
    <3>1. prev[a] \in Int /\ pos[a] \in Int /\ cur[a] \in Int
      BY <1>0
    <3>2. Next9th[a] = cur[a] + Step(prev[a], pos[a])
      BY DEF Next9th
    <3>3. Axis(prev[a], cur[a], pos[a], leg)
      BY <2>2
    <3> QED BY <2>1, <3>1, <3>2, <3>3, AxisStep
  <2>4. \A a \in {1, 2} : Next9th[a] \in -Half .. Half
    <3> SUFFICES ASSUME NEW a \in {1, 2} PROVE Next9th[a] \in -Half .. Half
      OBVIOUS
    <3>1. prev[a] \in -Half .. Half /\ pos[a] \in -Half .. Half
      BY <1>0 DEF Map
    <3>2. prev[a] \in Int /\ pos[a] \in Int /\ leg + 1 \in 0 .. 10
      BY <1>0, <2>1
    <3>3. Between(prev[a], Next9th[a], pos[a])
      BY <2>3, <3>2, AxisBetween
    <3> QED BY <2>3, <3>1, <3>3, BetweenOnMap
  <2>5. Next9th \in Map
    BY <2>4 DEF Next9th, Map
  <2>6. Tell(Next9th) /\ cur' = Next9th
    BY <1>4 DEF Walk
  <2> QED BY <2>1, <2>3, <2>5, <2>6, TellKeeps
<1>5. CASE Arrive
  <2>1. leg = 9 /\ Tell(pos) /\ cur' = pos
    BY <1>5 DEF Arrive
  <2>2. \A a \in {1, 2} : Axis(prev[a], pos[a], pos[a], leg + 1)
    BY <2>1 DEF Axis
  <2> QED BY <1>0, <2>1, <2>2, TellKeeps
<1>6. CASE Taken
  BY <1>6 DEF Taken, WalkInv, TypeOK, SyncsOnMap, Map, Half
<1>7. CASE UNCHANGED vars
  BY <1>7 DEF vars, WalkInv, TypeOK, SyncsOnMap, Map, Half
<1> QED BY <1>1, <1>2, <1>3, <1>4, <1>5, <1>6, <1>7 DEF Next

\* Along each axis, the point told last is the start and so many ninths, or the end.
THEOREM WalkInvariant == Spec => []WalkInv
BY WalkInit, WalkStep, PTL DEF Spec
-----------------------------------------------------------------------------
\* The walk keeps its types: every point is a pair of integers.
THEOREM TypeCorrect == Spec => []TypeOK
<1>1. WalkInv => TypeOK
  BY DEF WalkInv
<1> QED BY <1>1, WalkInvariant, PTL

\* For every map and range, no Sync of the way is ever off the map.
THEOREM SyncsStayOnMap == Spec => []SyncsOnMap
<1>1. WalkInv => SyncsOnMap
  BY DEF WalkInv
<1> QED BY <1>1, WalkInvariant, PTL

\* For every walk, the way is told from start to end, and the last Sync is at
\* most eight units from the one before along each axis.
THEOREM JumpsAreShort == Spec => []LastJumpShort
<1>1. WalkInv => LastJumpShort
  <2> SUFFICES ASSUME WalkInv, NEW a \in {1, 2}
               PROVE  /\ Between(prev[a], cur[a], pos[a])
                      /\ leg = 9 => Distance(cur[a], pos[a]) < 9
    BY DEF LastJumpShort
  <2>1. /\ prev[a] \in Int /\ cur[a] \in Int /\ pos[a] \in Int
        /\ leg \in 0 .. 10 /\ Axis(prev[a], cur[a], pos[a], leg)
    BY DEF WalkInv, TypeOK
  <2> QED BY <2>1, AxisBetween
<1> QED BY <1>1, WalkInvariant, PTL

\* A whole number of units is not rounded.
LEMMA WholeTurn ==
    ASSUME NEW x \in Int, NEW r \in Int, NEW t \in Int, t = r * Scale
    PROVE  To(x, t) = x + r
<1>1. Scale \in Nat /\ Scale > 0
  BY MapLargerThanRange
<1>2. \A k \in Nat : (k * Scale) \div Scale = k
  BY <1>1
<1>3. x * Scale + r * Scale = (x + r) * Scale
  BY <1>1
<1>4. CASE x + r >= 0
  <2>1. (x + r) * Scale >= 0
    BY <1>1, <1>4
  <2> QED BY <1>2, <1>3, <1>4, <2>1 DEF To, Truncate
<1>5. CASE x + r < 0
  <2>1. (x + r) * Scale < 0 /\ -((x + r) * Scale) = (-(x + r)) * Scale
    BY <1>1, <1>5
  <2>2. ((-(x + r)) * Scale) \div Scale = -(x + r)
    BY <1>2, <1>5
  <2>3. To(x, t) = Truncate((x + r) * Scale, Scale)
    BY <1>3 DEF To
  <2>4. Truncate((x + r) * Scale, Scale) = -(-(x + r))
    <3> DEFINE n == (x + r) * Scale
    <3>1. n \in Int /\ ~(n >= 0)
      BY <1>1, <2>1
    <3>2. (-n) \div Scale = -(x + r)
      BY <2>1, <2>2
    <3> HIDE DEF n
    <3>3. Truncate(n, Scale) = -((-n) \div Scale)
      BY <3>1 DEF Truncate
    <3> QED BY <3>2, <3>3 DEF n
  <2> QED BY <2>3, <2>4
<1> QED BY <1>4, <1>5

\* While half of a quadrant is as long as the range, some turn along the first
\* axis leads on from everywhere on the map.
THEOREM NeverIsCaught == Spec => []NeverCaught
<1>1. WalkInv => NeverCaught
  <2> SUFFICES ASSUME WalkInv, 2 * movementRange <= Half,
                      {<<r, 0>> : r \in {movementRange * Scale, -(movementRange * Scale)}} \subseteq Turns
               PROVE  \E turn \in Turns : nextMoveIsInArea(End(turn))
    BY DEF NeverCaught
  <2>1. /\ movementRange \in Nat /\ Half \in Nat /\ Scale \in Nat
        /\ pos[1] \in -Half .. Half /\ pos[2] \in -Half .. Half
        /\ pos[1] \in Int /\ pos[2] \in Int
    BY MapLargerThanRange, HalfNat DEF WalkInv, Map
  <2>2. To(pos[2], 0) = pos[2]
    <3>1. PICK z \in Int : z = 0
      OBVIOUS
    <3>2. z * Scale \in Int
      BY <2>1
    <3>3. To(pos[2], z * Scale) = pos[2] + z
      BY <2>1, <3>2, WholeTurn
    <3>4. z * Scale = 0
      BY <2>1, <3>1
    <3>5. pos[2] + z = pos[2]
      BY <2>1, <3>1
    <3> QED BY <3>3, <3>4, <3>5
  <2>3. /\ To(pos[1], movementRange * Scale) = pos[1] + movementRange
        /\ To(pos[1], -(movementRange * Scale)) = pos[1] - movementRange
    <3>1. -(movementRange * Scale) = (-movementRange) * Scale /\ -movementRange \in Int
      BY <2>1
    <3> QED BY <2>1, <3>1, WholeTurn
  <2>4. OnSide(pos[2], To(pos[2], 0))
    BY <2>1, <2>2 DEF OnSide
  <2>5. \/ OnSide(pos[1], To(pos[1], movementRange * Scale))
        \/ OnSide(pos[1], To(pos[1], -(movementRange * Scale)))
    BY <2>1, <2>3 DEF OnSide
  <2>6. <<movementRange * Scale, 0>> \in Turns /\ <<-(movementRange * Scale), 0>> \in Turns
    OBVIOUS
  <2> QED BY <2>4, <2>5, <2>6 DEF nextMoveIsInArea, End
<1> QED BY <1>1, WalkInvariant, PTL

\* The walk, where it is the program that runs.
LEMMA WalkUnit == BotsSpec => [](unit = "walk" => WalkInv)
<1>1. BotsInit => (unit = "walk" => WalkInv)
  BY WalkInit DEF BotsInit, Begins
<1>2. (unit = "walk" => WalkInv) /\ [BotsNext]_botsVars => (unit = "walk" => WalkInv)'
  BY WalkStep DEF BotsNext, botsVars
<1> QED
  BY <1>1, <1>2, PTL DEF BotsSpec

=============================================================================
