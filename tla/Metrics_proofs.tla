-------------------------- MODULE Metrics_proofs --------------------------
(***************************************************************************)
(* Proofs about Metrics: for any goroutines, metrics and numbers of        *)
(* values, the intervals add up, the end falls behind nothing and the      *)
(* locks come back.                                                        *)
(***************************************************************************)
EXTENDS Metrics, TLAPS

-----------------------------------------------------------------------------
(* The inductive invariant.  What an interval shows is told by what the     *)
(* goroutine of the object read under the lock and by prevCount, and it may *)
(* have read it long before it stores it.                                   *)

\* The goroutine of k has read the values and has not shown them yet.
HasRead(k) == tick[k].at \in {"want", "lock", "count"}

\* prevCount is what the intervals have shown, no more than there is.
TickInv(k) ==
    /\ tick[k].prev = shown[k] /\ shown[k] <= value[k]
    /\ tick[k].at \in {"none", "start"} => tick[k].prev = 0
    /\ HasRead(k) => tick[k].prev <= tick[k].count /\ tick[k].count <= value[k]
    /\ k \notin present => tick[k].at = "none"

\* Until the run ends the counter is what the intervals have shown, and total is no
\* less; then nothing goes back behind the counter of that moment.
EndInv(k) ==
    IF reader[Main].pass = "none"
    THEN /\ counter[k] = shown[k] /\ counter[k] <= total[k]
         /\ tick[k].at = "count" => tick[k].count <= total[k]
    ELSE /\ base[k] <= counter[k] /\ base[k] <= total[k] /\ base[k] <= value[k]
         /\ HasRead(k) => base[k] <= tick[k].count

\* Only the goroutine of the run stops the objects; what it stores is no less than
\* what was shown when the run ended.
PassInv(p) ==
    /\ reader[p].pass \in {"stop", "print", "csv"} => p = Main
    /\ reader[p].pass \in {"none", "done"} => reader[p].at = "next"
    /\ reader[p].at # "next" => reader[p].key \in Keys
    /\ reader[p].at \in {"halt", "want", "lock", "count"} => reader[p].pass = "stop"
    /\ reader[p].at \in {"want", "lock", "count"} => base[reader[p].key] <= reader[p].num

IInv ==
    /\ TypeOK
    /\ \A k \in Keys : TickInv(k)
    /\ \A k \in Keys : EndInv(k)
    /\ \A p \in Readers : PassInv(p)

-----------------------------------------------------------------------------
(* It holds in the initial states and is kept by every step.                *)

\* Nothing is counted or shown at the start.
LEMMA InitInv == Init => IInv
<1> SUFFICES ASSUME Init PROVE IInv
  OBVIOUS
<1> USE ProcessAssumption
<1>1. TypeOK
  BY DEF Init, TypeOK, Ticker, Sender, Pass, Passes, Tables, Readers
<1>2. /\ \A k \in Keys : TickInv(k)
      /\ \A k \in Keys : EndInv(k)
      /\ \A p \in Readers : PassInv(p)
  BY DEF Init, TickInv, EndInv, PassInv, HasRead, Ticker, Pass, Readers
<1> QED
  BY <1>1, <1>2 DEF IInv

\* Every step keeps the invariant.
LEMMA NextInv == IInv /\ [Next]_vars => IInv'
<1> SUFFICES ASSUME IInv, [Next]_vars PROVE IInv'
  OBVIOUS
<1> USE ProcessAssumption DEF Readers
<1>. TypeOK /\ (\A k \in Keys : TickInv(k)) /\ (\A k \in Keys : EndInv(k)) /\ (\A p \in Readers : PassInv(p))
  BY DEF IInv
<1>1. ASSUME NEW s \in Senders, NEW k \in Keys, Count(s, k) PROVE IInv'
  <2>1. TypeOK'
    BY <1>1 DEF Count, objects, history, Sender, Ticker, TypeOK, Tables
  <2>2. \A j \in Keys : TickInv(j)'
    BY <1>1 DEF Count, objects, history, Sender, Ticker, TypeOK, TickInv, HasRead
  <2>3. \A j \in Keys : EndInv(j)'
    BY <1>1 DEF Count, objects, history, Sender, Ticker, TypeOK, TickInv, EndInv, HasRead
  <2>4. \A q \in Readers : PassInv(q)'
    BY <1>1 DEF Count, objects, history, Sender, Ticker, TypeOK, PassInv
  <2> QED
    BY <2>1, <2>2, <2>3, <2>4 DEF IInv
<1>2. ASSUME NEW s \in Senders, CountLock(s) PROVE IInv'
  <2>1. TypeOK'
    BY <1>2 DEF CountLock, objects, history, Sender, Lock, TypeOK, Tables
  <2>2. \A j \in Keys : TickInv(j)'
    BY <1>2 DEF CountLock, objects, history, Sender, Lock, TypeOK, TickInv, HasRead
  <2>3. \A j \in Keys : EndInv(j)'
    BY <1>2 DEF CountLock, objects, history, Sender, Lock, TypeOK, TickInv, EndInv, HasRead
  <2>4. \A q \in Readers : PassInv(q)'
    BY <1>2 DEF CountLock, objects, history, Sender, Lock, TypeOK, PassInv
  <2> QED
    BY <2>1, <2>2, <2>3, <2>4 DEF IInv
<1>3. ASSUME NEW s \in Senders, CountAdd(s) PROVE IInv'
  <2>1. TypeOK'
    <3>1. value' \in [Keys -> Nat]
      <4>1. value' = [j \in Keys |-> IF j = sender[s].key THEN value[j] + 1 ELSE value[j]]
        BY <1>3 DEF CountAdd, TypeOK
      <4>2. \A j \in Keys : value[j] \in Nat
        BY DEF TypeOK
      <4> QED
        BY <4>1, <4>2
    <3>2. lock' \in [Keys -> Senders \union {Main, Tick, None}]
      BY <1>3 DEF CountAdd, Unlock, TypeOK
    <3>3. table' \in [Tables -> Senders \union {None}]
      BY <1>3 DEF CountAdd, TypeOK
    <3>4. sender' \in [Senders -> [at : {"idle", "table", "lock"}, key : Keys \union {None}]]
      BY <1>3 DEF CountAdd, Sender, TypeOK
    <3> QED
      BY <1>3, <3>1, <3>2, <3>3, <3>4 DEF CountAdd, history, TypeOK
  <2>2. \A j \in Keys : TickInv(j)'
    BY <1>3 DEF CountAdd, history, Sender, Unlock, Locked, TypeOK, TickInv, HasRead
  <2>3. \A j \in Keys : EndInv(j)'
    BY <1>3 DEF CountAdd, history, Sender, Unlock, Locked, TypeOK, TickInv, EndInv, HasRead
  <2>4. \A q \in Readers : PassInv(q)'
    BY <1>3 DEF CountAdd, history, Sender, Unlock, Locked, TypeOK, PassInv
  <2> QED
    BY <2>1, <2>2, <2>3, <2>4 DEF IInv
<1>4. ASSUME NEW k \in Keys, TickStart(k) PROVE IInv'
  <2>1. TypeOK'
    BY <1>4 DEF TickStart, TickTo, TickRest, Ticker, TypeOK
  <2>2. \A j \in Keys : TickInv(j)'
    BY <1>4 DEF TickStart, TickTo, TickRest, Ticker, TypeOK, TickInv, HasRead
  <2>3. \A j \in Keys : EndInv(j)'
    BY <1>4 DEF TickStart, TickTo, TickRest, Ticker, TypeOK, TickInv, EndInv, HasRead
  <2>4. \A q \in Readers : PassInv(q)'
    BY <1>4 DEF TickStart, TickTo, TickRest, Ticker, TypeOK, PassInv
  <2> QED
    BY <2>1, <2>2, <2>3, <2>4 DEF IInv
<1>5. ASSUME NEW k \in Keys, TickWake(k) PROVE IInv'
  <2>1. TypeOK'
    BY <1>5 DEF TickWake, TickTo, TickRest, Ticker, TypeOK
  <2>2. \A j \in Keys : TickInv(j)'
    BY <1>5 DEF TickWake, TickTo, TickRest, Ticker, TypeOK, TickInv, HasRead
  <2>3. \A j \in Keys : EndInv(j)'
    BY <1>5 DEF TickWake, TickTo, TickRest, Ticker, TypeOK, TickInv, EndInv, HasRead
  <2>4. \A q \in Readers : PassInv(q)'
    BY <1>5 DEF TickWake, TickTo, TickRest, Ticker, TypeOK, PassInv
  <2> QED
    BY <2>1, <2>2, <2>3, <2>4 DEF IInv
<1>6. ASSUME NEW k \in Keys, TickRead(k) PROVE IInv'
  <2>1. TypeOK'
    BY <1>6 DEF TickRead, RLocked, TickTo, TickRest, Ticker, TypeOK
  <2>2. \A j \in Keys : TickInv(j)'
    BY <1>6 DEF TickRead, RLocked, TickTo, TickRest, Ticker, TypeOK, TickInv, HasRead
  <2>3. \A j \in Keys : EndInv(j)'
    BY <1>6 DEF TickRead, RLocked, TickTo, TickRest, Ticker, TypeOK, TickInv, EndInv, HasRead
  <2>4. \A q \in Readers : PassInv(q)'
    BY <1>6 DEF TickRead, RLocked, TickTo, TickRest, Ticker, TypeOK, PassInv
  <2> QED
    BY <2>1, <2>2, <2>3, <2>4 DEF IInv
<1>7. ASSUME NEW k \in Keys, TickLock(k) PROVE IInv'
  <2>1. TypeOK'
    BY <1>7 DEF TickLock, Lock, TickTo, TickRest, Ticker, TypeOK
  <2>2. \A j \in Keys : TickInv(j)'
    BY <1>7 DEF TickLock, Lock, TickTo, TickRest, Ticker, TypeOK, TickInv, HasRead
  <2>3. \A j \in Keys : EndInv(j)'
    BY <1>7 DEF TickLock, Lock, TickTo, TickRest, Ticker, TypeOK, TickInv, EndInv, HasRead
  <2>4. \A q \in Readers : PassInv(q)'
    BY <1>7 DEF TickLock, Lock, TickTo, TickRest, Ticker, TypeOK, PassInv
  <2> QED
    BY <2>1, <2>2, <2>3, <2>4 DEF IInv
<1>8. ASSUME NEW k \in Keys, TickStore(k) PROVE IInv'
  <2>1. TypeOK'
    BY <1>8 DEF TickStore, Locked, Unlock, TickTo, TickRest, Ticker, TypeOK
  <2>2. \A j \in Keys : TickInv(j)'
    BY <1>8 DEF TickStore, Locked, Unlock, TickTo, TickRest, Ticker, TypeOK, TickInv, HasRead
  <2>3. \A j \in Keys : EndInv(j)'
    BY <1>8 DEF TickStore, Locked, Unlock, TickTo, TickRest, Ticker, TypeOK, TickInv, EndInv, HasRead
  <2>4. \A q \in Readers : PassInv(q)'
    BY <1>8 DEF TickStore, Locked, Unlock, TickTo, TickRest, Ticker, TypeOK, PassInv
  <2> QED
    BY <2>1, <2>2, <2>3, <2>4 DEF IInv
<1>9. ASSUME NEW k \in Keys, TickCount(k) PROVE IInv'
  <2>1. TypeOK'
    <3>1. /\ shown[k] + tick[k].count - tick[k].prev \in Nat
          /\ tick[k].count \in Nat
      BY <1>9 DEF TickCount, TypeOK, TickInv, HasRead
    <3> QED
      BY <1>9, <3>1 DEF TickCount, TickTo, TickRest, Ticker, TypeOK
  <2>2. \A j \in Keys : TickInv(j)'
    BY <1>9 DEF TickCount, TickTo, TickRest, Ticker, TypeOK, TickInv, HasRead
  <2>3. \A j \in Keys : EndInv(j)'
    BY <1>9 DEF TickCount, TickTo, TickRest, Ticker, TypeOK, TickInv, EndInv, HasRead
  <2>4. \A q \in Readers : PassInv(q)'
    BY <1>9 DEF TickCount, TickTo, TickRest, Ticker, TypeOK, PassInv
  <2> QED
    BY <2>1, <2>2, <2>3, <2>4 DEF IInv
<1>10. ASSUME NEW p \in Readers, Scrape(p) PROVE IInv'
  <2>1. TypeOK'
    BY <1>10 DEF Scrape, Over, KeysOf, ReadTo, ReadRest, Pass, TypeOK, Passes, Tables, PassInv
  <2>2. \A j \in Keys : TickInv(j)'
    BY <1>10 DEF Scrape, Over, KeysOf, ReadTo, ReadRest, Pass, TypeOK, TickInv, HasRead
  <2>3. \A j \in Keys : EndInv(j)'
    BY <1>10 DEF Scrape, Over, KeysOf, ReadTo, ReadRest, Pass, TypeOK, TickInv, EndInv, HasRead, PassInv
  <2>4. \A q \in Readers : PassInv(q)'
    BY <1>10 DEF Scrape, Over, KeysOf, ReadTo, ReadRest, Pass, TypeOK, PassInv, EndInv, TickInv
  <2> QED
    BY <2>1, <2>2, <2>3, <2>4 DEF IInv
<1>11. ASSUME NEW p \in Readers, EndRun(p) PROVE IInv'
  <2>1. TypeOK'
    BY <1>11 DEF EndRun, Over, KeysOf, ReadTo, ReadRest, Pass, TypeOK, Passes, Tables, PassInv
  <2>2. \A j \in Keys : TickInv(j)'
    BY <1>11 DEF EndRun, Over, KeysOf, ReadTo, ReadRest, Pass, TypeOK, TickInv, HasRead
  <2>3. \A j \in Keys : EndInv(j)'
    BY <1>11 DEF EndRun, Over, KeysOf, ReadTo, ReadRest, Pass, TypeOK, TickInv, EndInv, HasRead, PassInv
  <2>4. \A q \in Readers : PassInv(q)'
    BY <1>11 DEF EndRun, Over, KeysOf, ReadTo, ReadRest, Pass, TypeOK, PassInv, EndInv, TickInv
  <2> QED
    BY <2>1, <2>2, <2>3, <2>4 DEF IInv
<1>12. ASSUME NEW p \in Readers, NextTable(p) PROVE IInv'
  <2>1. TypeOK'
    BY <1>12 DEF NextTable, KeysOf, ReadTo, ReadRest, Pass, TypeOK, Passes, Tables, PassInv
  <2>2. \A j \in Keys : TickInv(j)'
    BY <1>12 DEF NextTable, KeysOf, ReadTo, ReadRest, Pass, TypeOK, TickInv, HasRead
  <2>3. \A j \in Keys : EndInv(j)'
    BY <1>12 DEF NextTable, KeysOf, ReadTo, ReadRest, Pass, TypeOK, TickInv, EndInv, HasRead, PassInv
  <2>4. \A q \in Readers : PassInv(q)'
    BY <1>12 DEF NextTable, KeysOf, ReadTo, ReadRest, Pass, TypeOK, PassInv, EndInv, TickInv
  <2> QED
    BY <2>1, <2>2, <2>3, <2>4 DEF IInv
<1>13. ASSUME NEW p \in Readers, NextPass(p) PROVE IInv'
  <2>1. TypeOK'
    BY <1>13 DEF NextPass, Over, KeysOf, ReadTo, ReadRest, Pass, TypeOK, Passes, Tables, PassInv
  <2>2. \A j \in Keys : TickInv(j)'
    BY <1>13 DEF NextPass, Over, KeysOf, ReadTo, ReadRest, Pass, TypeOK, TickInv, HasRead
  <2>3. \A j \in Keys : EndInv(j)'
    BY <1>13 DEF NextPass, Over, KeysOf, ReadTo, ReadRest, Pass, TypeOK, TickInv, EndInv, HasRead, PassInv
  <2>4. \A q \in Readers : PassInv(q)'
    <3>1. /\ reader'[p].at = "next"
          /\ reader'[p].pass \in {"stop", "print", "csv"} => p = Main
      BY <1>13 DEF NextPass, Over, ReadTo, Pass, TypeOK, PassInv
    <3>2. \A q \in Readers \ {p} : reader'[q] = reader[q]
      BY <1>13 DEF NextPass, Over, ReadTo, TypeOK
    <3>3. base' = base
      BY <1>13 DEF NextPass
    <3>4. PassInv(p)'
      BY <3>1 DEF PassInv
    <3>5. ASSUME NEW q \in Readers \ {p} PROVE PassInv(q)'
      BY <3>2, <3>3, <3>5 DEF PassInv
    <3> QED
      BY <3>4, <3>5
  <2> QED
    BY <2>1, <2>2, <2>3, <2>4 DEF IInv
<1>14. ASSUME NEW p \in Readers, NEW k \in Keys, ReadCommand(p, k) PROVE IInv'
  <2>1. TypeOK'
    BY <1>14 DEF ReadCommand, Visited, GoesOnTo, KeysOf, ReadTo, ReadRest, Pass, TypeOK, Passes, Tables, PassInv
  <2>2. \A j \in Keys : TickInv(j)'
    BY <1>14 DEF ReadCommand, Visited, GoesOnTo, KeysOf, ReadTo, ReadRest, Pass, TypeOK, TickInv, HasRead
  <2>3. \A j \in Keys : EndInv(j)'
    BY <1>14 DEF ReadCommand, Visited, GoesOnTo, KeysOf, ReadTo, ReadRest, Pass, TypeOK, TickInv, EndInv, HasRead, PassInv
  <2>4. \A q \in Readers : PassInv(q)'
    BY <1>14 DEF ReadCommand, Visited, GoesOnTo, KeysOf, ReadTo, ReadRest, Pass, TypeOK, PassInv, EndInv, TickInv
  <2> QED
    BY <2>1, <2>2, <2>3, <2>4 DEF IInv
<1>15. ASSUME NEW p \in Readers, NEW k \in Keys, Hold(p, k) PROVE IInv'
  <2>1. TypeOK'
    BY <1>15 DEF Hold, Visiting, GoesOnTo, KeysOf, ReadTo, ReadRest, Pass, TypeOK, Passes, Tables, PassInv
  <2>2. \A j \in Keys : TickInv(j)'
    BY <1>15 DEF Hold, Visiting, GoesOnTo, KeysOf, ReadTo, ReadRest, Pass, TypeOK, TickInv, HasRead
  <2>3. \A j \in Keys : EndInv(j)'
    BY <1>15 DEF Hold, Visiting, GoesOnTo, KeysOf, ReadTo, ReadRest, Pass, TypeOK, TickInv, EndInv, HasRead, PassInv
  <2>4. \A q \in Readers : PassInv(q)'
    BY <1>15 DEF Hold, Visiting, GoesOnTo, KeysOf, ReadTo, ReadRest, Pass, TypeOK, PassInv, EndInv, TickInv
  <2> QED
    BY <2>1, <2>2, <2>3, <2>4 DEF IInv
<1>16. ASSUME NEW p \in Readers, ReadNested(p) PROVE IInv'
  <2>1. TypeOK'
    BY <1>16 DEF ReadNested, Visiting, ReadTo, ReadRest, Pass, TypeOK, Passes, Tables, PassInv
  <2>2. \A j \in Keys : TickInv(j)'
    BY <1>16 DEF ReadNested, Visiting, ReadTo, ReadRest, Pass, TypeOK, TickInv, HasRead
  <2>3. \A j \in Keys : EndInv(j)'
    BY <1>16 DEF ReadNested, Visiting, ReadTo, ReadRest, Pass, TypeOK, TickInv, EndInv, HasRead, PassInv
  <2>4. \A q \in Readers : PassInv(q)'
    BY <1>16 DEF ReadNested, Visiting, ReadTo, ReadRest, Pass, TypeOK, PassInv, EndInv, TickInv
  <2> QED
    BY <2>1, <2>2, <2>3, <2>4 DEF IInv
<1>17. ASSUME NEW p \in Readers, Release(p) PROVE IInv'
  <2>1. TypeOK'
    BY <1>17 DEF Release, Visited, ReadTo, ReadRest, Pass, TypeOK, Passes, Tables, PassInv
  <2>2. \A j \in Keys : TickInv(j)'
    BY <1>17 DEF Release, Visited, ReadTo, ReadRest, Pass, TypeOK, TickInv, HasRead
  <2>3. \A j \in Keys : EndInv(j)'
    BY <1>17 DEF Release, Visited, ReadTo, ReadRest, Pass, TypeOK, TickInv, EndInv, HasRead, PassInv
  <2>4. \A q \in Readers : PassInv(q)'
    BY <1>17 DEF Release, Visited, ReadTo, ReadRest, Pass, TypeOK, PassInv, EndInv, TickInv
  <2> QED
    BY <2>1, <2>2, <2>3, <2>4 DEF IInv
<1>18. ASSUME NEW p \in Readers, NEW k \in Keys, StopHalt(p, k) PROVE IInv'
  <2>1. TypeOK'
    BY <1>18 DEF StopHalt, Visiting, GoesOnTo, KeysOf, ReadTo, ReadRest, Pass, TypeOK, Passes, Tables, PassInv
  <2>2. \A j \in Keys : TickInv(j)'
    BY <1>18 DEF StopHalt, Visiting, GoesOnTo, KeysOf, ReadTo, ReadRest, Pass, TypeOK, TickInv, HasRead
  <2>3. \A j \in Keys : EndInv(j)'
    BY <1>18 DEF StopHalt, Visiting, GoesOnTo, KeysOf, ReadTo, ReadRest, Pass, TypeOK, TickInv, EndInv, HasRead, PassInv
  <2>4. \A q \in Readers : PassInv(q)'
    BY <1>18 DEF StopHalt, Visiting, GoesOnTo, KeysOf, ReadTo, ReadRest, Pass, TypeOK, PassInv, EndInv, TickInv
  <2> QED
    BY <2>1, <2>2, <2>3, <2>4 DEF IInv
<1>19. ASSUME NEW p \in Readers, StopRead(p) PROVE IInv'
  <2>1. TypeOK'
    BY <1>19 DEF StopRead, Visiting, ReadTo, ReadRest, Pass, TypeOK, Passes, Tables, PassInv
  <2>2. \A j \in Keys : TickInv(j)'
    BY <1>19 DEF StopRead, Visiting, ReadTo, ReadRest, Pass, TypeOK, TickInv, HasRead
  <2>3. \A j \in Keys : EndInv(j)'
    BY <1>19 DEF StopRead, Visiting, ReadTo, ReadRest, Pass, TypeOK, TickInv, EndInv, HasRead, PassInv
  <2>4. \A q \in Readers : PassInv(q)'
    BY <1>19 DEF StopRead, Visiting, ReadTo, ReadRest, Pass, TypeOK, PassInv, EndInv
  <2> QED
    BY <2>1, <2>2, <2>3, <2>4 DEF IInv
<1>20. ASSUME NEW p \in Readers, StopLock(p) PROVE IInv'
  <2>1. TypeOK'
    BY <1>20 DEF StopLock, Visiting, Lock, ReadTo, ReadRest, Pass, TypeOK, Passes, Tables, PassInv
  <2>2. \A j \in Keys : TickInv(j)'
    BY <1>20 DEF StopLock, Visiting, Lock, ReadTo, ReadRest, Pass, TypeOK, TickInv, HasRead
  <2>3. \A j \in Keys : EndInv(j)'
    BY <1>20 DEF StopLock, Visiting, Lock, ReadTo, ReadRest, Pass, TypeOK, TickInv, EndInv, HasRead, PassInv
  <2>4. \A q \in Readers : PassInv(q)'
    BY <1>20 DEF StopLock, Visiting, Lock, ReadTo, ReadRest, Pass, TypeOK, PassInv, EndInv, TickInv
  <2> QED
    BY <2>1, <2>2, <2>3, <2>4 DEF IInv
<1>21. ASSUME NEW p \in Readers, StopStore(p) PROVE IInv'
  <2>1. TypeOK'
    BY <1>21 DEF StopStore, Visiting, Unlock, ReadTo, ReadRest, Pass, TypeOK, Passes, Tables, PassInv
  <2>2. \A j \in Keys : TickInv(j)'
    BY <1>21 DEF StopStore, Visiting, Unlock, ReadTo, ReadRest, Pass, TypeOK, TickInv, HasRead
  <2>3. \A j \in Keys : EndInv(j)'
    BY <1>21 DEF StopStore, Visiting, Unlock, ReadTo, ReadRest, Pass, TypeOK, TickInv, EndInv, HasRead, PassInv
  <2>4. \A q \in Readers : PassInv(q)'
    BY <1>21 DEF StopStore, Visiting, Unlock, ReadTo, ReadRest, Pass, TypeOK, PassInv, EndInv, TickInv
  <2> QED
    BY <2>1, <2>2, <2>3, <2>4 DEF IInv
<1>22. ASSUME NEW p \in Readers, StopCount(p) PROVE IInv'
  <2>1. TypeOK'
    BY <1>22 DEF StopCount, Visited, ReadTo, ReadRest, Pass, TypeOK, Passes, Tables, PassInv
  <2>2. \A j \in Keys : TickInv(j)'
    BY <1>22 DEF StopCount, Visited, ReadTo, ReadRest, Pass, TypeOK, TickInv, HasRead
  <2>3. \A j \in Keys : EndInv(j)'
    BY <1>22 DEF StopCount, Visited, ReadTo, ReadRest, Pass, TypeOK, TickInv, EndInv, HasRead, PassInv
  <2>4. \A q \in Readers : PassInv(q)'
    BY <1>22 DEF StopCount, Visited, ReadTo, ReadRest, Pass, TypeOK, PassInv, EndInv, TickInv
  <2> QED
    BY <2>1, <2>2, <2>3, <2>4 DEF IInv
<1>23. CASE UNCHANGED vars
  BY <1>23 DEF vars, objects, locks, history, IInv, TypeOK, TickInv, EndInv, PassInv, HasRead
<1> QED
  BY <1>1, <1>2, <1>3, <1>4, <1>5, <1>6, <1>7, <1>8, <1>9, <1>10, <1>11, <1>12, <1>13, <1>14, <1>15, <1>16, <1>17, <1>18, <1>19, <1>20, <1>21, <1>22, <1>23 DEF Next, SenderStep, TickStep, ReaderStep

-----------------------------------------------------------------------------
(* The locks.  Each is with the goroutine that took it, at a step that gives *)
(* it back; what a reader holds is the object it is at.                     *)

TableKept(t) ==
    table[t] # None =>
        \E s \in Senders : table[t] = s /\ sender[s].at # "idle" /\ kind[sender[s].key] = t
WriterKept(k) == lock[k] # None => Writing(k)
ReaderKept(p, k) == p \in holders[k] => reader[p].at = "held" /\ reader[p].key = k

LockInv ==
    /\ \A t \in Tables : TableKept(t)
    /\ \A k \in Keys : WriterKept(k)
    /\ \A k \in Keys, p \in Readers : ReaderKept(p, k)

\* A reader at an object it holds reads on, or is behind a writer.
LEMMA LocksFollow == TypeOK /\ LockInv => LocksComeBack
<1> SUFFICES ASSUME TypeOK, LockInv PROVE LocksComeBack
  OBVIOUS
<1>1. ASSUME NEW k \in Keys, NEW p \in Readers, p \in holders[k]
      PROVE ReadsOn(p, k) \/ NestedBehindWriter(k)
  <2>1. reader[p].at = "held" /\ reader[p].key = k /\ reader[p].num \in Nat
    BY <1>1 DEF LockInv, ReaderKept, TypeOK
  <2> QED
    BY <1>1, <2>1 DEF ReadsOn, NestedBehindWriter, RLocked
<1> QED
  BY <1>1 DEF LockInv, TableKept, WriterKept, LocksComeBack

\* No lock is taken at the start.
LEMMA LocksFree == Init => LockInv
  BY DEF Init, LockInv, TableKept, WriterKept, ReaderKept

\* Who has the lock of k keeps it, as long as nobody moves that has it.
LEMMA WriterFrame ==
    ASSUME NEW k \in Keys, WriterKept(k), lock'[k] = lock[k],
           \A s \in Senders : lock[k] = s /\ sender[s] = Sender("lock", k) => sender'[s] = sender[s],
           lock[k] = Tick => tick'[k].at = tick[k].at,
           lock[k] = Main => /\ reader'[Main].at = reader[Main].at
                             /\ reader'[Main].key = reader[Main].key
    PROVE  WriterKept(k)'
  BY DEF WriterKept, Writing, Sender

\* Every step keeps each lock with the goroutine that took it.
LEMMA LocksKept == IInv /\ LockInv /\ [Next]_vars => LockInv'
<1> SUFFICES ASSUME IInv, LockInv, [Next]_vars PROVE LockInv'
  OBVIOUS
<1> USE ProcessAssumption DEF Readers
<1>. TypeOK /\ (\A p \in Readers : PassInv(p))
  BY DEF IInv
<1>. /\ \A t \in Tables : TableKept(t)
     /\ \A k \in Keys : WriterKept(k)
     /\ \A k \in Keys, p \in Readers : ReaderKept(p, k)
  BY DEF LockInv
<1>1. ASSUME NEW s \in Senders, NEW k \in Keys, Count(s, k) PROVE LockInv'
  <2>1. \A t \in Tables : TableKept(t)'
    BY <1>1 DEF Count, objects, history, Sender, TypeOK, TableKept
  <2>2. \A j \in Keys : WriterKept(j)'
    <3>1. lock' = lock /\ reader' = reader
      BY <1>1 DEF Count
    <3>2. \A q \in Senders : sender[q].at = "lock" => sender'[q] = sender[q]
      BY <1>1 DEF Count, TypeOK
    <3>3. \A q \in Senders, j \in Keys : sender[q] = Sender("lock", j) => sender'[q] = sender[q]
      BY <3>2 DEF Sender
    <3>4. ASSUME NEW j \in Keys, lock[j] = Tick PROVE tick'[j].at = tick[j].at
      <4>1. tick[j].at = "lock"
        BY <3>4 DEF WriterKept, Writing
      <4>2. j \in present
        BY <4>1 DEF IInv, TickInv
      <4> QED
        BY <1>1, <4>2 DEF Count, TypeOK
    <3> QED
      BY <3>1, <3>3, <3>4, WriterFrame
  <2>3. \A j \in Keys, q \in Readers : ReaderKept(q, j)'
    BY <1>1 DEF Count, objects, history, Sender, TypeOK, PassInv, ReaderKept
  <2> QED
    BY <2>1, <2>2, <2>3 DEF LockInv
<1>2. ASSUME NEW s \in Senders, CountLock(s) PROVE LockInv'
  <2>1. \A t \in Tables : TableKept(t)'
    BY <1>2 DEF CountLock, Lock, objects, history, Sender, TypeOK, TableKept
  <2>2. \A j \in Keys : WriterKept(j)'
    <3>1. tick' = tick /\ reader' = reader /\ sender[s].at = "table"
      BY <1>2 DEF CountLock
    <3>2. lock[sender[s].key] = None /\ lock' = [lock EXCEPT ![sender[s].key] = s]
      BY <1>2 DEF CountLock, Lock
    <3>3. sender' = [sender EXCEPT ![s] = Sender("lock", sender[s].key)]
      BY <1>2 DEF CountLock
    <3>4. \A q \in Senders, j \in Keys : sender[q] = Sender("lock", j) => sender'[q] = sender[q]
      BY <3>1, <3>3 DEF Sender, TypeOK
    <3>5. ASSUME NEW j \in Keys, j # sender[s].key PROVE WriterKept(j)'
      <4>1. lock'[j] = lock[j]
        BY <3>2, <3>5 DEF TypeOK
      <4> QED
        BY <3>1, <3>4, <4>1, WriterFrame
    <3>6. ASSUME NEW j \in Keys, j = sender[s].key PROVE WriterKept(j)'
      <4>1. lock'[j] = s /\ sender'[s] = Sender("lock", j)
        BY <3>2, <3>3, <3>6 DEF TypeOK
      <4> QED
        BY <4>1 DEF WriterKept, Writing, Sender
    <3> QED
      BY <3>5, <3>6
  <2>3. \A j \in Keys, q \in Readers : ReaderKept(q, j)'
    BY <1>2 DEF CountLock, Lock, objects, history, Sender, TypeOK, PassInv, ReaderKept
  <2> QED
    BY <2>1, <2>2, <2>3 DEF LockInv
<1>3. ASSUME NEW s \in Senders, CountAdd(s) PROVE LockInv'
  <2>1. \A t \in Tables : TableKept(t)'
    BY <1>3 DEF CountAdd, Locked, Unlock, history, Sender, TypeOK, TableKept
  <2>2. \A j \in Keys : WriterKept(j)'
    <3>1. tick' = tick /\ reader' = reader
      BY <1>3 DEF CountAdd
    <3>2. lock[sender[s].key] = s /\ lock' = [lock EXCEPT ![sender[s].key] = None]
      BY <1>3 DEF CountAdd, Locked, Unlock
    <3>3. \A q \in Senders \ {s} : sender'[q] = sender[q]
      BY <1>3 DEF CountAdd, TypeOK
    <3>4. ASSUME NEW j \in Keys, j # sender[s].key PROVE WriterKept(j)'
      <4>1. lock'[j] = lock[j]
        BY <3>2, <3>4 DEF TypeOK
      <4>2. sender[s] # Sender("lock", j)
        BY <3>4 DEF Sender
      <4> QED
        BY <3>1, <3>3, <4>1, <4>2, WriterFrame
    <3>5. ASSUME sender[s].key \in Keys PROVE lock'[sender[s].key] = None
      BY <3>2, <3>5 DEF TypeOK
    <3> QED
      BY <3>4, <3>5 DEF WriterKept
  <2>3. \A j \in Keys, q \in Readers : ReaderKept(q, j)'
    BY <1>3 DEF CountAdd, Locked, Unlock, history, Sender, TypeOK, PassInv, ReaderKept
  <2> QED
    BY <2>1, <2>2, <2>3 DEF LockInv
<1>4. ASSUME NEW k \in Keys, TickStart(k) PROVE LockInv'
  <2>1. \A t \in Tables : TableKept(t)'
    BY <1>4 DEF TickStart, TickTo, TickRest, Ticker, TypeOK, TableKept
  <2>2. \A j \in Keys : WriterKept(j)'
    BY <1>4 DEF TickStart, TickTo, TickRest, Ticker, TypeOK, PassInv, WriterKept, Writing, Sender
  <2>3. \A j \in Keys, q \in Readers : ReaderKept(q, j)'
    BY <1>4 DEF TickStart, TickTo, TickRest, Ticker, TypeOK, PassInv, ReaderKept
  <2> QED
    BY <2>1, <2>2, <2>3 DEF LockInv
<1>5. ASSUME NEW k \in Keys, TickWake(k) PROVE LockInv'
  <2>1. \A t \in Tables : TableKept(t)'
    BY <1>5 DEF TickWake, TickTo, TickRest, Ticker, TypeOK, TableKept
  <2>2. \A j \in Keys : WriterKept(j)'
    BY <1>5 DEF TickWake, TickTo, TickRest, Ticker, TypeOK, PassInv, WriterKept, Writing, Sender
  <2>3. \A j \in Keys, q \in Readers : ReaderKept(q, j)'
    BY <1>5 DEF TickWake, TickTo, TickRest, Ticker, TypeOK, PassInv, ReaderKept
  <2> QED
    BY <2>1, <2>2, <2>3 DEF LockInv
<1>6. ASSUME NEW k \in Keys, TickRead(k) PROVE LockInv'
  <2>1. \A t \in Tables : TableKept(t)'
    BY <1>6 DEF TickRead, TickTo, TickRest, Ticker, TypeOK, TableKept
  <2>2. \A j \in Keys : WriterKept(j)'
    BY <1>6 DEF TickRead, TickTo, TickRest, Ticker, TypeOK, PassInv, WriterKept, Writing, Sender
  <2>3. \A j \in Keys, q \in Readers : ReaderKept(q, j)'
    BY <1>6 DEF TickRead, TickTo, TickRest, Ticker, TypeOK, PassInv, ReaderKept
  <2> QED
    BY <2>1, <2>2, <2>3 DEF LockInv
<1>7. ASSUME NEW k \in Keys, TickLock(k) PROVE LockInv'
  <2>1. \A t \in Tables : TableKept(t)'
    BY <1>7 DEF TickLock, Lock, TickTo, TickRest, Ticker, TypeOK, TableKept
  <2>2. \A j \in Keys : WriterKept(j)'
    <3>1. sender' = sender /\ reader' = reader
      BY <1>7 DEF TickLock, TickRest
    <3>2. lock' = [lock EXCEPT ![k] = Tick]
      BY <1>7 DEF TickLock, Lock
    <3>3. \A j \in Keys \ {k} : tick'[j] = tick[j]
      BY <1>7 DEF TickLock, TickTo, TypeOK
    <3>4. ASSUME NEW j \in Keys, j # k PROVE WriterKept(j)'
      <4>1. lock'[j] = lock[j]
        BY <3>2, <3>4 DEF TypeOK
      <4> QED
        BY <3>1, <3>3, <3>4, <4>1, WriterFrame
    <3>5. WriterKept(k)'
      <4>1. lock'[k] = Tick /\ tick'[k].at = "lock"
        BY <1>7, <3>2 DEF TickLock, TickTo, Ticker, TypeOK
      <4> QED
        BY <4>1 DEF WriterKept, Writing
    <3> QED
      BY <3>4, <3>5
  <2>3. \A j \in Keys, q \in Readers : ReaderKept(q, j)'
    BY <1>7 DEF TickLock, Lock, TickTo, TickRest, Ticker, TypeOK, PassInv, ReaderKept
  <2> QED
    BY <2>1, <2>2, <2>3 DEF LockInv
<1>8. ASSUME NEW k \in Keys, TickStore(k) PROVE LockInv'
  <2>1. \A t \in Tables : TableKept(t)'
    BY <1>8 DEF TickStore, Locked, Unlock, TickTo, TickRest, Ticker, TypeOK, TableKept
  <2>2. \A j \in Keys : WriterKept(j)'
    <3>1. sender' = sender /\ reader' = reader
      BY <1>8 DEF TickStore, TickRest
    <3>2. lock' = [lock EXCEPT ![k] = None]
      BY <1>8 DEF TickStore, Unlock
    <3>3. \A j \in Keys \ {k} : tick'[j] = tick[j]
      BY <1>8 DEF TickStore, TickTo, TypeOK
    <3>4. ASSUME NEW j \in Keys, j # k PROVE WriterKept(j)'
      <4>1. lock'[j] = lock[j]
        BY <3>2, <3>4 DEF TypeOK
      <4> QED
        BY <3>1, <3>3, <3>4, <4>1, WriterFrame
    <3>5. WriterKept(k)'
      BY <3>2 DEF WriterKept, TypeOK
    <3> QED
      BY <3>4, <3>5
  <2>3. \A j \in Keys, q \in Readers : ReaderKept(q, j)'
    BY <1>8 DEF TickStore, Locked, Unlock, TickTo, TickRest, Ticker, TypeOK, PassInv, ReaderKept
  <2> QED
    BY <2>1, <2>2, <2>3 DEF LockInv
<1>9. ASSUME NEW k \in Keys, TickCount(k) PROVE LockInv'
  <2>1. \A t \in Tables : TableKept(t)'
    BY <1>9 DEF TickCount, TickTo, TickRest, Ticker, TypeOK, TableKept
  <2>2. \A j \in Keys : WriterKept(j)'
    BY <1>9 DEF TickCount, TickTo, TickRest, Ticker, TypeOK, PassInv, WriterKept, Writing, Sender
  <2>3. \A j \in Keys, q \in Readers : ReaderKept(q, j)'
    BY <1>9 DEF TickCount, TickTo, TickRest, Ticker, TypeOK, PassInv, ReaderKept
  <2> QED
    BY <2>1, <2>2, <2>3 DEF LockInv
<1>10. ASSUME NEW p \in Readers, Scrape(p) PROVE LockInv'
  <2>1. \A t \in Tables : TableKept(t)'
    BY <1>10 DEF Scrape, Over, KeysOf, ReadTo, ReadRest, Pass, TypeOK, TableKept
  <2>2. \A j \in Keys : WriterKept(j)'
    BY <1>10 DEF Scrape, Over, KeysOf, ReadTo, ReadRest, Pass, TypeOK, PassInv, WriterKept, Writing, Sender
  <2>3. \A j \in Keys, q \in Readers : ReaderKept(q, j)'
    BY <1>10 DEF Scrape, Over, KeysOf, ReadTo, ReadRest, Pass, TypeOK, PassInv, ReaderKept
  <2> QED
    BY <2>1, <2>2, <2>3 DEF LockInv
<1>11. ASSUME NEW p \in Readers, EndRun(p) PROVE LockInv'
  <2>1. \A t \in Tables : TableKept(t)'
    BY <1>11 DEF EndRun, Over, KeysOf, ReadTo, ReadRest, Pass, TypeOK, TableKept
  <2>2. \A j \in Keys : WriterKept(j)'
    BY <1>11 DEF EndRun, Over, KeysOf, ReadTo, ReadRest, Pass, TypeOK, PassInv, WriterKept, Writing, Sender
  <2>3. \A j \in Keys, q \in Readers : ReaderKept(q, j)'
    BY <1>11 DEF EndRun, Over, KeysOf, ReadTo, ReadRest, Pass, TypeOK, PassInv, ReaderKept
  <2> QED
    BY <2>1, <2>2, <2>3 DEF LockInv
<1>12. ASSUME NEW p \in Readers, NextTable(p) PROVE LockInv'
  <2>1. \A t \in Tables : TableKept(t)'
    BY <1>12 DEF NextTable, KeysOf, ReadTo, ReadRest, Pass, TypeOK, TableKept
  <2>2. \A j \in Keys : WriterKept(j)'
    BY <1>12 DEF NextTable, KeysOf, ReadTo, ReadRest, Pass, TypeOK, PassInv, WriterKept, Writing, Sender
  <2>3. \A j \in Keys, q \in Readers : ReaderKept(q, j)'
    BY <1>12 DEF NextTable, KeysOf, ReadTo, ReadRest, Pass, TypeOK, PassInv, ReaderKept
  <2> QED
    BY <2>1, <2>2, <2>3 DEF LockInv
<1>13. ASSUME NEW p \in Readers, NextPass(p) PROVE LockInv'
  <2>1. \A t \in Tables : TableKept(t)'
    BY <1>13 DEF NextPass, Over, KeysOf, ReadTo, ReadRest, Pass, TypeOK, TableKept
  <2>2. \A j \in Keys : WriterKept(j)'
    BY <1>13 DEF NextPass, Over, KeysOf, ReadTo, ReadRest, Pass, TypeOK, PassInv, WriterKept, Writing, Sender
  <2>3. \A j \in Keys, q \in Readers : ReaderKept(q, j)'
    <3>1. reader[p].at = "next" /\ holders' = holders
      BY <1>13 DEF NextPass
    <3>2. \A q \in Readers \ {p} : reader'[q] = reader[q]
      BY <1>13 DEF NextPass, Over, ReadTo, TypeOK
    <3> QED
      BY <3>1, <3>2 DEF ReaderKept
  <2> QED
    BY <2>1, <2>2, <2>3 DEF LockInv
<1>14. ASSUME NEW p \in Readers, NEW k \in Keys, ReadCommand(p, k) PROVE LockInv'
  <2>1. \A t \in Tables : TableKept(t)'
    BY <1>14 DEF ReadCommand, Visited, GoesOnTo, ReadTo, ReadRest, Pass, TypeOK, TableKept
  <2>2. \A j \in Keys : WriterKept(j)'
    BY <1>14 DEF ReadCommand, Visited, GoesOnTo, ReadTo, ReadRest, Pass, TypeOK, PassInv, WriterKept, Writing, Sender
  <2>3. \A j \in Keys, q \in Readers : ReaderKept(q, j)'
    BY <1>14 DEF ReadCommand, Visited, GoesOnTo, ReadTo, ReadRest, Pass, TypeOK, PassInv, ReaderKept
  <2> QED
    BY <2>1, <2>2, <2>3 DEF LockInv
<1>15. ASSUME NEW p \in Readers, NEW k \in Keys, Hold(p, k) PROVE LockInv'
  <2>1. \A t \in Tables : TableKept(t)'
    BY <1>15 DEF Hold, Visiting, GoesOnTo, RLocked, ReadTo, ReadRest, Pass, TypeOK, TableKept
  <2>2. \A j \in Keys : WriterKept(j)'
    BY <1>15 DEF Hold, Visiting, GoesOnTo, RLocked, ReadTo, ReadRest, Pass, TypeOK, PassInv, WriterKept, Writing, Sender
  <2>3. \A j \in Keys, q \in Readers : ReaderKept(q, j)'
    BY <1>15 DEF Hold, Visiting, GoesOnTo, RLocked, ReadTo, ReadRest, Pass, TypeOK, PassInv, ReaderKept
  <2> QED
    BY <2>1, <2>2, <2>3 DEF LockInv
<1>16. ASSUME NEW p \in Readers, ReadNested(p) PROVE LockInv'
  <2>1. \A t \in Tables : TableKept(t)'
    BY <1>16 DEF ReadNested, Visiting, ReadTo, ReadRest, Pass, TypeOK, TableKept
  <2>2. \A j \in Keys : WriterKept(j)'
    BY <1>16 DEF ReadNested, Visiting, ReadTo, ReadRest, Pass, TypeOK, PassInv, WriterKept, Writing, Sender
  <2>3. \A j \in Keys, q \in Readers : ReaderKept(q, j)'
    BY <1>16 DEF ReadNested, Visiting, ReadTo, ReadRest, Pass, TypeOK, PassInv, ReaderKept
  <2> QED
    BY <2>1, <2>2, <2>3 DEF LockInv
<1>17. ASSUME NEW p \in Readers, Release(p) PROVE LockInv'
  <2>1. \A t \in Tables : TableKept(t)'
    BY <1>17 DEF Release, Visited, ReadTo, ReadRest, Pass, TypeOK, TableKept
  <2>2. \A j \in Keys : WriterKept(j)'
    BY <1>17 DEF Release, Visited, ReadTo, ReadRest, Pass, TypeOK, PassInv, WriterKept, Writing, Sender
  <2>3. \A j \in Keys, q \in Readers : ReaderKept(q, j)'
    BY <1>17 DEF Release, Visited, ReadTo, ReadRest, Pass, TypeOK, PassInv, ReaderKept
  <2> QED
    BY <2>1, <2>2, <2>3 DEF LockInv
<1>18. ASSUME NEW p \in Readers, NEW k \in Keys, StopHalt(p, k) PROVE LockInv'
  <2>1. \A t \in Tables : TableKept(t)'
    BY <1>18 DEF StopHalt, Visiting, GoesOnTo, ReadTo, ReadRest, Pass, TypeOK, TableKept
  <2>2. \A j \in Keys : WriterKept(j)'
    BY <1>18 DEF StopHalt, Visiting, GoesOnTo, ReadTo, ReadRest, Pass, TypeOK, PassInv, WriterKept, Writing, Sender
  <2>3. \A j \in Keys, q \in Readers : ReaderKept(q, j)'
    BY <1>18 DEF StopHalt, Visiting, GoesOnTo, ReadTo, ReadRest, Pass, TypeOK, PassInv, ReaderKept
  <2> QED
    BY <2>1, <2>2, <2>3 DEF LockInv
<1>19. ASSUME NEW p \in Readers, StopRead(p) PROVE LockInv'
  <2>1. \A t \in Tables : TableKept(t)'
    BY <1>19 DEF StopRead, Visiting, ReadTo, ReadRest, Pass, TypeOK, TableKept
  <2>2. \A j \in Keys : WriterKept(j)'
    BY <1>19 DEF StopRead, Visiting, ReadTo, ReadRest, Pass, TypeOK, PassInv, WriterKept, Writing, Sender
  <2>3. \A j \in Keys, q \in Readers : ReaderKept(q, j)'
    BY <1>19 DEF StopRead, Visiting, ReadTo, ReadRest, Pass, TypeOK, PassInv, ReaderKept
  <2> QED
    BY <2>1, <2>2, <2>3 DEF LockInv
<1>20. ASSUME NEW p \in Readers, StopLock(p) PROVE LockInv'
  <2>1. \A t \in Tables : TableKept(t)'
    BY <1>20 DEF StopLock, Lock, Visiting, ReadTo, ReadRest, Pass, TypeOK, TableKept
  <2>2. \A j \in Keys : WriterKept(j)'
    <3>1. sender' = sender /\ tick' = tick
      BY <1>20 DEF StopLock, ReadRest
    <3>2. lock' = [lock EXCEPT ![reader[p].key] = p]
      BY <1>20 DEF StopLock, Lock
    <3>3. p = Main /\ reader[Main].at = "want" /\ reader[Main].key \in Keys
      BY <1>20 DEF StopLock, PassInv
    <3>4. ASSUME NEW j \in Keys, j # reader[Main].key PROVE WriterKept(j)'
      <4>1. lock'[j] = lock[j]
        BY <3>2, <3>3, <3>4 DEF TypeOK
      <4>2. lock[j] # Main
        BY <3>3 DEF WriterKept, Writing
      <4> QED
        BY <3>1, <4>1, <4>2, WriterFrame
    <3>5. ASSUME NEW j \in Keys, j = reader[Main].key PROVE WriterKept(j)'
      <4>1. lock'[j] = Main
        BY <3>2, <3>3, <3>5 DEF TypeOK
      <4>2. reader'[Main].at = "lock" /\ reader'[Main].key = j
        BY <1>20, <3>3, <3>5 DEF StopLock, Visiting, ReadTo, Pass, TypeOK
      <4> QED
        BY <4>1, <4>2 DEF WriterKept, Writing
    <3> QED
      BY <3>4, <3>5
  <2>3. \A j \in Keys, q \in Readers : ReaderKept(q, j)'
    BY <1>20 DEF StopLock, Lock, Visiting, ReadTo, ReadRest, Pass, TypeOK, PassInv, ReaderKept
  <2> QED
    BY <2>1, <2>2, <2>3 DEF LockInv
<1>21. ASSUME NEW p \in Readers, StopStore(p) PROVE LockInv'
  <2>1. \A t \in Tables : TableKept(t)'
    BY <1>21 DEF StopStore, Locked, Unlock, Visiting, ReadTo, ReadRest, Pass, TypeOK, TableKept
  <2>2. \A j \in Keys : WriterKept(j)'
    <3>1. sender' = sender /\ tick' = tick
      BY <1>21 DEF StopStore, ReadRest
    <3>2. lock' = [lock EXCEPT ![reader[p].key] = None]
      BY <1>21 DEF StopStore, Unlock
    <3>3. p = Main /\ reader[Main].at = "lock" /\ reader[Main].key \in Keys
      BY <1>21 DEF StopStore, PassInv
    <3>4. ASSUME NEW j \in Keys, j # reader[Main].key PROVE WriterKept(j)'
      <4>1. lock'[j] = lock[j]
        BY <3>2, <3>3, <3>4 DEF TypeOK
      <4>2. lock[j] # Main
        BY <3>4 DEF WriterKept, Writing
      <4> QED
        BY <3>1, <4>1, <4>2, WriterFrame
    <3>5. ASSUME NEW j \in Keys, j = reader[Main].key PROVE WriterKept(j)'
      BY <3>2, <3>3, <3>5 DEF WriterKept, TypeOK
    <3> QED
      BY <3>4, <3>5
  <2>3. \A j \in Keys, q \in Readers : ReaderKept(q, j)'
    BY <1>21 DEF StopStore, Locked, Unlock, Visiting, ReadTo, ReadRest, Pass, TypeOK, PassInv, ReaderKept
  <2> QED
    BY <2>1, <2>2, <2>3 DEF LockInv
<1>22. ASSUME NEW p \in Readers, StopCount(p) PROVE LockInv'
  <2>1. \A t \in Tables : TableKept(t)'
    BY <1>22 DEF StopCount, Visited, ReadTo, ReadRest, Pass, TypeOK, TableKept
  <2>2. \A j \in Keys : WriterKept(j)'
    BY <1>22 DEF StopCount, Visited, ReadTo, ReadRest, Pass, TypeOK, PassInv, WriterKept, Writing, Sender
  <2>3. \A j \in Keys, q \in Readers : ReaderKept(q, j)'
    BY <1>22 DEF StopCount, Visited, ReadTo, ReadRest, Pass, TypeOK, PassInv, ReaderKept
  <2> QED
    BY <2>1, <2>2, <2>3 DEF LockInv
<1>23. CASE UNCHANGED vars
  BY <1>23 DEF vars, objects, locks, history, LockInv, TableKept, WriterKept, Writing, ReaderKept
<1> QED
  BY <1>1, <1>2, <1>3, <1>4, <1>5, <1>6, <1>7, <1>8, <1>9, <1>10, <1>11, <1>12, <1>13, <1>14, <1>15, <1>16, <1>17, <1>18, <1>19, <1>20, <1>21, <1>22, <1>23 DEF Next, SenderStep, TickStep, ReaderStep

-----------------------------------------------------------------------------
(* The theorems.                                                            *)

\* Every state of the system satisfies the invariant (report.go).
THEOREM Inductive == Spec => []IInv
  BY InitInv, NextInv, PTL DEF Spec

\* The tables, the objects, the locks and the goroutines keep their types (report.go).
THEOREM TypeCorrect == Spec => []TypeOK
<1>1. IInv => TypeOK
  BY DEF IInv
<1> QED
  BY Inductive, <1>1, PTL

\* However the values and the intervals interleave, the counter is the sum of what the
\* intervals have shown, which is no more than was counted (metrics.start).
THEOREM IntervalsAddUpAlways == Spec => []IntervalsAddUp
<1>1. IInv => IntervalsAddUp
  BY DEF IInv, TickInv, EndInv, IntervalsAddUp
<1> QED
  BY Inductive, <1>1, PTL

\* However late a goroutine stores what it read before stop, nothing falls behind what
\* was shown when the run ended (metrics.start, metrics.stop).
THEOREM EndNeverBehind == Spec => []EndNotBehind
<1>1. IInv => EndNotBehind
  BY DEF IInv, EndInv, EndNotBehind
<1> QED
  BY Inductive, <1>1, PTL
\* No lock is left behind, and no two goroutines wait for each other, but for a reader
\* that wants its lock again behind a writer (report.go, wherever it calls Lock and RLock).
THEOREM LocksAlwaysComeBack == Spec => []LocksComeBack
<1>1. Init => LockInv
  BY LocksFree
<1>2. IInv /\ IInv' /\ LockInv /\ [Next]_vars => LockInv'
  BY LocksKept
<1>3. IInv /\ LockInv => LocksComeBack
  BY LocksFollow DEF IInv
<1> QED
  BY Inductive, <1>1, <1>2, <1>3, PTL DEF Spec
=============================================================================
