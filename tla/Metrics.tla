------------------------------ MODULE Metrics ------------------------------
(***************************************************************************)
(* The metrics of the scenario bot, bot/scenario/lib/report/report.go, for *)
(* one run of a scenario.                                                  *)
(*                                                                         *)
(* Bots count what they send and measure into metrics objects, each with a *)
(* read-write lock and a goroutine that sums it up at every interval.      *)
(* The objects hang in two tables: one of the commands, one of the custom  *)
(* metrics.  Requests for /metrics/ read them all at any time; at the end  *)
(* of the run the main goroutine stops, prints and writes them to a file.  *)
(***************************************************************************)
EXTENDS Integers

CONSTANTS
    Senders,    \* goroutines that count
    Scrapers,   \* requests for /metrics/
    Main,       \* the goroutine of the run
    Tick,       \* the goroutine of a metrics object
    Keys,       \* the keys of the metrics
    MaxValues,  \* bound on the values added to a key
    None        \* the absent value

Readers == Scrapers \union {Main}
Tables == {"commands", "customs"}

ASSUME KeysAssumption == None \notin Keys
ASSUME ProcessAssumption ==
    /\ Main \notin Scrapers \union Senders /\ Tick \notin Senders \union {Main}
    /\ None \notin Senders \union {Main, Tick}
ASSUME MaxValuesAssumption == MaxValues \in Nat

VARIABLES
    kind,      \* kind[k]: the table k belongs to
    present,   \* the keys that are in the tables
    value,     \* value[k]: how many values the object of k holds
    total,     \* total[k]: how many of them total sums up
    counter,   \* counter[k]: the count shown
    running,   \* running[k]: not stopped
    tick,      \* tick[k]: the goroutine of the object
    lock,      \* lock[k]: who writes, or waits for the readers to leave in order to
    holders,   \* holders[k]: who holds the read lock across calls
    table,     \* table[t]: who holds the lock of the table
    sender,    \* sender[s]: where a counting goroutine is
    reader,    \* reader[p]: where a reading goroutine is
    fatal,     \* the process has died of a concurrent access to a map
    shown,     \* shown[k]: the sum of the counts gauge has shown, one for each interval
    base       \* history: the counter when the run ended

objects == <<value, total, counter, running>>
locks == <<lock, holders, table>>
history == <<shown, base>>
vars == <<kind, present, objects, tick, locks, sender, reader, fatal, history>>

\* start: the count it read, and prevCount.
Ticker(at, count, prev) == [at |-> at, count |-> count, prev |-> prev]
Sender(at, k) == [at |-> at, key |-> k]
\* A pass over the tables: the keys met at its start, those visited, and the key
\* being visited with num, a count read or the nested reads to go.
Pass(pass, t, at, start, seen, k, num) ==
    [pass |-> pass, table |-> t, at |-> at, start |-> start, seen |-> seen, key |-> k, num |-> num]
Passes == {"none", "scrape", "stop", "print", "csv", "done"}

Init ==
    /\ kind \in [Keys -> Tables]
    /\ present = {}
    /\ value = [k \in Keys |-> 0]
    /\ total = [k \in Keys |-> 0]
    /\ counter = [k \in Keys |-> 0]
    /\ running = [k \in Keys |-> FALSE]
    /\ tick = [k \in Keys |-> Ticker("none", 0, 0)]
    /\ lock = [k \in Keys |-> None]
    /\ holders = [k \in Keys |-> {}]
    /\ table = [t \in Tables |-> None]
    /\ sender = [s \in Senders |-> Sender("idle", None)]
    /\ reader = [p \in Readers |-> Pass("none", "commands", "next", {}, {}, None, 0)]
    /\ fatal = FALSE
    /\ shown = [k \in Keys |-> 0]
    /\ base = [k \in Keys |-> 0]

-----------------------------------------------------------------------------
(* sync.RWMutex: a writer that waits keeps new readers out.                 *)

RLocked(k) == lock[k] = None
Lock(k, p) == lock[k] = None /\ lock' = [lock EXCEPT ![k] = p]
Locked(k, p) == lock[k] = p /\ holders[k] = {}
Unlock(k) == lock' = [lock EXCEPT ![k] = None]

-----------------------------------------------------------------------------
(* Increment and Add of the tables.                                         *)

\* Some goroutine is going through the table: no lock keeps writers from it.
Iterated(t) == \E p \in Readers : reader[p].pass \notin {"none", "done"} /\ reader[p].table = t

\* The lock of the table; a key that is new is entered, and its goroutine starts.
\* Entered while the table is gone through, it may kill the process.
Count(s, k) ==
    /\ sender[s].at = "idle" /\ value[k] < MaxValues
    /\ table[kind[k]] = None
    /\ table' = [table EXCEPT ![kind[k]] = s]
    /\ sender' = [sender EXCEPT ![s] = Sender("table", k)]
    /\ present' = present \union {k}
    /\ tick' = IF k \in present THEN tick ELSE [tick EXCEPT ![k] = Ticker("start", 0, 0)]
    /\ \/ UNCHANGED fatal
       \/ k \notin present /\ Iterated(kind[k]) /\ fatal' = TRUE
    /\ UNCHANGED <<kind, objects, lock, holders, reader, history>>

\* metrics.Add: m.Lock, and wait for the readers.
CountLock(s) == LET k == sender[s].key IN
    /\ sender[s].at = "table"
    /\ Lock(k, s)
    /\ sender' = [sender EXCEPT ![s] = Sender("lock", k)]
    /\ UNCHANGED <<kind, present, objects, tick, holders, table, reader, fatal, history>>

\* Mutant of CountAdd: the lock of the object is not released.
CountAddKeeps(s) == LET k == sender[s].key IN
    /\ sender[s].at = "lock" /\ Locked(k, s)
    /\ value' = [value EXCEPT ![k] = @ + 1]
    /\ table' = [table EXCEPT ![kind[k]] = None]
    /\ sender' = [sender EXCEPT ![s] = Sender("idle", None)]
    /\ UNCHANGED <<kind, present, total, counter, running, tick, lock, holders, reader, fatal, history>>

\* The value is appended, and both locks are released.
CountAdd(s) == LET k == sender[s].key IN
    /\ sender[s].at = "lock" /\ Locked(k, s)
    /\ value' = [value EXCEPT ![k] = @ + 1]
    /\ Unlock(k)
    /\ table' = [table EXCEPT ![kind[k]] = None]
    /\ sender' = [sender EXCEPT ![s] = Sender("idle", None)]
    /\ UNCHANGED <<kind, present, total, counter, running, tick, holders, reader, fatal, history>>

-----------------------------------------------------------------------------
(* metrics.start                                                            *)

TickTo(k, at, count, prev) == tick' = [tick EXCEPT ![k] = Ticker(at, count, prev)]
TickRest == UNCHANGED <<kind, present, value, holders, table, sender, reader, fatal, base>>

\* The goroutine sets running when it comes to run, maybe after stop.
TickStart(k) ==
    /\ tick[k].at = "start"
    /\ running' = [running EXCEPT ![k] = TRUE]
    /\ TickTo(k, "sleep", 0, 0)
    /\ UNCHANGED <<total, counter, lock, shown>> /\ TickRest

\* The interval is over.
TickWake(k) ==
    /\ tick[k].at = "sleep"
    /\ TickTo(k, IF running[k] THEN "read" ELSE "ended", 0, tick[k].prev)
    /\ UNCHANGED <<total, counter, running, lock, shown>> /\ TickRest

\* The values are summed and counted under the read lock.
TickRead(k) ==
    /\ tick[k].at = "read" /\ RLocked(k)
    /\ TickTo(k, "want", value[k], tick[k].prev)
    /\ UNCHANGED <<total, counter, running, lock, shown>> /\ TickRest

TickLock(k) ==
    /\ tick[k].at = "want"
    /\ Lock(k, Tick)
    /\ TickTo(k, "lock", tick[k].count, tick[k].prev)
    /\ UNCHANGED <<total, counter, running, shown>> /\ TickRest

TickStore(k) ==
    /\ tick[k].at = "lock" /\ Locked(k, Tick)
    /\ total' = [total EXCEPT ![k] = tick[k].count]
    /\ Unlock(k)
    /\ TickTo(k, "count", tick[k].count, tick[k].prev)
    /\ UNCHANGED <<counter, running, shown>> /\ TickRest

\* Mutants of TickCount: prevCount is not moved on; the goroutine does not loop.
TickCountStays(k) ==
    /\ tick[k].at = "count"
    /\ shown' = [shown EXCEPT ![k] = @ + tick[k].count - tick[k].prev]
    /\ counter' = [counter EXCEPT ![k] = tick[k].count]
    /\ TickTo(k, "sleep", 0, tick[k].prev)
    /\ UNCHANGED <<total, running, lock>> /\ TickRest
TickCountOnce(k) ==
    /\ tick[k].at = "count"
    /\ shown' = [shown EXCEPT ![k] = @ + tick[k].count - tick[k].prev]
    /\ counter' = [counter EXCEPT ![k] = tick[k].count]
    /\ TickTo(k, "ended", 0, tick[k].count)
    /\ UNCHANGED <<total, running, lock>> /\ TickRest

\* The count of the interval and the count of all are shown (gauge and counter, two
\* stores of which readers make no more than numbers of a text), and on it goes.
TickCount(k) ==
    /\ tick[k].at = "count"
    /\ shown' = [shown EXCEPT ![k] = @ + tick[k].count - tick[k].prev]
    /\ counter' = [counter EXCEPT ![k] = tick[k].count]
    /\ TickTo(k, "sleep", 0, tick[k].count)
    /\ UNCHANGED <<total, running, lock>> /\ TickRest

-----------------------------------------------------------------------------
(* The passes over the tables: GetPrometheusMetrics, and StopAllMetrics,    *)
(* PrintAllMetrics and WriteCSV at the end of the run.                      *)

KeysOf(t) == {k \in present : kind[k] = t}
ReadTo(p, r) == reader' = [reader EXCEPT ![p] = r]
Over(p, pass) == ReadTo(p, Pass(pass, "commands", "next", KeysOf("commands"), {}, None, 0))
\* Where p is after its visit to k.
Visited(p, k) == LET r == reader[p] IN
    ReadTo(p, Pass(r.pass, r.table, "next", r.start, r.seen \union {k}, None, 0))
Visiting(p, k, at, num) == LET r == reader[p] IN
    ReadTo(p, Pass(r.pass, r.table, at, r.start, r.seen, k, num))
\* p goes on to k, a key of its table it has not visited.
GoesOnTo(p, k) ==
    reader[p].at = "next" /\ k \in KeysOf(reader[p].table) \ reader[p].seen
ReadRest == UNCHANGED <<kind, present, value, tick, table, sender, fatal, shown>>

Scrape(p) ==
    /\ p \in Scrapers /\ reader[p].pass = "none"
    /\ Over(p, "scrape")
    /\ UNCHANGED <<total, counter, running, lock, holders, base>> /\ ReadRest

\* start of bot/scenario/main.go, after the scenario.
EndRun(p) ==
    /\ p = Main /\ reader[p].pass = "none"
    /\ Over(p, "stop")
    /\ base' = counter
    /\ UNCHANGED <<total, counter, running, lock, holders>> /\ ReadRest

\* A key entered while the table is gone through may be visited or not.
NextTable(p) == LET r == reader[p] IN
    /\ r.pass \notin {"none", "done"} /\ r.at = "next" /\ r.start \subseteq r.seen
    /\ r.table = "commands"
    /\ ReadTo(p, Pass(r.pass, "customs", "next", KeysOf("customs"), {}, None, 0))
    /\ UNCHANGED <<total, counter, running, lock, holders, base>> /\ ReadRest

NextPass(p) == LET r == reader[p] IN
    /\ r.pass \notin {"none", "done"} /\ r.at = "next" /\ r.start \subseteq r.seen
    /\ r.table = "customs"
    /\ \/ r.pass = "stop" /\ Over(p, "print")
       \/ r.pass = "print" /\ Over(p, "csv")
       \/ r.pass \in {"scrape", "csv"} /\ ReadTo(p, Pass("done", "customs", "next", {}, {}, None, 0))
    /\ UNCHANGED <<total, counter, running, lock, holders, base>> /\ ReadRest

\* CommandMetrics: GetMetrics and Print read atomics, GetAsKV reads under the lock.
ReadCommand(p, k) ==
    /\ reader[p].pass \in {"scrape", "print", "csv"} /\ GoesOnTo(p, k) /\ kind[k] = "commands"
    /\ reader[p].pass = "csv" => RLocked(k)
    /\ Visited(p, k)
    /\ UNCHANGED <<total, counter, running, lock, holders, base>> /\ ReadRest

\* CustomMetrics: GetMetrics, and GetAverage for Print and GetAsKV, take the read
\* lock and keep it.  (GetTotal before or after GetAverage only waits for the lock.)
Hold(p, k) ==
    /\ reader[p].pass \in {"scrape", "print", "csv"} /\ GoesOnTo(p, k) /\ kind[k] = "customs"
    /\ RLocked(k)
    /\ holders' = [holders EXCEPT ![k] = @ \union {p}]
    /\ Visiting(p, k, "held", IF reader[p].pass = "scrape" THEN 3 ELSE 1)
    /\ UNCHANGED <<total, counter, running, lock, base>> /\ ReadRest

\* GetTotal, GetSubTotal, GetIntervalAverage: each takes it again.
ReadNested(p) == LET r == reader[p] IN
    /\ r.at = "held" /\ r.num > 0 /\ RLocked(r.key)
    /\ Visiting(p, r.key, "held", r.num - 1)
    /\ UNCHANGED <<total, counter, running, lock, holders, base>> /\ ReadRest

Release(p) == LET r == reader[p] IN
    /\ r.at = "held" /\ r.num = 0
    /\ holders' = [holders EXCEPT ![r.key] = @ \ {p}]
    /\ Visited(p, r.key)
    /\ UNCHANGED <<total, counter, running, lock, base>> /\ ReadRest

\* metrics.stop: running := false; the sum; the lock; total; counter.
StopHalt(p, k) ==
    /\ reader[p].pass = "stop" /\ GoesOnTo(p, k)
    /\ running' = [running EXCEPT ![k] = FALSE]
    /\ Visiting(p, k, "halt", 0)
    /\ UNCHANGED <<total, counter, lock, holders, base>> /\ ReadRest

\* Mutant of StopRead: what the intervals have shown is left out.
StopReadRest(p) == LET r == reader[p] IN
    /\ r.at = "halt" /\ RLocked(r.key)
    /\ Visiting(p, r.key, "want", value[r.key] - shown[r.key])
    /\ UNCHANGED <<total, counter, running, lock, holders, base>> /\ ReadRest

StopRead(p) == LET r == reader[p] IN
    /\ r.at = "halt" /\ RLocked(r.key)
    /\ Visiting(p, r.key, "want", value[r.key])
    /\ UNCHANGED <<total, counter, running, lock, holders, base>> /\ ReadRest

StopLock(p) == LET r == reader[p] IN
    /\ r.at = "want"
    /\ Lock(r.key, p)
    /\ Visiting(p, r.key, "lock", r.num)
    /\ UNCHANGED <<total, counter, running, holders, base>> /\ ReadRest

StopStore(p) == LET r == reader[p] IN
    /\ r.at = "lock" /\ Locked(r.key, p)
    /\ total' = [total EXCEPT ![r.key] = r.num]
    /\ Unlock(r.key)
    /\ Visiting(p, r.key, "count", r.num)
    /\ UNCHANGED <<counter, running, holders, base>> /\ ReadRest

StopCount(p) == LET r == reader[p] IN
    /\ r.at = "count"
    /\ counter' = [counter EXCEPT ![r.key] = r.num]
    /\ Visited(p, r.key)
    /\ UNCHANGED <<total, running, lock, holders, base>> /\ ReadRest

-----------------------------------------------------------------------------

SenderStep(s) == CountLock(s) \/ CountAdd(s)

TickStep(k) ==
    \/ TickStart(k)
    \/ TickWake(k)
    \/ TickRead(k)
    \/ TickLock(k)
    \/ TickStore(k)
    \/ TickCount(k)

ReaderStep(p) ==
    \/ NextTable(p)
    \/ NextPass(p)
    \/ \E k \in Keys : ReadCommand(p, k) \/ Hold(p, k) \/ StopHalt(p, k)
    \/ ReadNested(p)
    \/ Release(p)
    \/ StopRead(p)
    \/ StopLock(p)
    \/ StopStore(p)
    \/ StopCount(p)

Next ==
    /\ ~fatal
    /\ \/ \E s \in Senders, k \in Keys : Count(s, k)
       \/ \E s \in Senders : SenderStep(s)
       \/ \E k \in Keys : TickStep(k)
       \/ \E p \in Readers : Scrape(p) \/ EndRun(p) \/ ReaderStep(p)

Spec == Init /\ [][Next]_vars

\* A goroutine that can go on again and again goes on: sync.RWMutex starves nobody.
Fairness ==
    /\ \A s \in Senders : SF_vars(~fatal /\ SenderStep(s))
    /\ \A k \in Keys : SF_vars(~fatal /\ TickStep(k))
    /\ \A p \in Readers : SF_vars(~fatal /\ ReaderStep(p))

LiveSpec == Spec /\ Fairness

-----------------------------------------------------------------------------
(* Properties.                                                              *)

\* The tables, the objects, the locks and the goroutines have their types.
TypeOK ==
    /\ kind \in [Keys -> Tables]
    /\ present \subseteq Keys
    /\ value \in [Keys -> Nat]
    /\ total \in [Keys -> Nat]
    /\ counter \in [Keys -> Nat]
    /\ running \in [Keys -> BOOLEAN]
    /\ tick \in [Keys -> [at : {"none", "start", "sleep", "read", "want", "lock", "count", "ended"},
                          count : Nat, prev : Nat]]
    /\ lock \in [Keys -> Senders \union {Main, Tick, None}]
    /\ holders \in [Keys -> SUBSET Readers]
    /\ table \in [Tables -> Senders \union {None}]
    /\ sender \in [Senders -> [at : {"idle", "table", "lock"}, key : Keys \union {None}]]
    /\ reader \in [Readers -> [pass : Passes, table : Tables,
                               at : {"next", "held", "halt", "want", "lock", "count"},
                               start : SUBSET Keys, seen : SUBSET Keys,
                               key : Keys \union {None}, num : Nat]]
    /\ fatal \in BOOLEAN
    /\ shown \in [Keys -> Nat]
    /\ base \in [Keys -> Nat]

\* Until the run ends the count shown is the sum of the counts shown for the
\* intervals: no value falls between two intervals and none counts in both, whoever
\* adds values while the goroutine of the object sums them up (start).
IntervalsAddUp ==
    \A k \in Keys :
        /\ shown[k] <= value[k]
        /\ reader[Main].pass = "none" => counter[k] = shown[k]

\* From the end of the run on, what stop leaves and what is printed and written never
\* falls behind what was shown when it ended, though a goroutine that woke up before
\* stop may store after it the sum it made before (start, stop).
EndNotBehind ==
    reader[Main].pass # "none" =>
        \A k \in Keys : total[k] >= base[k] /\ counter[k] >= base[k]

\* A reader holds the read lock of k and wants it again, behind a writer that waits
\* for it to let go.
NestedBehindWriter(k) ==
    /\ lock[k] # None
    /\ \E p \in holders[k] : reader[p].at = "held" /\ reader[p].key = k /\ reader[p].num > 0

\* The one that has the lock of k, or waits for its readers to leave, is about to write.
Writing(k) ==
    \/ \E s \in Senders : lock[k] = s /\ sender[s] = Sender("lock", k)
    \/ lock[k] = Tick /\ tick[k].at = "lock"
    \/ lock[k] = Main /\ reader[Main].at = "lock" /\ reader[Main].key = k

\* p reads k under the lock and can go on: it lets go, or takes the lock once more.
ReadsOn(p, k) ==
    /\ reader[p].at = "held" /\ reader[p].key = k
    /\ reader[p].num = 0 \/ RLocked(k)

\* Whoever waits for a lock waits for a goroutine that goes on to give it back, and no
\* two wait for each other, unless a reader wants its lock again behind a writer: a
\* table is with a bot that counts, in an object of that table; a written object is
\* with its writer, which wants nothing more; a reader wants no second object while it
\* has one (report.go, wherever it calls Lock and RLock).
LocksComeBack ==
    /\ \A t \in Tables : table[t] # None =>
           \E s \in Senders : /\ table[t] = s /\ sender[s].at # "idle"
                             /\ kind[sender[s].key] = t
    /\ \A k \in Keys : lock[k] # None => Writing(k)
    /\ \A k \in Keys, p \in Readers :
           p \in holders[k] => ReadsOn(p, k) \/ NestedBehindWriter(k)

\* The process has come to a stand: it died, or readers and writers wait for each
\* other.
Stuck == fatal \/ \E k \in Keys : NestedBehindWriter(k)

\* A request for /metrics/ is answered, and the file is written after the run, unless
\* a custom metric is counted while its lock is taken twice, or the process dies:
\* nothing else keeps them waiting (GetPrometheusMetrics, WriteCSV).
EndsUnlessNested ==
    \A p \in Readers : reader[p].pass # "none" ~> (reader[p].pass = "done" \/ Stuck)

\* A value that was added before the run ended comes to be shown (start, stop).
AddedComesToShow ==
    \A k \in Keys, n \in 1..MaxValues :
        value[k] = n /\ reader[Main].pass = "none" ~> (counter[k] >= n \/ Stuck)

\* A request for /metrics/ is answered as long as the process lives
\* (bot/scenario/README.md: "you can issue the query below to get the Prometheus
\* metrics").
ScrapeAnswered ==
    \A p \in Scrapers : reader[p].pass = "scrape" ~> (reader[p].pass = "done" \/ fatal)
=============================================================================
