# Verification of the handson game server

This directory holds TLA+ modules that model the server and bot code of this
repository, TLC configurations that check them on small instances, and TLAPS
proofs. It models the code under `src/`; the Diarkis library the code is built
on (rooms, matching pool, mesh, Dive storage, users) is not in the repository
and appears only as the code uses it.

## The system

The repository is a template for a cluster of Diarkis servers (HTTP, UDP, TCP,
MARS) written in Go, with load-testing bots. Servers register handlers and hooks
with the library at start-up (`cmds/main.go`); the library calls them from many
goroutines. The handlers keep little state of their own: it lives in rooms, in
the matching pool, in the Dive storage, and in closures handed to the library.

| Component | Source | State | Operations | What is hard |
|---|---|---|---|---|
| Matchmaking commands | `cmds/custom/matchmaker.go` | rooms, entries of the matching pool, a tick closure per room (`timeCnt`), a search's `index`, `joinedRoomID`, `isRoomFull` | add (100), search (102), push complete (103), tick | joins race for seats, stale results, entries overwritten, expired or removed under the tick's feet |
| Online status | `lib/onlinestatus`, `cmds/http/onlinestatus.go`, `cmds/custom/onlinestatus.go` | one status per user in the Dive storage, TTL 10 s | write on connect and on keep-alive, list over nodes | read-then-write, nothing removes a status, RPC per node that may fail, storage lost with its node |
| Room owner | `cmds/room/main.go` | on-join callback of a room | after-create and after-random hooks, owner change, announce | owner, members and announcement read and sent at different times |
| Remote rooms | `lib/meshCmds`, `cmds/http/room.go` | `seen` nodes, room and dummy user on the target | HTTP create, mesh request, reply | random draw over flapping nodes, lost request or reply |
| P2P | `cmds/custom/p2p.go` | address list in room properties | report, init | list only grows, room may vanish |
| HTTP matchmaking | `cmds/http/matching.go` | matching pool | rules, add, remove, search | entries with foreign metadata share the pool |
| Ticket rules | `cmds/matchmaker/main.go` | tickets of the library | callbacks of two ticket types | parameters that wrap, what a completed ticket tells its members |
| Payloads and packets | `lib/payload`, `bot/field/custom`, `bot/scenario/packets` | none | pack, unpack | lengths read from the payload, byte orders, edited by hand |
| Small commands | `cmds/custom/{main,field,resonance}.go`, `cmds/dm` | none | hello, push, echo, log | nothing |
| Bot metrics | `bot/scenario/lib/report` | counters, gauges, lists under RWMutex | add, average, touch, stop, reset | nested read locks, check-then-act, late decrements |
| Scenario runner | `bot/scenario/main.go`, `server.go` | `gp`, the clients of a run, a WaitGroup | set up, start, wait, end, write | runs over HTTP share `gp`, clients end at any stage of their connection |
| Scenarios | `bot/scenario/scenarios`, `bot/scenario/lib/bot_client` | a bot's session, ticket and room; `UserState` of all bots | run, idle, invite, join, battle, leave | callbacks, battles and `OnIdle` on different goroutines |
| Populations of load bots | `bot/{matchmaker,matchmaker-ticket,group,resonance,field}` | counters of bots | spawn, connect, disconnect, time out | counters changed from callbacks without locks |
| A matchmaker bot | `bot/matchmaker` | `state` and what the loop acted on | search, host, wait, leave | callbacks change the state the loop acts on |
| A field bot | `bot/field` | where it is, where it goes | join, turn, walk | rounding on either side of the axes |
| Lists of load bots | `bot/room`, `bot/sync_obj`, `bot/dm` | lists and counters | spawn, join, hear, report | appends from many goroutines, lists with holes, counts read while they change |
| Entry points, build, deployment | `cmds/main.go`, `servers`, `k8s`, `docker`, `cloud`, `configs` | none | start-up, configuration | nothing to model |

Interactions. The matchmaking commands and the room hooks share rooms, but a room
made by `addToMatchMaker` or `CreateRemoteRoom` never gets the on-join callback
of `cmds/room`. The HTTP matchmaking routes and the commands share the matching
pool. The two front ends of the online status share `GetUserStatusList`. The mesh
carries the RPCs of the online status and the requests of remote rooms. The bots
use the servers as clients do; the programs under `bot/` are processes of their own
and share nothing with each other. Within one of them the library's client calls the
callbacks of a bot one after the other, and everything else on other goroutines.

What makes each part correct:

- matchmaking: one answer per command; the seat answered is the seat taken; a
  search gives up only when every room it found refused; an open room comes back
  to the pool and a full or ended one leaves it;
- online status: a list is complete or an error; a status tells the truth again
  once its user stays put, and does not outlive the user by more than its TTL;
- room owner: nobody in the room is forgotten, everyone hears of the owner that stays;
- remote rooms: an answer always, no refusal without cause, no shared room;
- P2P: no address answered OK is lost, a broadcast is complete and reaches its own room;
- bot metrics: every value counts in one interval, the report after a run is not older
  than what was shown, and whoever asks is answered;
- payloads: what was packed is what is unpacked, and a generated packet without its end
  does not pass for a whole one;
- scenarios: a bot that thinks it is in a session is in that one, a bot never asks for
  two tickets nor stops asking, a run ends with its report;
- load bots: as many bots as were asked for, each counted once, and no report without
  the bots it is about.

PROJECT.json lists the hazards line by line and the properties that cover them.

## Modules

### MatchMaker (with SeatRequest)

`MatchMaker` models `cmds/custom/matchmaker.go` whole. A command occupies a slot
of `Commands`; `cmd[c]` records its stage and the closure variables of
`searchMatchMaker`. A room ID is used once; `members` and `roomState` stand for
the room library, `pool` for the matching library, `advert[r]` for the `mmAdd`
the tick closure of room `r` captured, `since[r]` for `NowSeconds() - timeCnt`
(up to `mmAddInterval`; only "past the interval" matters).

| Code | Action |
|---|---|
| invalid payload, `NewRoom` refusing | `Reject` |
| `addToMatchMaker`: `NewRoom` / `matching.Add`, `timeCnt` / `SetOnTick`, answer | `AddCreate`, `AddPublish`, `AddHook` |
| tick closure: test of time and members / the call it then makes | `TickDecide`, `TickAct` |
| `searchMatchMaker` up to the search / its callback | `SearchStart`, `SearchFound`, `SearchNothing` |
| `join`: `room.Join` / its callback | `JoinAccepted`, `JoinRefused`, `JoinAnswer`, `JoinNext` |
| `removeFromMM` | `MatchingRemove`, within `JoinNext` and `TickAct` |
| clients leaving, time | `Leave`, `Second` |

Every call that other goroutines can overtake ends a step. Which entries match a
search, and in which order, is any injective sequence of the entries under its
matchmaking IDs. `JoinRefused` is always possible: the mesh may fail. Properties
of entries and the wording of answers are left out. The built-in answers of lines
37 and 102 go with the command's own.

Only entries made by `addToMatchMaker` are in the pool. Entries added over HTTP,
whose metadata is the caller's, are left to a later module.

`SeatRequest` is the promise to the client: asked, seated in a room, granted or
denied. A seat is taken by the client of the command, when it sits nowhere, in
a room with a place; "ok" comes only from a seat and "bad" never does.
`SeatsKept` in `MatchMaker` states the refinement.

### OnlineStatus (with StatusBoard)

`OnlineStatus` models `lib/onlinestatus/main.go` and the callers of
`GetUserStatusList`. `fact[u]` is what the user really is in, `store[u]` the
stored status with its seconds left, `keep[u]` the keep-alive handler between its
two reads and its write, `setting[u]` an `OnNew` callback that has not written
yet. `query[q]` is a list under way, kept by position of the request: `todo` the
positions whose node has not been asked, `cur` those the asked node has not read,
`found` what was read. A node loss empties its part of the storage; `SetEx` and
RPCs to it fail. `held` and `away` are history variables. The order of
the reply is abstracted to `found`; the HTTP front end keys the list by user, the
custom command keeps duplicates, and no property tells the two apart. The nodes do
not change the key a user is stored under (no re-hashing).

`StatusBoard` is the promise to whoever asks for a list: one board, without nodes,
leases, handlers and RPCs. A status is put up only for a user that is there (or the last
handler of which is under way), may be lost at any time, and is gone when its user has been
gone for `Term` seconds. A list looks up each position once, at some moment between
question and answer, and is answered with what it found or not at all. `BoardKept` in
`OnlineStatus` states the refinement: `present` is who is connected or being handled,
`shown` the stored status without its seconds, and a list is `open` whether it waits for an
RPC or between two (`SeenList`, `SeenStatus`).

### RoomOwner

`RoomOwner` models `cmds/room/main.go` for one room ID. Hooks and callbacks under
way occupy `Slots`: the after-command hook (`AfterCommand`, `SetCallback`), then
`ReadOwner`, `ReadMembers`, `Announce`; `onRoomOwnerChange` starts at
`ReadMembers` because the library passes it the owner. `heard[u]` is the set of
owners a member was told of since it joined, `latest[u]` the last of them; `covered`
records who joined once the callback was set, `crossed` that an announcement of an earlier
owner was under way (`Announcing`) when the owner last changed. Such an announcement may
reach the members after that of the new owner: the code lets the last word be a stale one,
and `OwnerTold` says that nothing else does. A member is `Owed` the owner when it joined
after the callback was set, or is in a room of the create command once it is. The
definitions are named `OwnerInit`, `OwnerNext` and so on, because `MCAwaited` extends the module.

### RemoteRoom

`RemoteRoom` models `lib/meshCmds/main.go` and `cmds/http/room.go`. `Probe` is one
draw of the loop with its two looks at the node; `remote[q]` is the request on the
target, which may be served after the caller was told of a failure. Rooms and
dummy users end at their TTL at any time. The model takes the list of nodes to be non-empty:
with an empty one the code draws an index of an empty slice (`lib/meshCmds/main.go:35`, `36`)
and panics, whatever the library's `RandomInt` returns, and the caller is answered nothing.
`CallerAnswered` says nothing of that case.

### P2P

`P2P` models `cmds/custom/p2p.go`. `prop[r]` and `addrs[r]` are the room property
`p2pAddrList` and the list in it; `cmd[c]` is a handler with its local variables
(the room it looked up, the address, the list it read) between the calls it makes
to the room library: `Report` / `UpdateList`, `UpdateInvalid`, `UpdateNothing` for
`reportP2PAddr`, `InitP2P` / `ReadList`, `ReadNothing`, `ReadInvalid` / `SendList` for
`initP2P`. `heard[u]` is the last broadcast a client heard. A list, once there, is
written by the reports only; before that something else may have been stored under
the name (`StoreOther`), which the code provides for. `UpdateProperties` does not run
its callback for a room that is gone, and `GetProperty` returns nil.
What is sent (`lib/payload/p2p.go`) is in `Packets`.

### Metrics

`Metrics` models `bot/scenario/lib/report/report.go` for one run of a scenario, from
the reset of the tables on. `value`, `total`, `counter`, `running` are the fields of the
metrics object of a key (`total` counts the values it sums up: what a value is plays no
part); `shown` stands for `gauge` and is the sum of all it has shown. `kind` says
whether a key is of the command metrics, whose three tables are one here, or of the
custom ones. `lock` and `holders` are the object's `sync.RWMutex`, in which a waiting
writer keeps new readers out; `table` is the lock of the table. A bot counts by `Count`,
`CountLock`, `CountAdd`; the goroutine of the object (`metrics.start`) goes from
`TickStart` to `TickCount` and round again; `reader[p]` is a pass over the tables: a
request for `/metrics/`, or `StopAllMetrics`, `PrintAllMetrics` and `WriteCSV` one after
the other. No lock guards the maps against a pass: a new key entered meanwhile may be
visited or not, or kill the process (`fatal`).

### Packets

`Packets` gives every payload as a layout (`PackLayout`, `UnpackLayout`: the sequence of
its fields in the order the code packs and unpacks them) and models `Pack` and `Unpack`
over bytes: what is appended, where the offset goes, which size is compared with which
length, where the code runs over the end and where it returns an error. A byte has
`Byte` values (256 in the code); sizes of two bytes wrap at `Byte^2`, as `uint16` does.
A packet is made, sent whole or without its end (`Send`, `Cut`), and unpacked
(`Receive`). Layouts nest, so the operators are recursive, and nothing is proved about
them. `Awkward` names the whole payloads that the matchmaker's `Unpack` refuses or, for a
search without a matchmaking ID, misreads; and `Frame` and `Sync` hold floats, whose byte
order `packets_floats` is about, so that of whole ones `RoundTrip` says nothing. A slice is
bounded by the length of what arrived. Go bounds it by the capacity: in a buffer with room
behind the payload, `Unpack` of a packet without its end could read on instead of running
over the end, and the model does not show that.

### LoadBots, TicketBots, MatchBot, FieldWalk

`LoadBots` is the skeleton that `bot/field`, `bot/group`, `bot/matchmaker` and
`bot/resonance` share: a goroutine per bot asks for an endpoint (`Endpoint`), connects
(`OnConnect`, which starts the bot's loop: `CountRead`, `CountWrite`), is disconnected
(`OnDisconnect`, `UncountRead`, `UncountWrite`) and comes back or gives its place up
(`Respawn`). What the programs do differently is `Uncounts`, `LooksFirst` and `Atomic`.
A plain `botCounter++` is two steps; `raced` records that an update was lost.

`TicketBots` is the same of `bot/matchmaker-ticket`, where a round of `spawnBots`
(`Begin`, `spawnBot`, `End`) has a bound that moves while it runs, and a timer
(`Timeout` to `Disconnect`) counts off a bot that its callback counts off too.

`MatchBot` is one bot of `bot/matchmaker`. The loop acts on `state` (`Search`, `Host`,
`Wait`, `WaitOver`, `Leave`) and then notes what it has acted on (`Note`); answers and
pushes change `state` at any point in between. State 17 is missing in the code's list
of cases, and a bot that gets there leaves: so it does in the model.

`FieldWalk` is the walk of one bot of `bot/field`: a turn drawn until it leads to a
point of the same quadrant (`Move`, or `Stand` after 20 draws), nine `Sync`s of a ninth
each and one with the end (`Walk`, `Arrive`), each taken by the field when its goroutine
runs (`Taken`). Angles are `Turns`: `movementRange` times cosine and sine, in fractions of
`Scale`; `/` and `int()` of Go round towards zero (`Truncate`).

### ListedBots, DmBots

`ListedBots` is `bot/room` and `bot/sync_obj`, of which the second was written after the
first. `append` of `bm.bots` is `AppendRead` and `AppendWrite`; the report is a pass
(`PrintStatus`, `PrintTotal`, `PrintAverage`, `ResetCnt`) that reads the list again at
each step, as the code does. A `nil` on the list, or no bot at all in `bot/room`, ends
the process (`Crash`). Where the two programs differ, `program` says so.

`DmBots` is `bot/dm`: `main` spawns one bot after the other, `StartLoadTest` starts
`Howmany` goroutines over a list that may be shorter (`StartOne`), each draws a target
(`Draw`) and sends; `Count` is a goroutine that waits for the lock of the report.

### ScenarioRunner, SessionScenario, TicketScenario

`ScenarioRunner` is a run of `bot/scenario`, from `Setup` over the goroutines of its
clients (`Begin`, `Ran`) to `WriteCSV`. Every run writes the one `gp` and reads it again
at each step, and `Begin` builds whatever scenario `gp` names by then; `alone` records the
run that nobody has followed. The parameters are JSON that the user writes, and `fits` is
what the model keeps of them: whether each value drawn from them is of the type that is
asked for. Where it is not, `setup` returns an error (`SetupFails`, as when there is no
scenario of the name), or panics on a pattern that is no object (`SetupPanics`), or
`ParseParam` returns an error to a goroutine that ignores it and then asks the scenario for
its user, which dereferences parameters that were never set (`Begin`, to `unparsed`). As
`GenerateParams` draws anew for each client, one client may fail where another does not. A
`howmany` that is negative, which stands in the model as -1, passes `setup` and ends the
process in `start` (`StartPanics`). `CanEnd` is when `OnScenarioEnd` of a client returns:
`TicketScenario.OnScenarioEnd` uses its metrics and its connection, which a client that
failed does not have. `RunCrashExplained` names these causes, and is about the steps of the
runner alone: what `Run`, `OnIdle` and the callbacks of a scenario may do to the process is
in `TicketScenario` (`CrashNeedsTurn`). A request that writes the maps of `gp` while
goroutines of an earlier run range over them, which Go may end the process for, and a body
of `null`, which empties `ss`, are left out; in the first, the run is not alone.

`SessionScenario` and `TicketScenario` model one run of bots with every handler. A bot
and the server exchange messages through queues (`cmds`, `answers`); a bot takes one
answer at a time, and `OnIdle` runs in steps of its own beside it. In `SessionScenario` the
invitation of idle owners is `SearchSome`, `Get`, `Set`, `SendInvite`: `UserState` is
searched, then read and cleared user by user. In `TicketScenario` the matching server and
the turn server may be one or two (`apart`), and with that one client or two; `battle` has
two steps between its calls, and each callback that uses a client that is not there
ends the process (`crashed`). What the servers do is `Create`, `Join`, `LeaveSession`,
`Info`, `Invite`, `Refuse` and `Issue`, `Complete`, `Lapse`, `Broadcast` and so on: external
but for `Complete`, whose message the callbacks in `cmds/matchmaker` make.

### Names and MC modules

`Names` declares the constants the server components share. `MCMatchMaker`,
`MCOnlineStatus`, `MCP2P`, `MCMetrics` and `MCPackets` extend the module they are named for
with model values, functions that the configurations assign (`Issuer`, `Home`, `Facts`)
and, for the matchmaker and P2P, the symmetry set. `PacketSamples` has the values that
`MCPackets` and `MCBots` send.

`MCAwaited` and `Bots` each hold several components that share nothing. The
variable `unit` names the one that runs in a behaviour; the others keep the state they
start in, or have no value. Every behaviour of such a run is a behaviour of one component and no
component's is left out: the disjoint union of their state graphs, checked at once.
`Bots` declares the constants of all programs under `bot/`, states in `BotsAssumption` and
`NoneAssumption` what is assumed of them, and wraps each property as one of the unit it is
about (`In`); `MCBots` gives it values and adds the packets. In `MCAwaited` the remote rooms
are two units: `remote` has one request while the nodes come and go, `rooms` has two while
the nodes stay as they are.

## Runs

| Run | Instance | Shows |
|---|---|---|
| `matchmaker` | 2 clients, 2 rooms of 2 seats, 1 matchmaking ID, 2 unique IDs, 2 results per search | one answer, the trail of a search, entries lead to rooms of their own key |
| `seats` | the same, 1 result per search | the commands implement `SeatRequest` |
| `matchmaker_live` | the same, 1 unique ID shared by both rooms, which are made in order | open rooms come back to the pool, full and ended rooms leave it |
| `matched_push` | as `matchmaker` | violated: the clients matched earlier are not pushed the completion (README.md:297) |
| `awaited` | room owner: 2 users, 2 hooks and callbacks at a time, the creation hook included; remote rooms: 2 nodes, 1 caller, or 2 callers and 2 rooms; online status: 1 user, room and session, TTL 2; matchmaker bot: 3 rounds of waiting, 2 pushes | nobody owed the owner is forgotten, members hear of the owner that stays, callers are answered, not refused without need and never given the same room, a status comes to tell the truth and keeps coming back, and a matched bot leaves |
| `status_lists` | online status: 2 users on 2 nodes that connect and disconnect, or 1 that enters and leaves a room too; 1 list, of five that stand for all, of up to 2 users (and 3, refused), TTL 2 | complete lists, statuses expire, and the handlers implement `StatusBoard` |
| `offline_listed` | online status of `status_lists`, with rooms | violated: users that are offline are listed (README.md:509) |
| `p2p` | 2 clients, 2 rooms, 4 commands, 2 addresses | reports are kept, broadcasts are complete and stay in their room |
| `packets_floats` | 17 kinds of payload, bytes of 16 values | violated: what `Pack` made of a vector `Unpack` does not return (diarkisvector3.go:83) |
| `metrics` | 1 bot, 1 request for `/metrics/`, the run's goroutine, 1 key of either kind, 1 value | intervals add up, the end falls behind nothing, locks come back, all end unless the read lock is taken twice behind a writer or the process dies |
| `scrape` | the same | violated: a request for `/metrics/` waits for ever (bot/scenario/README.md:107) |
| `bots` | one of the programs under `bot/` at a time: 2 bots (3 in `bot/dm`), 2 clients in the life of each, 2 sessions, 2 matches, 2 runs of up to 2 clients, a map of 49 with a range of 12, and the payloads of `packets_floats` | populations, lists and reports under races and refused endpoints; the two reasons for which a matchmaker bot stops doing anything; what scenarios know of their sessions and tickets; what can end a process; where a field bot walks; payloads survive |

Bounds, and why they are enough. Two clients and two seats are the least that can
fill a room, lose a race for a seat and find an earlier member to be told; a
third client would take the part of one of the two. Two results let a search fail
once and go on. `AddInterval` and `MaxTTL` of 1 let every order of renewal, expiry
and tick occur. One shared unique ID makes the two rooms fight over one entry. In
`status_lists` two users connect and disconnect, or one enters and leaves a room as well
(`moves`): what a status says plays no part in its lists, and `awaited` has sessions.
The lists asked for there (`Asked`) are the empty one, one user, two on two nodes, one user
twice, and one too many; the others differ from these by the names of the users.
The two slots of the room owner are a total: while the creation hook is under way one
callback overlaps with it, and once it has ended an on-join callback and an owner change
overlap with each other. All three at once are left to `OwnersAreTold`, which holds for any
`Slots`. Four commands are two reports and an initialisation with one more to
overtake any of them. In `metrics` one value may come at any point of an interval, of a
request and of the end of the run; more of them (`MaxValues`) are left to the proofs.

In `bots`, two bots are a race, and two lives (`MaxLives`) let a bot that came back race
with its own last callback. Two clients over a `totalBots` of 1 overfill the house; with 1 the bound of the spawning
loop, which moves while it runs, stops nothing that a fixed one would let pass, and
`OverfullBotsExplained` has it for any number. Three
bots of `bot/dm` are one left out between two. `MaxCount` and `MaxMessages` of 2 and 3 let
a message come before and after each step of a report. Two members fill a session, so
that an owner has one to invite; two owners who invite the same user take a third user, whom
only `SessionsKnown` and `StraysHaveForgotten` have. `MaxQueue` of 1 is a
queue per bot and direction, and a server's answer waits for room, so that answers and
commands cross. Two matches are the least after which a bot has registered its callbacks
twice; that both of them are called, and two answers come of one, takes a longer queue, and
is left to `TicketsAreChained`, which holds for any `MaxQueue`. A second run of up to two clients grows or shrinks `gp` under the first, or
fails in `setup` and leaves `gp` half filled. The map
has quadrants of 24 by 24, twice the range; the turns include one of 30 degrees, whose
ends are rounded; `MaxSyncs` of 1 bounds the `Sync`s under way only, as no property relates
two of them; the proofs need no such bound. `Programs` names one program of
each way to count (`field udp`, `matchmaker`, `resonance`): `group` counts as `matchmaker`
does. With 16 values to a byte, 255 and 256 are the largest size that fits two bytes and the
first that does not; `Samples` has both, empty and nested values, texts that look like
sizes, and frames whose parts fit while the whole does not.

The bounds are `Limit`, `MaxMembers`, `SearchLimit`, `Slots`, `MaxTTL`, `StatusTTL`,
`MaxValues`, `AddInterval`, `MaxPushes`, `MaxLives`, `MaxCount`, `MaxMessages`, `MaxSyncs`,
`Starts`, `MaxMember`, `MaxQueue`, `MaxMatches`, `MaxClients`, `Byte`, `Samples` and the sets of
names; the histories grow no further than the sets they are drawn from.

Symmetry is used in runs without liveness only: rooms and unique IDs of the matchmaker,
clients, rooms and addresses of P2P, bots (which are the clients, users and runs too) of
`bots`. No action tells two of them apart; the order in which sets of them are walked is
left open, and indices are numbers. `matchmaker_live` has its two rooms made in a fixed
order (`InOrder`) instead.

Deadlock is not checked where a component comes to an end: a room whose members
have all left, rooms and commands used up, a matchmaker bot that has left or is quiet
(`QuietExplained`), bots that were dropped, counts and matches at their bound, a process
that has died (`CrashExplained`, `CrashNeedsTurn`, `RunCrashExplained`, `EndsUnlessNested` say
when), a packet that was received.

Fairness. Handlers, callbacks and ticks of live rooms run to their end (weak
fairness of the steps of each command, tick, keep-alive and announcement): they are
goroutines, no step waits for another. So does the loop of a matchmaker bot (weak
fairness of `Loop`), which sleeps and goes on. Time passes. A connected user sends
keep-alives: the server drops one that does not, within `connectionTTL`. A goroutine that can take a lock
again and again takes it in the end (strong fairness in `Metrics`): `sync.RWMutex`
promises it to readers and writers alike. Each node
is drawn in the end by the random loop, which is true with probability one. Nothing
makes a client send, join or leave, a server answer a bot or push to it, a node come
back, or a request reach its target. `MCAwaited` states the fairness of the component
that runs.

## Proofs

Each theorem holds for every value of the constants that satisfies the ASSUMEs of
its module (finite set of users, positive limits, `None` outside the sets it is
added to).

`MatchMaker_proofs`. The inductive invariant is `TypeOK`, `RoomsTied` (what a
room's advert, tick and members say of it in each state), `CommandsTied` (what
a slot holds at each stage: the room of a command, an index within the results,
one `next` per answer) and `EntryLeadsToItsRoom`. `AnsweredOnce` alone is not
inductive: that a failed join ends in an answer or in another try needs the
index to lie within the results, and that an entry leads to a room of its key needs
the advert of a command that has created its room and not yet published it. From
it follow `TypeCorrect`, `OneAnswer`, `EntriesLeadHome` and the action property
`TrailKept`.

The same module proves that `MatchMaker` implements `SeatRequest` (`SeatsImplemented`): the
initial state maps to the initial state, and each action to `Ask`, `Seat`, `Grant`,
`Deny`, `Leave` or a stutter, under the same invariant.

`OnlineStatus_proofs`. The invariant has `Leases` (time away and time left never
exceed the TTL together, from which `StatusesExpire` follows), `HeldStored` and
`Gathering` (a held user of a list is still to be asked for, being read, or found,
from which `ListsAreComplete` follows) and `InRange`.

The same module proves that `OnlineStatus` implements `StatusBoard` (`BoardImplemented`). Each
action maps to one of the board or to a stutter: `KeepAliveRoom`, `SendRPC`, `Receive` are not
seen at all, `NodeLoss` takes down the statuses of its users together, `Second` those whose
lease ends. That a second never leaves a status up for too long comes from `Leases`;
`Attended` (a user that is there or handled is not counted away) maps what `away` is set to;
`Apart` (a position is not both to be asked for and being read) makes a look at it one
`LookUp`.

`RoomOwner_proofs` proves the types, with `Owned`: nobody announces an absent owner; and
`OwnersAreTold`. `OwnerTold` alone is not inductive. `ToldInv` adds `Fresh` (before the room
is made nothing is under way), `ByKind` (only a room of the random command has a hook that ends
without announcing), `Owning` (who is covered is a member, and a room with members has an
owner), and `Uncrossed`: as long as no change crossed an announcement, everything being
announced names the present owner. `SlotSteps`, `CallbackKeeps`,
`RunKeeps` and `UserKeeps` carry it over the steps of a slot and of a user.

`RemoteRoom_proofs`. `Missing` (a node seen, or unavailable now, has been missed
since the question) gives `NoNodeIsJustified`; `Made` and `Told` (a target's room
is its own, a caller's room is its target's) give `RoomsAreTheirs`.

`P2P_proofs`. The invariant says of each handler what it holds at its stage
(`SlotInv`: a room it may name, the addresses it must know in the list it has read)
and that only rooms that were made have members; that lists only grow
(`AppendGrows`, `ExtendsFacts`) carries `ReportsAreKept`, `BroadcastsAreComplete` and
`HeardAreOwn` over the reports of others.

`Metrics_proofs`. The invariant ties what a goroutine has read, and prevCount, to what the
intervals have shown (`TickInv`), and says that, from the end of the run on, whatever is
still to be stored is no less than the counter was then (`EndInv`, `PassInv`): the older
sum that a late goroutine stores was read after the last one shown. `IntervalsAddUp` and
`EndNotBehind` follow; neither is inductive, for both say nothing of values read and not
yet stored. `LockInv` ties each lock to the goroutine that took it and to the step it is at, and
gives `LocksComeBack`: a table waits for an object at most, an object's writer for its readers,
and a reader for nothing but the object it reads. This is what `EndsUnlessNested` rests
on beside fairness: the one circle is that of a reader behind the writer that waits for it.

`Bots_proofs` and `Scenarios_proofs` prove what the programs under `bot/` promise, for any
finite sets of bots, clients and users and any bounds on lives, messages and queues. Each
program has an inductive invariant; its `Unit` lemma carries that invariant to `BotsSpec`,
where the theorems state the properties the run `bots` checks. `TypesAreKept` puts the types
of all of them together.

- `LoadInv` (`PlacesLostByRaces`). The property is about a bot that finds the house full, and
  says nothing of the counter. `Balance` does: the counter, with what the loops that have
  begun have still to add (`Owed`), is the number of bots that hold a place (`Holding`), as
  long as no update was lost. A bot outside then always finds a place (`LoadHasPlace`).
  `NotYet` (the loops of later lives have not begun) keeps `Owed` right when a bot comes back.
  With atomic updates none is lost (`AtomicSteps`), and so `ResonanceKeepsItsNumber` has the
  same without any exception.
- `MatchInv` (`QuietBotsExplained`). `Awaiting` says of every state, not only of a quiet one,
  what will make the loop act; that a failed search cannot undo it needs `MatchForward`: the
  noted state is never ahead of the state, unless the bot is leaving.
- `TicketBotInv` (`OverfullBotsExplained`). As long as nothing has come between a client and its
  place on the count (`Calm`), `botCnt` is the number of clients on it (`CountRight`), a round
  that runs has counted those not yet on it (`RoundRight`), and the two together are no more
  than was asked for (`NotTooMany`).
- `ListInv` (`CrashesExplained`, `NoneIsPrintedTwice`). What has been printed and what is still to
  be printed (`Unprinted`) add up to no more than was heard. While the report
  stands between the total and the reset, what was just printed is still in the counts, and
  only what bots off the list have counted is still to be printed.
- `DmInv` (`LoadIsWhole`). The list is as long as the bots tried so far only if it is
  complete, and then each bot is at its own place (`Tried`, `InPlace`); so a report, which needs
  a list of `Howmany`, is about all of them.
- `RunnerInv` (`RunCrashesExplained`). A `WaitGroup` counts the clients it waits for, whichever `gp`
  they were made from (`WaitGroups`); a run that is alone spawned no more clients than its
  slice holds (`OwnParameters`), and in order (`ClientsInOrder`). What is left for a run that
  is alone are the causes that `RunCrashExplained` names: of the parameters, a negative
  `howmany` or values of other types, and of the clients, one that never connected or whose
  goroutine had not begun.
- `SessionInv` (`SessionsKnown`, `StraysHaveForgotten`). `Agrees` relates what a bot thinks and
  the whole queue of answers it has not heard to the server: what it thinks holds unless a
  leave is to come (`Thinks`), an answer that puts it in a session is true unless a leave comes
  behind it (`Answered`), it never hears that it joined while it is an owner without a
  leave in between (`JoinsAsGuest`), and a session it is in is the last it hears of
  (`WillKnow`). The properties look at one end of the queue; the invariant must at every place
  in it. Each kind of message has a lemma for being appended and one for being heard.
- `TicketInv` (`TicketsAreChained`, `CrashesNeedTurn`). `Chained` counts messages in both queues
  (`CountAppend`, `CountTail`). `Turned` says that a bot without its callbacks has a completed
  match in its queue before any broadcast of a room (`Told`, `Coming`), which is why no push
  finds a client that is not there when one server does both.
- `WalkInv` (`SyncsStayOnMap`, `JumpsAreShort`, `NeverIsCaught`). `SyncsOnMap` is not inductive: that
  a ninth more stays on the map needs how many were told. The invariant says that along each
  axis `cur` is `prev` and so many ninths, or the end. The lemma `Ninth` bounds what one
  rounding towards zero loses, on either side of zero; `Way` carries it over nine;
  `BetweenOnMap` closes the argument, for a map is convex along each axis. `NeverIsCaught`
  follows from `Map` alone: a bot in the outer half of a quadrant can turn in, one in the inner
  half out, provided `2 * movementRange <= Half`. The angles are any set of pairs within the
  range; sines and cosines enter only through it.

The proof of `RunCrashesExplained` showed a gap in the property: a run that has been written may
leave goroutines that have not begun, and these build whatever `gp` names by then. `Unfinished`
now counts such runs too; the instance of `bots` is too small to show the difference.

Only model-checked: everything that rests on fairness (`OpenRoomReadvertised`,
`FullRoomWithdrawn`, `GoneRoomForgotten`, `StatusSettles`, `OwnerHeard`,
`CallerAnswered`, `WaitEnds`, `EndsUnlessNested`, `AddedComesToShow`), which is out of the
prover's reach; `RoundTrip`, whose operators are recursive over layouts; and the four violations.
Every other invariant, action property and refinement of a passing run is a theorem. The types
(`TypeOK` of each module, `TypesOK` of the programs under `bot/`) are theorems only: no run
evaluates them.

## Where the code and its documents disagree

- README.md:297 promises the push 103 to the clients already matched; the code
  pushes it to the searcher only (run `matched_push`).
- README.md:509 says that users who are offline are not in the response; they are,
  until their status expires, less than `userStatusTTL` seconds after the last
  handler of theirs (run `offline_listed`; `OfflineExpires` is the bound that holds).
- bot/scenario/README.md:107 says that a query gets the metrics; with a custom metric being
  counted it may wait for ever, and with it every bot that counts (run `scrape`;
  `EndsUnlessNested` says that nothing else keeps it waiting).
- bot/field/custom/diarkisvector3.go:83 says that Unpack decodes what was packed; `Pack` of a
  vector, a quaternion and the floats of a frame leaves out the reversal of bytes that
  `Unpack` makes (run `packets_floats`; `RoundTrip` shows that all other packets survive).
- README.md:230 says that `rank` has a range of 5; `cmds/http/matching.go:37` defines
  10. No module depends on it.
- README.md:346-369 gives the address report a custom header of 5 bytes; `reportP2PAddr`
  takes the whole payload for the address and never calls `UnpackP2PReport`. README.md:379
  promises "a list of other client's addresses"; the list broadcast holds every address
  reported, the receiver's too. `P2P` follows the code.
- bot/sync_obj/app/bot.go:78 prints the number of messages received where its text says
  they were sent. `ListedBots` counts what was received.

## Not modelled, and the plan

- Entry points, configuration, deployment, logging: start-up, pure I/O. The Diarkis library
  itself is not in the repository.
- HTTP matchmaking (`cmds/http/matching.go`) hands its parameters to the matching library and
  returns the answer: a route has no step another can overtake. The entries it adds reach
  `searchMatchMaker`, whose type assertions they may fail (`cmds/custom/matchmaker.go:111`);
  what an entry holds is the caller's.
- `GenerateParams` and `CollectInputParameters` (`bot/scenario/scenarios/main.go`) compute a client's parameters from JSON,
  without state; of what they return `ScenarioRunner` keeps whether it is of the types asked for (`fits`).
- The gauge of active users (`report.go:142`, `150`): touches and decrements of a count
  beside the set they count.
- What the group and resonance bots send once they run, the list of those a field bot has in
  sight, the CSV files, `http.go` of the bots, `fieldlib`: one request or one print after the
  other, with no state that anything else reads.
- Small commands: stateless.

Hazards seen, and not listed with a property because what goes wrong is outside what
the modules keep:

- `cmds/custom/matchmaker.go:54` writes the metadata map the matching library was given.
- `lib/onlinestatus/main.go:18`: the TTL of a status equals the UDP server's `connectionTTL`
  and is far below the TCP server's.
- `cmds/room/main.go:31`, `38`: the hook reads the user's room again after the command;
  `next` is not called on every path.
- `lib/meshCmds/main.go:35`, `83`: an empty list of nodes is indexed, which panics; a dummy user is left
  behind when no room can be made.
- `cmds/custom/p2p.go:27`, `30`, `60`: a report to a room that is gone is answered OK; addresses are never removed; the
  initialisation asserts the type of the list, which the report only tests.
- `bot/scenario/lib/report/report.go:278`: the maps are read without their lock.
- `lib/payload/matchmaker.go:63`: lengths are taken from the payload.
- `bot/room/app/bot.go:106`: `newBot` gives the bot an empty room after `Connect`, while
  `OnConnect` may already have stored the one it joined: the bot then broadcasts to no room.
- `bot/scenario/scenarios/session.go:198`: the assertion `.(bool)` fails on the new `UserState` of a second run.

Not done: `ActiveUsers` for the gauge; an abstract population that `LoadBots` and `TicketBots`
implement as long as no update is lost; a common abstraction of the leases of `StatusBoard`
and of the entries of `MatchMaker`.
