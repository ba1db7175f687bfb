# TableR: specifications, checks and proofs

TableR is a desktop database client: a React front end (`src/src`) over a Rust
back end (`src/src-tauri/src`) that Tauri connects by commands and events. This
directory holds TLA+ models of its concurrent core, the configurations that
model-check them with TLC, and theorems about them that TLAPS proves.

Paths below are relative to the repository. `PROJECT.json` gives, for every
definition, the lines it models.

## 1. The system

The front end calls commands (`invokeMutation`, `invokeWithTimeout`); each
command is a Tokio task that takes locks on the managed states (the database
manager, the cancellation registry, the sandbox gate, safe mode), and a driver
talks to a server through an sqlx pool. Between two awaits of one task any other
runs, and `select!`, `timeout` and a cancelled connect drop a task's future at
whatever await it has reached. In the front end there is one thread, and the
interleaving is between the continuations of promises.

| Component | State | Operations | What is hard | What makes it correct |
|---|---|---|---|---|
| Query lifecycle (`commands/query`, `database/query_cancel.rs`, drivers) | token per request id; per driver a slot per request with its backend id; the pool | execute, progressive emission, cancel, timeout, fallback to the legacy command | token, lookup, kill, answer and timeout in any order; dropped futures; a request id used twice | a confirmed cancel stops the statement it finds on the server; no slot, token or connection is lost; cut and capped results say so |
| Connection manager (`database/manager.rs`, `commands/connection.rs`, `ssh/`) | driver, type, timeout override, read-only pin and tunnel per id, each under a lock of its own | connect, reconnect, disconnect, rollback, cancel, the guards of a write | five locks one after the other; drops in between; two commands on one id | a published driver is open; tunnels have an owner; the tables describe the last session; a read-only session takes no writes |
| Schema cache (`utils/schema-cache.ts`) | version per scope, entries, loads in flight | getOrLoad, invalidate | loads that end after an invalidation, loads shared by callers | nothing read before a bump is served after it |
| Database switch (`stores/connectionStore.ts`, `use_database` of the drivers) | header, table list, switch queue, fetches; the driver's pool and the database it has on record | switch, refresh, leave, re-open, connect, USE | overlapping switches, late answers, timeouts between two effects, sessions of a pool | the header ends on the last click, the tree is the header's, a statement runs where the header says |
| Query store and result cache (`stores/queryStore.ts`, `utils/query-result-cache.ts`) | busy flag, active request and row count in one slot; cached results | run, cancel, preview, invalidate | several runs in one slot, ending in any order; a result stored after the write that invalidated it | Cancel reaches the newest run; busy means something runs; what is served is not older than a known write |
| Sandbox gate (`commands/query/sandbox_gate.rs`, `utils/rate_limiter.rs`) | permits, attempts per minute and second, breaker per connection | admit, record success or failure | results of executions older than the breaker's opening; `now` read before a lock | an open breaker admits nothing, a half-open one a single probe, and it never sticks |
| Safe mode (`stores/safeModeStore.ts`, `utils/safe-mode-query-guard.ts`, `commands/safe_mode.rs`) | level with override and environment, the level a full-access grant suspended, one dialog; a copy of the policy in the back end | set, grant, return, ask, check again | the level changes between check and run; requests replace each other in the dialog; two copies of the policy | what needs an approval runs on its own; a suspended level comes back |
| Rewind checkpoints (`commands/rewind.rs`, `storage/checkpoint_store.rs`) | manifest, captured rows, retention | capture, restore, prune | crashes between files, restore over newer changes | what is listed can be restored, and is what was there |
| Table grid (`components/DataGrid`) | scope, pages, fetches in flight, counts; a cache of pages that outlives the grid | fetch, scroll, sort, filter, refresh, write, leave, show | answers and refreshes of an earlier scope, cached pages of other scopes, writes by others | the rows are pages of one scope; no kept page hides a known write |
| Table editing (`commands/table.rs`, `stores/change-tracking-store.ts`) | pending changes | edit, undo, apply | a batch that fails half way | what is shown as applied was |
| Connection storage (`storage/connection_storage.rs`, `storage/file_storage.rs`) | a file, its backup, its lock; a list in memory | load, save, delete, migrate secrets | a crash between two renames; loads beside writes | the last save is read again; the list in memory is the file's |
| Schedules (`commands/schedule.rs`, `storage/schedule_storage.rs`, their stores) | due times, runs | create, dispatch, record | restarts and missed times | a due run is dispatched once |
| Tabs, history, favourites, settings | lists | edit, persist | restore at start | what was open comes back |
| Health monitor (`hooks/useConnectionHealthMonitor.ts`) | a timer per connection | ping, mark lost | a late answer of a ping | a live connection is not dropped |
| Workspace synchronisation (`commands/workspace_sync.rs`, `workspace_bundle.rs`) | bundles | export, import, merge | conflicts | no object is lost by a merge |
| AI assistant and its skills, rules, commands, memory | conversations, files | chat, tools | an external model | tools go through the guards above |
| MCP server (`mcp.rs`, `mcp_local.rs`, `mcp_security.rs`) | sessions, approvals | the same tools | limits per client | as above |
| Drivers (`database/*.rs`) and sidecars (`database/sidecar`) | pools; requests pending on a process | queries | the process dies | every request is answered |
| CSV import (`commands/table.rs`, `database/sidecar`, drivers) | a flag per import, a channel of rows, a transaction; for a sidecar a pipe and the process's own channel and flag | import, cancel, timeout | a thread, a driver and a process that each look at a flag in places of their own; a channel closed by success and by failure alike; a process that dies | the file is committed whole or not at all, and the user is told which; a cancel ends it |
| Export, restore, terminal, watcher, plugins, updates | files, processes | I/O | operating system | outside these models |
| User interface (`components/`, `hooks/`) | views | rendering, handlers | | its handlers enter the models as actions |

Interactions that matter for the models: the query store calls `execute_query_progressive`
and may fall back to `execute_query` under the same request id; `cancel_query`
reaches the running command through the token and the server through the
driver's registry and a second connection; every write command reads the pin,
the type and the driver of the connection manager, one lock at a time;
`switchDatabase` calls `use_database`, which acts on the pool that the query
commands take connections from, and then fetches tables through the schema cache;
a schema mutation invalidates the schema cache and the result cache; every statement
passes the guard of Safe Mode in the front end and a second check, with a copy of the
policy, in the back end; a write announces `table-data-updated`, which the grids
that are mounted hear.

## 2. Modules

Every action is one run of the code between two awaits. History variables are
named as such in the modules; they record what a property compares and guard
nothing. The constants named `Max...` are bounds of the runs, not of the code.

### QueryLifecycle (`QueryLifecycle.tla`)

Two commands, `execute_query` and `execute_query_progressive`, and `cancel_query`.
`stage[r]` follows the command of request `r`: submitted by the front end, waiting
for a pool connection inside `select!`, begun (a `CancelScopeGuard` is alive),
running (the backend id is registered), emitting row batches, finishing, returned
and done. `active` and `fired` are `QueryCancellationState` and its tokens, `slots`
the driver's `QueryCancelRegistry`, `pool` and `server` the sqlx pool and what runs on
each of its connections. Registering the backend id and sending the statement are not one
moment for the server: `arrived` has the connections whose statement has reached it
(`StatementArrives`), and a kill before that finds an idle session. `TokenWins` and
`TimesOut` drop the future wherever it is: the guard removes the slot (`LeaveDriver`), and
a connection in the middle of a statement stays `draining` until the server replies.
The result is marked by two parties: the driver when it stops at its row cap
(`RowsCapped`, `capped`, `ResultSoFar`) and the emission loop when its token fires (`Emit`).

`cancel_query` is a row of steps, each of which others may precede: `CancelSignal` (the token),
`CancelLookup` (the registry), `CancelKill` (a second connection of the pool is taken for KILL QUERY
or `pg_cancel_backend`), `KillLands` (the server runs it; a killed statement counts as ended
then) and `KillAnswers` or `KillFails`. `CancelFails` is the acquire timeout and bounds the
wait for the second connection only, as in the code. `polled` says that an execution went on
after its token had fired, for `select!` polls its branches in random order. `early` and
`missed` are history: the cancels that came before the backend id was known, and the kills
that came between its registration and the statement's arrival.

External, modelled from its use: the server (`StatementArrives`, `RowsCapped`, `StatementEnds`,
`ServerReplies`, `KillLands`).

### ConnectionManager (`ConnectionManager.tla`)

The five tables of `DatabaseManager` for one id, under any number of connects,
disconnects and write commands. `pc[o]` is the await a command has reached: connect
publishes the driver, then type, override, pin and tunnel, each its own action;
disconnect removes them in the code's order. `InterruptConnect` is the token or the
45 s timeout, `InterruptDisconnect` the 15 s timeout, also of the rollback of a failed
save. A session is named by the attempt that opened it. `leaked` names the tunnels
that the code is seen to forget (a forwarder whose `forward_port` failed, a committed
handle dropped before it is stored), so that `TunnelsOwned` speaks of all the others.

### SchemaCache (`SchemaCache.tla`)

`getOrLoad` and `invalidateSchemaCache`. A cached value is the version of the
server's schema it was read at: `Sample` is the moment the server answers,
`Finish` the moment the answer reaches the cache. Loads are keyed as in the code,
by the cache key and the version, in one map for the four caches (`NameOf` maps the
kinds to the last part of their key). `bumped` and `announced` record the server's
schema at the last bump of a scope and at the last invalidation that covered it.

### DatabaseSwitch (`DatabaseSwitch.tla`)

`switchDatabase` with its sequence number and its queue, `fetchTables` with its
deduplication and staleness guard, the connects and the ways to another
connection, and below them `use_database`: MySQL sends USE to one connection of the
pool and records the database; PostgreSQL opens a pool, replaces the old one, waits
until it is closed and records. `session` is the database of each open connection,
`base` that of the connections to come. The table list is the database it was read
from. `kind` is the driver, chosen at the start; the 15 s timeout (`UseTimesOut`) is always there.

A connect is `StartConnect`, `Connected` (`markConnected`, which shows the header with an empty list)
and, once the start-up commands have ended, `LoadMetadata`, which fetches the tables of the profile's
database whatever the header shows by then; `starting` counts the connects in between. The connection form puts
the screen aside (`before`) and back again when its connect fails (`ConnectRestores`), header and
tables alike, also those of the connection it left (`LeaveByForm`); a saved profile's connect leaves the
error screen (`ConnectFails`). The start-up commands are taken not to change the database.
`restored` (a failed connect put a header back over other tables) and `torn` (a timeout stopped a
`use_database` between the new pool and the record, and nothing went through since) are history.

`CalmSpec`, `StaySpec` and `ReopenSpec` restrict what the user does, for the statements that
hold, or fail, only then; none restricts timeouts, refusals or failures.

### SandboxGate (`SandboxGate.tla`) and CircuitBreaker (`CircuitBreaker.tla`)

`execute_sandboxed_query` on one connection. `pc[e]` is the check an execution has
reached: the permit, the limit per minute, the limit per second, the breaker, the
statements, the report. Each check reads the time and then waits for a lock, so
`now[e]` may be older than the clock when it is used; reading the time and taking the
lock are different actions, except where no await lies between the end of one check
and the reading of the next. The attempts a window retains are a function from
executions to times instead of a vector, for each execution is counted once.
`breaker` is the `BreakerEntry`; removing the entry and an entry of zeros behave alike.
`probe`, `passed` and `recent` are history. What the statements do, and the guards
before them, is one choice between `Fails` and `Succeeds`; permits of other
connections are not taken, which leaves out waiting only.

Time is a bounded clock. `Tick` lets it pass while a lock is waited for, by `MaxWait` ticks at most. The code
states no bound: the locks are held over a few assignments and never over an await, so a wait is short
against the windows, and the model takes whatever it is as a parameter, 1 in the run. `Slack` of the abstract
specification is that wait, and the windows of `DriverCallsBounded` are shorter by it.

`CircuitBreaker` is what the breaker promises, without reports in flight, failures
counted or times read early: closed, open until a time, probing. `ImplementsBreaker`
is its specification under the refinement mapping of SandboxGate (`Phase`, the
executions admitted).

### QueryStore (`QueryStore.tla`)

The runs of the editor, of the sandbox and of the agent and the commands that write,
over one slot (`isExecutingQuery`, `activeQueryRequestId`, `progress`). `Ask` is the run up to
the wait for Safe Mode, `Allow` takes the slot, `Execute` is the moment the back end
reads or writes (external), `Answer` and `Failed` are the two ends; `Hit` answers from the
cache without the slot. Rows are the database they are of and the number of writes
committed before. The Map of the cache is a function from keys, with the order of its
keys as a relation (`before`), because expiry, hits and eviction depend on nothing
else; an entry may be too old at any lookup. `ExecuteLate` is a write the front end gave
up on. `newest`, `acked` and `disturbed` are history.

### SafeMode (`SafeMode.tla`)

One connection. The settings with override and environment, the suspension of the
level by a grant of full access in the AI panel and its return, restarts, and below
them the guard: `Guard` reads the level, `Classified` uses it after an await, the request
for confirmation replaces the one in the dialog, `Approve` and `Decline` answer the one
shown, `Timeout` and `CloseStale` are what is left of one that was given up. `Execute` is
the back end's check with `policy`, its copy, which the commands in `pushes` change in
any order or not at all. A statement is the class its parser puts it in. `chosen`,
`answered` and `unapproved` are history.

### TableGrid (`TableGrid.tla`)

One table and one tab of it. A scope is a sort with a filter. `FetchEffect`, `Reload`,
`WriteDone` and `TableDataUpdated` are the four callers of `fetchData`, which bumps the
request id and drops the pages when the scope changed and serves a page of the cache when
it has one; `Land` is an answer, with rows of any version since it was sent. `due` is the
effect that a render still owes. A write of the grid refreshes in the closure of the
render that sent it (`w.scope`). `Leave`, `Show` and `CloseTab` unmount and mount the grid,
for only the tab in front has one, while the cache stays. `known`, `missed` and `late` are
history.

### ConnectionStorage (`ConnectionStorage.tla`)

`connections.json`, its backup, the lock file, `write_guard` and the list in memory.
`RemoveBackup`, `Rotate` and `Replace` are the calls of `write_json_atomically_inner` that a
crash can come between; a load that finds plain secrets rewrites the file and then
removes the backup without the lock (`Scrub`). `Fail` is an error of any call, with the
renaming back that the code tries, and `Crash` leaves the files only. `saved`, `cuts`,
`clobbered` and `overtaken` are history.

### CsvImport (`CsvImport.tla`)

`import_csv_file_atomically` with everything it starts. `parser` is the thread that reads the
file and waits for room in the channel (`Parse`, `SendRow`); `cmd` the command, whose `Timeout`
drops the driver's future wherever it is; `tx` the transaction of `insert_table_row_stream_atomically`
(`Begin`, `TakeRow`, `EndOfRows`, `Commit`). In an import through a sidecar the same driver runs in
the process and takes its rows from there: `pump` is `stream_import` in the host, `wire` the pipe,
`ServerReads` the loop of `serve`, `Dies` and `Eof` the end of the process and of the loop that reads its answers.
A chunk is its rows one by one. Of a row only whether it parses is kept.

What a dropped future leaves behind depends on what the compiled driver works on (`held`, chosen at the start). The
transaction of a "pool" connection is rolled back, unless the server has the COMMIT. DuckDB works in a "thread" of
`spawn_blocking`, which nobody can drop: it keeps the receiver, goes on with the rows until it sees the flag, and may
commit (`Abandoned`, `TookAll`). SQL Server has one "session" for all commands and a BEGIN TRANSACTION sent as text, which stays
open on it (`tx = "left"`).

The row count before the import is the phase "counting", which `StartImport` ends, the one after it the phase "verifying",
which `Verify` ends; neither has a timeout. `told` is what the grid shows: the rows of a success, and for any error
whatever "CSV import was rolled back". History: `cut` (the channel was closed by a thread that had given up), `late`
(the timeout came when the rows had ended) and `unheard` (a COMMIT took effect and nobody was told).

External: the database server, and the death of the process.

### MC modules

There is one `MC...` module per run configuration's module: it holds the definitions the
configurations assign to constants (the profiles, the names of the kinds) and the symmetry
sets. Symmetry is used in runs without liveness properties only, and the symmetric constants
are compared with nothing but themselves.

## 3. Runs

| Run | Configuration | Question and result |
|---|---|---|
| query_lifecycle | 2 requests, 1 cancel, 3 connections, 2 statements, 2 row batches | slots, connections, cancellability, confirmed cancels, truncation: hold |
| query_liveness | 2 requests, 1 cancel, 1 connection | every request settles if timers fire; every cancel answers if the server answers its KILL: hold |
| connection_manager | 2 connects, 1 disconnect, 1 write, 2 profiles | published drivers, tunnels, tables after commands that do not overlap: hold |
| schema_cache | 2 callers, 2 scopes, 1 mutation, 2 bumps each | bumps, shared loads, every caller answered: hold |
| database_switch | 2 databases, 3 switches, 1 start-up, PostgreSQL | the last click, the tree, the queue: hold |
| database_switch_calm | 2 databases, 3 switches one at a time, 1 start-up, 2 connections, 1 statement, both drivers | on a driver that replaces its pool a statement runs where the header says and the pool follows the header, but for `torn`: hold |
| sandbox_gate | 4 executions, 2 permits, 2 statements, limits of 3 in 4 ticks and 2 in 2, threshold 2 within 3, open for 2, locks waited for 1 | the gate implements the breaker; a half-open one has its probe; failures in a row open it; the windows less the waits: hold |
| query_store | 2 runs, 2 databases, 1 read, a cache of 1 entry, 1 preview, 1 write | the slot is the newest run's, the store is not left busy, cached rows are true: hold |
| safe_mode | levels 0 and 1, override 0, 2 workspaces, 2 runs of an update or a file read, by the user, with a standing approval or by the agent, 2 policy commands in flight | approvals are a statement's own; a suspension is granted and returns: hold |
| table_grid | 2 scopes, 3 pages, 2 fetches, 1 count, 1 write | rows of one scope; no kept page hides a known write: hold |
| connection_storage | 3 calls, 2 connections | nothing saved is lost; the list in memory is the file's: hold |
| csv_import | 3 records, one perhaps bad, channels of 1 row, batches of 2, compiled drivers on a pool, in a thread and on a shared session, and a sidecar | committed whole but for `cut`; success is told truly, and rollback but for `cut`, `late`, `unheard` and a transaction left on the session; the import ends by its timer, a cancelled one of a compiled driver without it: hold |

Each property of a passing run is broken by a mutant of the code's definition
(`PROJECT.json`, `mutants`), such as a slot that stays when a future is dropped, a
reconnect that does not clear the pin, a load keyed without its version, a switch
that is skipped on the last completed one alone.

### Bounds, and why they are enough

- Two requests, because the hazards are between a request, its cancel and one other
  holder of the pool; one of them is cancelled, at any time, for two cancels meet only
  as two users of the pool, which a request is as well. Three connections, so that
  a kill finds one while both requests run, and one in `query_liveness`, so that it does
  not. A request id is used at most twice, as the fallback of the front end does. Two
  statements are one boundary between statements; two row batches are an emission cut
  before the first, between them and after them.
- Two connects and a disconnect on one id: a third command meets what two have
  left, and a table is only ever read together with the last two writers. The two
  profiles differ in everything the tables record.
- Two scopes, because a connection-wide invalidation treats them together and finds
  one by the other; two callers, because a load is shared by two. `MaxSchema` and
  `MaxVersion` bound the mutations and the bumps of a scope.
- Three switches: one that runs, one that is superseded, one that supersedes. Two
  databases, one of them the profile's. `MaxSwitches` bounds the calls, `MaxStarts` the start-ups
  that run at a time. The first run is about the store alone, which sees of a driver only whether it
  succeeded, so that one driver and no statement are enough; the second has both drivers and a statement.
- Four executions: two whose failures open the breaker, one admitted before that
  and reporting late, one probe. Each limit and each duration is the smallest at which
  it can be reached and left again within `MaxTime` ticks; the limit per minute is above
  that per second, as in the code, so that either can be the one that denies.

- Two runs of the store: one in the slot and one that takes it; a third meets what two
  leave. A cache of one entry is full at once, two databases make two keys. One write
  separates what was read before it from what was read after.
- The levels 0 and 1 and the override 0 let a statement pass, be blocked and be asked
  about; the production environment adds level 4. Two workspaces, because one grant may outlive the
  other; two policy commands, so that they can overtake each other. An update and a
  read of a file take every branch of the guard between them.
- Two scopes: the old and the new one. Three pages: a first, one in the middle and
  one left behind by a scope change. Two fetches, so that an answer of each can be
  the late one.
- Three calls: a writer, a second writer and a load beside them. Two connections
  distinguish a list from the last one and from the empty one.
- Three records in batches of two: a full batch and one that the end fills up; one record
  before a bad or a cut one, and one after it. Channels of one row block the thread and the
  sidecar's loop as soon as nobody takes rows.

The proofs of section 4 hold for every value of these constants.

### Fairness, and why the code justifies it

- QueryLifecycle: Tokio runs a ready task (`Command`), `select!` polls a fired token
  again until the future ends (`TokenWins`), the front end reads settled promises, and
  `cancel_query` gets its second connection or gives up at the acquire timeout
  (`CancelSteps`). `EveryRequestSettles` assumes in addition that timers fire
  (`TimersFire`), and nothing of the server. `EveryCancelAnswers` assumes one thing of it
  (`KillsAnswer`): that a KILL is answered, or its connection breaks. The code awaits it
  without a timeout (`mysql.rs:318`); section 5 has what happens otherwise.
- SchemaCache: a load that was sent is answered, because the commands behind it
  have timeouts (`invokeAIWorkspaceToolWithTimeout`). Loads may fail instead.
- DatabaseSwitch: continuations of settled promises run (`StoreStep`), a
  `use_database` ends by its 15 s timeout at the latest, a fetch by the front end's.

- CsvImport: the thread and ready tasks run, in the host and in a process that lives.
  `ImportReturns` assumes in addition that the timer fires (`TimerFires`) and that DuckDB's thread gets on
  (`ThreadRuns`): its engine is in the process, there is no server to wait for, and while it holds the receiver the
  parser and so the command wait for it. It ends at the count, of which nothing is assumed. `CancelEnds`
  assumes that the server answers, the count included (`ServerAnswers`), and no timer; the process may die in both.

Nothing is assumed to happen in the other modules: their properties are about safety.

Deadlock is checked in QueryLifecycle, ConnectionManager, DatabaseSwitch, CsvImport and
SandboxGate, where commands that ended have an explicit final stutter (`Terminated`).
SchemaCache rests when all mutations, bumps and loads are done, and QueryStore,
SafeMode, TableGrid and ConnectionStorage are programs at rest between two calls.

## 4. Proofs

Every safety property and the refinement that a run of section 3 checks is a theorem, too. The
modules QueryLifecycle, ConnectionManager, SandboxGate, QueryStore, SafeMode and TableGrid have a
`..._proofs.tla` each; `CacheAndImport_proofs.tla` is about SchemaCache and CsvImport, and
`Connections_proofs.tla` about ConnectionStorage and DatabaseSwitch. A module of proofs extends
the two components it is about, which share nothing, so the initial states, steps and
specifications of CsvImport and ConnectionStorage have names of their own (`ImportSpec`,
`StorageSpec`, ...). tlapm checks all of them with Z3, Zenon and LS4, from the assumptions the
modules name and nothing else. Every proof goes the same way: an inductive invariant, checked by
TLC first, one lemma per action, and theorems that follow from it.

**QueryLifecycle.** `TypeCorrect`, `InFlightCancellable`, `SlotsFollow`,
`ConnectionsStayAccounted`, `ConfirmedStops`, `TruncationAlwaysTold`, for any requests, cancels, connections,
statements and batches. None of the invariants is inductive alone. The strengthening
relates the stage of a command to what it holds: a command in scope has a
connection and an open slot, outside of it neither; a connection is held by one
request or by one KILL on its way, and what runs on it runs for its holder or is abandoned;
only a statement that was sent has arrived (`ArrivedRun`); a registered token is the
current attempt's. `ConfirmedStops` needs in addition that a kill
aimed at a connection is aimed at the request's own statement or at nothing (`KillTargets`), and
that a slot that saw a cancel sends no statement. Its one exception is `missed`: a kill that
overtakes its statement is confirmed, and the statement runs. `TruncationAlwaysTold` is inductive
with what the emission loop starts from (`DeliveryInv`): the driver's own mark, and nothing
emitted, also in the second attempt of a request.

**SchemaCache.** `TypeCorrect`, `BumpedStaysDropped`, `AnswersAreCurrent`, for any
connections, databases, kinds, names, callers and bounds. The invariant says that a
load was made at a version its scope has or had (`LoadsAreNotAhead`), so that a bump
moves the version past every load in flight; that a load which would be kept, and
an entry of the current version, was read after the last bump (`KeptLoadsFollow`,
`EntriesFollow`); and that a waiting caller knows of no bump its answer is older than
(`WaitersFollow`).

**ConnectionManager.** `TypeCorrect`, `LookupsFindOpenDrivers`, `TunnelsStayOwned`,
`LastCommandIsDescribed`, for any connects, disconnects, writes and profiles on the
id. The invariant has three parts. Tunnels: an attempt that has not stored its tunnel
owns an open one that is not in the table, and a forgotten tunnel is that of an attempt
that is over. Drivers: an unpublished session is unknown to every command, and what a
command holds to disconnect has left the map, so that closing it never closes the
published one. Tables, as long as no two commands have overlapped: how many of the
five tables the command in flight has filled or emptied (`Filled`, `Emptied`), and
what the last one left (`Left`); it says nothing of a command that was interrupted,
and the theorem shows that the next one repairs all of it. `TunnelsOwned` alone is not
inductive, for a connect that fails closes a tunnel without looking at who owns it.

**SandboxGate.** `TypeCorrect`, `ProbeStaysOut`, `GateIsBreaker`, `FailuresAlwaysTrip`,
`DriverCallsStayBounded`, for any executions,
fingerprints, limits, windows, durations and waits. The invariant adds that a time read for a
lock is at most `MaxWait` old (`ReadingsAreFresh`), and that history and flag
agree (`FlagIsTheProbes`). The refinement has one lemma per kind of step: those of the
permit and of the limits stutter, those of the breaker are steps of `CircuitBreaker`.
The interesting case is a late failure: it is taken for the probe's, and is a step of
the abstract breaker all the same, because it takes the flag back and starts the open
time again. `FailuresAlwaysTrip` relates the breaker's one counter to the failures themselves
(`FailuresAreCounted`): its last failure is the last one reported, it counts those since the last
pause of a window, and the failure before those is a window older, so that a full row of
failures within a window has been counted whole. `DriverCallsStayBounded` is not inductive because a limit
forgets by the time read for it, which may be a wait older than the time at which the execution passes: an execution that passed
is kept by the second's limit for all of its window but one wait and by the minute's for all but two
(`SecondKeeps`, `MinuteKeeps`), and one that the minute has counted and the second has not is counted as if it had
passed (`Claimed`). It is a theorem of windows shortened by this much and of no longer ones: with a wait above 0 the full second
and the full minute can be exceeded, as one more execution that read its time early finds an attempt forgotten.

**QueryStore.** `TypeCorrect`, `CancelIsOfTheNewest`, `NeverLeftBusy`, `CacheFollowsWrites`, for any
databases, statements, runs and bounds. `SlotIsNewest` needs that the newest run is
running (`NewestRuns`). `EntriesAreTrue` speaks of the cache, where rows arrive late, so
its invariant follows them from the start: rows in flight were read by the server
that has them (`FromTheServer`), an undisturbed run is still on the database of its key
(`OnItsKey`), and its rows are as new as the last acknowledged write (`RowsAreTrue`), so
that `Store` adds a true entry and a write, which raises `acked`, finds none left. `TypeCorrect`
includes the cap of the cache: the entries are a finite set that `before` orders (`Ordered`), so there is an oldest one to
evict (`FirstElement`, by induction over a well-founded order), and a full cache loses one for the one it gains.

**SafeMode.** `TypeCorrect`, `ApprovalIsOwn`, `SuspensionReturns`, for any levels, statements,
origins and workspaces. `SentInv` says of a statement on its way to the back end: it needs no approval
at the level its guard read, or the user answered its own request, or an approval given
before covers it; and nothing but an answer to its own request turns a request that waits
into one that was sent. The policy's copy may be anything.

**TableGrid.** `TypeCorrect`, `RowsAreOfOneScope`, `CacheHidesNoWrite`, for any scopes and bounds. The
fetches that are heard and the pages loaded are of the scope fetched last, which is
inductive only together with what a refresh in an old closure does: it moves the scope
back and drops the pages with it. For the cache, a write becomes known only together with the
removal of every page, and an answer that arrives afterwards with older rows is marked `late`.

**ConnectionStorage.** `LastWriteSurvives`, `CacheIsSaved`, for any connections and
calls. The invariant says where the last list is by what the holder of the lock does next
(`FilesInv`): where a reader finds it, then in the primary, then in the primary or, once that
was moved, in the backup, unless there was nothing or the write before was cut. `Holders` ties lock and guard to the calls that
hold them, so that one write is under way at a time; `TargetInv` says that a writer's list is
what it makes of the last one, because nobody writes between its reading and its
renaming but a load, which is the exception `clobbered` names; `CacheInv` the same of the
list about to be put into memory.

**DatabaseSwitch.** `SwitchTypeCorrect`, `LastClickStays`, `TablesStayWithHeader`, for any databases,
sessions, statements and number of switches, of `Spec`, where switches overlap, time out and connections are
left at any moment. `ClickInv` numbers the queue: its switches have the last numbers given, in order, and the one that runs has the
number before them. The database clicked last is then that of the last switch queued, or of the one
that runs, or the header's; and a switch that is skipped as not the latest is not the last. `TablesAreComing` says of a list that
is not the header's that a fetch of the header's tables is under way, or start-up commands are after which it will be, or that
a failed connect put it there (`restored`); `BeforeFollows` says the same of the screen the form has put aside, for it comes back with
whatever fetch was under way. `PoolStaysWithHeader` and `QueriesRunWhereShown`
are of `CalmSpec`, for any drivers and with the timeout at any moment; they speak of a driver that replaces its pool, because
no USE on one session of a pool keeps them (section 5), and leave out what `torn` names: the timeout
that falls between the new pool and the record. `CalmInv` says that one switch at a time runs and its `use_database` is its
own, that the pool is on the header's database or on that of a switch the store has still to be
told of, that every session is the pool's, and that a statement no switch has overlapped was asked for on it.

**CsvImport.** `ImportTypeCorrect`, `ImportStaysAtomic`, `SuccessStaysWhole`, `RolledBackStaysNothing`, for any
number of records, any unreadable one, any capacities and any size of the batches. The invariant
counts the rows wherever they are: in the transaction, in the process's channel, on the pipe, in the batch,
in the channel and in the hand of the thread (`CountInv`). They are never more than the thread has read; while they still
come (`Moving`) they are as many, and the bad row, if the thread sent it, is among them. When the
pump or the driver takes the closed channel for the end, what is before that end is hence the whole file, or has the bad
row, which the driver will refuse, or the thread had given up, which is the exception `cut`; `EndInv` carries this from the
pipe to the process's channel and to the COMMIT. `WireInv` is the grammar of the pipe, on which the frames
that are no rows are counted apart (`Header`, `Trailer`): one frame opens the stream, and
nothing follows the one that ends or cancels it. `AnswerInv` says what an answer means: "ok" that the server has committed,
"cancelled" that the transaction is over, an error that it is over or was committed unheard, and the end of the rows that
the thread is done. `TimeoutInv` says what a timeout leaves: only a session is left with an open transaction, and a thread that
has not taken all rows by then finds the flag set before its next one, so that only `late` lets it commit. The exceptions of
`RolledBackStaysNothing` are thus those and no other. None of the three properties about the
transaction is inductive, for each is about the moment after the last row.

The type invariants of QueryLifecycle, ConnectionManager, SchemaCache, SandboxGate, SafeMode and
TableGrid are theorems (`TypeCorrect`) and not properties of a run.

Only model-checked: the liveness properties (`EveryRequestSettles`, `EveryCancelAnswers`,
`EveryCallSettles`, `EverySwitchSettles`, `ImportReturns`, `CancelEnds`), which need fairness and ENABLED and are out of this
prover's reach. What the runs violate (section 5) is refuted and not proved.

## 5. Where the code and its texts disagree

The disagreements below were met while modelling. None is kept as a run; each is stated in a module with a comment that says it is
violated. TLC shows the first six with the configuration as it stands, which checks that
property only and is kept to reproduce it, and the others when the property replaces the
INVARIANTS and PROPERTIES of the configuration named:

| Property | Configuration | What happens |
|---|---|---|
| `CancelReachesServer` | QueryCancelRace | a cancel that ends the command may find its slot gone and kill nothing: the statement runs on (`commands/query/mod.rs:228`) |
| `PinRejectsWrites` | ConnectionPin | a write that reads the pin before connect has set it runs on a read-only session (`database/manager.rs:477`) |
| `AnswersAreOfTheKind` | SchemaCacheKinds | two caches with equal keys share a load: a caller is answered with the other kind (`schema-cache.ts:21`) |
| `ChosenDatabaseIsUsed` | DatabaseSwitchSession | MySQL: USE changes one session of the pool, a statement runs on another (`mysql.rs:779`, against the message of the editor that asks to choose the database in the header) |
| `HeaderMatchesPool` | DatabaseSwitchToggle | to B and back while B is under way: the pool stays on B (`connectionStore.ts:507`) |
| `MissedUpdatesAreFetched` | TableGridBehind | a write announced while the tab is behind another one is missed, for its grid is unmounted, and the page comes from the cache when it is shown (`DataGrid.tsx:977`, against the comment at 341-343) |
| `EarlyCancelAborts` | QueryCancelRace | a cancel that comes before the token is registered is lost and the SQL starts (QUERY_LIFECYCLE.md, Cancel, 4) |
| `TokensEndWithCommands` | QueryCancelRace | a progressive command that fails leaves its token registered (`commands/query/mod.rs:335`) |
| `ConfirmedStopsAnyOne` | QueryLifecycle | a kill between the registration of the backend id and the arrival of the statement finds an idle session: `server_confirmed` is answered and the statement runs (`mysql.rs:305`, `commands/query/mod.rs:203`) |
| `ConfirmedStopsBatch` | QueryLifecycle | a kill between two statements of a batch confirms and stops nothing (`mysql.rs:157`) |
| `CancelAnswersAnyway` | QueryLiveness, as a PROPERTY | the KILL is awaited without a timeout: a server that does not answer it keeps `cancel_query`, and a connection of the pool, for good (`mysql.rs:318`) |
| `CancelledIsNotPublished` | ConnectionPin | a connect cancelled after it inserted its driver leaves it published (`connection.rs:319`) |
| `RollbackSparesOthers` | ConnectionManager | the rollback of a failed save disconnects a session another attempt opened (`connection.rs:349`) |
| `QueuedCannotRestore` | SchemaCache | a connection-wide invalidation does not bump a scope that only a load in flight knows (`schema-cache.ts:104`, against the comment at 100) |
| `MinuteDenialIsTrue` | SandboxGate, as a PROPERTY without SYMMETRY | an execution is told that 20 per minute were exceeded when fewer ran: the attempts that the limit per second denied are counted (`rate_limiter.rs:60`, against the message at 49) |
| `QueryRunsWhereShown` | DatabaseSwitchCalm, with `ReopenSpec` | re-opening a connected profile shows its database, the driver stays (`StartupConnectionManager/index.tsx:341`) |
| `HeaderIsThePool` | DatabaseSwitchCalm | a statement that outlasts the 15 s on the old pool: the switch times out after the pool was replaced, the header stays on A and statements run in B (`postgres/driver_ops.rs:583`) |
| `OkMeansSwitched` | DatabaseSwitchToggle | the same timeout leaves the old database on record, and the next switch to it succeeds without a change (`postgres/driver_ops.rs:583`) |
| `RestoredTablesMatch` | DatabaseSwitch | a connect of the form that fails puts back header and tables as they were, while the fetch that was to replace the tables has been dropped as irrelevant meanwhile (`connectionStore.ts:210-224`) |
| `ForeignHeaderUntouched` | DatabaseSwitchToggle, with `Spec` | the answer of a switch sets the database of another connection's header (`connectionStore.ts:517`) |
| `TreeIsOfHeader` | DatabaseSwitchToggle, with `Spec` | a switch whose tables cannot be read leaves the old ones on screen (`connectionStore.ts:517`) |
| `CancelledIsNothing` | CsvImport | told as rolled back: a cancelled import that committed a prefix of the file (`commands/table.rs:850`, against the comment at `database/driver.rs:221-223`), a COMMIT whose answer was lost (`useDataGridRowMutations.ts:507`), a transaction left open on SQL Server's session by the timeout (`mssql/driver_ops.rs:691`) |
| `CommandReturns` | CsvImport, as a PROPERTY | the count after the import has no timeout: the command does not return when the server stops answering after the COMMIT (`commands/table.rs:750`) |
| `CancelEndsSidecar` | CsvImport, as a PROPERTY | a cancelled import through a sidecar waits for its 30 minutes (`sidecar/server.rs:102`) |

What else the models and their exceptions say of the code:

- Result cache. The comment at `query-result-cache.ts:3-8` says that a successful write
  invalidates everything the cache could be stale against. `EntriesAreTrue` holds for all
  but the runs `disturbed` names: one that read before a write was acknowledged and was stored
  after it, and one whose database was switched between the lookup, which reads the key
  (`queryStore.ts:215`), and the execution. Both are served for up to 30 s.
- Safe Mode. Full access of a workspace is kept over a restart (`AISlidePanel.tsx:209-225`,
  `427-437`) although the level it suspended is restored, so a workspace may have full access
  with Safe Mode on. A request that another one replaced in the dialog cannot be answered any
  more and waits for its 300 s, against the comment at `safe-mode-query-guard.ts:25-28`.
  Policy commands that fail or overtake each other leave the back end with an older policy until the
  next change (`safeModeStore.ts:84-96`).
- Table grid. A refresh after a write runs with the scope of the render that sent it, and
  does not bump the request id when that is the scope fetched last; a fetch or a count that was in
  flight puts an outdated page back into the cache for up to 120 s (`late`); after an announced write
  only the page in view is fetched again, the others keep their rows.
- Connection storage. `NothingIsLost` has two exceptions. Two writes in a row that were
  cut between the renames remove the only copy: the second one removes the backup,
  for there is no primary to keep (`file_storage.rs:270-292`). A load that migrates
  secrets holds no `write_guard`: it may write back what a save has changed meanwhile, or remove a
  backup that is the only copy. After one cut a load shows an empty list although the
  backup has the connections (`connection_storage.rs:330-335`), until the next save reads them.
- CSV import. `ImportIsAtomic` and `RolledBackIsNothing` have the exception `cut`: the parser looks at the flag
  for itself, returns and drops its sender, and the driver, which looks at the flag only when a row comes,
  takes the closed channel for the end of the file and commits; so it does when a rejection
  report cannot be written (`table.rs:856`, `881`). `late`: "all rows were rolled back" is also told at a timeout
  that the COMMIT may overtake (`table.rs:725`); DuckDB's thread that has taken all rows commits after it, and with a
  sidecar the process is not told of the timeout at all and may keep its transaction open. After a timeout SQL Server's
  session is neither rolled back nor poisoned: the next command of the connection runs inside the open transaction.
  `unheard`: the grid says of every error that the import was rolled back, of a COMMIT that took effect and was not
  heard, too. An import that starts after the reader of a dead sidecar has ended is
  registered for an answer that cannot come (`client.rs:281`). The counts of rows before and after the import have no
  timeout (`table.rs:703`, `750`), which is why `ImportReturns` begins after the one and ends before the other. A
  panic of the parsing thread returns without `finish`, so that the flag stays registered (`table.rs:730`).

## 6. Not modelled

- Text: parsing and classification of SQL, formatting of errors, wording. Where a
  guard depends on it, it is a choice.
- The rows of results, beyond how many batches were emitted.
- `disconnect_all` and `disconnect_driver_connections`: loops of the removals that
  ConnectionManager has, over all ids.
- Tunnels and pools below their open and closed state; TLS; credentials.
- `fetchDatabases` and the fallback to the first user database after a connect
  without one.
- The drivers besides MySQL and PostgreSQL: SQLite has no second connection, the
  others have no server-side cancel.
- `cancelQuery` of the store, whose effect is in QueryLifecycle; the admin password of Safe
  Mode; staged edits of the grid; the keyring and damaged files of the storage.
- Of the CSV import: column mappings and values, progress events, and `insert_table_rows_atomically`, which has
  its rows at once and one flag; the drivers that collect all rows before they send the first (D1, BigQuery, Cassandra,
  Redis, Oracle), and a ROLLBACK that fails.
- The components marked not_modelled in `PROJECT.json`, with the reason or the plan.

## 7. Plan

1. *Sidecar*: the rest of a native driver's process beside CsvImport, its handshake, its unary
   calls with their timeout and the calls that poll a cancel flag.
2. *Schedules*: the file of schedules, loaded, changed and saved without a lock by the
   timer and the commands, and the dispatch events lost or repeated over a restart.
3. *SchemaExplorer*: SchemaCache under the fetches of DatabaseSwitch and the
   invalidations of the stores, to say when the tree shows the new schema.
4. *StagedChanges* over TableGrid: a commit whose statements fail half way.
5. *Rewind*: manifests and restores with a crash between any two steps.
6. Proofs: with each new module, its invariants.

Runs are few on purpose, one per question; a new module brings its own and replaces
a disagreement that section 5 can hold.
