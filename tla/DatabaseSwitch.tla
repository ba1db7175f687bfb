---------------------------- MODULE DatabaseSwitch ----------------------------
(***************************************************************************)
(* Switching the database of a connection: the queue of switches of the    *)
(* front end (connectionStore.ts), the command and the driver behind it,   *)
(* the table list fetched afterwards, and the statements that run on the   *)
(* sessions of the driver's pool.                                          *)
(*                                                                         *)
(* A MySQL driver sends USE to one connection of its pool; a PostgreSQL    *)
(* driver opens a pool on the other database and replaces its own.  The    *)
(* table list is abstracted to the database it was read from, a statement  *)
(* to the database of the session it runs on.  Connecting is two steps and *)
(* the start-up commands: what the back end does is in ConnectionManager.  *)
(***************************************************************************)
EXTENDS Naturals, Sequences

CONSTANTS
  Databases,   \* databases of the server
  Initial,     \* the database of the profile
  Conns,       \* connections of a pool
  Queries,     \* statements the user runs
  Drivers,     \* the drivers of the connection: "postgres", "mysql"
  MaxSwitches, \* bound: calls of switchDatabase
  MaxStarts,   \* bound: connects whose start-up commands run at one time
  None         \* no database, no connection

ASSUME DatabaseAssumption == Initial \in Databases /\ None \notin Databases \cup Conns
ASSUME DriversAssumption == Drivers \subseteq {"postgres", "mysql"}
ASSUME BoundAssumption == MaxSwitches \in Nat /\ MaxStarts \in Nat

VARIABLES
  \* the store
  active,     \* activeConnectionId is this connection
  connecting, \* the connect under way: "no", "pending" (to this connection), "other"
              \* (to another one), or "failed" (the error screen of this one)
  keeps,      \* the connect keeps the metadata on screen
  before,     \* what the connection form's connect restores when it fails
  starting,   \* connects whose start-up commands run
  current,    \* currentDatabase; None is a database of another connection
  shown,      \* the database the table list was read from
  sequence,   \* databaseSwitchSequence
  queue,      \* databaseSwitchQueue: switches not yet started
  run,        \* the switch that runs
  switching,  \* isSwitchingDatabase
  completed,  \* lastCompletedDatabaseSwitchKey
  fetching,   \* inFlightTableFetches
  \* the driver
  kind,       \* which driver it is
  use,        \* the use_database command
  recorded,   \* current_db
  base,       \* the database new connections of the pool open
  session,    \* per connection, the database of its session; None when closed
  closing,    \* statements on the pool that is being closed
  query,      \* per statement, its progress
  \* history
  clicked,    \* the database of the last switch, unless it failed
  refused,    \* the last fetch of the current database failed
  restored,   \* a failed connect put a header back over other tables than its own
  torn        \* a timeout stopped a use_database between the pool and the record

attempt == <<connecting, keeps, before, starting>>
store == <<active, attempt, current, shown, sequence, queue, run, switching, completed,
           fetching>>
driver == <<kind, use, recorded, base, session, closing>>
history == <<clicked, refused, restored, torn>>
vars == <<store, driver, query, history>>

Switch == [n : 1 .. MaxSwitches, db : Databases]
NoSwitch == [phase |-> "idle", n |-> 0, db |-> None]
NoUse == [phase |-> "none", db |-> None, conn |-> None, live |-> TRUE]
NoQuery == [state |-> "idle", asked |-> None, on |-> None, conn |-> None, calm |-> TRUE]

\* What connectToDatabase puts aside: the header, its tables, the error screen.
Snapshot == [active : BOOLEAN, failed : BOOLEAN, current : Databases \cup {None},
             shown : Databases \cup {None}]
Screen == [active |-> active, failed |-> connecting = "failed", current |-> current,
           shown |-> shown]

\* A PostgreSQL driver replaces its pool, a MySQL driver sends USE.
ReplacesPool == kind = "postgres"

TypeOK ==
  /\ active \in BOOLEAN /\ keeps \in BOOLEAN /\ switching \in BOOLEAN
  /\ connecting \in {"no", "pending", "other", "failed"}
  /\ before \in Snapshot \cup {None} /\ starting \in 0 .. MaxStarts
  /\ {current, shown, completed, clicked} \subseteq Databases \cup {None}
  /\ sequence \in 0 .. MaxSwitches
  /\ queue \in Seq(Switch)
  /\ run \in [phase : {"idle", "using", "fetching"}, n : 0 .. MaxSwitches,
              db : Databases \cup {None}]
  /\ fetching \subseteq Databases
  /\ use \in [phase : {"none", "started", "sent", "landed", "closing", "ok", "failed"},
              db : Databases \cup {None}, conn : Conns \cup {None}, live : BOOLEAN]
  /\ kind \in Drivers /\ recorded \in Databases /\ base \in Databases
  /\ session \in [Conns -> Databases \cup {None}]
  /\ closing \subseteq Queries
  /\ query \in [Queries -> [state : {"idle", "asked", "running", "done"},
                            asked : Databases \cup {None}, on : Databases \cup {None},
                            conn : Conns \cup {None}, calm : BOOLEAN]]
  /\ refused \in BOOLEAN /\ restored \in BOOLEAN /\ torn \in BOOLEAN

\* A connection just opened on the profile's database, its tables being read.
Init ==
  /\ active = TRUE /\ connecting = "no" /\ keeps = FALSE /\ before = None /\ starting = 0
  /\ current = Initial /\ shown = None
  /\ sequence = 0 /\ queue = <<>> /\ run = NoSwitch /\ switching = FALSE
  /\ completed = None
  /\ fetching = {Initial}
  /\ kind \in Drivers
  /\ use = NoUse /\ recorded = Initial /\ base = Initial
  /\ session = [c \in Conns |-> None]
  /\ closing = {}
  /\ query = [q \in Queries |-> NoQuery]
  /\ clicked = Initial /\ refused = FALSE /\ restored = FALSE /\ torn = FALSE

(***************************************************************************)
(* switchDatabase                                                          *)
(***************************************************************************)
IsLatest(n) == n = sequence

Disturbed == [q \in Queries |-> [query[q] EXCEPT !.calm = @ /\ query[q].state \in {"idle", "done"}]]

\* A call takes the next sequence number and joins the queue.
CallSwitch(db) ==
  /\ active /\ sequence < MaxSwitches
  /\ sequence' = sequence + 1
  /\ queue' = Append(queue, [n |-> sequence + 1, db |-> db])
  /\ clicked' = db
  /\ query' = Disturbed
  /\ UNCHANGED <<active, attempt, current, shown, run, switching, completed,
                 fetching, driver, refused, restored, torn>>

\* Mutant of the next definition: the last completed switch is not checked
\* against the database of the store.
IsCompleted(db) == completed = db
IsRedundant(db) == current = db /\ completed = db

Next1 == Head(queue)

\* A superseded or redundant switch, or one of a connection that was left, ends.
SkipSwitch ==
  /\ run.phase = "idle" /\ queue # <<>>
  /\ ~IsLatest(Next1.n) \/ ~active \/ IsRedundant(Next1.db)
  /\ queue' = Tail(queue)
  /\ UNCHANGED <<active, attempt, current, shown, sequence, run, switching,
                 completed, fetching, driver, query, history>>

BeginSwitch ==
  /\ run.phase = "idle" /\ queue # <<>>
  /\ IsLatest(Next1.n) /\ active /\ ~IsRedundant(Next1.db)
  /\ queue' = Tail(queue)
  /\ run' = [phase |-> "using", n |-> Next1.n, db |-> Next1.db]
  /\ switching' = TRUE
  /\ use' = [phase |-> "started", db |-> Next1.db, conn |-> None, live |-> TRUE]
  /\ UNCHANGED <<active, attempt, current, shown, sequence, completed, fetching,
                 kind, recorded, base, session, closing, query, history>>

\* use_database succeeded: the latest switch shows its database and waits for
\* its tables, joining a fetch of them that is in flight.
UseSucceeds ==
  /\ run.phase = "using" /\ use.phase = "ok"
  /\ use' = NoUse
  /\ IF IsLatest(run.n)
     THEN /\ current' = run.db
          /\ switching' = FALSE
          /\ fetching' = fetching \cup {run.db}
          /\ run' = [run EXCEPT !.phase = "fetching"]
          /\ refused' = FALSE /\ restored' = FALSE
     ELSE /\ run' = NoSwitch
          /\ UNCHANGED <<current, switching, fetching, refused, restored>>
  /\ UNCHANGED <<active, attempt, shown, sequence, queue, completed,
                 kind, recorded, base, session, closing, query, clicked, torn>>

\* Mutant of the next definition: a switch that failed ends the queue.
UseEndsQueue ==
  /\ run.phase = "using" /\ use.phase = "failed"
  /\ use' = NoUse
  /\ switching' = FALSE
  /\ clicked' = None
  /\ UNCHANGED <<active, attempt, current, shown, sequence, queue, run,
                 completed, fetching, kind, recorded, base, session, closing, query,
                 refused, restored, torn>>

\* use_database failed: the latest switch says so, and the queue goes on.
UseFails ==
  /\ run.phase = "using" /\ use.phase = "failed"
  /\ use' = NoUse
  /\ run' = NoSwitch
  /\ IF IsLatest(run.n) THEN switching' = FALSE /\ clicked' = None
                        ELSE UNCHANGED <<switching, clicked>>
  /\ UNCHANGED <<active, attempt, current, shown, sequence, queue, completed,
                 fetching, kind, recorded, base, session, closing, query,
                 refused, restored, torn>>

(***************************************************************************)
(* fetchTables                                                             *)
(***************************************************************************)
\* The switch that waits for the tables of db ends with their fetch, however
\* the fetch ends.
SwitchEnds(db) ==
  IF run.phase = "fetching" /\ run.db = db
  THEN /\ run' = NoSwitch
       /\ completed' = IF IsLatest(run.n) THEN db ELSE completed
  ELSE UNCHANGED <<run, completed>>

\* Mutant of the next definition: the answer is shown under any database.
IsAnyDatabase(db) == active
IsRelevant(db) == active /\ current = db

TablesArrive(db) ==
  /\ db \in fetching
  /\ fetching' = fetching \ {db}
  /\ shown' = IF IsRelevant(db) THEN db ELSE shown
  /\ IF IsRelevant(db) THEN refused' = FALSE /\ restored' = FALSE
                       ELSE UNCHANGED <<refused, restored>>
  /\ SwitchEnds(db)
  /\ UNCHANGED <<active, attempt, current, sequence, queue, switching,
                 driver, query, clicked, torn>>

TablesFail(db) ==
  /\ db \in fetching
  /\ fetching' = fetching \ {db}
  /\ refused' = (refused \/ IsRelevant(db))
  /\ SwitchEnds(db)
  /\ UNCHANGED <<active, attempt, current, shown, sequence, queue, switching,
                 driver, query, clicked, restored, torn>>

\* Mutant of the next definition: the explorer is refreshed without a connection.
RefreshAny ==
  /\ current \notin fetching
  /\ fetching' = fetching \cup {current}
  /\ UNCHANGED <<active, attempt, current, shown, sequence, queue, run,
                 switching, completed, driver, query, history>>

\* A refresh of the explorer.
Refresh ==
  /\ active /\ current # None
  /\ current \notin fetching
  /\ fetching' = fetching \cup {current}
  /\ UNCHANGED <<active, attempt, current, shown, sequence, queue, run,
                 switching, completed, driver, query, history>>

(***************************************************************************)
(* Leaving for another connection and connecting again                     *)
(***************************************************************************)
Connecting == connecting \in {"pending", "other"}

\* Disconnecting, or the card of another profile.
Leave ==
  /\ active /\ ~Connecting
  /\ active' = FALSE /\ connecting' = "no"
  /\ current' = None /\ shown' = None
  /\ query' = Disturbed
  /\ clicked' = None /\ refused' = FALSE /\ restored' = FALSE
  /\ UNCHANGED <<keeps, before, starting, sequence, queue, run, switching, completed, fetching,
                 driver, torn>>

\* The connection form connects to another profile, and puts the screen aside.
LeaveByForm ==
  /\ active /\ ~Connecting
  /\ before' = Screen
  /\ active' = FALSE /\ connecting' = "other"
  /\ current' = None /\ shown' = None
  /\ query' = Disturbed
  /\ clicked' = None
  /\ UNCHANGED <<keeps, starting, sequence, queue, run, switching, completed, fetching, driver,
                 refused, restored, torn>>

\* The other profile is connected, or its connect was cancelled.
LeaveEnds ==
  /\ connecting = "other"
  /\ connecting' = "no" /\ before' = None
  /\ UNCHANGED <<active, keeps, starting, current, shown, sequence, queue, run, switching,
                 completed, fetching, driver, query, history>>

\* Opening the card of a connected profile activates it on the profile's
\* database, without a use_database, and leaves the tables on screen to the fetch.
Reopen ==
  /\ connecting = "no"
  /\ active' = TRUE
  /\ current' = Initial
  /\ LET stays == active /\ current = Initial IN
     /\ fetching' = IF stays THEN fetching ELSE fetching \cup {Initial}
     /\ refused' = (refused /\ stays)
     /\ restored' = (restored /\ stays)
  /\ query' = Disturbed
  /\ clicked' = None
  /\ UNCHANGED <<attempt, shown, sequence, queue, run, switching, completed, driver, torn>>

\* A connect keeps the tables of a reconnect to their database; the connection
\* form's puts the screen aside (connectToDatabase), a saved profile's does not
\* (connectSavedConnection).
StartConnect ==
  /\ ~Connecting /\ starting < MaxStarts
  /\ before' \in {None, Screen}
  /\ connecting' = "pending"
  /\ keeps' = (active /\ current = Initial)
  /\ active' = TRUE
  /\ current' = Initial
  /\ shown' = IF active /\ current = Initial THEN shown ELSE None
  /\ query' = Disturbed
  /\ clicked' = None
  /\ UNCHANGED <<starting, sequence, queue, run, switching, completed, fetching, driver,
                 refused, restored, torn>>

\* A new driver replaces the connection's; markConnected, after which the
\* start-up commands run.  A use_database under way goes on with the driver it had.
Connected ==
  /\ connecting = "pending"
  /\ connecting' = "no" /\ keeps' = FALSE /\ before' = None
  /\ starting' = starting + 1
  /\ LET kept == keeps /\ current = Initial IN
     /\ completed' = IF kept THEN Initial ELSE completed
     /\ shown' = IF kept THEN shown ELSE None
  /\ current' = Initial
  /\ recorded' = Initial /\ base' = Initial
  /\ session' = [c \in Conns |-> None]
  /\ closing' = {}
  /\ use' = [use EXCEPT !.live = (use.phase = "none"), !.conn = None]
  /\ query' = [q \in Queries |-> [Disturbed[q] EXCEPT !.conn = None]]
  /\ clicked' = None /\ refused' = FALSE /\ restored' = FALSE /\ torn' = FALSE
  /\ UNCHANGED <<active, sequence, queue, run, switching, fetching, kind>>

\* The start-up commands have ended, whatever came of them, and the tables of the
\* profile's database are fetched, whatever the header shows by now.
LoadMetadata ==
  /\ starting > 0
  /\ starting' = starting - 1
  /\ fetching' = fetching \cup {Initial}
  /\ UNCHANGED <<active, connecting, keeps, before, current, shown, sequence, queue, run,
                 switching, completed, driver, query, history>>

\* The connect of a saved profile fails, or any connect is cancelled.
ConnectFails ==
  /\ connecting = "pending"
  /\ connecting' = "failed" /\ keeps' = FALSE /\ before' = None
  /\ UNCHANGED <<active, starting, current, shown, sequence, queue, run, switching,
                 completed, fetching, driver, query, history>>

\* The form's connect fails: the screen it put aside comes back.
ConnectRestores ==
  /\ Connecting /\ before # None
  /\ connecting' = (IF before.failed THEN "failed" ELSE "no")
  /\ keeps' = FALSE /\ before' = None
  /\ active' = before.active /\ current' = before.current /\ shown' = before.shown
  /\ query' = Disturbed
  /\ clicked' = None
  /\ restored' = (before.shown # before.current)
  /\ UNCHANGED <<starting, sequence, queue, run, switching, completed, fetching, driver,
                 refused, torn>>

(***************************************************************************)
(* The pool (sqlx): an idle connection is taken before a new one is opened *)
(***************************************************************************)
Idle(c) == use.conn # c /\ \A q \in Queries : query[q].conn # c
Open(c) == session[c] # None

Takes(c) == Idle(c) /\ (Open(c) \/ \A d \in Conns : Idle(d) => ~Open(d))
SessionOf(c) == IF Open(c) THEN session[c] ELSE base

\* An idle connection reaches its lifetime.
Recycle(c) ==
  /\ Idle(c) /\ Open(c)
  /\ session' = [session EXCEPT ![c] = None]
  /\ UNCHANGED <<store, kind, use, recorded, base, closing, query, history>>

(***************************************************************************)
(* use_database of the drivers                                             *)
(***************************************************************************)
\* MySQL: USE is sent to whatever connection of the pool is taken.
UseSent(c) ==
  /\ ~ReplacesPool /\ use.phase = "started" /\ use.live
  /\ Takes(c)
  /\ use' = [use EXCEPT !.phase = "sent", !.conn = c]
  /\ session' = [session EXCEPT ![c] = SessionOf(c)]
  /\ UNCHANGED <<store, kind, recorded, base, closing, query, history>>

UseLands ==
  /\ use.phase = "sent" /\ use.live
  /\ session' = [session EXCEPT ![use.conn] = use.db]
  /\ use' = [use EXCEPT !.phase = "landed", !.conn = None]
  /\ UNCHANGED <<store, kind, recorded, base, closing, query, history>>

UseRecorded ==
  /\ use.phase = "landed" /\ use.live
  /\ recorded' = use.db
  /\ use' = [use EXCEPT !.phase = "ok"]
  /\ UNCHANGED <<store, kind, base, session, closing, query, history>>

\* PostgreSQL: nothing to do for the database on record.
UseSame ==
  /\ ReplacesPool /\ use.phase = "started" /\ use.live
  /\ recorded = use.db
  /\ use' = [use EXCEPT !.phase = "ok"]
  /\ UNCHANGED <<store, kind, recorded, base, session, closing, query, history>>

\* Mutant of UseReplacesPool: the new pool opens the profile's database.
UseReopens ==
  /\ ReplacesPool /\ use.phase = "started" /\ use.live
  /\ recorded # use.db
  /\ base' = Initial
  /\ session' = [c \in Conns |-> None]
  /\ closing' = {q \in Queries : query[q].conn # None}
  /\ query' = [q \in Queries |-> [query[q] EXCEPT !.conn = None]]
  /\ use' = [use EXCEPT !.phase = "closing"]
  /\ UNCHANGED <<store, kind, recorded, history>>

\* Mutant of UseReplacesPool: the open connections stay in the pool.
UseKeepsSessions ==
  /\ ReplacesPool /\ use.phase = "started" /\ use.live
  /\ recorded # use.db
  /\ base' = use.db
  /\ closing' = {}
  /\ use' = [use EXCEPT !.phase = "closing"]
  /\ UNCHANGED <<store, kind, recorded, session, query, history>>

\* The new pool is open and replaces the old one, whose statements go on.
UseReplacesPool ==
  /\ ReplacesPool /\ use.phase = "started" /\ use.live
  /\ recorded # use.db
  /\ base' = use.db
  /\ session' = [c \in Conns |-> None]
  /\ closing' = {q \in Queries : query[q].conn # None}
  /\ query' = [q \in Queries |-> [query[q] EXCEPT !.conn = None]]
  /\ use' = [use EXCEPT !.phase = "closing"]
  /\ UNCHANGED <<store, kind, recorded, history>>

\* The old pool is closed once its statements have ended.
UseClosed ==
  /\ use.phase = "closing" /\ use.live
  /\ closing = {}
  /\ recorded' = use.db
  /\ use' = [use EXCEPT !.phase = "ok"]
  /\ torn' = FALSE
  /\ UNCHANGED <<store, kind, base, session, closing, query, clicked, refused, restored>>

\* The server refuses the USE, or the new pool.
UseRefused ==
  /\ use.live
  /\ IF ReplacesPool THEN use.phase = "started" /\ recorded # use.db ELSE use.phase = "sent"
  /\ use' = [use EXCEPT !.phase = "failed", !.conn = None]
  /\ UNCHANGED <<store, kind, recorded, base, session, closing, query, history>>

\* The command's timeout drops the driver's future wherever it waits: a USE on
\* its way may or may not have reached the server, and the pool of PostgreSQL is
\* replaced while the record is not.
UseTimesOut ==
  /\ use.live
  /\ use.phase \in {"started", "sent", "landed", "closing"}
  /\ session' \in IF use.phase = "sent"
                  THEN {session, [session EXCEPT ![use.conn] = use.db]} ELSE {session}
  /\ use' = [use EXCEPT !.phase = "failed", !.conn = None]
  /\ torn' = (torn \/ use.phase = "closing")
  /\ UNCHANGED <<store, kind, recorded, base, closing, query, clicked, refused, restored>>

\* A use_database on a driver that was replaced ends one way or the other.
UseDetached ==
  /\ ~use.live
  /\ use.phase \in {"started", "sent", "landed", "closing"}
  /\ use' \in {[use EXCEPT !.phase = p] : p \in {"ok", "failed"}}
  /\ UNCHANGED <<store, kind, recorded, base, session, closing, query, history>>

(***************************************************************************)
(* The statements the user runs                                            *)
(***************************************************************************)
NoSwitchRuns == queue = <<>> /\ run.phase # "using" /\ connecting = "no"

Ask(q) ==
  /\ query[q].state \in {"idle", "done"}
  /\ active /\ connecting = "no" /\ current # None
  /\ query' = [query EXCEPT ![q] = [state |-> "asked", asked |-> current, on |-> None,
                                    conn |-> None, calm |-> NoSwitchRuns /\ ~torn]]
  /\ UNCHANGED <<store, driver, history>>

Execute(q, c) ==
  /\ query[q].state = "asked"
  /\ Takes(c)
  /\ query' = [query EXCEPT ![q].state = "running", ![q].conn = c, ![q].on = SessionOf(c)]
  /\ session' = [session EXCEPT ![c] = SessionOf(c)]
  /\ UNCHANGED <<store, kind, use, recorded, base, closing, history>>

\* The statement ends, and its connection returns to its pool.
End(q) ==
  /\ query[q].state = "running"
  /\ query' = [query EXCEPT ![q].state = "done", ![q].conn = None]
  /\ closing' = closing \ {q}
  /\ UNCHANGED <<store, kind, use, recorded, base, session, history>>

DriverStep ==
  \/ \E c \in Conns : UseSent(c)
  \/ UseLands \/ UseRecorded \/ UseSame \/ UseReplacesPool \/ UseClosed \/ UseRefused
  \/ UseDetached

StoreStep == SkipSwitch \/ BeginSwitch \/ UseSucceeds \/ UseFails

FetchEnds(db) == TablesArrive(db) \/ TablesFail(db)

\* What happens besides clicks and changes of the active connection.
Step ==
  \/ StoreStep \/ DriverStep \/ UseTimesOut
  \/ \E db \in Databases : FetchEnds(db)
  \/ Refresh \/ Connected \/ LoadMetadata \/ ConnectFails \/ ConnectRestores \/ LeaveEnds
  \/ \E c \in Conns : Recycle(c)
  \/ \E q \in Queries : Ask(q) \/ End(q) \/ \E c \in Conns : Execute(q, c)

Next ==
  \/ Step \/ Leave \/ LeaveByForm \/ Reopen \/ StartConnect
  \/ \E db \in Databases : CallSwitch(db)

Spec == Init /\ [][Next]_vars

\* The store's steps are continuations of settled promises; a use_database is
\* answered, by its timer at the latest; a fetch has a timeout of its own.
FairSpec ==
  /\ Spec
  /\ WF_vars(StoreStep)
  /\ WF_vars(UseTimesOut \/ UseDetached)
  /\ \A db \in Databases : WF_vars(FetchEnds(db))

\* The connection stays the active one.
StayNext == Step \/ \E db \in Databases : CallSwitch(db)
StaySpec == Init /\ [][StayNext]_vars

\* One switch or one connect at a time.
Quiet == queue = <<>> /\ run.phase = "idle"
AtRest == Quiet /\ connecting = "no"
CalmNext ==
  \/ Step
  \/ Quiet /\ (Leave \/ LeaveByForm \/ StartConnect)
  \/ AtRest /\ \E db \in Databases : CallSwitch(db)
CalmSpec == Init /\ [][CalmNext]_vars

\* As CalmSpec, with connected profiles opened from their cards.
ReopenNext == CalmNext \/ (AtRest /\ Reopen)
ReopenSpec == Init /\ [][ReopenNext]_vars
-----------------------------------------------------------------------------
(***************************************************************************)
(* Properties                                                              *)
(***************************************************************************)
\* However switches overlap, the header ends on the database clicked last,
\* unless that switch failed or the connection was left (isLatestRequest and
\* the redundant-switch skip of switchDatabase).
LastClickWins == AtRest /\ clicked # None => current = clicked

\* Once every fetch and the start-up commands have ended, the table list is the
\* header's, unless its own fetch failed or a failed connect put back other
\* tables: no late answer of a database left meanwhile is shown, and no fetch
\* that was joined is lost (fetchTables, loadMetadataAfterConnect).
TablesFollowHeader ==
  AtRest /\ active /\ fetching = {} /\ starting = 0 /\ current \in Databases
    /\ ~refused /\ ~restored => shown = current

\* Every switch settles, a failed or superseded one included: the queue stays
\* alive.
EverySwitchSettles == queue # <<>> ~> queue = <<>>

\* On a driver that replaces its pool, a statement that no switch overlaps runs
\* on the database the header showed when it was started, however many statements
\* still use the old pools, unless a timeout had torn the pool from the record.
QueryRunsWhereShown ==
  ReplacesPool => \A q \in Queries :
    query[q].on # None /\ query[q].calm => query[q].on = query[q].asked

\* At rest, the pool of such a driver opens its sessions on the database the header
\* shows, whatever was refused, restored or timed out, but for a timeout that fell
\* between the new pool and the record, and only until the next switch or connect
\* that goes through (use_database).
HeaderMatchesPool == AtRest /\ active /\ ReplacesPool /\ ~torn => base = current

\* The message of the editor: "Choose the active database from the app UI first,
\* then run the query."  A statement runs on the database the header showed, on
\* any driver.
ChosenDatabaseIsUsed ==
  \A q \in Queries : query[q].on # None /\ query[q].calm => query[q].on = query[q].asked

\* The same for the pool, whatever times out.
HeaderIsThePool == AtRest /\ active /\ ReplacesPool => base = current

\* The tables on screen are the header's once everything has settled, also when a
\* failed connect put the screen back.
RestoredTablesMatch ==
  AtRest /\ active /\ fetching = {} /\ starting = 0 /\ current \in Databases /\ ~refused
    => shown = current

\* A use_database that succeeds leaves the driver on its database.
OkMeansSwitched ==
  use.phase = "ok" /\ use.live => (ReplacesPool => base = use.db) /\ recorded = use.db

\* The comment of switchDatabase: when the connection is gone a switch does not
\* touch any state.  The header of another connection is its own.
ForeignHeaderUntouched == ~active => current = None

\* The comment of fetchTables' guard: the header never shows one database while
\* the tree holds another database's tables, once everything has settled.
TreeIsOfHeader ==
  AtRest /\ active /\ fetching = {} /\ starting = 0 /\ shown # None => shown = current
=============================================================================
