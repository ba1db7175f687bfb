----------------------------- MODULE QueryStore -----------------------------
(***************************************************************************)
(* The query store of the front end (src/src/stores/queryStore.ts) and its *)
(* cache of results (src/src/utils/query-result-cache.ts).  Runs of the    *)
(* editor, of the sandbox and of the agent share one slot, the busy flag   *)
(* and the request id that Cancel and the progress of a query use; reads   *)
(* are cached by database and statement and dropped when a write on the    *)
(* connection is acknowledged.  One connection: every key begins with it.  *)
(*                                                                         *)
(* A step is a run of the event loop between two awaits.  Rows are the     *)
(* database they came from and its version, the number of writes that were *)
(* committed before.  The back end is external: it executes a request at   *)
(* one moment, which may lie after the front end gave the request up.      *)
(***************************************************************************)
EXTENDS Naturals, FiniteSets

CONSTANTS
  Databases,    \* the databases of the connection
  Statements,   \* the reads, up to normalizeSqlForCache
  Write,        \* any statement that is not read-only
  Runs,         \* concurrent calls, each with a request id of its own
  None,
  MaxEntries,   \* the cap of the cache
  MaxPreviews,  \* bound: previews of write transactions open at once
  MaxWrites     \* bound: writes per connection

ASSUME BoundsAssumption ==
  /\ MaxEntries \in Nat \ {0} /\ MaxPreviews \in Nat /\ MaxWrites \in Nat
ASSUME NoneAssumption == None \notin Runs /\ Write \notin Statements

\* executeQuery, executeSandboxQuery, executeParameterizedQuery with the agent's two
\* queries, and the commands that write rows or structure.
Kinds == {"editor", "sandbox", "parameterized", "mutation"}
Cached == {"editor", "sandbox"}

Key == Databases \X Statements
Rows == [db : Databases, version : 0 .. MaxWrites]
Request == [kind : Kinds, db : Databases, stmt : Statements \cup {Write}]
Entry == [rows : Rows, disturbed : BOOLEAN]

ASSUME NothingAssumption == None \notin Request /\ None \notin Rows /\ None \notin Entry

VARIABLES
  currentDatabase, \* the header's database, where statements run
  data,        \* the writes committed
  request,     \* per run, what was asked
  state,       \* per run, where it stands
  progressive, \* per run, its rows come in batches
  rows,        \* per run, what the back end read or wrote, None before
  isExecutingQuery, activeQueryRequestId,
  progress,    \* progressiveRowCount: None or the run whose rows it counts
  previews,    \* previews of write transactions under way
  cache, before, \* the entries of the Map and the order of its keys
  newest,      \* history: the run that took the slot last, while it runs
  acked,       \* history: the last write acknowledged
  disturbed    \* history: per run, a write was acknowledged after it read, or
               \* the database was not, or not any more, the one of its key

busy == <<isExecutingQuery, activeQueryRequestId, progress, previews>>
slot == <<busy, newest>>
server == <<currentDatabase, data>>
store == <<cache, before>>
vars == <<server, request, state, progressive, rows, slot, store, acked, disturbed>>

Live == {k \in Key : cache[k] # None}

Typed ==
  /\ currentDatabase \in Databases
  /\ data \in 0 .. MaxWrites
  /\ request \in [Runs -> Request \cup {None}]
  /\ state \in [Runs -> {"idle", "asking", "running", "abandoned"}]
  /\ progressive \in [Runs -> BOOLEAN]
  /\ rows \in [Runs -> Rows \cup {None}]
  /\ isExecutingQuery \in BOOLEAN
  /\ activeQueryRequestId \in Runs \cup {None}
  /\ progress \in Runs \cup {None}
  /\ previews \in 0 .. MaxPreviews
  /\ cache \in [Key -> Entry \cup {None}]
  /\ before \in SUBSET (Live \X Live)
  /\ newest \in Runs \cup {None}
  /\ acked \in 0 .. MaxWrites
  /\ disturbed \in [Runs -> BOOLEAN]

\* Every variable has its type, and the Map stays within its cap.
TypeOK == Typed /\ Cardinality(Live) <= MaxEntries

Init ==
  /\ currentDatabase \in Databases
  /\ data = 0
  /\ request = [r \in Runs |-> None]
  /\ state = [r \in Runs |-> "idle"]
  /\ progressive = [r \in Runs |-> FALSE]
  /\ rows = [r \in Runs |-> None]
  /\ isExecutingQuery = FALSE /\ activeQueryRequestId = None
  /\ progress = None /\ previews = 0 /\ newest = None
  /\ cache = [k \in Key |-> None] /\ before = {}
  /\ acked = 0
  /\ disturbed = [r \in Runs |-> FALSE]

(***************************************************************************)
(* The cache of results                                                    *)
(***************************************************************************)
\* The keys K leave the Map.
Deleted(order, K) == {p \in order : p[1] \notin K /\ p[2] \notin K}

\* A key is deleted and set again, which makes it the last one.
Moved(order, k) == Deleted(order, {k}) \cup ((Live \ {k}) \X {k})

\* getCachedQueryResult finds an entry younger than its TTL: it moves to the end.
Serve(k) == cache[k] # None /\ cache' = cache /\ before' = Moved(before, k)

\* getCachedQueryResult finds nothing, or an entry that expired and is deleted.
Missed(k) ==
  /\ cache' = [cache EXCEPT ![k] = None]
  /\ before' = Deleted(before, {k})

\* Mutant of the next definition: the loop of setCachedQueryResult stops one
\* entry too late.
EvictedLate(k) ==
  IF Cardinality(Live \cup {k}) <= MaxEntries + 1 THEN {}
  ELSE {o \in Live \ {k} : \A p \in before : p[2] = o => p[1] = k}

\* What setCachedQueryResult(k) evicts: the first key when the Map is over its cap.
Evicted(k) ==
  IF Cardinality(Live \cup {k}) <= MaxEntries THEN {}
  ELSE {o \in Live \ {k} : \A p \in before : p[2] = o => p[1] = k}

KeyOf(r) == <<request[r].db, request[r].stmt>>

Store(r) ==
  LET k == KeyOf(r)
      out == Evicted(k)
  IN /\ cache' = [x \in Key |->
                    IF x = k THEN [rows |-> rows[r], disturbed |-> disturbed[r]]
                    ELSE IF x \in out THEN None ELSE cache[x]]
     /\ before' = Deleted(Moved(before, k), out)

\* invalidateQueryResultCache
Invalidate == cache' = [k \in Key |-> None] /\ before' = {}

(***************************************************************************)
(* A run: the cache, the guard, the slot, the answer                       *)
(***************************************************************************)
Reads(r) == request[r].stmt # Write

\* The cache answers, before the guard and without taking the slot.
Hit(s) ==
  /\ Serve(<<currentDatabase, s>>)
  /\ UNCHANGED <<server, request, state, progressive, rows, slot, acked, disturbed>>

\* No answer in the cache: the database of the key is read and Safe Mode
\* is asked, which may wait for a dialog.  A mutation is sent at once.
Ask(r, q) ==
  /\ state[r] = "idle" /\ q.db = currentDatabase
  /\ q.kind = "mutation" => q.stmt = Write
  /\ IF q.kind \in Cached /\ q.stmt # Write
     THEN Missed(<<q.db, q.stmt>>) ELSE UNCHANGED store
  /\ request' = [request EXCEPT ![r] = q]
  /\ state' = [state EXCEPT ![r] = IF q.kind = "mutation" THEN "running" ELSE "asking"]
  /\ UNCHANGED <<server, progressive, rows, slot, acked, disturbed>>

\* A call that ended leaves nothing behind but a write that the back end may
\* still execute.
Ends(r, after) ==
  /\ state' = [state EXCEPT ![r] = after]
  /\ rows' = [rows EXCEPT ![r] = None]
  /\ progressive' = [progressive EXCEPT ![r] = FALSE]
  /\ request' = IF after = "idle" THEN [request EXCEPT ![r] = None] ELSE request
  /\ newest' = IF newest = r THEN None ELSE newest

\* Safe Mode throws: the slot was not taken.
Refuse(r) ==
  /\ state[r] = "asking"
  /\ Ends(r, "idle")
  /\ disturbed' = [disturbed EXCEPT ![r] = FALSE]
  /\ UNCHANGED <<server, busy, store, acked>>

\* The run takes the slot from whoever has it; a read of the editor may be
\* delivered in batches.
Allow(r) ==
  /\ state[r] = "asking"
  /\ state' = [state EXCEPT ![r] = "running"]
  /\ isExecutingQuery' = TRUE /\ activeQueryRequestId' = r /\ newest' = r
  /\ progressive' \in {progressive,
                       [progressive EXCEPT ![r] = request[r].kind = "editor" /\ Reads(r)]}
  /\ UNCHANGED <<server, request, rows, progress, previews, store, acked, disturbed>>

\* The server commits a write.
Commit ==
  /\ data < MaxWrites
  /\ data' = data + 1

\* The back end executes the request.
Execute(r) ==
  /\ state[r] = "running" /\ rows[r] = None
  /\ IF Reads(r) THEN data' = data ELSE Commit
  /\ rows' = [rows EXCEPT ![r] = [db |-> currentDatabase, version |-> data']]
  /\ UNCHANGED <<currentDatabase, request, state, progressive, slot, store, acked, disturbed>>

\* A write that the front end gave up is executed all the same, or is not.
ExecuteLate(r) ==
  /\ state[r] = "abandoned"
  /\ data' = data \/ Commit
  /\ Ends(r, "idle")
  /\ UNCHANGED <<currentDatabase, busy, store, acked, disturbed>>

\* A batch of rows arrives: it counts only while the run has the slot.
Batch(r) ==
  /\ state[r] = "running" /\ progressive[r] /\ rows[r] # None
  /\ activeQueryRequestId = r
  /\ progress' = r
  /\ UNCHANGED <<server, request, state, progressive, rows, isExecutingQuery,
                 activeQueryRequestId, newest, previews, store, acked, disturbed>>

\* The transport of the batches fails: the statement is sent again as a whole.
Fallback(r) ==
  /\ state[r] = "running" /\ progressive[r]
  /\ progressive' = [progressive EXCEPT ![r] = FALSE]
  /\ rows' = [rows EXCEPT ![r] = None]
  /\ UNCHANGED <<server, request, state, slot, store, acked, disturbed>>

\* Mutant of the next definition: any run that ends clears the slot.
ReleaseAny(r) == isExecutingQuery' = FALSE /\ activeQueryRequestId' = None

\* A run that ends clears the slot if it is still its own.
Release(r) ==
  IF activeQueryRequestId = r
  THEN isExecutingQuery' = FALSE /\ activeQueryRequestId' = None
  ELSE UNCHANGED <<isExecutingQuery, activeQueryRequestId>>

\* Mutant of the next definition: parameterized writes leave the cache as it is.
WritesOfEditor(r) == ~Reads(r) /\ request[r].kind # "parameterized"

DropsCache(r) == ~Reads(r)

\* The answer: a write drops the entries of the connection, a read is kept under
\* the key of the moment it was asked.
Answer(r) ==
  /\ state[r] = "running" /\ rows[r] # None
  /\ Ends(r, "idle")
  /\ IF DropsCache(r) THEN Invalidate
     ELSE IF Reads(r) /\ request[r].kind \in Cached THEN Store(r)
     ELSE UNCHANGED store
  /\ acked' = IF ~Reads(r) /\ rows[r].version > acked THEN rows[r].version ELSE acked
  /\ disturbed' = [x \in Runs |-> x # r /\
                     (disturbed[x] \/ (~Reads(r) /\ state[x] = "running" /\ rows[x] # None))]
  /\ progress' = IF request[r].kind = "editor" THEN None ELSE progress
  /\ Release(r)
  /\ UNCHANGED <<server, previews>>

\* Mutant of the next definition: a run that fails leaves the flag.
ReleaseId(r) ==
  /\ activeQueryRequestId' = IF activeQueryRequestId = r THEN None ELSE activeQueryRequestId
  /\ UNCHANGED isExecutingQuery

ReleaseFailed(r) == Release(r)

\* The back end reports an error, or the timer of invokeWithTimeout runs out, of
\* which the back end is not told: the statement may have taken effect.
Failed(r) ==
  /\ state[r] = "running"
  /\ Ends(r, IF Reads(r) \/ rows[r] # None THEN "idle" ELSE "abandoned")
  /\ progress' = IF request[r].kind = "editor" /\ activeQueryRequestId = r THEN None ELSE progress
  /\ ReleaseFailed(r)
  /\ disturbed' = [disturbed EXCEPT ![r] = FALSE]
  /\ UNCHANGED <<server, previews, store, acked>>

(***************************************************************************)
(* previewWriteTransaction, and the rest of the program                    *)
(***************************************************************************)
BeginPreview ==
  /\ previews < MaxPreviews
  /\ previews' = previews + 1 /\ isExecutingQuery' = TRUE
  /\ UNCHANGED <<server, request, state, progressive, rows, activeQueryRequestId,
                 progress, newest, store, acked, disturbed>>

EndPreview ==
  /\ previews > 0
  /\ previews' = previews - 1 /\ isExecutingQuery' = FALSE
  /\ UNCHANGED <<server, request, state, progressive, rows, activeQueryRequestId,
                 progress, newest, store, acked, disturbed>>

\* The database is switched, of the header and of the connection (DatabaseSwitch
\* says when they agree): a run that has not been executed will run there.
Switch(d) ==
  /\ d # currentDatabase
  /\ currentDatabase' = d
  /\ disturbed' = [x \in Runs |-> disturbed[x] \/
       (state[x] \in {"asking", "running"} /\ (rows[x] = None \/ progressive[x]))]
  /\ UNCHANGED <<data, request, state, progressive, rows, slot, store, acked>>

Next ==
  \/ \E s \in Statements : Hit(s)
  \/ \E r \in Runs, q \in Request : Ask(r, q)
  \/ \E r \in Runs : \/ Refuse(r) \/ Allow(r) \/ Execute(r) \/ ExecuteLate(r) \/ Batch(r)
                     \/ Fallback(r) \/ Answer(r) \/ Failed(r)
  \/ BeginPreview \/ EndPreview
  \/ \E d \in Databases : Switch(d)

Spec == Init /\ [][Next]_vars
-----------------------------------------------------------------------------
(***************************************************************************)
(* Properties                                                              *)
(***************************************************************************)
\* What the cache holds is what its key says, and no older than the last write
\* acknowledged, whichever operation wrote; the exceptions are
\* the runs the history names, for which the comment of the cache is refuted: a
\* write acknowledged after the run read, or a database the run's key was not of.
EntriesAreTrue ==
  \A k \in Key : cache[k] # None /\ ~cache[k].disturbed =>
    cache[k].rows.db = k[1] /\ cache[k].rows.version >= acked

\* Runs and previews overlap, end in any order and fail: the request id that
\* Cancel sends is the newest run's while it runs, and no run's afterwards.
SlotIsNewest ==
  activeQueryRequestId = newest

\* The store is not left busy: the flag stands for the run in the slot or for a
\* preview that has not returned.
BusyIsOwned == isExecutingQuery => activeQueryRequestId # None \/ previews > 0
=============================================================================
