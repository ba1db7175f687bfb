----------------------------- MODULE SchemaCache -----------------------------
(***************************************************************************)
(* The metadata cache of the front end (src/src/utils/schema-cache.ts):    *)
(* lists of tables and objects and structures of tables, kept per scope (a *)
(* connection and a database) under a version that an invalidation bumps.  *)
(* Callers that miss share one load per key and version; a load that ends  *)
(* after its scope was bumped hands its value to its callers and is not    *)
(* kept.                                                                   *)
(*                                                                         *)
(* A cached value is abstracted to the version of the server's schema it   *)
(* was read at: Sample is the moment the server answers a load, Finish the *)
(* moment the answer reaches the cache.  One step is one synchronous run   *)
(* of the event loop: the module has no await of its own.                  *)
(***************************************************************************)
EXTENDS Naturals, FiniteSets

CONSTANTS
  Connections,   \* connection ids
  Databases,     \* database names of a scope
  DefaultDb,     \* the name of the scope of a caller that names no database
  Kinds,         \* what is cached of a scope, each kind in a map of its own:
                 \* the tables, the objects, a table's structure, its columns...
  Names,         \* the last part of a cache key
  NameOf,        \* the name of each kind: the tables and the objects of a scope
                 \* have the same key, and so do a table's structure and columns
  Callers,       \* concurrent calls of getOrLoad
  AllDatabases,  \* the database of an invalidation that names none
  Nothing,       \* no entry, no load, no answer
  Unsent,        \* a load the server has not answered yet
  MaxSchema,     \* bound: schema mutations per scope
  MaxVersion     \* bound: bumps per scope

ASSUME DefaultDbAssumption == DefaultDb \in Databases
ASSUME NameAssumption == Kinds # {} /\ NameOf \in [Kinds -> Names]
ASSUME BoundsAssumption == MaxSchema \in Nat /\ MaxVersion \in Nat

Scope == Connections \X Databases
Key == Scope \X Kinds
ScopeOf(k) == k[1]

\* A request in flight: one map, inFlightLoads, holds the loads of every kind by
\* their cache key and the version the request was made at.
Load == Scope \X Names \X (0 .. MaxVersion)
LoadScope(l) == l[1]
LoadVersion(l) == l[3]

\* What the loader of a request reads, and the server's answer.
Request == [kind : Kinds, value : (0 .. MaxSchema) \cup {Unsent}]

Entry == [version : 0 .. MaxVersion, value : 0 .. MaxSchema, young : BOOLEAN]

ASSUME NoneAssumption ==
  /\ AllDatabases \notin Databases
  /\ Nothing \notin Entry /\ Nothing \notin Load /\ Nothing \notin Request
  /\ Unsent \notin Nat /\ Unsent # Nothing

VARIABLES
  schema,     \* per scope, the version of the server's schema
  versions,   \* per scope, the version of the cache
  entries,    \* per key, the cached value, its version and whether its TTL runs
  inFlight,   \* per load, Nothing or the request
  calls,      \* per caller, its state, its load and its answer
  bumped,     \* history: per scope, the schema of the last bump
  announced   \* history: per scope, the schema of the last invalidation of it

vars == <<schema, versions, entries, inFlight, calls, bumped, announced>>

AnyKind == CHOOSE kind \in Kinds : TRUE

Call == [state : {"idle", "waiting", "answered", "failed"},
         load : Load \cup {Nothing},
         asked : Kinds, got : Kinds,
         answer : 0 .. MaxSchema, since : 0 .. MaxSchema]

Idle == [state |-> "idle", load |-> Nothing, asked |-> AnyKind, got |-> AnyKind,
         answer |-> 0, since |-> 0]

TypeOK ==
  /\ schema \in [Scope -> 0 .. MaxSchema]
  /\ versions \in [Scope -> 0 .. MaxVersion]
  /\ entries \in [Key -> Entry \cup {Nothing}]
  /\ inFlight \in [Load -> Request \cup {Nothing}]
  /\ calls \in [Callers -> Call]
  /\ bumped \in [Scope -> 0 .. MaxSchema]
  /\ announced \in [Scope -> 0 .. MaxSchema]

Init ==
  /\ schema = [s \in Scope |-> 0]
  /\ versions = [s \in Scope |-> 0]
  /\ entries = [k \in Key |-> Nothing]
  /\ inFlight = [l \in Load |-> Nothing]
  /\ calls = [c \in Callers |-> Idle]
  /\ bumped = [s \in Scope |-> 0]
  /\ announced = [s \in Scope |-> 0]

(***************************************************************************)
(* getOrLoad                                                               *)
(***************************************************************************)
IsFresh(k) ==
  /\ entries[k] # Nothing
  /\ entries[k].version = versions[ScopeOf(k)]
  /\ entries[k].young

Free(c) == calls[c].state # "waiting"

Asked(k, state, load, answer) ==
  [state |-> state, load |-> load, asked |-> k[2], got |-> k[2], answer |-> answer,
   since |-> bumped[ScopeOf(k)]]

\* A fresh entry answers at once.
Hit(c, k) ==
  /\ Free(c)
  /\ IsFresh(k)
  /\ calls' = [calls EXCEPT ![c] = Asked(k, "answered", Nothing, entries[k].value)]
  /\ UNCHANGED <<schema, versions, entries, inFlight, bumped, announced>>

\* Mutant of the next definition: the map of loads is keyed by the cache key.
LoadOfKey(k) == <<ScopeOf(k), NameOf[k[2]], 0>>
CurrentLoad(k) == <<ScopeOf(k), NameOf[k[2]], versions[ScopeOf(k)]>>

\* A miss waits for the load of its key and version, which it starts unless
\* one is in flight.
Miss(c, k) ==
  /\ Free(c)
  /\ ~IsFresh(k)
  /\ LET l == CurrentLoad(k) IN
     /\ calls' = [calls EXCEPT ![c] = Asked(k, "waiting", l, 0)]
     /\ inFlight' = IF inFlight[l] = Nothing
                    THEN [inFlight EXCEPT ![l] = [kind |-> k[2], value |-> Unsent]]
                    ELSE inFlight
  /\ UNCHANGED <<schema, versions, entries, bumped, announced>>

\* The server reads its schema for a load.
Sample(l) ==
  /\ inFlight[l] # Nothing /\ inFlight[l].value = Unsent
  /\ inFlight' = [inFlight EXCEPT ![l] = [@ EXCEPT !.value = schema[LoadScope(l)]]]
  /\ UNCHANGED <<schema, versions, entries, calls, bumped, announced>>

WaitsFor(c, l) == calls[c].state = "waiting" /\ calls[c].load = l

\* The answer arrives: it is kept when the scope was not bumped meanwhile, and
\* every caller of the load gets it.
Kept(l) == versions[LoadScope(l)] = LoadVersion(l)

Answered(l) == inFlight[l] # Nothing /\ inFlight[l].value # Unsent
LoadedKey(l) == <<LoadScope(l), inFlight[l].kind>>

\* Mutant of the next definition: the callers of a load whose value is not kept
\* are not answered.
FinishKept(l) ==
  /\ Answered(l)
  /\ entries' = IF Kept(l)
                THEN [entries EXCEPT ![LoadedKey(l)] =
                        [version |-> LoadVersion(l), value |-> inFlight[l].value,
                         young |-> TRUE]]
                ELSE entries
  /\ calls' = [c \in Callers |->
                 IF WaitsFor(c, l) /\ Kept(l)
                 THEN [calls[c] EXCEPT !.state = "answered", !.load = Nothing,
                                       !.got = inFlight[l].kind,
                                       !.answer = inFlight[l].value]
                 ELSE calls[c]]
  /\ inFlight' = [inFlight EXCEPT ![l] = Nothing]
  /\ UNCHANGED <<schema, versions, bumped, announced>>

Finish(l) ==
  /\ Answered(l)
  /\ entries' = IF Kept(l)
                THEN [entries EXCEPT ![LoadedKey(l)] =
                        [version |-> LoadVersion(l), value |-> inFlight[l].value,
                         young |-> TRUE]]
                ELSE entries
  /\ calls' = [c \in Callers |->
                 IF WaitsFor(c, l)
                 THEN [calls[c] EXCEPT !.state = "answered", !.load = Nothing,
                                       !.got = inFlight[l].kind,
                                       !.answer = inFlight[l].value]
                 ELSE calls[c]]
  /\ inFlight' = [inFlight EXCEPT ![l] = Nothing]
  /\ UNCHANGED <<schema, versions, bumped, announced>>

\* The load is refused, with or without the server having read its schema.
Fail(l) ==
  /\ inFlight[l] # Nothing
  /\ calls' = [c \in Callers |->
                 IF WaitsFor(c, l)
                 THEN [calls[c] EXCEPT !.state = "failed", !.load = Nothing]
                 ELSE calls[c]]
  /\ inFlight' = [inFlight EXCEPT ![l] = Nothing]
  /\ UNCHANGED <<schema, versions, entries, bumped, announced>>

\* An entry outlives its TTL: it stays in the map and is no longer served.
Expire(k) ==
  /\ entries[k] # Nothing
  /\ entries[k].young
  /\ entries' = [entries EXCEPT ![k] = [@ EXCEPT !.young = FALSE]]
  /\ UNCHANGED <<schema, versions, inFlight, calls, bumped, announced>>

(***************************************************************************)
(* Schema mutations and invalidateSchemaCache                              *)
(***************************************************************************)
\* The server changes the schema of a scope.
Mutate(s) ==
  /\ schema[s] < MaxSchema
  /\ schema' = [schema EXCEPT ![s] = @ + 1]
  /\ UNCHANGED <<versions, entries, inFlight, calls, bumped, announced>>

\* The scopes the maps name: a bumped one, or one with an entry.  A scope with
\* nothing but a load in flight is in no map the invalidation reads.
KnownScopes ==
  {s \in Scope : versions[s] > 0 \/ \E kind \in Kinds : entries[<<s, kind>>] # Nothing}

InReach(s, conn, db) == s[1] = conn /\ db \in {AllDatabases, s[2]}

NamedScope(conn, db) == <<conn, IF db = AllDatabases THEN DefaultDb ELSE db>>

BumpedScopes(conn, db) ==
  LET matching == {s \in KnownScopes : InReach(s, conn, db)}
  IN IF matching # {} THEN matching ELSE {NamedScope(conn, db)}

\* Mutant of the next definition: the entries are deleted and no version is bumped.
InvalidateEntries(conn, db) ==
  LET scopes == BumpedScopes(conn, db) IN
  /\ entries' = [k \in Key |-> IF ScopeOf(k) \in scopes THEN Nothing ELSE entries[k]]
  /\ bumped' = [s \in Scope |-> IF s \in scopes THEN schema[s] ELSE bumped[s]]
  /\ announced' = [s \in Scope |-> IF InReach(s, conn, db) THEN schema[s] ELSE announced[s]]
  /\ UNCHANGED <<schema, versions, inFlight, calls>>

Invalidate(conn, db) ==
  LET scopes == BumpedScopes(conn, db) IN
  /\ \A s \in scopes : versions[s] < MaxVersion
  /\ versions' = [s \in Scope |-> IF s \in scopes THEN versions[s] + 1 ELSE versions[s]]
  /\ entries' = [k \in Key |-> IF ScopeOf(k) \in scopes THEN Nothing ELSE entries[k]]
  /\ bumped' = [s \in Scope |-> IF s \in scopes THEN schema[s] ELSE bumped[s]]
  /\ announced' = [s \in Scope |-> IF InReach(s, conn, db) THEN schema[s] ELSE announced[s]]
  /\ UNCHANGED <<schema, inFlight, calls>>

Next ==
  \/ \E c \in Callers, k \in Key : Hit(c, k) \/ Miss(c, k)
  \/ \E l \in Load : Sample(l) \/ Finish(l) \/ Fail(l)
  \/ \E k \in Key : Expire(k)
  \/ \E s \in Scope : Mutate(s)
  \/ \E conn \in Connections, db \in Databases \cup {AllDatabases} : Invalidate(conn, db)

Spec == Init /\ [][Next]_vars

\* The server answers a load it was sent and the answer reaches the cache: a
\* command of the back end has a timeout, so its promise settles.
Settle(l) == Sample(l) \/ Finish(l)
FairSpec == Spec /\ \A l \in Load : WF_vars(Settle(l))
-----------------------------------------------------------------------------
(***************************************************************************)
(* Properties                                                              *)
(***************************************************************************)
\* A load that was in flight when its scope was bumped is never served from the
\* cache: whatever entry is fresh was read from the server after the last bump
\* of its scope (getOrLoad compares the version before it keeps a value).
BumpedIsNotRestored ==
  \A k \in Key : IsFresh(k) => entries[k].value >= bumped[ScopeOf(k)]

\* Two callers share a load only when neither knows more than the other: an
\* answer, from the cache or from a load another caller started, is no older
\* than the last bump of the scope at the time of the call.
AnswersFollowTheBump ==
  \A c \in Callers : calls[c].state = "answered" => calls[c].answer >= calls[c].since

\* Every caller is answered, the ones that joined a load another caller started
\* and the ones whose scope was bumped while they waited included.
EveryCallSettles ==
  \A c \in Callers : calls[c].state = "waiting" ~> calls[c].state # "waiting"

\* The signature of getOrLoad: the answer is what the caller's loader loads, also
\* when the caller joins a load another caller started.
AnswersAreOfTheKind ==
  \A c \in Callers : calls[c].state = "answered" => calls[c].got = calls[c].asked

\* The comment of invalidateSchemaCache: queued requests cannot restore stale
\* tables, objects or structures after a schema mutation completes.  What is
\* served from the cache was read after the last invalidation that covers it.
QueuedCannotRestore ==
  \A k \in Key : IsFresh(k) => entries[k].value >= announced[ScopeOf(k)]
=============================================================================
