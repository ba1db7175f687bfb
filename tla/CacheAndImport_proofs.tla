-------------------------- MODULE CacheAndImport_proofs --------------------------
(***************************************************************************)
(* Proofs about SchemaCache, for any connections, databases, kinds of      *)
(* metadata, callers and bounds, and about CsvImport, for any file,        *)
(* capacities and size of the batches.                                     *)
(*                                                                         *)
(* SchemaCache: what a bump promises is kept by comparing versions: the value of a load *)
(* is at least the schema of the last bump as long as the scope is at the  *)
(* load's version, because a bump moves the version past every load in     *)
(* flight (LoadsAreNotAhead).                                              *)
(*                                                                         *)
(* CsvImport: the rows are counted wherever they are, in the transaction,  *)
(* in a channel, in a batch, on the pipe or in the hand of the thread      *)
(* (CountInv).  They are as many as the thread has read while they still   *)
(* come, so what is behind the end of the rows is the whole file (EndInv). *)
(***************************************************************************)
EXTENDS SchemaCache, CsvImport, TLAPS

\* No bump saw a schema the server had not reached.
BumpsAreNotAhead == \A s \in Scope : bumped[s] <= schema[s]

\* A load was made at a version its scope has or had.
LoadsAreNotAhead ==
  \A l \in Load : inFlight[l] # Nothing => LoadVersion(l) <= versions[LoadScope(l)]

\* The answer to a load that would be kept was read after the last bump.
KeptLoadsFollow ==
  \A l \in Load : Answered(l) /\ Kept(l) => inFlight[l].value >= bumped[LoadScope(l)]

\* So was every entry of the scope's version, young or not.
EntriesFollow ==
  \A k \in Key :
    entries[k] # Nothing /\ entries[k].version = versions[ScopeOf(k)]
      => entries[k].value >= bumped[ScopeOf(k)]

\* A waiting caller waits for an answer read after the last bump it knows of.
WaitersFollow ==
  \A c \in Callers :
    calls[c].state = "waiting" =>
      /\ calls[c].load \in Load
      /\ calls[c].since <= schema[LoadScope(calls[c].load)]
      /\ Answered(calls[c].load) => inFlight[calls[c].load].value >= calls[c].since

Inv ==
  /\ TypeOK
  /\ BumpsAreNotAhead
  /\ LoadsAreNotAhead
  /\ KeptLoadsFollow
  /\ EntriesFollow
  /\ WaitersFollow
  /\ AnswersFollowTheBump

\* A key has a scope and a kind, a load a scope and a version.
LEMMA Shapes ==
  /\ \A k \in Key : ScopeOf(k) \in Scope /\ k[2] \in Kinds
  /\ \A l \in Load : LoadScope(l) \in Scope /\ LoadVersion(l) \in 0 .. MaxVersion
  BY DEF Key, Load, ScopeOf, LoadScope, LoadVersion

\* A request in flight is of a kind, and its answer a version of the schema; its
\* value is kept under a key of its scope.
LEMMA Requests ==
  ASSUME TypeOK, NEW l \in Load, inFlight[l] # Nothing
  PROVE  /\ inFlight[l] \in Request
         /\ inFlight[l].kind \in Kinds
         /\ Answered(l) => inFlight[l].value \in 0 .. MaxSchema
         /\ LoadedKey(l) \in Key
         /\ ScopeOf(LoadedKey(l)) = LoadScope(l)
  <1>1. inFlight[l] \in Request
    BY DEF TypeOK
  <1>2. inFlight[l].kind \in Kinds /\ inFlight[l].value \in (0 .. MaxSchema) \cup {Unsent}
    BY <1>1 DEF Request
  <1> QED
    BY <1>1, <1>2, Shapes DEF Answered, LoadedKey, Key, ScopeOf

\* The load of a miss is one of its key, at the version of its scope.
LEMMA CurrentLoads ==
  ASSUME TypeOK, NEW k \in Key
  PROVE  /\ CurrentLoad(k) \in Load
         /\ LoadScope(CurrentLoad(k)) = ScopeOf(k)
         /\ Kept(CurrentLoad(k))
         /\ LoadVersion(CurrentLoad(k)) = versions[ScopeOf(k)]
  <1>1. versions[ScopeOf(k)] \in 0 .. MaxVersion
    BY Shapes DEF TypeOK
  <1>2. NameOf[k[2]] \in Names /\ ScopeOf(k) \in Scope
    BY Shapes, NameAssumption
  <1> QED
    BY <1>1, <1>2 DEF CurrentLoad, Load, LoadScope, LoadVersion, Kept

LEMMA Initially == Init => Inv
  <1> SUFFICES ASSUME Init PROVE Inv
    OBVIOUS
  <1> USE BoundsAssumption, NoneAssumption DEF Init
  <1>1. TypeOK
    <2>1. AnyKind \in Kinds
      BY NameAssumption DEF AnyKind
    <2>2. Idle \in Call
      BY <2>1 DEF Idle, Call
    <2> QED
      BY <2>2 DEF TypeOK
  <1>2. BumpsAreNotAhead
    BY DEF BumpsAreNotAhead
  <1>3. LoadsAreNotAhead
    BY DEF LoadsAreNotAhead
  <1>4. KeptLoadsFollow
    BY DEF KeptLoadsFollow, Answered
  <1>5. EntriesFollow
    BY DEF EntriesFollow
  <1>6. WaitersFollow /\ AnswersFollowTheBump
    BY DEF WaitersFollow, AnswersFollowTheBump, Idle
  <1> QED
    BY <1>1, <1>2, <1>3, <1>4, <1>5, <1>6 DEF Inv

LEMMA HitKeeps ==
  ASSUME Inv, NEW c \in Callers, NEW k \in Key, Hit(c, k)
  PROVE  Inv'
  <1> USE DEF Hit
  <1>1. entries[k] \in Entry /\ entries[k].value >= bumped[ScopeOf(k)]
    BY DEF Inv, TypeOK, EntriesFollow, IsFresh
  <1>2. bumped[ScopeOf(k)] \in 0 .. MaxSchema
    BY Shapes DEF Inv, TypeOK
  <1> DEFINE mine == Asked(k, "answered", Nothing, entries[k].value)
  <1>3. mine \in Call
    BY <1>1, <1>2, Shapes DEF Asked, Call, Entry
  <1>4. calls' = [calls EXCEPT ![c] = mine] /\ calls \in [Callers -> Call]
    BY DEF Inv, TypeOK
  <1>5. mine.state = "answered" /\ mine.answer >= mine.since
    BY <1>1 DEF Asked
  <1> HIDE DEF mine
  <1>6. TypeOK'
    BY <1>3, <1>4 DEF Inv, TypeOK
  <1>7. \A d \in Callers : calls'[d] = IF d = c THEN mine ELSE calls[d]
    BY <1>4
  <1>8. WaitersFollow' /\ AnswersFollowTheBump'
    BY <1>5, <1>7 DEF Inv, WaitersFollow, AnswersFollowTheBump, Answered
  <1> QED
    BY <1>6, <1>8 DEF Inv, BumpsAreNotAhead, LoadsAreNotAhead, KeptLoadsFollow,
      EntriesFollow, Answered, Kept

LEMMA MissKeeps ==
  ASSUME Inv, NEW c \in Callers, NEW k \in Key, Miss(c, k)
  PROVE  Inv'
  <1> DEFINE l == CurrentLoad(k)
             mine == Asked(k, "waiting", l, 0)
             fresh == [kind |-> k[2], value |-> Unsent]
  <1>1. /\ l \in Load
        /\ LoadScope(l) = ScopeOf(k)
        /\ Kept(l)
        /\ LoadVersion(l) = versions[ScopeOf(k)]
    BY CurrentLoads DEF Inv
  <1>2. ScopeOf(k) \in Scope /\ bumped[ScopeOf(k)] \in 0 .. MaxSchema
    BY Shapes DEF Inv, TypeOK
  <1>3. /\ calls' = [calls EXCEPT ![c] = mine]
        /\ inFlight' = IF inFlight[l] = Nothing THEN [inFlight EXCEPT ![l] = fresh]
                                                ELSE inFlight
        /\ UNCHANGED <<schema, versions, entries, bumped, announced>>
    BY DEF Miss
  <1>4. /\ mine \in Call
        /\ mine.load = l
        /\ mine.since = bumped[ScopeOf(k)]
        /\ mine.state = "waiting"
    BY <1>1, <1>2, Shapes, BoundsAssumption DEF Asked, Call
  <1>4a. fresh \in Request /\ fresh # Nothing /\ fresh.value = Unsent
    BY Shapes, NoneAssumption DEF Request
  <1> HIDE DEF l, mine, fresh
  <1>5. /\ \A m \in Load : Answered(m)' <=> Answered(m)
        /\ \A m \in Load : Answered(m) => inFlight'[m] = inFlight[m]
        /\ \A m \in Load : m # l => inFlight'[m] = inFlight[m]
    BY <1>1, <1>3, <1>4a DEF Inv, TypeOK, Answered
  <1>6. \A d \in Callers : calls'[d] = IF d = c THEN mine ELSE calls[d]
    BY <1>3 DEF Inv, TypeOK
  <1>7. TypeOK'
    BY <1>1, <1>3, <1>4, <1>4a DEF Inv, TypeOK
  <1>8. LoadsAreNotAhead'
    <2> SUFFICES ASSUME NEW m \in Load, inFlight'[m] # Nothing
                 PROVE  LoadVersion(m) <= versions'[LoadScope(m)]
      BY DEF LoadsAreNotAhead
    <2>1. versions[LoadScope(m)] \in Nat /\ versions[LoadScope(l)] \in Nat
      BY <1>1, Shapes DEF Inv, TypeOK
    <2> QED
      BY <2>1, <1>1, <1>3, <1>5 DEF Inv, LoadsAreNotAhead
  <1>9. KeptLoadsFollow'
    BY <1>3, <1>5 DEF Inv, KeptLoadsFollow, Kept
  <1>10. inFlight[l].value >= bumped[ScopeOf(k)] \/ ~Answered(l)
    BY <1>1 DEF Inv, KeptLoadsFollow
  <1>11. bumped[ScopeOf(k)] <= schema[ScopeOf(k)]
    BY <1>2 DEF Inv, BumpsAreNotAhead
  <1>12. WaitersFollow'
    <2> SUFFICES ASSUME NEW d \in Callers, calls'[d].state = "waiting"
                 PROVE  /\ calls'[d].load \in Load
                        /\ calls'[d].since <= schema'[LoadScope(calls'[d].load)]
                        /\ Answered(calls[d].load)' => inFlight'[calls'[d].load].value >= calls'[d].since
      BY DEF WaitersFollow, Answered
    <2>1. CASE d = c
      <3>1. calls'[d] = mine
        BY <1>6, <2>1
      <3> QED
        BY <3>1, <1>1, <1>3, <1>4, <1>5, <1>10, <1>11 DEF Answered
    <2>2. CASE d # c
      <3>1. calls'[d] = calls[d]
        BY <1>6, <2>2
      <3>2. /\ calls[d].load \in Load
            /\ calls[d].since <= schema[LoadScope(calls[d].load)]
            /\ Answered(calls[d].load) => inFlight[calls[d].load].value >= calls[d].since
        BY <3>1 DEF Inv, WaitersFollow
      <3> QED
        BY <3>1, <3>2, <1>3, <1>5 DEF Answered
    <2> QED
      BY <2>1, <2>2
  <1>13. AnswersFollowTheBump'
    BY <1>4, <1>6 DEF Inv, AnswersFollowTheBump
  <1> QED
    BY <1>3, <1>7, <1>8, <1>9, <1>12, <1>13 DEF Inv, BumpsAreNotAhead, EntriesFollow

LEMMA SampleKeeps ==
  ASSUME Inv, NEW l \in Load, Sample(l)
  PROVE  Inv'
  <1> DEFINE answer == [inFlight[l] EXCEPT !.value = schema[LoadScope(l)]]
  <1>1. /\ inFlight[l] # Nothing
        /\ inFlight' = [inFlight EXCEPT ![l] = answer]
        /\ UNCHANGED <<schema, versions, entries, calls, bumped, announced>>
    BY DEF Sample
  <1>2. LoadScope(l) \in Scope /\ schema[LoadScope(l)] \in 0 .. MaxSchema
    BY Shapes DEF Inv, TypeOK
  <1>2a. answer \in Request /\ answer.value = schema[LoadScope(l)]
    BY <1>1, <1>2, Requests DEF Inv, Request
  <1> HIDE DEF answer
  <1>3. \A m \in Load : inFlight'[m] = IF m = l THEN answer ELSE inFlight[m]
    BY <1>1 DEF Inv, TypeOK
  <1>4. TypeOK'
    BY <1>1, <1>2a DEF Inv, TypeOK
  <1>5. LoadsAreNotAhead'
    BY <1>1, <1>3 DEF Inv, LoadsAreNotAhead
  <1>6. KeptLoadsFollow'
    <2> SUFFICES ASSUME NEW m \in Load, Answered(m)', Kept(m)'
                 PROVE  inFlight'[m].value >= bumped'[LoadScope(m)]
      BY DEF KeptLoadsFollow
    <2>1. CASE m = l
      <3>1. schema[LoadScope(l)] >= bumped[LoadScope(l)]
        BY <1>2 DEF Inv, TypeOK, BumpsAreNotAhead
      <3> QED
        BY <2>1, <3>1, <1>1, <1>3, <1>2a
    <2>2. CASE m # l
      BY <2>2, <1>1, <1>3 DEF Inv, KeptLoadsFollow, Answered, Kept
    <2> QED
      BY <2>1, <2>2
  <1>7. WaitersFollow'
    <2> SUFFICES ASSUME NEW d \in Callers, calls[d].state = "waiting"
                 PROVE  /\ calls[d].load \in Load
                        /\ calls[d].since <= schema[LoadScope(calls[d].load)]
                        /\ Answered(calls[d].load)' => inFlight'[calls[d].load].value >= calls[d].since
      BY <1>1 DEF WaitersFollow, Answered
    <2>1. /\ calls[d].load \in Load
          /\ calls[d].since <= schema[LoadScope(calls[d].load)]
          /\ Answered(calls[d].load) => inFlight[calls[d].load].value >= calls[d].since
      BY DEF Inv, WaitersFollow
    <2>2. calls[d].since \in 0 .. MaxSchema
      BY DEF Inv, TypeOK, Call
    <2>3. CASE calls[d].load = l
      <3>1. inFlight'[l].value = schema[LoadScope(l)]
        BY <1>3, <1>2a
      <3>2. calls[d].since <= schema[LoadScope(l)]
        BY <2>1, <2>3
      <3>3. schema[LoadScope(l)] >= calls[d].since
        BY <3>2, <2>2, <1>2
      <3> QED
        BY <2>1, <2>3, <3>1, <3>3
    <2>4. CASE calls[d].load # l
      <3>1. inFlight'[calls[d].load] = inFlight[calls[d].load] /\ calls' = calls
        BY <2>1, <2>4, <1>1, <1>3
      <3> QED
        BY <2>1, <3>1 DEF Answered
    <2> QED
      BY <2>3, <2>4
  <1> QED
    BY <1>1, <1>4, <1>5, <1>6, <1>7 DEF Inv, BumpsAreNotAhead, EntriesFollow, AnswersFollowTheBump

\* The end of a load, whether its value is kept or not: it leaves the map and
\* its callers stop waiting.
LEMMA EndKeeps ==
  ASSUME Inv, NEW l \in Load,
         inFlight' = [inFlight EXCEPT ![l] = Nothing],
         UNCHANGED <<schema, versions, bumped, announced>>
  PROVE  BumpsAreNotAhead' /\ LoadsAreNotAhead' /\ KeptLoadsFollow'
  <1>1. \A m \in Load : inFlight'[m] = IF m = l THEN Nothing ELSE inFlight[m]
    BY DEF Inv, TypeOK
  <1> QED
    BY <1>1 DEF Inv, BumpsAreNotAhead, LoadsAreNotAhead, KeptLoadsFollow, Answered, Kept

LEMMA FinishKeeps ==
  ASSUME Inv, NEW l \in Load, Finish(l)
  PROVE  Inv'
  <1> DEFINE value == inFlight[l].value
             kept == [version |-> LoadVersion(l), value |-> value, young |-> TRUE]
             given(c) == [calls[c] EXCEPT !.state = "answered", !.load = Nothing,
                                          !.got = inFlight[l].kind, !.answer = value]
             key == LoadedKey(l)
  <1>1. /\ Answered(l)
        /\ entries' = IF Kept(l) THEN [entries EXCEPT ![key] = kept] ELSE entries
        /\ calls' = [c \in Callers |-> IF WaitsFor(c, l) THEN given(c) ELSE calls[c]]
        /\ inFlight' = [inFlight EXCEPT ![l] = Nothing]
        /\ UNCHANGED <<schema, versions, bumped, announced>>
    BY DEF Finish
  <1>2. value \in 0 .. MaxSchema /\ inFlight[l].kind \in Kinds
    BY <1>1, Requests DEF Inv, Answered
  <1>3. key \in Key /\ LoadVersion(l) \in 0 .. MaxVersion /\ LoadScope(l) = ScopeOf(key)
    BY <1>1, Requests, Shapes DEF Inv, Answered
  <1>4. kept \in Entry
    BY <1>2, <1>3 DEF Entry
  <1>5. \A c \in Callers : /\ calls[c] \in Call
                           /\ given(c) \in Call
                           /\ given(c).state = "answered"
                           /\ given(c).answer = value
                           /\ given(c).since = calls[c].since
    BY <1>2 DEF Inv, TypeOK, Call
  <1>6. BumpsAreNotAhead' /\ LoadsAreNotAhead' /\ KeptLoadsFollow'
    BY <1>1, EndKeeps
  <1>7. kept.version = LoadVersion(l) /\ kept.value = value
    OBVIOUS
  <1>8. Kept(l) => value >= bumped[LoadScope(l)]
    BY <1>1 DEF Inv, KeptLoadsFollow
  <1> HIDE DEF kept, given, key
  <1>9. TypeOK'
    <2>1. entries' \in [Key -> Entry \cup {Nothing}]
      BY <1>1, <1>3, <1>4 DEF Inv, TypeOK
    <2>2. calls' \in [Callers -> Call]
      BY <1>1, <1>5
    <2>3. inFlight' \in [Load -> Request \cup {Nothing}]
      BY <1>1 DEF Inv, TypeOK
    <2> QED
      BY <2>1, <2>2, <2>3, <1>1 DEF Inv, TypeOK
  <1>10. EntriesFollow'
    <2> SUFFICES ASSUME NEW k \in Key, entries'[k] # Nothing,
                        entries'[k].version = versions[ScopeOf(k)]
                 PROVE  entries'[k].value >= bumped[ScopeOf(k)]
      BY <1>1 DEF EntriesFollow
    <2>1. CASE Kept(l) /\ k = key
      <3>1. entries'[k] = kept
        BY <2>1, <1>1, <1>3 DEF Inv, TypeOK
      <3> QED
        BY <2>1, <3>1, <1>3, <1>7, <1>8
    <2>2. CASE ~(Kept(l) /\ k = key)
      <3>1. entries'[k] = entries[k]
        BY <2>2, <1>1 DEF Inv, TypeOK
      <3> QED
        BY <3>1 DEF Inv, EntriesFollow
    <2> QED
      BY <2>1, <2>2
  <1>11. \A c \in Callers : calls'[c] = IF WaitsFor(c, l) THEN given(c) ELSE calls[c]
    BY <1>1
  <1>12. \A m \in Load : inFlight'[m] = IF m = l THEN Nothing ELSE inFlight[m]
    BY <1>1 DEF Inv, TypeOK
  <1>13. WaitersFollow'
    BY <1>1, <1>5, <1>11, <1>12 DEF Inv, WaitersFollow, WaitsFor, Answered
  <1>14. AnswersFollowTheBump'
    <2> SUFFICES ASSUME NEW c \in Callers, calls'[c].state = "answered"
                 PROVE  calls'[c].answer >= calls'[c].since
      BY DEF AnswersFollowTheBump
    <2>1. CASE WaitsFor(c, l)
      <3>1. value >= calls[c].since
        BY <2>1, <1>1 DEF Inv, WaitersFollow, WaitsFor
      <3> QED
        BY <2>1, <3>1, <1>5, <1>11
    <2>2. CASE ~WaitsFor(c, l)
      BY <2>2, <1>11 DEF Inv, AnswersFollowTheBump
    <2> QED
      BY <2>1, <2>2
  <1> QED
    BY <1>6, <1>9, <1>10, <1>13, <1>14 DEF Inv

LEMMA FailKeeps ==
  ASSUME Inv, NEW l \in Load, Fail(l)
  PROVE  Inv'
  <1> DEFINE refused(c) == [calls[c] EXCEPT !.state = "failed", !.load = Nothing]
  <1>1. /\ calls' = [c \in Callers |-> IF WaitsFor(c, l) THEN refused(c) ELSE calls[c]]
        /\ inFlight' = [inFlight EXCEPT ![l] = Nothing]
        /\ UNCHANGED <<schema, versions, entries, bumped, announced>>
    BY DEF Fail
  <1>2. \A c \in Callers : /\ calls[c] \in Call
                           /\ refused(c) \in Call
                           /\ refused(c).state = "failed"
    BY DEF Inv, TypeOK, Call
  <1>3. BumpsAreNotAhead' /\ LoadsAreNotAhead' /\ KeptLoadsFollow'
    BY <1>1, EndKeeps
  <1> HIDE DEF refused
  <1>4. TypeOK'
    BY <1>1, <1>2 DEF Inv, TypeOK
  <1>5. \A c \in Callers : calls'[c] = IF WaitsFor(c, l) THEN refused(c) ELSE calls[c]
    BY <1>1
  <1>6. \A m \in Load : inFlight'[m] = IF m = l THEN Nothing ELSE inFlight[m]
    BY <1>1 DEF Inv, TypeOK
  <1>7. WaitersFollow' /\ AnswersFollowTheBump'
    BY <1>1, <1>2, <1>5, <1>6 DEF Inv, WaitersFollow, AnswersFollowTheBump, Answered
  <1> QED
    BY <1>1, <1>3, <1>4, <1>7 DEF Inv, EntriesFollow

LEMMA ExpireKeeps ==
  ASSUME Inv, NEW k \in Key, Expire(k)
  PROVE  Inv'
  <1> DEFINE old == [entries[k] EXCEPT !.young = FALSE]
  <1>1. /\ entries[k] # Nothing
        /\ entries' = [entries EXCEPT ![k] = old]
        /\ UNCHANGED <<schema, versions, inFlight, calls, bumped, announced>>
    BY DEF Expire
  <1>2. /\ old \in Entry
        /\ old.version = entries[k].version
        /\ old.value = entries[k].value
    BY <1>1 DEF Inv, TypeOK, Entry
  <1> HIDE DEF old
  <1>3. \A m \in Key : entries'[m] = IF m = k THEN old ELSE entries[m]
    BY <1>1 DEF Inv, TypeOK
  <1>4. TypeOK'
    BY <1>1, <1>2 DEF Inv, TypeOK
  <1>5. EntriesFollow'
    BY <1>1, <1>2, <1>3 DEF Inv, EntriesFollow
  <1> QED
    BY <1>1, <1>4, <1>5 DEF Inv, BumpsAreNotAhead, LoadsAreNotAhead, KeptLoadsFollow,
      WaitersFollow, AnswersFollowTheBump, Answered, Kept

LEMMA MutateKeeps ==
  ASSUME Inv, NEW s \in Scope, Mutate(s)
  PROVE  Inv'
  <1>1. /\ schema[s] < MaxSchema
        /\ schema' = [schema EXCEPT ![s] = schema[s] + 1]
        /\ UNCHANGED <<versions, entries, inFlight, calls, bumped, announced>>
    BY DEF Mutate
  <1>2. /\ \A t \in Scope : schema[t] \in 0 .. MaxSchema
        /\ \A t \in Scope : schema'[t] \in 0 .. MaxSchema /\ schema[t] <= schema'[t]
        /\ schema' \in [Scope -> 0 .. MaxSchema]
    BY <1>1, BoundsAssumption DEF Inv, TypeOK
  <1>3. TypeOK'
    BY <1>1, <1>2 DEF Inv, TypeOK
  <1>4. BumpsAreNotAhead'
    <2>1. \A t \in Scope : bumped[t] \in 0 .. MaxSchema
      BY DEF Inv, TypeOK
    <2> QED
      BY <2>1, <1>1, <1>2 DEF Inv, BumpsAreNotAhead
  <1>5. WaitersFollow'
    <2> SUFFICES ASSUME NEW d \in Callers, calls[d].state = "waiting"
                 PROVE  /\ calls[d].load \in Load
                        /\ calls[d].since <= schema'[LoadScope(calls[d].load)]
                        /\ Answered(calls[d].load) => inFlight[calls[d].load].value >= calls[d].since
      BY <1>1 DEF WaitersFollow, Answered
    <2>1. /\ calls[d].load \in Load
          /\ calls[d].since <= schema[LoadScope(calls[d].load)]
          /\ Answered(calls[d].load) => inFlight[calls[d].load].value >= calls[d].since
      BY DEF Inv, WaitersFollow
    <2>2. calls[d].since \in 0 .. MaxSchema
      BY DEF Inv, TypeOK, Call
    <2>3. LoadScope(calls[d].load) \in Scope
      BY <2>1, Shapes
    <2> QED
      BY <2>1, <2>2, <2>3, <1>2
  <1> QED
    BY <1>1, <1>3, <1>4, <1>5 DEF Inv, LoadsAreNotAhead, KeptLoadsFollow, EntriesFollow,
      AnswersFollowTheBump, Answered, Kept

\* An invalidation bumps scopes past every load in flight.
LEMMA InvalidateKeeps ==
  ASSUME Inv, NEW conn \in Connections, NEW db \in Databases \cup {AllDatabases},
         Invalidate(conn, db)
  PROVE  Inv'
  <1> DEFINE scopes == BumpedScopes(conn, db)
  <1>1. /\ \A s \in scopes : versions[s] < MaxVersion
        /\ versions' = [s \in Scope |-> IF s \in scopes THEN versions[s] + 1 ELSE versions[s]]
        /\ entries' = [k \in Key |-> IF ScopeOf(k) \in scopes THEN Nothing ELSE entries[k]]
        /\ bumped' = [s \in Scope |-> IF s \in scopes THEN schema[s] ELSE bumped[s]]
        /\ announced' = [s \in Scope |-> IF InReach(s, conn, db) THEN schema[s] ELSE announced[s]]
        /\ UNCHANGED <<schema, inFlight, calls>>
    BY DEF Invalidate
  <1> HIDE DEF scopes
  <1>2. \A s \in Scope : /\ versions[s] \in 0 .. MaxVersion
                         /\ bumped[s] \in 0 .. MaxSchema
                         /\ schema[s] \in 0 .. MaxSchema
    BY DEF Inv, TypeOK
  <1>3. \A s \in Scope : versions'[s] = IF s \in scopes THEN versions[s] + 1 ELSE versions[s]
    BY <1>1
  <1>4. \A s \in Scope : bumped'[s] = IF s \in scopes THEN schema[s] ELSE bumped[s]
    BY <1>1
  <1>5. TypeOK'
    <2>1. versions' \in [Scope -> 0 .. MaxVersion]
      BY <1>1, <1>2, BoundsAssumption
    <2>2. entries' \in [Key -> Entry \cup {Nothing}]
      BY <1>1 DEF Inv, TypeOK
    <2>3. bumped' \in [Scope -> 0 .. MaxSchema] /\ announced' \in [Scope -> 0 .. MaxSchema]
      BY <1>1, <1>2 DEF Inv, TypeOK
    <2> QED
      BY <2>1, <2>2, <2>3, <1>1 DEF Inv, TypeOK
  <1>6. BumpsAreNotAhead'
    BY <1>1, <1>2, <1>4 DEF Inv, BumpsAreNotAhead
  <1>7. LoadsAreNotAhead'
    <2> SUFFICES ASSUME NEW l \in Load, inFlight[l] # Nothing
                 PROVE  LoadVersion(l) <= versions'[LoadScope(l)]
      BY <1>1 DEF LoadsAreNotAhead
    <2>1. LoadScope(l) \in Scope /\ LoadVersion(l) \in 0 .. MaxVersion
      BY Shapes
    <2>2. LoadVersion(l) <= versions[LoadScope(l)]
      BY DEF Inv, LoadsAreNotAhead
    <2> QED
      BY <2>1, <2>2, <1>2, <1>3
  <1>8. KeptLoadsFollow'
    <2> SUFFICES ASSUME NEW l \in Load, Answered(l), versions'[LoadScope(l)] = LoadVersion(l)
                 PROVE  inFlight[l].value >= bumped'[LoadScope(l)]
      BY <1>1 DEF KeptLoadsFollow, Answered, Kept
    <2>1. LoadScope(l) \in Scope /\ LoadVersion(l) \in 0 .. MaxVersion
      BY Shapes
    <2>2. LoadVersion(l) <= versions[LoadScope(l)]
      BY DEF Inv, LoadsAreNotAhead, Answered
    <2>3. LoadScope(l) \notin scopes
      BY <2>1, <2>2, <1>2, <1>3
    <2> QED
      BY <2>1, <2>3, <1>3, <1>4 DEF Inv, KeptLoadsFollow, Kept
  <1>9. EntriesFollow'
    <2> SUFFICES ASSUME NEW k \in Key, entries'[k] # Nothing,
                        entries'[k].version = versions'[ScopeOf(k)]
                 PROVE  entries'[k].value >= bumped'[ScopeOf(k)]
      BY DEF EntriesFollow
    <2>1. ScopeOf(k) \notin scopes /\ entries'[k] = entries[k]
      BY <1>1
    <2> QED
      BY <2>1, <1>3, <1>4, Shapes DEF Inv, EntriesFollow
  <1> QED
    BY <1>1, <1>5, <1>6, <1>7, <1>8, <1>9
    DEF Inv, WaitersFollow, AnswersFollowTheBump, Answered

LEMMA StepKeeps == Inv /\ [Next]_vars => Inv'
  <1> SUFFICES ASSUME Inv, [Next]_vars PROVE Inv'
    OBVIOUS
  <1>1. ASSUME NEW c \in Callers, NEW k \in Key, Hit(c, k) PROVE Inv'
    BY <1>1, HitKeeps
  <1>2. ASSUME NEW c \in Callers, NEW k \in Key, Miss(c, k) PROVE Inv'
    BY <1>2, MissKeeps
  <1>3. ASSUME NEW l \in Load, Sample(l) PROVE Inv'
    BY <1>3, SampleKeeps
  <1>4. ASSUME NEW l \in Load, Finish(l) PROVE Inv'
    BY <1>4, FinishKeeps
  <1>5. ASSUME NEW l \in Load, Fail(l) PROVE Inv'
    BY <1>5, FailKeeps
  <1>6. ASSUME NEW k \in Key, Expire(k) PROVE Inv'
    BY <1>6, ExpireKeeps
  <1>7. ASSUME NEW s \in Scope, Mutate(s) PROVE Inv'
    BY <1>7, MutateKeeps
  <1>8. ASSUME NEW conn \in Connections, NEW db \in Databases \cup {AllDatabases},
               Invalidate(conn, db)
        PROVE Inv'
    BY <1>8, InvalidateKeeps
  <1>9. CASE UNCHANGED vars
    BY <1>9 DEF vars, Inv, TypeOK, BumpsAreNotAhead, LoadsAreNotAhead, KeptLoadsFollow,
      EntriesFollow, WaitersFollow, AnswersFollowTheBump, Answered, Kept
  <1> QED
    BY <1>1, <1>2, <1>3, <1>4, <1>5, <1>6, <1>7, <1>8, <1>9 DEF Next

LEMMA Always == Spec => []Inv
  <1>1. Init => Inv
    BY Initially
  <1>2. Inv /\ [Next]_vars => Inv'
    BY StepKeeps
  <1> QED
    BY <1>1, <1>2, PTL DEF Spec

\* The variables keep their types (the maps of schema-cache.ts and the calls).
THEOREM TypeCorrect == Spec => []TypeOK
  <1>1. Inv => TypeOK
    BY DEF Inv
  <1> QED
    BY <1>1, Always, PTL

\* No load restores what a bump of its scope dropped: what the cache serves was
\* read after the last bump (getOrLoad and invalidateSchemaCache).
THEOREM BumpedStaysDropped == Spec => []BumpedIsNotRestored
  <1>1. Inv => BumpedIsNotRestored
    BY DEF Inv, EntriesFollow, BumpedIsNotRestored, IsFresh
  <1> QED
    BY <1>1, Always, PTL

\* A caller is answered with metadata read after the last bump it could know of,
\* also when it joined a load another caller had started (getOrLoad).
THEOREM AnswersAreCurrent == Spec => []AnswersFollowTheBump
  <1>1. Inv => AnswersFollowTheBump
    BY DEF Inv
  <1> QED
    BY <1>1, Always, PTL

-----------------------------------------------------------------------------
(***************************************************************************)
(* CsvImport: the invariant                                                *)
(***************************************************************************)
Frame == Row \cup {"open", "end", "cancel"}

ThreadTyped ==
  /\ via \in {"direct", "sidecar"} /\ held \in {"pool", "thread", "session"} /\ bad \in 0 .. Rows
  /\ parser \in {"reading", "sending", "done"} /\ read \in 0 .. Rows
  /\ verdict \in {"none", "ok", "cancelled", "failed"}
CommandTyped ==
  /\ flag \in BOOLEAN /\ heard \in BOOLEAN /\ cut \in BOOLEAN /\ late \in BOOLEAN /\ unheard \in BOOLEAN
  /\ cmd \in {"counting", "importing", "joining", "verifying", "done"}
  /\ outcome \in {"none", "ok", "failed", "cancelled", "timeout"}
  /\ told \in {"nothing", "success", "rolled_back"}
EngineTyped ==
  /\ tx \in {"none", "beginning", "open", "committing", "committed", "ended", "left"} /\ inserted \in Nat
  /\ pump \in {"idle", "looking", "receiving", "waiting"}
  /\ reply \in {"none", "ok", "failed", "cancelled"}
ProcessTyped ==
  /\ streaming \in BOOLEAN /\ abort \in BOOLEAN /\ alive \in BOOLEAN /\ eof \in BOOLEAN
RowsTyped ==
  /\ channel \in Seq(Row) /\ Len(channel) <= Capacity
  /\ batch \in Seq(Row) /\ Len(batch) < BatchRows
  /\ wire \in Seq(Frame)
  /\ stream \in Seq(Row) /\ Len(stream) <= StreamCapacity
ImportTyped == ThreadTyped /\ CommandTyped /\ EngineTyped /\ ProcessTyped /\ RowsTyped

Pumping == pump \in {"looking", "receiving"}
Holds(s) == \E i \in 1 .. Len(s) : s[i] = "bad"

\* The frames on the pipe that are not rows: before the rows, and behind them.
Header == IF tx = "none" /\ wire # <<>> THEN 1 ELSE 0
Trailer == IF wire # <<>> /\ wire[Len(wire)] \in {"end", "cancel"} THEN 1 ELSE 0
Sending == IF parser = "sending" THEN 1 ELSE 0
OnTheWay == Len(stream) + Len(wire) + Len(batch) + Len(channel) + Sending

\* The thread.
ThreadInv ==
  /\ parser = "done" <=> verdict # "none"
  /\ bad > 0 => read <= bad
  /\ bad > 0 /\ parser = "reading" => read < bad
  /\ parser = "sending" => read > 0
  /\ heard /\ verdict = "ok" => bad > 0 \/ read = Rows
  /\ cut => parser = "done" /\ verdict # "ok"

\* The command, and who works for it.
CommandInv ==
  /\ cmd \in {"counting", "importing"} => heard
  /\ heard => cmd \in {"counting", "importing"} \/ held = "thread"
  /\ held # "pool" => via = "direct"
  /\ pump # "idle" => cmd = "importing" /\ via = "sidecar"
  /\ ~Pumping => batch = <<>>
  /\ cmd = "counting" => tx = "none" /\ wire = <<>>
  /\ via = "direct" =>
       /\ wire = <<>> /\ stream = <<>> /\ ~streaming /\ alive
       /\ tx \in {"beginning", "open"} => heard
  /\ told = "rolled_back" => ~(verdict = "ok" /\ outcome = "ok")
  /\ cmd = "verifying" \/ told = "success" => verdict = "ok" /\ outcome = "ok"
  /\ told # "nothing" => cmd = "done" /\ verdict # "none"
  /\ outcome = "none" <=> cmd \in {"counting", "importing"}

\* The pipe: a frame that opens the stream, rows, and one that ends or cancels it.
WireInv ==
  /\ \A i \in 1 .. Len(wire) :
       /\ wire[i] = "open" => i = 1 /\ tx = "none"
       /\ wire[i] \in {"end", "cancel"} => i = Len(wire) /\ ~Pumping
       /\ i = 1 /\ tx = "none" => wire[i] = "open"
  /\ tx = "none" => inserted = 0 /\ stream = <<>> /\ ~streaming
  /\ alive /\ tx = "none" /\ pump # "idle" => wire # <<>>
  /\ streaming => tx \in {"beginning", "open"} /\ alive
  /\ Pumping /\ tx # "none" => streaming \/ tx = "ended"
  /\ ~alive => wire = <<>> /\ tx \notin {"beginning", "open", "committing"}

\* The process takes what is on the pipe.
Flowing == alive /\ (streaming \/ (tx = "none" /\ wire # <<>>))

\* The rows still come from the thread.
Moving ==
  \/ cmd = "counting"
  \/ via = "direct" /\ tx \in {"beginning", "open"}
  \/ Pumping /\ Flowing

\* No row is counted twice; and while the rows still come none is lost, the bad one
\* included.
CountInv ==
  /\ inserted + OnTheWay <= read + Header + Trailer
  /\ Moving => /\ verdict # "failed" => inserted + OnTheWay = read + Header
               /\ verdict = "ok" /\ bad > 0 =>
                    Holds(channel) \/ Holds(batch) \/ Holds(wire) \/ Holds(stream)

\* Behind the end of the rows is the whole file, or a bad row the driver has still to
\* take.
EndInv ==
  /\ Flowing /\ (\E i \in 1 .. Len(wire) : wire[i] = "end") =>
       \/ cut
       \/ bad = 0 /\ inserted + Len(stream) + Len(wire) = Rows + Header + 1
       \/ bad > 0 /\ (Holds(stream) \/ Holds(wire))
  /\ via = "sidecar" /\ tx \in {"beginning", "open"} /\ ~streaming =>
       \/ cut
       \/ bad = 0 /\ inserted + Len(stream) = Rows
       \/ bad > 0 /\ Holds(stream)
  /\ tx \in {"committing", "committed"} => cut \/ (bad = 0 /\ inserted = Rows)

\* What the answers say of the transaction.
AnswerInv ==
  /\ RowsEnded => parser = "done" /\ (verdict = "ok" \/ cut)
  /\ outcome = "ok" \/ reply = "ok" => tx = "committed"
  /\ outcome = "cancelled" \/ reply = "cancelled" => tx = "ended"
  /\ outcome = "failed" \/ reply # "none" =>
       tx \in {"committed", "ended"} \/ (tx = "none" /\ ~alive)
  /\ tx = "committed" => unheard \/ outcome = "ok" \/ reply = "ok"
  /\ tx = "committed" /\ (outcome = "failed" \/ reply = "failed") => unheard

\* What a timeout leaves behind: a thread that has not taken all rows looks at the flag
\* before it takes another.
TimeoutInv ==
  /\ tx = "left" => held = "session" /\ outcome = "timeout"
  /\ outcome = "timeout" => flag /\ (RowsEnded => late \/ cut)
  /\ outcome = "timeout" /\ ~late /\ via = "direct" /\ tx \in {"beginning", "open"} =>
       channel # <<>> \/ parser = "sending" \/ read # Rows

ImportInv ==
  /\ ImportTyped /\ ThreadInv /\ CommandInv /\ WireInv /\ CountInv /\ EndInv /\ AnswerInv
  /\ TimeoutInv
-----------------------------------------------------------------------------
(***************************************************************************)
(* CsvImport: rows on their way                                            *)
(***************************************************************************)
LEMMA EmptyHoldsNothing == ~Holds(<<>>) /\ Len(<<>>) = 0
  BY DEF Holds

LEMMA RowJoins ==
  ASSUME NEW S, NEW s \in Seq(S), NEW x \in S
  PROVE  /\ Append(s, x) \in Seq(S) /\ Len(Append(s, x)) = Len(s) + 1 /\ Len(s) \in Nat
         /\ Append(s, x) # <<>>
         /\ Append(s, x)[Len(s) + 1] = x
         /\ \A i \in 1 .. Len(s) : Append(s, x)[i] = s[i]
         /\ Holds(Append(s, x)) <=> Holds(s) \/ x = "bad"
<1>1. /\ Append(s, x) \in Seq(S) /\ Len(Append(s, x)) = Len(s) + 1 /\ Len(s) \in Nat
      /\ Append(s, x) # <<>> /\ Append(s, x)[Len(s) + 1] = x
      /\ \A i \in 1 .. Len(s) : Append(s, x)[i] = s[i]
  OBVIOUS
<1>2. ASSUME Holds(Append(s, x)) PROVE Holds(s) \/ x = "bad"
  <2>1. PICK i \in 1 .. Len(Append(s, x)) : Append(s, x)[i] = "bad"
    BY <1>2 DEF Holds
  <2>2. i \in 1 .. Len(s) \/ i = Len(s) + 1
    BY <1>1
  <2>. QED  BY <1>1, <2>1, <2>2 DEF Holds
<1>3. ASSUME Holds(s) PROVE Holds(Append(s, x))
  <2>1. PICK i \in 1 .. Len(s) : s[i] = "bad"
    BY <1>3 DEF Holds
  <2>2. i \in 1 .. Len(Append(s, x)) /\ Append(s, x)[i] = "bad"
    BY <1>1, <2>1
  <2>. QED  BY <2>2 DEF Holds
<1>4. ASSUME x = "bad" PROVE Holds(Append(s, x))
  <2>1. Len(s) + 1 \in 1 .. Len(Append(s, x))
    BY <1>1
  <2>. QED  BY <1>1, <1>4, <2>1 DEF Holds
<1>. QED  BY <1>1, <1>2, <1>3, <1>4

LEMMA RowLeaves ==
  ASSUME NEW S, NEW s \in Seq(S), s # <<>>
  PROVE  /\ Head(s) \in S /\ Head(s) = s[1] /\ Tail(s) \in Seq(S) /\ Len(s) \in Nat \ {0}
         /\ Len(Tail(s)) = Len(s) - 1 /\ \A i \in 1 .. Len(Tail(s)) : Tail(s)[i] = s[i + 1]
         /\ Holds(s) <=> Head(s) = "bad" \/ Holds(Tail(s))
<1>1. /\ Head(s) \in S /\ Head(s) = s[1] /\ Tail(s) \in Seq(S) /\ Len(s) \in Nat \ {0}
      /\ Len(Tail(s)) = Len(s) - 1 /\ \A i \in 1 .. Len(Tail(s)) : Tail(s)[i] = s[i + 1]
  OBVIOUS
<1>2. ASSUME Holds(s) PROVE Head(s) = "bad" \/ Holds(Tail(s))
  <2>1. PICK i \in 1 .. Len(s) : s[i] = "bad"
    BY <1>2 DEF Holds
  <2>2. CASE i = 1
    BY <1>1, <2>1, <2>2
  <2>3. CASE i # 1
    <3>1. i - 1 \in 1 .. Len(Tail(s)) /\ (i - 1) + 1 = i
      BY <1>1, <2>3
    <3>2. Tail(s)[i - 1] = "bad"
      BY <1>1, <2>1, <3>1
    <3>. QED  BY <3>1, <3>2 DEF Holds
  <2>. QED  BY <2>2, <2>3
<1>3. ASSUME Holds(Tail(s)) PROVE Holds(s)
  <2>1. PICK i \in 1 .. Len(Tail(s)) : Tail(s)[i] = "bad"
    BY <1>3 DEF Holds
  <2>2. i + 1 \in 1 .. Len(s) /\ s[i + 1] = "bad"
    BY <1>1, <2>1
  <2>. QED  BY <2>2 DEF Holds
<1>4. ASSUME Head(s) = "bad" PROVE Holds(s)
  <2>1. 1 \in 1 .. Len(s)
    BY <1>1
  <2>. QED  BY <1>1, <1>4, <2>1 DEF Holds
<1>. QED  BY <1>1, <1>2, <1>3, <1>4

LEMMA RowsJoin ==
  ASSUME NEW S, NEW s \in Seq(S), NEW t \in Seq(S)
  PROVE  /\ s \o t \in Seq(S) /\ Len(s \o t) = Len(s) + Len(t) /\ Len(s) \in Nat /\ Len(t) \in Nat
         /\ \A i \in 1 .. Len(s) : (s \o t)[i] = s[i]
         /\ \A i \in 1 .. Len(t) : (s \o t)[Len(s) + i] = t[i]
         /\ Holds(s) \/ Holds(t) => Holds(s \o t)
<1>1. /\ s \o t \in Seq(S) /\ Len(s \o t) = Len(s) + Len(t) /\ Len(s) \in Nat /\ Len(t) \in Nat
      /\ \A i \in 1 .. Len(s) : (s \o t)[i] = s[i]
      /\ \A i \in 1 .. Len(t) : (s \o t)[Len(s) + i] = t[i]
  OBVIOUS
<1>2. ASSUME Holds(s) PROVE Holds(s \o t)
  <2>1. PICK i \in 1 .. Len(s) : s[i] = "bad"
    BY <1>2 DEF Holds
  <2>2. i \in 1 .. Len(s \o t) /\ (s \o t)[i] = "bad"
    BY <1>1, <2>1
  <2>. QED  BY <2>2 DEF Holds
<1>3. ASSUME Holds(t) PROVE Holds(s \o t)
  <2>1. PICK i \in 1 .. Len(t) : t[i] = "bad"
    BY <1>3 DEF Holds
  <2>2. Len(s) + i \in 1 .. Len(s \o t) /\ (s \o t)[Len(s) + i] = "bad"
    BY <1>1, <2>1
  <2>. QED  BY <2>2 DEF Holds
<1>. QED  BY <1>1, <1>2, <1>3

-----------------------------------------------------------------------------
(***************************************************************************)
(* CsvImport: what a step leaves as it is                                  *)
(***************************************************************************)
LEMMA ImportInvIs ==
  ASSUME ImportInv
  PROVE  /\ ThreadTyped /\ CommandTyped /\ EngineTyped /\ ProcessTyped /\ RowsTyped
         /\ ThreadInv /\ CommandInv /\ WireInv /\ CountInv /\ EndInv /\ AnswerInv /\ TimeoutInv
  BY DEF ImportInv, ImportTyped

LEMMA QueueOf ==
  ASSUME NEW S, NEW s \in Seq(S)
  PROVE  Len(s) \in Nat /\ (s = <<>> <=> Len(s) = 0)
  OBVIOUS

\* Numbers of rows are numbers, and the frames that are no rows are on the pipe.
LEMMA Numbers ==
  ASSUME ThreadTyped, EngineTyped, RowsTyped, WireInv
  PROVE  /\ Len(channel) \in Nat /\ Len(batch) \in Nat /\ Len(wire) \in Nat /\ Len(stream) \in Nat
         /\ Rows \in Nat /\ read \in Nat /\ bad \in Nat /\ inserted \in Nat
         /\ Header \in 0 .. 1 /\ Trailer \in 0 .. 1 /\ Sending \in 0 .. 1
         /\ Header + Trailer <= Len(wire)
         /\ Pumping => Trailer = 0
         /\ tx # "none" => Header = 0
         /\ wire = <<>> => Header = 0 /\ Trailer = 0 /\ Len(wire) = 0
<1>1. /\ Len(channel) \in Nat /\ Len(batch) \in Nat /\ Len(wire) \in Nat /\ Len(stream) \in Nat
      /\ wire = <<>> <=> Len(wire) = 0
  BY QueueOf DEF RowsTyped
<1>2. Rows \in Nat /\ read \in Nat /\ bad \in Nat /\ inserted \in Nat
  BY CapacitiesAssumption DEF ThreadTyped, EngineTyped
<1>3. Header \in 0 .. 1 /\ Trailer \in 0 .. 1 /\ Sending \in 0 .. 1
  BY DEF Header, Trailer, Sending
<1>4. wire # <<>> => 1 \in 1 .. Len(wire) /\ Len(wire) \in 1 .. Len(wire)
  BY <1>1
<1>5. Trailer = 1 => wire # <<>> /\ wire[Len(wire)] \in {"end", "cancel"}
  BY DEF Trailer
<1>6. Header = 1 => wire # <<>> /\ tx = "none"
  BY DEF Header
<1>7. ASSUME Header = 1, Trailer = 1 PROVE Len(wire) >= 2
  <2>1. wire[1] = "open" /\ wire[Len(wire)] # "open"
    BY <1>4, <1>5, <1>6, <1>7 DEF WireInv
  <2>. QED  BY <1>1, <1>5, <1>7, <2>1
<1>8. Header + Trailer <= Len(wire)
  BY <1>1, <1>3, <1>5, <1>6, <1>7
<1>9. Pumping => Trailer = 0
  BY <1>3, <1>4, <1>5 DEF WireInv
<1>. QED  BY <1>1, <1>2, <1>3, <1>5, <1>6, <1>8, <1>9

\* While the rows come the command listens, and what the thread gives up is not lost.
LEMMA MovingIs ==
  ASSUME CommandTyped, CommandInv, Moving
  PROVE  heard
  BY DEF Moving, CommandInv, CommandTyped, Pumping

LEMMA ThreadStays ==
  ASSUME ThreadInv, UNCHANGED <<parser, verdict, bad, read, cut>>, heard' => heard
  PROVE  ThreadInv'
  BY DEF ThreadInv

LEMMA CountStays ==
  ASSUME CountInv, UNCHANGED <<inserted, stream, wire, batch, channel, parser, read, verdict, bad>>,
         tx' = "none" <=> tx = "none", Moving' => Moving
  PROVE  CountInv'
<1>1. Header' = Header /\ Trailer' = Trailer /\ OnTheWay' = OnTheWay
  BY DEF Header, Trailer, OnTheWay, Sending
<1>. QED  BY <1>1 DEF CountInv

\* Rows may be dropped once they no longer have to come.
LEMMA CountDrops ==
  ASSUME CountInv, ~Moving', ThreadTyped, EngineTyped, RowsTyped, WireInv,
         inserted' = inserted, read' = read, parser' = parser,
         tx' = "none" <=> tx = "none",
         channel' \in {channel, <<>>}, batch' \in {batch, <<>>}, stream' \in {stream, <<>>},
         wire' \in {wire, <<>>}
  PROVE  CountInv'
<1>1. /\ Len(channel) \in Nat /\ Len(batch) \in Nat /\ Len(wire) \in Nat /\ Len(stream) \in Nat
      /\ Sending \in 0 .. 1 /\ Header \in 0 .. 1 /\ Trailer \in 0 .. 1
      /\ read \in Nat /\ inserted \in Nat /\ Header + Trailer <= Len(wire)
  BY Numbers
<1>2. /\ Len(channel') <= Len(channel) /\ Len(batch') <= Len(batch) /\ Len(stream') <= Len(stream)
      /\ Len(channel') \in Nat /\ Len(batch') \in Nat /\ Len(stream') \in Nat
  BY <1>1, EmptyHoldsNothing
<1>3. Sending' = Sending
  BY DEF Sending
<1>4. inserted + OnTheWay <= read + Header + Trailer
  BY DEF CountInv
<1>5. CASE wire' = wire
  <2>1. Header' = Header /\ Trailer' = Trailer /\ Len(wire') = Len(wire)
    BY <1>5 DEF Header, Trailer
  <2>2. inserted' + OnTheWay' <= read' + Header' + Trailer'
    BY <1>1, <1>2, <1>3, <1>4, <2>1 DEF OnTheWay
  <2>. QED  BY <2>2 DEF CountInv
<1>6. CASE wire' = <<>>
  <2>1. Header' = 0 /\ Trailer' = 0 /\ Len(wire') = 0
    BY <1>6, EmptyHoldsNothing DEF Header, Trailer
  <2>2. inserted' + OnTheWay' <= read' + Header' + Trailer'
    BY <1>1, <1>2, <1>3, <1>4, <2>1 DEF OnTheWay
  <2>. QED  BY <2>2 DEF CountInv
<1>. QED  BY <1>5, <1>6

\* Queues that are dropped keep their type.
LEMMA RowsDropped ==
  ASSUME RowsTyped, channel' \in {channel, <<>>}, batch' \in {batch, <<>>}, stream' \in {stream, <<>>},
         wire' \in {wire, <<>>}
  PROVE  RowsTyped'
<1>1. channel' \in Seq(Row) /\ Len(channel') <= Capacity
  <2>1. CASE channel' = channel
    BY <2>1 DEF RowsTyped
  <2>2. CASE channel' = <<>>
    BY <2>2, CapacitiesAssumption
  <2>. QED  BY <2>1, <2>2
<1>2. batch' \in Seq(Row) /\ Len(batch') < BatchRows
  <2>1. CASE batch' = batch
    BY <2>1 DEF RowsTyped
  <2>2. CASE batch' = <<>>
    BY <2>2, CapacitiesAssumption
  <2>. QED  BY <2>1, <2>2
<1>3. stream' \in Seq(Row) /\ Len(stream') <= StreamCapacity
  <2>1. CASE stream' = stream
    BY <2>1 DEF RowsTyped
  <2>2. CASE stream' = <<>>
    BY <2>2, CapacitiesAssumption
  <2>. QED  BY <2>1, <2>2
<1>4. wire' \in Seq(Frame)
  <2>1. CASE wire' = wire
    BY <2>1 DEF RowsTyped
  <2>2. CASE wire' = <<>>
    BY <2>2
  <2>. QED  BY <2>1, <2>2
<1>. QED  BY <1>1, <1>2, <1>3, <1>4 DEF RowsTyped

LEMMA WireStays ==
  ASSUME WireInv, UNCHANGED <<wire, tx, inserted, stream, streaming, alive>>,
         Pumping' => Pumping, pump' # "idle" => pump # "idle"
  PROVE  WireInv'
  BY DEF WireInv

LEMMA EndStays ==
  ASSUME EndInv, UNCHANGED <<via, wire, tx, inserted, stream, streaming, alive, bad>>,
         cut => cut'
  PROVE  EndInv'
<1>1. Header' = Header
  BY DEF Header
<1>2. Flowing' <=> Flowing
  BY DEF Flowing
<1>. QED  BY <1>1, <1>2 DEF EndInv

LEMMA RowsEndedStay ==
  ASSUME UNCHANGED <<via, wire, tx, streaming>>
  PROVE  RowsEnded' <=> RowsEnded
  BY DEF RowsEnded

LEMMA AnswersStay ==
  ASSUME AnswerInv, UNCHANGED <<via, wire, tx, streaming, outcome, reply, alive, unheard>>,
         parser = "done" => UNCHANGED <<parser, verdict>>,
         cut => cut'
  PROVE  AnswerInv'
  BY RowsEndedStay DEF AnswerInv

LEMMA TimeoutStays ==
  ASSUME TimeoutInv, UNCHANGED <<via, held, wire, tx, streaming, outcome, late>>,
         flag => flag', cut => cut',
         outcome = "timeout" /\ via = "direct" /\ tx \in {"beginning", "open"} =>
           UNCHANGED <<channel, parser, read>>
  PROVE  TimeoutInv'
  BY RowsEndedStay DEF TimeoutInv

-----------------------------------------------------------------------------
(***************************************************************************)
(* CsvImport: each step keeps the invariant                                *)
(***************************************************************************)
LEMMA ParseKeeps ==
  ASSUME ImportInv, Parse
  PROVE  ImportInv'
<1>. /\ ThreadTyped /\ CommandTyped /\ EngineTyped /\ ProcessTyped /\ RowsTyped
     /\ ThreadInv /\ CommandInv /\ WireInv /\ CountInv /\ EndInv /\ AnswerInv /\ TimeoutInv
  BY ImportInvIs
<1>1. UNCHANGED <<via, held, bad, flag, channel, heard, cmd, outcome, told, tx, inserted, pump, batch, wire,
                  stream, streaming, abort, reply, alive, eof, cut, late, unheard>>
  BY DEF Parse, command, driver, host, process
<1>2. parser = "reading" /\ verdict = "none"
  BY DEF Parse, ThreadInv, ThreadTyped
<1>3. \/ parser' = "done" /\ verdict' \in {"failed", "cancelled"} /\ read' = read
      \/ parser' = "done" /\ verdict' = "ok" /\ read' = read /\ read = Rows
      \/ parser' = "sending" /\ verdict' = "none" /\ read' = read + 1 /\ read < Rows
      \/ parser' = "done" /\ verdict' = "failed" /\ read' = read + 1 /\ read < Rows
  BY <1>2 DEF Parse, Stops, Report
<1>4. Rows \in Nat /\ read \in 0 .. Rows /\ bad \in 0 .. Rows
  BY CapacitiesAssumption DEF ThreadTyped
<1>5. ThreadTyped'
  BY <1>1, <1>3, <1>4 DEF ThreadTyped
<1>6. CommandTyped' /\ EngineTyped' /\ ProcessTyped' /\ RowsTyped'
  BY <1>1 DEF CommandTyped, EngineTyped, ProcessTyped, RowsTyped
<1>7. ~cut
  BY <1>2 DEF ThreadInv
<1>8. (bad > 0 => read < bad) /\ (read' = read \/ read' = read + 1)
  BY <1>2, <1>3 DEF ThreadInv
<1>9. ThreadInv'
  BY <1>1, <1>3, <1>4, <1>7, <1>8 DEF ThreadInv
<1>10. CommandInv'
  BY <1>1, <1>2 DEF CommandInv, Pumping
<1>11. WireInv'
  BY <1>1, WireStays DEF Pumping
<1>12. EndInv'
  BY <1>1, EndStays
<1>13. AnswerInv'
  BY <1>1, <1>2, AnswersStay DEF AnswerInv
<1>14. CountInv'
  <2>1. /\ Len(channel) \in Nat /\ Len(batch) \in Nat /\ Len(wire) \in Nat /\ Len(stream) \in Nat
        /\ Header \in 0 .. 1 /\ Trailer \in 0 .. 1 /\ inserted \in Nat
    BY Numbers
  <2>2. Header' = Header /\ Trailer' = Trailer /\ (Moving' <=> Moving) /\ Sending = 0
    BY <1>1, <1>2 DEF Header, Trailer, Moving, Flowing, Pumping, Sending
  <2>3. /\ OnTheWay = Len(stream) + Len(wire) + Len(batch) + Len(channel)
        /\ OnTheWay' = Len(stream) + Len(wire) + Len(batch) + Len(channel) + Sending'
    BY <1>1, <2>1, <2>2 DEF OnTheWay
  <2>4. inserted + OnTheWay <= read + Header + Trailer
    BY DEF CountInv
  <2>5. Moving => inserted + OnTheWay = read + Header
    BY <1>2 DEF CountInv
  <2>6. Sending' \in 0 .. 1 /\ read' \in Nat /\ inserted' = inserted
    BY <1>1, <1>3, <1>4 DEF Sending
  <2>7. read' >= read + Sending' /\ (verdict' # "failed" => read' = read + Sending')
    BY <1>3, <1>4 DEF Sending
  <2>8. /\ OnTheWay' = OnTheWay + Sending' /\ OnTheWay \in Nat /\ read \in Nat
        /\ Header' = Header /\ Header \in Nat /\ Trailer' = Trailer /\ Trailer \in Nat
    BY <1>4, <2>1, <2>2, <2>3, <2>6
  <2>9. inserted' + OnTheWay' <= read' + Header' + Trailer'
    <3>1. PICK n \in Nat : n = read'
      BY <2>6
    <3>2. PICK m \in 0 .. 1 : m = Sending'
      BY <2>6
    <3>3. n >= read + m
      BY <2>7, <3>1, <3>2
    <3>4. inserted + (OnTheWay + m) <= n + Header + Trailer
      BY <2>1, <2>4, <2>8, <3>3
    <3>. QED  BY <2>6, <2>8, <3>1, <3>2, <3>4
  <2>10. ASSUME Moving', verdict' # "failed" PROVE inserted' + OnTheWay' = read' + Header'
    <3>1. inserted + OnTheWay = read + Header /\ read' = read + Sending'
      BY <2>2, <2>5, <2>7, <2>10
    <3>. QED  BY <2>1, <2>6, <2>8, <3>1
  <2>11. verdict' = "ok" => bad = 0
    BY <1>3, <1>4, <1>8
  <2>. QED  BY <1>1, <1>4, <2>9, <2>10, <2>11 DEF CountInv
<1>15. TimeoutInv'
  <2>1. read' = read \/ parser' = "sending" \/ ~flag
    BY DEF Parse
  <2>. QED  BY <1>1, <1>2, <2>1, RowsEndedStay DEF TimeoutInv
<1>. QED  BY <1>5, <1>6, <1>9, <1>10, <1>11, <1>12, <1>13, <1>14, <1>15 DEF ImportInv, ImportTyped

LEMMA SendRowKeeps ==
  ASSUME ImportInv, SendRow
  PROVE  ImportInv'
<1>. /\ ThreadTyped /\ CommandTyped /\ EngineTyped /\ ProcessTyped /\ RowsTyped
     /\ ThreadInv /\ CommandInv /\ WireInv /\ CountInv /\ EndInv /\ AnswerInv /\ TimeoutInv
  BY ImportInvIs
<1>1. UNCHANGED <<via, held, bad, flag, read, heard, cmd, outcome, told, tx, inserted, pump, batch, wire,
                  stream, streaming, abort, reply, alive, eof, cut, late, unheard>>
  BY DEF SendRow, command, driver, host, process
<1>2. parser = "sending" /\ verdict = "none" /\ read > 0
  BY DEF SendRow, ThreadInv, ThreadTyped
<1>. DEFINE row == IF read = bad THEN "bad" ELSE "row"
<1>3. \/ /\ heard /\ Len(channel) < Capacity /\ channel' = Append(channel, row)
         /\ parser' = (IF read = bad THEN "done" ELSE "reading")
         /\ verdict' = (IF read = bad THEN "ok" ELSE "none")
      \/ ~heard /\ channel' = channel /\ parser' = "done" /\ verdict' = "ok"
  BY <1>2 DEF SendRow, Stops, Room
<1>4. Rows \in Nat /\ read \in 0 .. Rows /\ bad \in 0 .. Rows /\ Capacity \in Nat
  BY CapacitiesAssumption DEF ThreadTyped
<1>5. row \in Row
  BY DEF Row
<1>6. ThreadTyped'
  BY <1>1, <1>3 DEF ThreadTyped
<1>7. CommandTyped' /\ EngineTyped' /\ ProcessTyped'
  BY <1>1 DEF CommandTyped, EngineTyped, ProcessTyped
<1>8. channel \in Seq(Row) /\ Len(channel) <= Capacity
  BY DEF RowsTyped
<1>. HIDE DEF row
<1>9. /\ Append(channel, row) \in Seq(Row) /\ Len(Append(channel, row)) = Len(channel) + 1
      /\ Len(channel) \in Nat /\ (Holds(Append(channel, row)) <=> Holds(channel) \/ row = "bad")
  BY <1>5, <1>8, RowJoins
<1>10. channel' \in Seq(Row) /\ Len(channel') <= Capacity
  BY <1>3, <1>4, <1>8, <1>9
<1>11. RowsTyped'
  BY <1>1, <1>10 DEF RowsTyped
<1>12. ~cut
  BY <1>2 DEF ThreadInv
<1>13. bad > 0 => read <= bad
  BY DEF ThreadInv
<1>14. ThreadInv'
  BY <1>1, <1>2, <1>3, <1>4, <1>12, <1>13 DEF ThreadInv
<1>15. CommandInv'
  BY <1>1, <1>2 DEF CommandInv, Pumping
<1>16. WireInv'
  BY <1>1, WireStays DEF Pumping
<1>17. EndInv'
  BY <1>1, EndStays
<1>18. AnswerInv'
  BY <1>1, <1>2, AnswersStay DEF AnswerInv
<1>19. CountInv'
  <2>1. /\ Len(channel) \in Nat /\ Len(batch) \in Nat /\ Len(wire) \in Nat /\ Len(stream) \in Nat
        /\ Header \in 0 .. 1 /\ Trailer \in 0 .. 1 /\ inserted \in Nat
    BY Numbers
  <2>2. Header' = Header /\ Trailer' = Trailer /\ (Moving' <=> Moving) /\ Sending = 1 /\ Sending' = 0
    BY <1>1, <1>2, <1>3 DEF Header, Trailer, Moving, Flowing, Pumping, Sending
  <2>3. /\ OnTheWay = Len(stream) + Len(wire) + Len(batch) + Len(channel) + 1
        /\ OnTheWay' = Len(stream) + Len(wire) + Len(batch) + Len(channel')
    BY <1>1, <1>3, <1>9, <2>1, <2>2 DEF OnTheWay
  <2>4. Moving => heard
    BY MovingIs
  <2>5. inserted + OnTheWay <= read + Header + Trailer
    BY DEF CountInv
  <2>6. Moving => inserted + OnTheWay = read + Header
    BY <1>2 DEF CountInv
  <2>7. Len(channel') = Len(channel) + 1 \/ (~heard /\ Len(channel') = Len(channel))
    BY <1>3, <1>9
  <2>8. inserted' + OnTheWay' <= read' + Header' + Trailer'
    BY <1>1, <1>4, <2>1, <2>2, <2>3, <2>5, <2>7
  <2>9. Moving' => inserted' + OnTheWay' = read' + Header'
    BY <1>1, <1>4, <2>1, <2>2, <2>3, <2>4, <2>6, <2>7
  <2>10. heard /\ verdict' = "ok" => Holds(channel')
    BY <1>3, <1>9 DEF row
  <2>. QED  BY <2>2, <2>4, <2>8, <2>9, <2>10 DEF CountInv
<1>20. TimeoutInv'
  <2>1. heard => channel' # <<>>
    BY <1>3, <1>5, <1>8, RowJoins
  <2>2. via = "direct" /\ tx \in {"beginning", "open"} => heard
    BY DEF CommandInv
  <2>. QED  BY <1>1, <2>1, <2>2, RowsEndedStay DEF TimeoutInv
<1>. QED  BY <1>6, <1>7, <1>11, <1>14, <1>15, <1>16, <1>17, <1>18, <1>19, <1>20 DEF ImportInv, ImportTyped

LEMMA CancelKeeps ==
  ASSUME ImportInv, Cancel
  PROVE  ImportInv'
<1>. /\ ThreadTyped /\ CommandTyped /\ EngineTyped /\ ProcessTyped /\ RowsTyped
     /\ ThreadInv /\ CommandInv /\ WireInv /\ CountInv /\ EndInv /\ AnswerInv /\ TimeoutInv
  BY ImportInvIs
<1>1. /\ flag' = TRUE
      /\ UNCHANGED <<via, held, bad, parser, read, verdict, channel, heard, cmd, outcome, told, tx, inserted, pump,
                     batch, wire, stream, streaming, abort, reply, alive, eof, cut, late, unheard>>
  BY DEF Cancel, parsing, command, driver, host, process
<1>2. ThreadTyped' /\ CommandTyped' /\ EngineTyped' /\ ProcessTyped' /\ RowsTyped'
  BY <1>1 DEF ThreadTyped, CommandTyped, EngineTyped, ProcessTyped, RowsTyped
<1>3. ThreadInv' /\ WireInv' /\ EndInv'
  BY <1>1, ThreadStays, WireStays, EndStays DEF Pumping
<1>4. CommandInv'
  BY <1>1 DEF CommandInv, Pumping
<1>5. CountInv'
  BY <1>1, CountStays DEF Moving, Flowing, Pumping
<1>6. AnswerInv'
  BY <1>1, AnswersStay DEF AnswerInv
<1>7. TimeoutInv'
  BY <1>1, TimeoutStays
<1>. QED  BY <1>2, <1>3, <1>4, <1>5, <1>6, <1>7 DEF ImportInv, ImportTyped

LEMMA JoinKeeps ==
  ASSUME ImportInv, Join \/ Verify
  PROVE  ImportInv'
<1>. /\ ThreadTyped /\ CommandTyped /\ EngineTyped /\ ProcessTyped /\ RowsTyped
     /\ ThreadInv /\ CommandInv /\ WireInv /\ CountInv /\ EndInv /\ AnswerInv /\ TimeoutInv
  BY ImportInvIs
<1>1. /\ cmd \in {"joining", "verifying"} /\ cmd' \in {"verifying", "done"}
      /\ UNCHANGED <<via, held, bad, flag, parser, read, verdict, channel, heard, outcome, tx, inserted, pump,
                     batch, wire, stream, streaming, abort, reply, alive, eof, cut, late, unheard>>
  BY DEF Join, Verify, parsing, driver, host, process
<1>2. outcome # "none" /\ told = "nothing"
  BY <1>1 DEF CommandInv, CommandTyped
<1>3. \/ cmd' = "verifying" /\ told' = "nothing" /\ verdict = "ok" /\ outcome = "ok"
      \/ cmd' = "done" /\ told' = "rolled_back" /\ ~(verdict = "ok" /\ outcome = "ok") /\ verdict # "none"
      \/ cmd' = "done" /\ told' = "success" /\ verdict = "ok" /\ outcome = "ok"
  BY <1>2 DEF Join, Verify, CommandInv, ThreadInv
<1>4. ThreadTyped' /\ CommandTyped' /\ EngineTyped' /\ ProcessTyped' /\ RowsTyped'
  BY <1>1, <1>3 DEF ThreadTyped, CommandTyped, EngineTyped, ProcessTyped, RowsTyped
<1>5. ThreadInv' /\ WireInv' /\ EndInv'
  BY <1>1, ThreadStays, WireStays, EndStays DEF Pumping
<1>6. CommandInv'
  BY <1>1, <1>2, <1>3 DEF CommandInv, Pumping
<1>7. CountInv'
  BY <1>1, CountStays DEF Moving, Flowing, Pumping
<1>8. AnswerInv' /\ TimeoutInv'
  BY <1>1, AnswersStay, TimeoutStays
<1>. QED  BY <1>4, <1>5, <1>6, <1>7, <1>8 DEF ImportInv, ImportTyped

LEMMA EofKeeps ==
  ASSUME ImportInv, Eof
  PROVE  ImportInv'
<1>. /\ ThreadTyped /\ CommandTyped /\ EngineTyped /\ ProcessTyped /\ RowsTyped
     /\ ThreadInv /\ CommandInv /\ WireInv /\ CountInv /\ EndInv /\ AnswerInv /\ TimeoutInv
  BY ImportInvIs
<1>1. /\ eof' = TRUE
      /\ UNCHANGED <<via, held, bad, flag, parser, read, verdict, channel, heard, cmd, outcome, told, tx, inserted,
                     pump, batch, wire, stream, streaming, abort, alive, cut, late, unheard>>
  BY DEF Eof, parsing, command, driver, host
<1>2. reply' = reply \/ (reply' = "failed" /\ reply = "none" /\ pump # "idle" /\ ~alive)
  BY DEF Eof
<1>3. ThreadTyped' /\ CommandTyped' /\ EngineTyped' /\ ProcessTyped' /\ RowsTyped'
  BY <1>1, <1>2 DEF ThreadTyped, CommandTyped, EngineTyped, ProcessTyped, RowsTyped
<1>4. ThreadInv' /\ WireInv' /\ EndInv'
  BY <1>1, ThreadStays, WireStays, EndStays DEF Pumping
<1>5. CommandInv'
  BY <1>1 DEF CommandInv, Pumping
<1>6. CountInv'
  BY <1>1, CountStays DEF Moving, Flowing, Pumping
<1>7. AnswerInv'
  <2>1. CASE reply' = reply
    BY <1>1, <2>1, AnswersStay
  <2>2. CASE reply' = "failed" /\ reply = "none" /\ pump # "idle" /\ ~alive
    <3>1. outcome = "none"
      BY <2>2 DEF CommandInv
    <3>2. tx \in {"none", "committed", "ended"}
      BY <2>2, <3>1 DEF WireInv, TimeoutInv, EngineTyped
    <3>. QED  BY <1>1, <2>2, <3>1, <3>2, RowsEndedStay DEF AnswerInv
  <2>. QED  BY <1>2, <2>1, <2>2
<1>8. TimeoutInv'
  BY <1>1, TimeoutStays
<1>. QED  BY <1>3, <1>4, <1>5, <1>6, <1>7, <1>8 DEF ImportInv, ImportTyped

LEMMA DiesKeeps ==
  ASSUME ImportInv, Dies
  PROVE  ImportInv'
<1>. /\ ThreadTyped /\ CommandTyped /\ EngineTyped /\ ProcessTyped /\ RowsTyped
     /\ ThreadInv /\ CommandInv /\ WireInv /\ CountInv /\ EndInv /\ AnswerInv /\ TimeoutInv
  BY ImportInvIs
<1>1. /\ via = "sidecar" /\ alive' = FALSE /\ streaming' = FALSE
      /\ wire' = <<>> /\ stream' = <<>>
      /\ UNCHANGED <<via, held, bad, flag, parser, read, verdict, channel, heard, cmd, outcome, told, inserted,
                     pump, batch, abort, eof, cut, late>>
  BY DEF Dies, parsing, command, host
<1>2. \/ tx \in {"beginning", "open"} /\ tx' = "ended"
      \/ tx = "committing" /\ tx' \in {"ended", "committed"}
      \/ tx \in {"none", "committed", "ended"} /\ tx' = tx
  <2>1. via = "sidecar"
    BY <1>1
  <2>2. tx # "left"
    BY <2>1 DEF CommandInv, TimeoutInv
  <2>. QED  BY <2>2 DEF Dies, EngineTyped
<1>3. reply' \in {reply, "none"} /\ (unheard' <=> unheard \/ (tx' = "committed" /\ outcome # "ok" /\ reply' # "ok"))
      /\ unheard' \in BOOLEAN
  BY <1>1 DEF Dies, NotHeard
<1>4. ThreadTyped' /\ CommandTyped' /\ EngineTyped' /\ ProcessTyped'
  <2>1. ThreadTyped'
    BY <1>1, <1>2, <1>3 DEF ThreadTyped
  <2>2. CommandTyped'
    BY <1>1, <1>2, <1>3 DEF CommandTyped, EngineTyped
  <2>3. EngineTyped'
    BY <1>1, <1>2, <1>3 DEF EngineTyped
  <2>4. ProcessTyped'
    BY <1>1, <1>2, <1>3 DEF ProcessTyped
  <2>. QED  BY <2>1, <2>2, <2>3, <2>4
<1>5. RowsTyped'
  BY <1>1, CapacitiesAssumption DEF RowsTyped
<1>6. ThreadInv'
  BY <1>1, ThreadStays
<1>7. CommandInv'
  BY <1>1, <1>2 DEF CommandInv, Pumping
<1>8. WireInv'
  <2>1. Len(wire') = 0
    BY <1>1, EmptyHoldsNothing
  <2>2. \A i \in 1 .. Len(wire') : FALSE
    BY <2>1
  <2>3. tx' = "none" => inserted' = 0 /\ stream' = <<>> /\ ~streaming'
    BY <1>1, <1>2 DEF WireInv
  <2>4. tx' \notin {"beginning", "open", "committing"}
    BY <1>2
  <2>5. Pumping' /\ tx' # "none" => tx' = "ended"
    <3>1. Pumping' <=> Pumping
      BY <1>1 DEF Pumping
    <3>2. Pumping /\ tx # "none" => tx \in {"beginning", "open", "ended"}
      BY DEF WireInv
    <3>. QED  BY <1>2, <3>1, <3>2
  <2>. QED  BY <1>1, <2>2, <2>3, <2>4, <2>5 DEF WireInv
<1>9. ~Flowing'
  BY <1>1 DEF Flowing
<1>10. EndInv'
  BY <1>1, <1>2, <1>9 DEF EndInv
<1>11. RowsEnded' => RowsEnded
  <2>1. \A i \in 1 .. Len(wire') : FALSE
    BY <1>1, EmptyHoldsNothing
  <2>. QED  BY <1>1, <1>2, <2>1 DEF RowsEnded
<1>12. AnswerInv'
  <2>1. outcome = "failed" \/ reply' # "none" => tx' \in {"committed", "ended"} \/ tx' = "none"
    BY <1>2, <1>3 DEF AnswerInv
  <2>2. outcome = "ok" \/ reply' = "ok" => tx' = "committed"
    BY <1>2, <1>3 DEF AnswerInv
  <2>3. outcome = "cancelled" \/ reply' = "cancelled" => tx' = "ended"
    BY <1>2, <1>3 DEF AnswerInv
  <2>4. tx' = "committed" => unheard' \/ outcome = "ok" \/ reply' = "ok"
    BY <1>3
  <2>5. tx' = "committed" /\ (outcome = "failed" \/ reply' = "failed") => unheard'
    BY <1>2, <1>3 DEF AnswerInv
  <2>6. RowsEnded' => parser = "done" /\ (verdict = "ok" \/ cut)
    BY <1>11 DEF AnswerInv
  <2>. QED  BY <1>1, <2>1, <2>2, <2>3, <2>4, <2>5, <2>6 DEF AnswerInv
<1>13. CountInv'
  <2>1. CASE cmd = "counting"
    <3>1. tx = "none" /\ wire = <<>> /\ stream = <<>>
      BY <2>1 DEF CommandInv, WireInv
    <3>2. UNCHANGED <<inserted, stream, wire, batch, channel, parser, read, verdict, bad, tx>>
      BY <1>1, <1>2, <3>1
    <3>3. Moving
      BY <2>1 DEF Moving
    <3>. QED  BY <3>2, <3>3, CountStays
  <2>2. CASE cmd # "counting"
    <3>1. ~Moving'
      BY <1>1, <1>9, <2>2 DEF Moving
    <3>2. tx' = "none" <=> tx = "none"
      BY <1>2
    <3>. QED  BY <1>1, <3>1, <3>2, CountDrops
  <2>. QED  BY <2>1, <2>2
<1>14. TimeoutInv'
  BY <1>1, <1>2, <1>11 DEF TimeoutInv
<1>. QED  BY <1>4, <1>5, <1>6, <1>7, <1>8, <1>10, <1>12, <1>13, <1>14 DEF ImportInv, ImportTyped

LEMMA TimeoutKeeps ==
  ASSUME ImportInv, Timeout
  PROVE  ImportInv'
<1>. /\ ThreadTyped /\ CommandTyped /\ EngineTyped /\ ProcessTyped /\ RowsTyped
     /\ ThreadInv /\ CommandInv /\ WireInv /\ CountInv /\ EndInv /\ AnswerInv /\ TimeoutInv
  BY ImportInvIs
<1>1. /\ cmd = "importing" /\ cmd' = "joining" /\ outcome' = "timeout" /\ flag' = TRUE
      /\ pump' = "idle" /\ batch' = <<>>
      /\ UNCHANGED <<via, held, bad, parser, read, verdict, told, inserted, wire, stream, streaming, abort, reply,
                     alive, eof, cut, unheard>>
  BY DEF Timeout, parsing, process
<1>2. \/ held = "thread" /\ heard' = heard /\ channel' = channel
      \/ held # "thread" /\ heard' = FALSE /\ channel' = <<>>
  BY DEF Timeout, DropsReceiver, Gone
<1>3. \/ tx' = tx /\ (via = "direct" /\ tx \in {"beginning", "open"} => held = "thread")
      \/ via = "direct" /\ tx \in {"beginning", "open"} /\ tx' = "ended"
      \/ via = "direct" /\ held = "session" /\ tx \in {"beginning", "open", "committing"} /\ tx' = "left"
  <2>1. held # "pool" => via = "direct"
    BY DEF CommandInv
  <2>2. held \in {"pool", "thread", "session"} /\ tx' \in Abandoned
    BY DEF Timeout, ThreadTyped
  <2>3. CASE held = "session"
    BY <2>1, <2>2, <2>3 DEF Abandoned
  <2>4. CASE held = "pool"
    BY <2>2, <2>4 DEF Abandoned
  <2>5. CASE held = "thread"
    BY <2>2, <2>5 DEF Abandoned
  <2>. QED  BY <2>2, <2>3, <2>4, <2>5
<1>4. late' \in BOOLEAN /\ (RowsEnded => late')
      /\ (held = "thread" /\ ~late' => channel # <<>> \/ parser = "sending" \/ read # Rows)
  BY DEF Timeout, RowsEnded, TookAll
<1>5. outcome = "none" /\ tx # "left" /\ told = "nothing" /\ heard /\ cmd # "counting"
  BY <1>1 DEF CommandInv, TimeoutInv
<1>6. ThreadTyped' /\ ProcessTyped'
  BY <1>1 DEF ThreadTyped, ProcessTyped
<1>7. EngineTyped'
  BY <1>1, <1>3 DEF EngineTyped
<1>8. CommandTyped'
  <2>1. heard' \in BOOLEAN
    BY <1>2 DEF CommandTyped
  <2>. QED  BY <1>1, <1>4, <2>1 DEF CommandTyped
<1>9. RowsTyped'
  <2>1. channel' \in {channel, <<>>}
    BY <1>2
  <2>. QED  BY <1>1, <2>1, RowsDropped
<1>10. ThreadInv'
  BY <1>1, <1>5, ThreadStays
<1>11. ~Pumping'
  BY <1>1 DEF Pumping
<1>12. CommandInv'
  BY <1>1, <1>2, <1>3, <1>5, <1>11 DEF CommandInv
<1>13. WireInv' /\ EndInv' /\ (RowsEnded' => RowsEnded)
  <2>1. CASE via = "direct"
    <3>1. wire = <<>> /\ ~streaming /\ alive
      BY <2>1 DEF CommandInv
    <3>2. \A i \in 1 .. Len(wire) : FALSE
      BY <3>1, EmptyHoldsNothing
    <3>3. WireInv'
      BY <1>1, <1>3, <1>11, <3>1, <3>2 DEF WireInv
    <3>4. EndInv'
      BY <1>1, <1>3, <2>1, <3>1, <3>2 DEF EndInv
    <3>5. RowsEnded' => RowsEnded
      BY <1>1, <1>3, <2>1, <3>2 DEF RowsEnded
    <3>. QED  BY <3>3, <3>4, <3>5
  <2>2. CASE via # "direct"
    <3>1. tx' = tx
      BY <1>3, <2>2
    <3>2. WireInv'
      BY <1>1, <1>11, <3>1, WireStays
    <3>3. EndInv'
      BY <1>1, <3>1, EndStays
    <3>. QED  BY <1>1, <3>1, <3>2, <3>3, RowsEndedStay
  <2>. QED  BY <2>1, <2>2
<1>14. AnswerInv'
  <2>1. reply # "none" => tx' = tx
    BY <1>3 DEF AnswerInv
  <2>2. tx' = "committed" => tx = "committed"
    BY <1>3
  <2>. QED  BY <1>1, <1>5, <1>13, <2>1, <2>2 DEF AnswerInv
<1>15. CountInv'
  <2>1. CASE tx' = tx /\ via = "direct" /\ tx \in {"beginning", "open"}
    <3>1. channel' = channel /\ batch' = batch
      <4>1. held = "thread"
        BY <1>3, <2>1
      <4>2. ~Pumping
        BY <2>1 DEF CommandInv, Pumping
      <4>. QED  BY <1>1, <1>2, <4>1, <4>2 DEF CommandInv
    <3>2. Moving
      BY <2>1 DEF Moving
    <3>. QED  BY <1>1, <2>1, <3>1, <3>2, CountStays
  <2>2. CASE ~(tx' = tx /\ via = "direct" /\ tx \in {"beginning", "open"})
    <3>1. ~Moving'
      BY <1>1, <1>3, <1>11, <2>2 DEF Moving
    <3>2. tx' = "none" <=> tx = "none"
      BY <1>3
    <3>3. channel' \in {channel, <<>>}
      BY <1>2
    <3>. QED  BY <1>1, <3>1, <3>2, <3>3, CountDrops
  <2>. QED  BY <2>1, <2>2
<1>16. TimeoutInv'
  <2>1. via = "direct" /\ tx' \in {"beginning", "open"} => held = "thread"
    BY <1>3
  <2>. QED  BY <1>1, <1>2, <1>3, <1>4, <1>5, <1>13, <2>1 DEF TimeoutInv
<1>. QED  BY <1>6, <1>7, <1>8, <1>9, <1>10, <1>12, <1>13, <1>14, <1>15, <1>16 DEF ImportInv, ImportTyped

LEMMA PumpReplyKeeps ==
  ASSUME ImportInv, PumpReply
  PROVE  ImportInv'
<1>. /\ ThreadTyped /\ CommandTyped /\ EngineTyped /\ ProcessTyped /\ RowsTyped
     /\ ThreadInv /\ CommandInv /\ WireInv /\ CountInv /\ EndInv /\ AnswerInv /\ TimeoutInv
  BY ImportInvIs
<1>1. /\ pump = "waiting" /\ reply # "none" /\ pump' = "idle" /\ outcome' = reply /\ cmd' = "joining"
      /\ heard' = FALSE /\ channel' = <<>>
      /\ UNCHANGED <<via, held, bad, flag, parser, read, verdict, told, tx, inserted, batch, wire, stream,
                     streaming, abort, reply, alive, eof, cut, late, unheard>>
  BY DEF PumpReply, Receives, Gone, parsing, driver, process
<1>2. cmd = "importing" /\ via = "sidecar" /\ told = "nothing" /\ outcome = "none" /\ tx # "left"
  BY <1>1 DEF CommandInv, TimeoutInv
<1>3. ~Pumping /\ ~Pumping'
  BY <1>1 DEF Pumping
<1>4. ThreadTyped' /\ CommandTyped' /\ EngineTyped' /\ ProcessTyped'
  <2>1. ThreadTyped'
    BY <1>1 DEF ThreadTyped
  <2>2. CommandTyped'
    BY <1>1 DEF CommandTyped, EngineTyped
  <2>3. EngineTyped'
    BY <1>1 DEF EngineTyped
  <2>4. ProcessTyped'
    BY <1>1 DEF ProcessTyped
  <2>. QED  BY <2>1, <2>2, <2>3, <2>4
<1>5. RowsTyped'
  BY <1>1, CapacitiesAssumption DEF RowsTyped
<1>6. ThreadInv' /\ WireInv' /\ EndInv'
  BY <1>1, <1>3, ThreadStays, WireStays, EndStays
<1>7. CommandInv'
  BY <1>1, <1>2, <1>3 DEF CommandInv
<1>8. CountInv'
  <2>1. ~Moving'
    BY <1>1, <1>2, <1>3 DEF Moving
  <2>. QED  BY <1>1, <2>1, CountDrops
<1>9. AnswerInv'
  BY <1>1, RowsEndedStay DEF AnswerInv, EngineTyped
<1>10. TimeoutInv'
  <2>1. outcome' # "timeout" /\ tx' # "left"
    BY <1>1, <1>2 DEF EngineTyped
  <2>. QED  BY <2>1 DEF TimeoutInv
<1>. QED  BY <1>4, <1>5, <1>6, <1>7, <1>8, <1>9, <1>10 DEF ImportInv, ImportTyped

\* The driver gives up: the transaction ends, and with it what was on its way.
LEMMA FailsKeeps ==
  ASSUME ImportInv, NEW o \in {"failed", "cancelled"}, tx \in {"beginning", "open"}, Fails(o),
         UNCHANGED <<via, held, bad, flag, parsing, told, host, wire, abort, alive, eof, late, unheard>>,
         cut' \in BOOLEAN, cut => cut', cut' => cut \/ (parser = "done" /\ verdict # "ok")
  PROVE  ImportInv'
<1>. /\ ThreadTyped /\ CommandTyped /\ EngineTyped /\ ProcessTyped /\ RowsTyped
     /\ ThreadInv /\ CommandInv /\ WireInv /\ CountInv /\ EndInv /\ AnswerInv /\ TimeoutInv
  BY ImportInvIs
<1>1. /\ tx' = "ended"
      /\ UNCHANGED <<via, held, bad, flag, parser, read, verdict, told, inserted, pump, batch, wire, abort, alive,
                     eof, late, unheard>>
  BY DEF Fails, parsing, host
<1>2. \/ /\ via = "direct" /\ heard' = FALSE /\ channel' = <<>> /\ UNCHANGED <<stream, streaming, reply>>
         /\ \/ cmd = "importing" /\ outcome' = o /\ cmd' = "joining"
            \/ cmd # "importing" /\ UNCHANGED <<outcome, cmd>>
      \/ /\ via # "direct" /\ reply' = o /\ streaming' = FALSE /\ stream' = <<>>
         /\ UNCHANGED <<outcome, cmd, heard, channel>>
  BY DEF Fails, Returns, Receives, Gone
<1>3. ThreadTyped' /\ CommandTyped' /\ EngineTyped' /\ ProcessTyped'
  <2>1. ThreadTyped'
    BY <1>1, <1>2 DEF ThreadTyped
  <2>2. CommandTyped'
    BY <1>1, <1>2 DEF CommandTyped, EngineTyped
  <2>3. EngineTyped'
    BY <1>1, <1>2 DEF EngineTyped
  <2>4. ProcessTyped'
    BY <1>1, <1>2 DEF ProcessTyped
  <2>. QED  BY <2>1, <2>2, <2>3, <2>4
<1>4. RowsTyped'
  <2>1. channel' \in {channel, <<>>} /\ stream' \in {stream, <<>>}
    BY <1>2
  <2>. QED  BY <1>1, <2>1, RowsDropped
<1>5. ThreadInv'
  BY <1>1, <1>2 DEF ThreadInv
<1>6. /\ via = "direct" => ~streaming
      /\ cmd # "counting" /\ (cmd = "importing" => told = "nothing")
  BY DEF CommandInv, CommandTyped
<1>7. CommandInv'
  BY <1>1, <1>2, <1>6 DEF CommandInv, Pumping
<1>8. ~streaming'
  BY <1>2, <1>6
<1>9. WireInv'
  BY <1>1, <1>8 DEF WireInv, Pumping
<1>10. ~Flowing' /\ EndInv'
  BY <1>1, <1>8 DEF EndInv, Flowing
<1>11. RowsEnded' => RowsEnded
  BY <1>1 DEF RowsEnded
<1>12. AnswerInv'
  BY <1>1, <1>2, <1>11 DEF AnswerInv
<1>13. CountInv'
  <2>1. cmd' # "counting"
    BY <1>2, <1>6
  <2>2. ~Moving'
    BY <1>1, <1>10, <2>1 DEF Moving
  <2>. QED  BY <1>1, <1>2, <2>2, CountDrops
<1>14. TimeoutInv'
  BY <1>1, <1>2, <1>11 DEF TimeoutInv
<1>. QED  BY <1>3, <1>4, <1>5, <1>7, <1>9, <1>10, <1>12, <1>13, <1>14 DEF ImportInv, ImportTyped

LEMMA BeginKeeps ==
  ASSUME ImportInv, Begin
  PROVE  ImportInv'
<1>. /\ ThreadTyped /\ CommandTyped /\ EngineTyped /\ ProcessTyped /\ RowsTyped
     /\ ThreadInv /\ CommandInv /\ WireInv /\ CountInv /\ EndInv /\ AnswerInv /\ TimeoutInv
  BY ImportInvIs
<1>1. CASE Fails("failed")
  <2>1. UNCHANGED <<via, held, bad, flag, parsing, told, host, wire, abort, alive, eof, late, unheard>> /\ cut' = cut
        /\ tx = "beginning"
    BY DEF Begin
  <2>2. cut' \in BOOLEAN
    BY <2>1 DEF CommandTyped
  <2>. QED  BY <1>1, <2>1, <2>2, FailsKeeps
<1>2. CASE ~Fails("failed")
  <2>1. /\ tx = "beginning" /\ tx' = "open"
        /\ UNCHANGED <<via, held, bad, flag, parser, read, verdict, channel, heard, cmd, outcome, told, inserted, pump,
                       batch, wire, stream, streaming, abort, reply, alive, eof, cut, late, unheard>>
    BY <1>2 DEF Begin, parsing, host
  <2>2. ThreadTyped' /\ CommandTyped' /\ EngineTyped' /\ ProcessTyped' /\ RowsTyped'
    BY <2>1 DEF ThreadTyped, CommandTyped, EngineTyped, ProcessTyped, RowsTyped
  <2>3. ThreadInv'
    BY <2>1, ThreadStays
  <2>4. CommandInv'
    BY <2>1 DEF CommandInv, Pumping
  <2>5. WireInv'
    BY <2>1 DEF WireInv, Pumping
  <2>6. (Flowing' <=> Flowing) /\ Header' = Header /\ (Moving' <=> Moving)
    BY <2>1 DEF Flowing, Header, Moving, Pumping
  <2>7. CountInv'
    BY <2>1, <2>6, CountStays
  <2>8. EndInv'
    BY <2>1, <2>6 DEF EndInv
  <2>9. RowsEnded' <=> RowsEnded
    BY <2>1 DEF RowsEnded
  <2>10. AnswerInv'
    BY <2>1, <2>9 DEF AnswerInv
  <2>11. TimeoutInv'
    BY <2>1, <2>9 DEF TimeoutInv
  <2>. QED  BY <2>2, <2>3, <2>4, <2>5, <2>7, <2>8, <2>10, <2>11 DEF ImportInv, ImportTyped
<1>. QED  BY <1>1, <1>2

LEMMA CommitKeeps ==
  ASSUME ImportInv, Commit
  PROVE  ImportInv'
<1>. /\ ThreadTyped /\ CommandTyped /\ EngineTyped /\ ProcessTyped /\ RowsTyped
     /\ ThreadInv /\ CommandInv /\ WireInv /\ CountInv /\ EndInv /\ AnswerInv /\ TimeoutInv
  BY ImportInvIs
<1>1. /\ tx = "committing" /\ tx' \in {"committed", "ended"}
      /\ UNCHANGED <<via, held, bad, flag, parser, read, verdict, told, inserted, pump, batch, wire, abort, alive,
                     eof, cut, late>>
  BY DEF Commit, parsing, host
<1>2. ~streaming /\ RowsEnded
  BY <1>1 DEF WireInv, RowsEnded
<1>3. \/ /\ via = "direct" /\ cmd # "importing" /\ UNCHANGED <<outcome, cmd, stream, streaming, reply>>
         /\ heard' = FALSE /\ channel' = <<>>
      \/ /\ via = "direct" /\ cmd = "importing" /\ UNCHANGED <<stream, streaming, reply>>
         /\ cmd' = "joining" /\ heard' = FALSE /\ channel' = <<>>
         /\ outcome' = "failed" \/ (outcome' = "ok" /\ tx' = "committed")
      \/ /\ via # "direct" /\ streaming' = FALSE /\ stream' = <<>> /\ UNCHANGED <<outcome, cmd, heard, channel>>
         /\ reply' = "failed" \/ (reply' = "ok" /\ tx' = "committed")
  BY DEF Commit, Returns, Receives, Gone
<1>3a. /\ unheard' \in BOOLEAN
       /\ unheard' <=> unheard \/ (tx' = "committed" /\ outcome' # "ok" /\ reply' # "ok")
  BY DEF Commit, NotHeard
<1>3b. cmd # "counting" /\ outcome \notin {"ok", "cancelled", "failed"} /\ reply = "none"
  BY <1>1 DEF CommandInv, AnswerInv
<1>4. channel' \in {channel, <<>>} /\ stream' \in {stream, <<>>} /\ ~streaming'
  BY <1>2, <1>3
<1>5. ThreadTyped'
  BY <1>1 DEF ThreadTyped
<1>6. CommandTyped'
  BY <1>1, <1>3, <1>3a DEF CommandTyped
<1>7. EngineTyped'
  BY <1>1, <1>3 DEF EngineTyped
<1>8. ProcessTyped'
  BY <1>1, <1>3 DEF ProcessTyped
<1>9. RowsTyped'
  BY <1>1, <1>4, RowsDropped
<1>10. ThreadInv'
  BY <1>1, <1>3 DEF ThreadInv
<1>11. cmd = "importing" => told = "nothing"
  BY DEF CommandInv
<1>12. CommandInv'
  BY <1>1, <1>2, <1>3, <1>3b, <1>11 DEF CommandInv, Pumping
<1>13. WireInv'
  BY <1>1, <1>4 DEF WireInv, Pumping
<1>14. ~Flowing' /\ EndInv'
  BY <1>1, <1>4 DEF EndInv, Flowing
<1>15. AnswerInv'
  BY <1>1, <1>2, <1>3, <1>3a, <1>3b DEF AnswerInv
<1>16. CountInv'
  <2>1. cmd' # "counting"
    BY <1>3, <1>3b
  <2>2. ~Moving'
    BY <1>1, <1>14, <2>1 DEF Moving
  <2>. QED  BY <1>1, <1>4, <2>2, CountDrops
<1>17. TimeoutInv'
  <2>1. tx' \notin {"left", "beginning", "open"} /\ (outcome' = "timeout" => outcome = "timeout")
    BY <1>1, <1>3
  <2>. QED  BY <1>1, <1>2, <2>1 DEF TimeoutInv
<1>. QED  BY <1>5, <1>6, <1>7, <1>8, <1>9, <1>10, <1>12, <1>13, <1>14, <1>15, <1>16, <1>17 DEF ImportInv, ImportTyped

LEMMA EndOfRowsKeeps ==
  ASSUME ImportInv, EndOfRows
  PROVE  ImportInv'
<1>. /\ ThreadTyped /\ CommandTyped /\ EngineTyped /\ ProcessTyped /\ RowsTyped
     /\ ThreadInv /\ CommandInv /\ WireInv /\ CountInv /\ EndInv /\ AnswerInv /\ TimeoutInv
  BY ImportInvIs
<1>1. /\ tx = "open" /\ Queue = <<>> /\ Closed
      /\ cut' = (cut \/ (via = "direct" /\ verdict # "ok"))
      /\ UNCHANGED <<via, held, bad, flag, parsing, told, host, wire, abort, alive, eof, late, unheard>>
  BY DEF EndOfRows
<1>2. /\ via = "direct" => parser = "done" /\ channel = <<>>
      /\ via # "direct" => ~streaming /\ stream = <<>>
  BY <1>1 DEF Queue, Closed
<1>3. cut' \in BOOLEAN /\ (cut => cut') /\ (cut' => cut \/ (parser = "done" /\ verdict # "ok"))
  BY <1>1, <1>2 DEF CommandTyped
<1>4. CASE Fails("failed")
  BY <1>1, <1>3, <1>4, FailsKeeps
<1>5. CASE ~Fails("failed")
  <2>1. /\ tx' = "committing"
        /\ UNCHANGED <<via, held, bad, flag, parser, read, verdict, channel, heard, cmd, outcome, told, inserted, pump,
                       batch, wire, stream, streaming, abort, reply, alive, eof, late, unheard>>
    BY <1>5 DEF EndOfRows, parsing, host
  <2>2. ThreadTyped' /\ EngineTyped' /\ ProcessTyped' /\ RowsTyped'
    BY <2>1 DEF ThreadTyped, EngineTyped, ProcessTyped, RowsTyped
  <2>3. CommandTyped'
    BY <1>3, <2>1 DEF CommandTyped
  <2>4. ThreadInv'
    BY <1>3, <2>1 DEF ThreadInv
  <2>5. CommandInv'
    BY <1>1, <2>1 DEF CommandInv, Pumping
  <2>6. ~streaming /\ alive
    BY <1>1, <1>2 DEF CommandInv, WireInv
  <2>7. WireInv'
    BY <1>1, <2>1, <2>6 DEF WireInv, Pumping
  <2>8. ~Flowing'
    BY <2>1, <2>6 DEF Flowing
  <2>9. CountInv'
    <3>1. cmd' # "counting"
      BY <1>1, <2>1 DEF CommandInv
    <3>2. ~Moving' /\ (tx' = "none" <=> tx = "none")
      BY <1>1, <2>1, <2>8, <3>1 DEF Moving
    <3>. QED  BY <2>1, <3>2, CountStays
  <2>9a. ASSUME via = "direct", verdict = "ok" PROVE bad = 0 /\ inserted = Rows /\ read = Rows
    <3>1. /\ channel = <<>> /\ wire = <<>> /\ stream = <<>> /\ batch = <<>>
          /\ parser = "done" /\ Moving /\ heard
      BY <1>1, <1>2, <2>9a DEF CommandInv, Moving, Pumping
    <3>2. /\ Len(channel) = 0 /\ Len(wire) = 0 /\ Len(stream) = 0 /\ Len(batch) = 0
          /\ ~Holds(channel) /\ ~Holds(wire) /\ ~Holds(stream) /\ ~Holds(batch)
      BY <3>1, EmptyHoldsNothing
    <3>3. inserted + OnTheWay = read + Header /\ bad = 0
      BY <2>9a, <3>1, <3>2 DEF CountInv, ThreadTyped
    <3>4. Sending = 0 /\ Header = 0 /\ read = Rows /\ inserted \in Nat /\ Rows \in Nat
      BY <1>1, <2>9a, <3>1, <3>3, CapacitiesAssumption DEF Sending, Header, ThreadInv, EngineTyped
    <3>. QED  BY <3>2, <3>3, <3>4 DEF OnTheWay
  <2>10. cut' \/ (bad = 0 /\ inserted = Rows)
    <3>1. CASE via # "direct"
      <4>1. via = "sidecar" /\ stream = <<>> /\ ~streaming
        BY <1>2, <3>1 DEF ThreadTyped
      <4>2. cut \/ (bad = 0 /\ inserted + Len(stream) = Rows) \/ (bad > 0 /\ Holds(stream))
        BY <1>1, <4>1 DEF EndInv
      <4>3. ~Holds(stream) /\ Len(stream) = 0 /\ inserted \in Nat
        BY <4>1, EmptyHoldsNothing DEF EngineTyped
      <4>. QED  BY <1>3, <4>2, <4>3
    <3>2. CASE via = "direct" /\ verdict # "ok"
      BY <1>1, <3>2
    <3>3. CASE via = "direct" /\ verdict = "ok"
      BY <2>9a, <3>3
    <3>. QED  BY <3>1, <3>2, <3>3
  <2>11. EndInv'
    BY <2>1, <2>8, <2>10 DEF EndInv
  <2>12. AnswerInv'
    <3>1. CASE via # "direct"
      <4>1. RowsEnded
        BY <1>1, <1>2, <3>1 DEF RowsEnded, ThreadTyped
      <4>. QED  BY <1>1, <1>3, <2>1, <4>1 DEF AnswerInv
    <3>2. CASE via = "direct"
      <4>1. parser = "done" /\ (verdict = "ok" \/ cut')
        BY <1>1, <1>2, <3>2
      <4>. QED  BY <1>1, <2>1, <4>1 DEF AnswerInv
    <3>. QED  BY <3>1, <3>2
  <2>13. TimeoutInv'
    <3>1. ASSUME outcome = "timeout", ~late PROVE cut'
      <4>1. CASE via = "direct"
        BY <1>1, <1>2, <2>9a, <3>1, <4>1 DEF TimeoutInv
      <4>2. CASE via # "direct"
        <5>1. RowsEnded
          BY <1>1, <1>2, <4>2 DEF RowsEnded, ThreadTyped
        <5>. QED  BY <1>3, <3>1, <5>1 DEF TimeoutInv
      <4>. QED  BY <4>1, <4>2
    <3>. QED  BY <1>3, <2>1, <3>1 DEF TimeoutInv
  <2>. QED  BY <2>2, <2>3, <2>4, <2>5, <2>7, <2>9, <2>11, <2>12, <2>13 DEF ImportInv, ImportTyped
<1>. QED  BY <1>4, <1>5

LEMMA StartImportKeeps ==
  ASSUME ImportInv, StartImport
  PROVE  ImportInv'
<1>. /\ ThreadTyped /\ CommandTyped /\ EngineTyped /\ ProcessTyped /\ RowsTyped
     /\ ThreadInv /\ CommandInv /\ WireInv /\ CountInv /\ EndInv /\ AnswerInv /\ TimeoutInv
  BY ImportInvIs
<1>1. /\ cmd = "counting"
      /\ UNCHANGED <<via, held, bad, flag, parser, read, verdict, told, inserted, batch, stream, streaming, abort,
                     reply, alive, eof, cut, late, unheard>>
  BY DEF StartImport, parsing
<1>2. /\ tx = "none" /\ wire = <<>> /\ outcome = "none" /\ heard /\ told = "nothing" /\ Moving
      /\ inserted = 0 /\ stream = <<>> /\ ~streaming /\ pump = "idle" /\ ~Pumping /\ batch = <<>>
      /\ reply \notin {"ok", "cancelled"} /\ (reply # "none" => ~alive)
  BY <1>1 DEF CommandInv, WireInv, AnswerInv, Moving, Pumping
<1>3. ~RowsEnded /\ Header = 0 /\ Trailer = 0 /\ Len(wire) = 0
  BY <1>2, EmptyHoldsNothing DEF RowsEnded, Header, Trailer
<1>4. ThreadTyped'
  BY <1>1 DEF ThreadTyped
<1>5. ProcessTyped'
  BY <1>1 DEF ProcessTyped
<1>6. CASE via = "direct"
  <2>1. /\ cmd' = "importing" /\ tx' = "beginning"
        /\ UNCHANGED <<outcome, channel, heard, pump, wire>>
    BY <1>6 DEF StartImport
  <2>2. CommandTyped' /\ EngineTyped'
    <3>1. CommandTyped'
      BY <1>1, <2>1 DEF CommandTyped
    <3>2. EngineTyped'
      BY <1>1, <2>1 DEF EngineTyped
    <3>. QED  BY <3>1, <3>2
  <2>3. RowsTyped'
    BY <1>1, <2>1, RowsDropped
  <2>4. ThreadInv'
    BY <1>1, <2>1, ThreadStays
  <2>5. CommandInv'
    BY <1>1, <1>2, <1>6, <2>1 DEF CommandInv, Pumping
  <2>6. \A i \in 1 .. Len(wire) : FALSE
    BY <1>3
  <2>7. alive
    BY <1>6 DEF CommandInv
  <2>8. WireInv'
    BY <1>1, <1>2, <2>1, <2>6, <2>7 DEF WireInv, Pumping
  <2>9. EndInv'
    BY <1>1, <1>6, <2>1, <2>6 DEF EndInv
  <2>10. ~RowsEnded'
    BY <1>1, <1>6, <2>1, <2>6 DEF RowsEnded
  <2>11. AnswerInv'
    BY <1>1, <1>2, <2>1, <2>7, <2>10 DEF AnswerInv
  <2>12. CountInv'
    <3>1. Header' = Header /\ Trailer' = Trailer /\ OnTheWay' = OnTheWay
      BY <1>1, <1>2, <1>3, <2>1 DEF Header, Trailer, OnTheWay, Sending
    <3>. QED  BY <1>1, <1>2, <2>1, <3>1 DEF CountInv
  <2>13. TimeoutInv'
    BY <1>2, <2>1 DEF TimeoutInv
  <2>. QED  BY <1>4, <1>5, <2>2, <2>3, <2>4, <2>5, <2>8, <2>9, <2>11, <2>12, <2>13 DEF ImportInv, ImportTyped
<1>7. CASE via # "direct" /\ ~(~alive /\ Receives("failed") /\ UNCHANGED <<tx, pump, wire>>)
  <2>1. /\ cmd' = "importing" /\ pump' = "looking" /\ wire' = (IF alive THEN <<"open">> ELSE <<>>)
        /\ UNCHANGED <<tx, outcome, channel, heard>>
    BY <1>7 DEF StartImport
  <2>2. via = "sidecar"
    BY <1>7 DEF ThreadTyped
  <2>3. CommandTyped' /\ EngineTyped'
    <3>1. CommandTyped'
      BY <1>1, <2>1 DEF CommandTyped
    <3>2. EngineTyped'
      BY <1>1, <2>1 DEF EngineTyped
    <3>. QED  BY <3>1, <3>2
  <2>4. wire' \in Seq(Frame)
    <3>1. <<"open">> \in Seq(Frame) /\ <<>> \in Seq(Frame)
      BY DEF Frame
    <3>. QED  BY <2>1, <3>1
  <2>5. RowsTyped'
    BY <1>1, <2>1, <2>4 DEF RowsTyped
  <2>6. ThreadInv'
    BY <1>1, <2>1, ThreadStays
  <2>7. CommandInv'
    <3>1. /\ cmd' = "importing" /\ heard' /\ batch' = <<>> /\ told' = "nothing" /\ via' = "sidecar"
          /\ pump' = "looking" /\ outcome' = "none"
      BY <1>1, <1>2, <2>1, <2>2
    <3>2. held' = "pool"
      BY <1>1, <2>2 DEF CommandInv
    <3>. QED  BY <3>1, <3>2 DEF CommandInv
  <2>8. /\ \A i \in 1 .. Len(wire') : i = 1 /\ wire'[i] = "open"
        /\ alive => wire' # <<>> /\ Len(wire') = 1
        /\ ~alive => Len(wire') = 0
    BY <2>1
  <2>9. WireInv'
    BY <1>1, <1>2, <2>1, <2>8 DEF WireInv
  <2>10. EndInv'
    BY <1>1, <1>2, <2>1, <2>8 DEF EndInv
  <2>11. ~RowsEnded'
    BY <1>1, <1>2, <2>1, <2>8 DEF RowsEnded
  <2>12. AnswerInv'
    BY <1>1, <1>2, <2>1, <2>11 DEF AnswerInv
  <2>13. CountInv'
    <3>1. Trailer' = 0
      BY <2>8 DEF Trailer
    <3>2. /\ Len(channel) \in Nat /\ Len(batch) \in Nat /\ Len(stream) \in Nat /\ Sending \in 0 .. 1
          /\ read \in Nat /\ inserted \in Nat
      BY Numbers
    <3>3. Sending' = Sending /\ Header' = Len(wire')
      BY <1>1, <1>2, <2>1, <2>8 DEF Sending, Header
    <3>4. Len(wire') \in 0 .. 1
      BY <2>8
    <3>5. OnTheWay' = OnTheWay + Len(wire') /\ OnTheWay \in Nat
      BY <1>1, <1>3, <2>1, <3>2, <3>3, <3>4 DEF OnTheWay
    <3>6. inserted + OnTheWay <= read
      BY <1>3, <3>2, <3>5 DEF CountInv
    <3>7. PICK n \in 0 .. 1 : n = Len(wire')
      BY <3>4
    <3>8. inserted + (OnTheWay + n) <= read + n + 0
      BY <3>2, <3>5, <3>6
    <3>9. inserted' + OnTheWay' <= read' + Header' + Trailer'
      BY <1>1, <3>1, <3>3, <3>5, <3>7, <3>8
    <3>10. ASSUME verdict # "failed" PROVE inserted' + OnTheWay' = read' + Header'
      <4>1. inserted + OnTheWay = read
        BY <1>2, <1>3, <3>2, <3>10 DEF CountInv
      <4>2. inserted + (OnTheWay + n) = read + n
        BY <3>2, <3>5, <4>1
      <4>. QED  BY <1>1, <3>3, <3>5, <3>7, <4>2
    <3>11. ~Holds(wire)
      BY <1>2, EmptyHoldsNothing
    <3>12. verdict = "ok" /\ bad > 0 => Holds(channel) \/ Holds(batch) \/ Holds(stream)
      BY <1>2, <3>11 DEF CountInv
    <3>. QED  BY <1>1, <2>1, <3>9, <3>10, <3>12 DEF CountInv
  <2>14. TimeoutInv'
    BY <1>2, <2>1 DEF TimeoutInv
  <2>. QED  BY <1>4, <1>5, <2>3, <2>5, <2>6, <2>7, <2>9, <2>10, <2>12, <2>13, <2>14 DEF ImportInv, ImportTyped
<1>8. CASE via # "direct" /\ ~alive /\ Receives("failed") /\ UNCHANGED <<tx, pump, wire>>
  <2>1. outcome' = "failed" /\ cmd' = "joining" /\ heard' = FALSE /\ channel' = <<>> /\ UNCHANGED <<tx, pump, wire>>
    BY <1>8 DEF Receives, Gone
  <2>2. CommandTyped' /\ EngineTyped'
    <3>1. CommandTyped'
      BY <1>1, <2>1 DEF CommandTyped
    <3>2. EngineTyped'
      BY <1>1, <2>1 DEF EngineTyped
    <3>. QED  BY <3>1, <3>2
  <2>3. RowsTyped'
    BY <1>1, <2>1, RowsDropped
  <2>4. ThreadInv' /\ WireInv' /\ EndInv'
    BY <1>1, <2>1, ThreadStays, WireStays, EndStays DEF Pumping
  <2>5. CommandInv'
    BY <1>1, <1>2, <1>8, <2>1 DEF CommandInv
  <2>6. CountInv'
    <3>1. ~Moving'
      BY <1>1, <1>2, <1>8, <2>1 DEF Moving, Pumping
    <3>. QED  BY <1>1, <2>1, <3>1, CountDrops
  <2>7. AnswerInv'
    BY <1>1, <1>2, <1>8, <2>1, RowsEndedStay DEF AnswerInv
  <2>8. TimeoutInv'
    BY <1>2, <2>1 DEF TimeoutInv
  <2>. QED  BY <1>4, <1>5, <2>2, <2>3, <2>4, <2>5, <2>6, <2>7, <2>8 DEF ImportInv, ImportTyped
<1>. QED  BY <1>6, <1>7, <1>8

LEMMA TakeRowKeeps ==
  ASSUME ImportInv, TakeRow
  PROVE  ImportInv'
<1>. /\ ThreadTyped /\ CommandTyped /\ EngineTyped /\ ProcessTyped /\ RowsTyped
     /\ ThreadInv /\ CommandInv /\ WireInv /\ CountInv /\ EndInv /\ AnswerInv /\ TimeoutInv
  BY ImportInvIs
<1>1. /\ tx = "open" /\ Queue # <<>> /\ cut' = cut
      /\ UNCHANGED <<via, held, bad, flag, parsing, told, host, wire, abort, alive, eof, late, unheard>>
  BY DEF TakeRow
<1>2. (\E o \in {"failed", "cancelled"} : Fails(o)) \/ (Head(Queue) # "bad" /\ ~Cancelled /\ Inserts)
  BY DEF TakeRow, Take
<1>3. CASE \E o \in {"failed", "cancelled"} : Fails(o)
  <2>1. cut' \in BOOLEAN
    BY <1>1 DEF CommandTyped
  <2>. QED  BY <1>1, <1>3, <2>1, FailsKeeps
<1>4. CASE Head(Queue) # "bad" /\ ~Cancelled /\ Inserts
  <2>1. /\ inserted' = inserted + 1 /\ tx' = tx
        /\ UNCHANGED <<via, held, bad, flag, parser, read, verdict, told, pump, batch, wire, abort, alive, eof, cut, late,
                       outcome, cmd, heard, streaming, reply, unheard>>
    BY <1>1, <1>4 DEF Inserts, parsing, host
  <2>2. /\ channel \in Seq(Row) /\ stream \in Seq(Row) /\ Queue \in Seq(Row)
        /\ Len(channel) <= Capacity /\ Len(stream) <= StreamCapacity
    BY DEF Queue, RowsTyped
  <2>3. /\ Tail(Queue) \in Seq(Row) /\ Len(Queue) \in Nat \ {0} /\ Len(Tail(Queue)) = Len(Queue) - 1
        /\ Holds(Queue) <=> Holds(Tail(Queue))
    BY <1>1, <1>4, <2>2, RowLeaves
  <2>4. \/ Queue = channel /\ channel' = Tail(Queue) /\ stream' = stream /\ via = "direct"
        \/ Queue = stream /\ stream' = Tail(Queue) /\ channel' = channel /\ via # "direct"
    BY <1>4 DEF Queue, Inserts, Took
  <2>5. /\ channel' \in Seq(Row) /\ Len(channel') <= Capacity
        /\ stream' \in Seq(Row) /\ Len(stream') <= StreamCapacity
    <3>1. Capacity \in Nat /\ StreamCapacity \in Nat
      BY CapacitiesAssumption
    <3>2. CASE Queue = channel /\ channel' = Tail(Queue) /\ stream' = stream
      BY <2>2, <2>3, <3>1, <3>2
    <3>3. CASE Queue = stream /\ stream' = Tail(Queue) /\ channel' = channel
      BY <2>2, <2>3, <3>1, <3>3
    <3>. QED  BY <2>4, <3>2, <3>3
  <2>6. (Holds(channel') <=> Holds(channel)) /\ (Holds(stream') <=> Holds(stream))
    BY <2>3, <2>4
  <2>7. ThreadTyped' /\ CommandTyped' /\ ProcessTyped'
    BY <2>1 DEF ThreadTyped, CommandTyped, ProcessTyped
  <2>8. inserted \in Nat
    BY DEF EngineTyped
  <2>9. EngineTyped'
    BY <2>1, <2>8 DEF EngineTyped
  <2>10. RowsTyped'
    BY <2>1, <2>5 DEF RowsTyped
  <2>11. ThreadInv'
    BY <2>1, ThreadStays
  <2>12. CommandInv'
    <3>1. via = "direct" => stream' = stream
      BY <2>4
    <3>. QED  BY <1>1, <2>1, <3>1 DEF CommandInv, Pumping
  <2>13. WireInv'
    BY <1>1, <2>1 DEF WireInv, Pumping
  <2>14. (Flowing' <=> Flowing) /\ Header' = Header /\ Trailer' = Trailer /\ (Moving' <=> Moving) /\ Sending' = Sending
    BY <1>1, <2>1 DEF Flowing, Header, Trailer, Moving, Pumping, Sending
  <2>15. /\ Len(channel) \in Nat /\ Len(batch) \in Nat /\ Len(wire) \in Nat /\ Len(stream) \in Nat
         /\ Sending \in 0 .. 1 /\ Header \in 0 .. 1 /\ Trailer \in 0 .. 1 /\ Rows \in Nat
    BY Numbers
  <2>16. inserted' + OnTheWay' = inserted + OnTheWay
    <3>1. CASE Queue = channel /\ channel' = Tail(Queue) /\ stream' = stream
      BY <2>1, <2>3, <2>8, <2>14, <2>15, <3>1 DEF OnTheWay
    <3>2. CASE Queue = stream /\ stream' = Tail(Queue) /\ channel' = channel
      BY <2>1, <2>3, <2>8, <2>14, <2>15, <3>2 DEF OnTheWay
    <3>. QED  BY <2>4, <3>1, <3>2
  <2>17. CountInv'
    BY <2>1, <2>6, <2>14, <2>16 DEF CountInv
  <2>18. EndInv'
    <3>1. CASE via = "direct"
      <4>1. ~Flowing
        BY <1>1, <3>1 DEF CommandInv, Flowing
      <4>. QED  BY <1>1, <2>1, <2>14, <3>1, <4>1 DEF EndInv
    <3>2. CASE via # "direct"
      <4>1. inserted' + Len(stream') = inserted + Len(stream)
        BY <2>1, <2>3, <2>4, <2>8, <3>2
      <4>2. inserted' + Len(stream') + Len(wire') = inserted + Len(stream) + Len(wire)
        BY <2>1, <4>1
      <4>. QED  BY <1>1, <2>1, <2>6, <2>14, <4>1, <4>2 DEF EndInv
    <3>. QED  BY <3>1, <3>2
  <2>19. AnswerInv'
    BY <2>1, AnswersStay DEF AnswerInv
  <2>20. TimeoutInv'
    <3>1. via = "direct" => outcome # "timeout"
      BY <1>4 DEF Cancelled, TimeoutInv
    <3>. QED  BY <2>1, <3>1, TimeoutStays
  <2>. QED  BY <2>7, <2>9, <2>10, <2>11, <2>12, <2>13, <2>17, <2>18, <2>19, <2>20 DEF ImportInv, ImportTyped
<1>. QED  BY <1>2, <1>3, <1>4

\* What the host writes joins the pipe behind the frame that opens the stream, which
\* the process has read or has still to read.
LEMMA FramesJoin ==
  ASSUME ThreadTyped, RowsTyped, EngineTyped, WireInv, Pumping, alive, NEW f \in Seq(Frame), f # <<>>,
         \A i \in 1 .. Len(f) : f[i] # "open" /\ (f[i] \in {"end", "cancel"} => i = Len(f)),
         Pumping' => f[Len(f)] \notin {"end", "cancel"},
         wire' = wire \o f, UNCHANGED <<tx, inserted, stream, streaming, alive>>
  PROVE  /\ WireInv' /\ wire' \in Seq(Frame) /\ Len(wire') = Len(wire) + Len(f) /\ Len(f) \in Nat \ {0}
         /\ Header' = Header
         /\ \A i \in 1 .. Len(wire) : wire[i] \notin {"end", "cancel"}
         /\ \A i \in 1 .. Len(wire') : wire'[i] \in {"end", "cancel"} => i = Len(wire') /\ wire'[i] = f[Len(f)]
         /\ wire'[Len(wire')] = f[Len(f)]
         /\ Flowing' <=> Flowing
<1>1. wire \in Seq(Frame) /\ pump # "idle"
  BY DEF RowsTyped, Pumping
<1>2. /\ wire' \in Seq(Frame) /\ Len(wire') = Len(wire) + Len(f) /\ Len(wire) \in Nat /\ Len(f) \in Nat \ {0}
      /\ \A i \in 1 .. Len(wire) : wire'[i] = wire[i]
      /\ \A i \in 1 .. Len(f) : wire'[Len(wire) + i] = f[i]
      /\ wire # <<>> <=> Len(wire) > 0
      /\ wire' # <<>>
  BY <1>1, RowsJoin
<1>3. tx = "none" => wire # <<>>
  BY <1>1 DEF WireInv
<1>4. Header' = Header /\ (Flowing' <=> Flowing)
  BY <1>2, <1>3 DEF Header, Flowing
<1>5. \A i \in 1 .. Len(wire) : wire[i] \notin {"end", "cancel"}
  BY DEF WireInv
<1>6. ASSUME NEW i \in 1 .. Len(wire')
      PROVE  i \in 1 .. Len(wire) \/ (i - Len(wire) \in 1 .. Len(f) /\ i > Len(wire) /\ wire'[i] = f[i - Len(wire)])
  <2>1. CASE i <= Len(wire)
    BY <1>2, <2>1
  <2>2. CASE i > Len(wire)
    <3>1. i - Len(wire) \in 1 .. Len(f) /\ Len(wire) + (i - Len(wire)) = i
      BY <1>2, <2>2
    <3>. QED  BY <1>2, <2>2, <3>1
  <2>. QED  BY <1>2, <2>1, <2>2
<1>7. ASSUME NEW i \in 1 .. Len(wire'), wire'[i] \in {"end", "cancel"}
      PROVE  i = Len(wire') /\ wire'[i] = f[Len(f)]
  <2>1. i - Len(wire) \in 1 .. Len(f) /\ i > Len(wire) /\ wire'[i] = f[i - Len(wire)]
    BY <1>2, <1>5, <1>6, <1>7
  <2>2. i - Len(wire) = Len(f)
    BY <1>7, <2>1
  <2>. QED  BY <1>2, <2>1, <2>2
<1>8. wire'[Len(wire')] = f[Len(f)]
  <2>1. Len(f) \in 1 .. Len(f)
    BY <1>2
  <2>. QED  BY <1>2, <2>1
<1>9. ASSUME NEW i \in 1 .. Len(wire')
      PROVE  /\ wire'[i] = "open" => i = 1 /\ tx' = "none"
             /\ wire'[i] \in {"end", "cancel"} => i = Len(wire') /\ ~Pumping'
             /\ i = 1 /\ tx' = "none" => wire'[i] = "open"
  <2>1. wire'[i] \in {"end", "cancel"} => i = Len(wire') /\ ~Pumping'
    BY <1>7
  <2>2. CASE i \in 1 .. Len(wire)
    BY <1>2, <2>1, <2>2 DEF WireInv
  <2>3. CASE i > Len(wire) /\ wire'[i] = f[i - Len(wire)] /\ i - Len(wire) \in 1 .. Len(f)
    <3>1. wire'[i] # "open"
      BY <2>3
    <3>2. tx = "none" => i # 1
      BY <1>2, <1>3, <2>3
    <3>. QED  BY <2>1, <3>1, <3>2
  <2>. QED  BY <1>6, <2>2, <2>3
<1>10. WireInv'
  BY <1>2, <1>9 DEF WireInv
<1>. QED  BY <1>2, <1>4, <1>5, <1>7, <1>8, <1>10

LEMMA LookKeeps ==
  ASSUME ImportInv, Look
  PROVE  ImportInv'
<1>. /\ ThreadTyped /\ CommandTyped /\ EngineTyped /\ ProcessTyped /\ RowsTyped
     /\ ThreadInv /\ CommandInv /\ WireInv /\ CountInv /\ EndInv /\ AnswerInv /\ TimeoutInv
  BY ImportInvIs
<1>1. /\ pump = "looking"
      /\ UNCHANGED <<via, held, bad, flag, parser, read, verdict, channel, heard, cmd, outcome, told, tx, inserted,
                     stream, streaming, abort, reply, alive, eof, cut, late, unheard>>
  BY DEF Look, parsing, command, driver
<1>2. Pumping /\ cmd = "importing" /\ via = "sidecar"
  BY <1>1 DEF Pumping, CommandInv
<1>3. \/ pump' = "receiving" /\ batch' = batch /\ wire' = wire
      \/ pump' = "waiting" /\ batch' = <<>> /\ wire' = (IF alive THEN wire \o <<"cancel">> ELSE wire)
  BY DEF Look, Writes, OnCancel
<1>4. ThreadTyped' /\ CommandTyped' /\ ProcessTyped'
  BY <1>1 DEF ThreadTyped, CommandTyped, ProcessTyped
<1>5. EngineTyped'
  BY <1>1, <1>3 DEF EngineTyped
<1>6. ThreadInv'
  BY <1>1, ThreadStays
<1>7. CommandInv'
  BY <1>1, <1>2, <1>3 DEF CommandInv, Pumping
<1>8a. TimeoutInv'
  <2>1. outcome' = "none" /\ tx' # "left"
    BY <1>1, <1>2 DEF CommandInv, TimeoutInv
  <2>. QED  BY <2>1 DEF TimeoutInv
<1>8. CASE wire' = wire
  <2>1. RowsTyped'
    BY <1>1, <1>3, <1>8, RowsDropped
  <2>2. WireInv' /\ EndInv'
    <3>1. \A i \in 1 .. Len(wire) : wire[i] \notin {"end", "cancel"}
      BY <1>2 DEF WireInv
    <3>2. EndInv'
      BY <1>1, <1>8, EndStays
    <3>. QED  BY <1>1, <1>2, <1>8, <3>1, <3>2 DEF WireInv
  <2>3. AnswerInv'
    BY <1>1, <1>2, <1>8, AnswersStay DEF AnswerInv
  <2>4. CountInv'
    <3>1. CASE pump' = "receiving" /\ batch' = batch
      <4>1. Moving' => Moving
        BY <1>1, <1>2, <1>8 DEF Moving, Flowing
      <4>. QED  BY <1>1, <1>8, <3>1, <4>1, CountStays
    <3>2. CASE pump' = "waiting" /\ batch' = <<>>
      <4>1. ~Moving'
        BY <1>1, <1>2, <3>2 DEF Moving, Pumping
      <4>. QED  BY <1>1, <1>8, <3>2, <4>1, CountDrops
    <3>. QED  BY <1>3, <3>1, <3>2
  <2>. QED  BY <1>4, <1>5, <1>6, <1>7, <1>8a, <2>1, <2>2, <2>3, <2>4 DEF ImportInv, ImportTyped
<1>9. CASE wire' # wire
  <2>1. pump' = "waiting" /\ batch' = <<>> /\ alive /\ wire' = wire \o <<"cancel">>
    BY <1>3, <1>9
  <2>. DEFINE f == <<"cancel">>
  <2>2. /\ f \in Seq(Frame) /\ f # <<>> /\ Len(f) = 1 /\ f[1] = "cancel"
        /\ \A i \in 1 .. Len(f) : f[i] # "open" /\ (f[i] \in {"end", "cancel"} => i = Len(f))
    BY DEF Frame
  <2>3. ~Pumping'
    BY <2>1 DEF Pumping
  <2>4. wire' = wire \o f
    BY <2>1
  <2>. HIDE DEF f
  <2>5. /\ WireInv' /\ wire' \in Seq(Frame) /\ Len(wire') = Len(wire) + 1 /\ Header' = Header
        /\ \A i \in 1 .. Len(wire) : wire[i] \notin {"end", "cancel"}
        /\ \A i \in 1 .. Len(wire') : wire'[i] \in {"end", "cancel"} => wire'[i] = "cancel"
        /\ wire'[Len(wire')] = "cancel"
        /\ Flowing' <=> Flowing
    BY <1>1, <1>2, <2>1, <2>2, <2>3, <2>4, FramesJoin
  <2>6. RowsTyped'
    BY <1>1, <2>1, <2>5, CapacitiesAssumption DEF RowsTyped
  <2>7. \A i \in 1 .. Len(wire') : wire'[i] # "end"
    BY <2>5
  <2>8. EndInv'
    BY <1>1, <2>7 DEF EndInv
  <2>9. RowsEnded' => RowsEnded
    BY <1>1, <2>7 DEF RowsEnded
  <2>10. AnswerInv'
    BY <1>1, <1>2, <2>9 DEF AnswerInv
  <2>11. CountInv'
    <3>1. ~Moving'
      BY <1>1, <1>2, <2>3 DEF Moving
    <3>2. /\ Len(channel) \in Nat /\ Len(batch) \in Nat /\ Len(stream) \in Nat /\ Sending \in 0 .. 1
          /\ read \in Nat /\ inserted \in Nat /\ Len(wire) \in Nat /\ Header \in 0 .. 1 /\ Trailer = 0
      BY <1>2, Numbers
    <3>3. wire' # <<>>
      BY <2>5, <3>2, EmptyHoldsNothing
    <3>4. Trailer' = 1 /\ Sending' = Sending /\ Len(batch') = 0
      BY <1>1, <2>1, <2>5, <3>3, EmptyHoldsNothing DEF Trailer, Sending
    <3>5. inserted + OnTheWay <= read + Header
      BY <3>2 DEF CountInv, OnTheWay
    <3>6. inserted' + OnTheWay' <= read' + Header' + Trailer'
      BY <1>1, <2>5, <3>2, <3>4, <3>5 DEF OnTheWay
    <3>. QED  BY <3>1, <3>6 DEF CountInv
  <2>. QED  BY <1>4, <1>5, <1>6, <1>7, <1>8a, <2>5, <2>6, <2>8, <2>10, <2>11 DEF ImportInv, ImportTyped
<1>. QED  BY <1>8, <1>9

LEMMA PumpEndKeeps ==
  ASSUME ImportInv, PumpEnd
  PROVE  ImportInv'
<1>. /\ ThreadTyped /\ CommandTyped /\ EngineTyped /\ ProcessTyped /\ RowsTyped
     /\ ThreadInv /\ CommandInv /\ WireInv /\ CountInv /\ EndInv /\ AnswerInv /\ TimeoutInv
  BY ImportInvIs
<1>1. /\ pump = "receiving" /\ channel = <<>> /\ parser = "done" /\ pump' = "waiting" /\ batch' = <<>>
      /\ cut' = (cut \/ verdict # "ok")
      /\ UNCHANGED <<via, held, bad, flag, parser, read, verdict, channel, heard, cmd, outcome, told, tx, inserted,
                     stream, streaming, abort, reply, alive, eof, late, unheard>>
  BY DEF PumpEnd, parsing, command, driver
<1>2. Pumping /\ cmd = "importing" /\ via = "sidecar" /\ heard /\ ~Pumping'
  BY <1>1 DEF Pumping, CommandInv
<1>3. wire' = (IF alive THEN wire \o Append(batch, "end") ELSE wire)
  BY DEF PumpEnd, Writes
<1>4. cut' \in BOOLEAN /\ (cut => cut') /\ (verdict # "ok" => cut') /\ (cut' => verdict # "ok")
  BY <1>1 DEF CommandTyped, ThreadInv
<1>5. ThreadTyped' /\ EngineTyped' /\ ProcessTyped'
  BY <1>1 DEF ThreadTyped, EngineTyped, ProcessTyped
<1>6. CommandTyped'
  BY <1>1, <1>4 DEF CommandTyped
<1>7. ThreadInv'
  BY <1>1, <1>4 DEF ThreadInv
<1>8. CommandInv'
  BY <1>1, <1>2 DEF CommandInv
<1>9. ~Moving'
  BY <1>1, <1>2 DEF Moving
<1>10. AnswerInv'
  BY <1>1, <1>4 DEF AnswerInv
<1>10a. TimeoutInv'
  <2>1. outcome' = "none" /\ tx' # "left"
    BY <1>1, <1>2 DEF CommandInv, TimeoutInv
  <2>. QED  BY <2>1 DEF TimeoutInv
<1>11. CASE ~alive
  <2>1. wire' = wire
    BY <1>3, <1>11
  <2>2. RowsTyped'
    BY <1>1, <2>1, RowsDropped
  <2>3. WireInv'
    BY <1>1, <1>2, <1>11, <2>1 DEF WireInv
  <2>4. EndInv'
    BY <1>1, <1>4, <2>1, EndStays
  <2>5. CountInv'
    BY <1>1, <1>9, <2>1, CountDrops
  <2>. QED  BY <1>5, <1>6, <1>7, <1>8, <1>10, <1>10a, <2>2, <2>3, <2>4, <2>5 DEF ImportInv, ImportTyped
<1>12. CASE alive
  <2>. DEFINE f == Append(batch, "end")
  <2>1. batch \in Seq(Row) /\ batch \in Seq(Frame) /\ "end" \in Frame /\ "open" \notin Row /\ "end" \notin Row /\ "cancel" \notin Row
    BY DEF RowsTyped, Frame, Row
  <2>2. /\ f \in Seq(Frame) /\ f # <<>> /\ Len(f) = Len(batch) + 1 /\ Len(batch) \in Nat
        /\ f[Len(batch) + 1] = "end" /\ \A i \in 1 .. Len(batch) : f[i] = batch[i] /\ batch[i] \in Row
        /\ Holds(batch) => Holds(f)
    BY <2>1, RowJoins
  <2>3. wire' = wire \o f
    BY <1>3, <1>12
  <2>. HIDE DEF f
  <2>4. \A i \in 1 .. Len(f) : f[i] # "open" /\ (f[i] \in {"end", "cancel"} => i = Len(f))
    <3>1. ASSUME NEW i \in 1 .. Len(f) PROVE i = Len(batch) + 1 \/ (i \in 1 .. Len(batch) /\ f[i] \in Row)
      BY <2>2
    <3>. QED  BY <2>1, <2>2, <3>1
  <2>5. /\ WireInv' /\ wire' \in Seq(Frame) /\ Len(wire') = Len(wire) + Len(f) /\ Header' = Header
        /\ wire'[Len(wire')] = f[Len(f)] /\ (Flowing' <=> Flowing)
    BY <1>1, <1>2, <1>12, <2>2, <2>3, <2>4, FramesJoin
  <2>6. RowsTyped'
    BY <1>1, <2>5, CapacitiesAssumption DEF RowsTyped
  <2>7. /\ Len(channel) \in Nat /\ Len(stream) \in Nat /\ Sending = 0 /\ Len(channel) = 0 /\ Rows \in Nat
        /\ read \in Nat /\ inserted \in Nat /\ Len(wire) \in Nat /\ Header \in 0 .. 1 /\ Trailer = 0
    BY <1>1, <1>2, Numbers, EmptyHoldsNothing DEF Sending
  <2>8. Len(wire') = Len(wire) + Len(batch) + 1
    BY <2>2, <2>5, <2>7
  <2>9. CountInv'
    <3>1. wire' # <<>>
      BY <2>2, <2>7, <2>8, EmptyHoldsNothing
    <3>2. Trailer' = 1 /\ Sending' = Sending /\ Len(batch') = 0
      BY <1>1, <2>2, <2>5, <3>1, EmptyHoldsNothing DEF Trailer, Sending
    <3>3. inserted + OnTheWay <= read + Header
      BY <2>2, <2>7 DEF CountInv, OnTheWay
    <3>4. inserted' + OnTheWay' <= read' + Header' + Trailer'
      BY <1>1, <2>2, <2>5, <2>7, <2>8, <3>2, <3>3 DEF OnTheWay
    <3>. QED  BY <1>9, <3>4 DEF CountInv
  <2>10. ASSUME Flowing', ~cut'
         PROVE  \/ bad' = 0 /\ inserted' + Len(stream') + Len(wire') = Rows + Header' + 1
                \/ bad' > 0 /\ (Holds(stream') \/ Holds(wire'))
    <3>1. Moving /\ verdict = "ok"
      BY <1>2, <1>4, <2>5, <2>10 DEF Moving
    <3>2. inserted + OnTheWay = read + Header /\ (bad > 0 => Holds(channel) \/ Holds(batch) \/ Holds(wire) \/ Holds(stream))
      BY <3>1 DEF CountInv
    <3>3. CASE bad = 0
      <4>1. read = Rows
        BY <1>2, <3>1, <3>3 DEF ThreadInv
      <4>2. inserted + Len(stream) + (Len(wire) + Len(batch) + 1) = Rows + Header + 1
        BY <2>2, <2>7, <3>2, <4>1 DEF OnTheWay
      <4>. QED  BY <1>1, <2>5, <2>8, <3>3, <4>2
    <3>4. CASE bad > 0
      <4>1. ~Holds(channel)
        BY <1>1, EmptyHoldsNothing
      <4>2. Holds(f) \/ Holds(wire) \/ Holds(stream)
        BY <2>2, <3>2, <3>4, <4>1
      <4>3. wire \in Seq(Frame) /\ (Holds(wire) \/ Holds(f) => Holds(wire'))
        BY <2>2, <2>3, RowsJoin DEF RowsTyped
      <4>. QED  BY <1>1, <3>4, <4>2, <4>3
    <3>. QED  BY <2>7, <3>3, <3>4 DEF ThreadTyped
  <2>11. EndInv'
    <3>1. via' = "sidecar" /\ tx' \in {"beginning", "open"} /\ ~streaming' =>
            \/ cut'
            \/ bad' = 0 /\ inserted' + Len(stream') = Rows
            \/ bad' > 0 /\ Holds(stream')
      BY <1>1, <1>4 DEF EndInv
    <3>2. tx' \in {"committing", "committed"} => cut' \/ (bad' = 0 /\ inserted' = Rows)
      BY <1>1, <1>4 DEF EndInv
    <3>. QED  BY <2>10, <3>1, <3>2 DEF EndInv
  <2>. QED  BY <1>5, <1>6, <1>7, <1>8, <1>10, <1>10a, <2>5, <2>6, <2>9, <2>11 DEF ImportInv, ImportTyped
<1>. QED  BY <1>11, <1>12

LEMMA PumpRowKeeps ==
  ASSUME ImportInv, PumpRow
  PROVE  ImportInv'
<1>. /\ ThreadTyped /\ CommandTyped /\ EngineTyped /\ ProcessTyped /\ RowsTyped
     /\ ThreadInv /\ CommandInv /\ WireInv /\ CountInv /\ EndInv /\ AnswerInv /\ TimeoutInv
  BY ImportInvIs
<1>. DEFINE rows == Append(batch, Head(channel))
<1>1. /\ pump = "receiving" /\ channel # <<>>
      /\ UNCHANGED <<via, held, bad, flag, parser, read, verdict, told, tx, inserted, stream, streaming, abort, reply,
                     alive, eof, cut, late, unheard>>
  BY DEF PumpRow, parsing, driver
<1>2. Pumping /\ cmd = "importing" /\ via = "sidecar" /\ heard /\ told = "nothing"
  BY <1>1 DEF Pumping, CommandInv
<1>3. \/ /\ pump' = "looking" /\ channel' = Tail(channel) /\ UNCHANGED <<outcome, cmd, heard>>
         /\ batch' = (IF Len(rows) = BatchRows THEN <<>> ELSE rows)
         /\ wire' = (IF Len(rows) = BatchRows /\ alive THEN wire \o rows ELSE wire)
      \/ /\ ~alive /\ outcome' = "failed" /\ cmd' = "joining" /\ heard' = FALSE /\ channel' = <<>>
         /\ pump' = "idle" /\ batch' = <<>> /\ wire' = wire
  BY DEF PumpRow, Receives, Gone, Writes
<1>4. /\ channel \in Seq(Row) /\ batch \in Seq(Row) /\ Head(channel) \in Row /\ Tail(channel) \in Seq(Row)
      /\ Len(channel) \in Nat \ {0} /\ Len(Tail(channel)) = Len(channel) - 1
      /\ Holds(channel) <=> Head(channel) = "bad" \/ Holds(Tail(channel))
  BY <1>1, RowLeaves DEF RowsTyped
<1>5. /\ rows \in Seq(Row) /\ Len(rows) = Len(batch) + 1 /\ Len(batch) \in Nat /\ rows # <<>>
      /\ Holds(rows) <=> Holds(batch) \/ Head(channel) = "bad"
  BY <1>4, RowJoins
<1>. HIDE DEF rows
<1>6. ThreadTyped' /\ ProcessTyped'
  BY <1>1 DEF ThreadTyped, ProcessTyped
<1>7. CommandTyped' /\ EngineTyped'
  BY <1>1, <1>3 DEF CommandTyped, EngineTyped
<1>8. ThreadInv'
  BY <1>1, <1>2, <1>3 DEF ThreadInv
<1>9. CommandInv'
  BY <1>1, <1>2, <1>3 DEF CommandInv, Pumping
<1>10. /\ outcome = "none" /\ tx # "left"
       /\ \A i \in 1 .. Len(wire) : wire[i] \notin {"end", "cancel"}
  BY <1>2 DEF CommandInv, TimeoutInv, WireInv
<1>10a. TimeoutInv'
  <2>1. outcome' \in {"none", "failed"} /\ tx' # "left"
    BY <1>1, <1>3, <1>10
  <2>. QED  BY <2>1 DEF TimeoutInv
<1>11. /\ Len(stream) \in Nat /\ Sending \in 0 .. 1 /\ Rows \in Nat /\ read \in Nat /\ inserted \in Nat
       /\ Len(wire) \in Nat /\ Header \in 0 .. 1 /\ Trailer = 0
  BY <1>2, Numbers
<1>12. Sending' = Sending
  BY <1>1 DEF Sending
<1>13. CASE wire' = wire
  <2>1. CASE pump' = "idle"
    <3>1. ~Moving' /\ ~Pumping' /\ channel' = <<>> /\ batch' = <<>>
      BY <1>1, <1>2, <1>3, <2>1 DEF Moving, Pumping
    <3>2. RowsTyped'
      BY <1>1, <1>13, <3>1, RowsDropped
    <3>3. WireInv' /\ EndInv'
      BY <1>1, <1>13, <2>1, <3>1, WireStays, EndStays
    <3>4. CountInv'
      BY <1>1, <1>13, <3>1, CountDrops
    <3>5. AnswerInv'
      <4>1. ~alive /\ outcome' = "failed"
        BY <1>3, <2>1
      <4>2. tx \in {"none", "ended"}
        BY <1>2, <4>1 DEF WireInv
      <4>. QED  BY <1>1, <1>13, <4>1, <4>2, RowsEndedStay DEF AnswerInv
    <3>. QED  BY <1>6, <1>7, <1>8, <1>9, <1>10a, <3>2, <3>3, <3>4, <3>5 DEF ImportInv, ImportTyped
  <2>2. CASE pump' # "idle"
    <3>1. /\ pump' = "looking" /\ channel' = Tail(channel) /\ UNCHANGED <<outcome, cmd, heard>>
          /\ batch' = rows \/ (batch' = <<>> /\ ~alive)
          /\ Len(batch') < BatchRows
      <4>1. pump' = "looking" /\ channel' = Tail(channel) /\ UNCHANGED <<outcome, cmd, heard>>
        BY <1>3, <2>2
      <4>2. batch' = (IF Len(rows) = BatchRows THEN <<>> ELSE rows)
        BY <1>3, <2>2
      <4>3. CASE Len(rows) = BatchRows
        <5>1. wire' = (IF alive THEN wire \o rows ELSE wire)
          BY <1>3, <2>2, <4>3
        <5>2. alive => wire \o rows # wire
          <6>1. wire \in Seq(Frame) /\ rows \in Seq(Frame)
            BY <1>5 DEF RowsTyped, Frame, Row
          <6>2. Len(wire \o rows) = Len(wire) + Len(rows) /\ Len(rows) > 0
            <7>1. Len(rows) = Len(batch) + 1 /\ Len(batch) \in Nat
              BY <1>5
            <7>2. Len(wire \o rows) = Len(wire) + Len(rows)
              BY <6>1, RowsJoin
            <7>. QED  BY <7>1, <7>2
          <6>3. ASSUME wire \o rows = wire PROVE FALSE
            <7>1. Len(wire) = Len(wire) + Len(rows)
              BY <6>2, <6>3
            <7>. QED  BY <1>5, <1>11, <7>1
          <6>. QED  BY <6>3
        <5>. QED  BY <1>13, <4>1, <4>2, <4>3, <5>1, <5>2, CapacitiesAssumption
      <4>4. CASE Len(rows) # BatchRows
        <5>1. Len(batch) < BatchRows /\ BatchRows \in Nat
          BY CapacitiesAssumption DEF RowsTyped
        <5>. QED  BY <1>5, <4>1, <4>2, <4>4, <5>1
      <4>. QED  BY <4>3, <4>4
    <3>2. RowsTyped'
      <4>1. Len(channel') <= Capacity /\ channel' \in Seq(Row)
        BY <1>4, <3>1, CapacitiesAssumption DEF RowsTyped
      <4>2. batch' \in Seq(Row)
        <5>1. batch' = rows \/ batch' = <<>>
          BY <3>1
        <5>2. <<>> \in Seq(Row)
          OBVIOUS
        <5>. QED  BY <1>5, <5>1, <5>2
      <4>. QED  BY <1>1, <1>13, <3>1, <4>1, <4>2 DEF RowsTyped
    <3>3. WireInv' /\ EndInv'
      BY <1>1, <1>2, <1>13, <3>1, WireStays, EndStays DEF Pumping
    <3>4. AnswerInv'
      BY <1>1, <1>10, <1>13, <3>1, AnswersStay
    <3>5. Header' = Header /\ Trailer' = Trailer /\ (Moving' <=> Moving)
      BY <1>1, <1>2, <1>13, <3>1 DEF Header, Trailer, Moving, Flowing, Pumping
    <3>6. CountInv'
      <4>1. Len(batch') \in 0 .. Len(batch) + 1
        BY <1>5, <3>1, EmptyHoldsNothing
      <4>2. inserted + OnTheWay <= read + Header
        BY <1>4, <1>5, <1>11 DEF CountInv, OnTheWay
      <4>3. PICK n \in 0 .. Len(batch) + 1 : n = Len(batch')
        BY <4>1
      <4>4. inserted + (Len(stream) + Len(wire) + n + (Len(channel) - 1) + Sending) <= read + Header + 0
        BY <1>4, <1>5, <1>11, <4>2 DEF OnTheWay
      <4>5. inserted' + OnTheWay' <= read' + Header' + Trailer'
        BY <1>1, <1>4, <1>11, <1>12, <1>13, <3>1, <3>5, <4>3, <4>4 DEF OnTheWay
      <4>6. ASSUME Moving' PROVE batch' = rows
        BY <1>1, <1>2, <3>1, <3>5, <4>6 DEF Moving, Flowing
      <4>7. ASSUME Moving', verdict # "failed" PROVE inserted' + OnTheWay' = read' + Header'
        <5>1. inserted + OnTheWay = read + Header
          BY <3>5, <4>7 DEF CountInv
        <5>2. OnTheWay' = OnTheWay
          <6>1. batch' = rows /\ channel' = Tail(channel) /\ wire' = wire /\ stream' = stream
            BY <1>1, <1>13, <3>1, <4>6, <4>7
          <6>. QED  BY <1>4, <1>5, <1>11, <1>12, <6>1 DEF OnTheWay
        <5>. QED  BY <1>1, <3>5, <5>1, <5>2
      <4>8. ASSUME Moving', verdict = "ok", bad > 0
            PROVE  Holds(channel') \/ Holds(batch') \/ Holds(wire') \/ Holds(stream')
        <5>1. Holds(channel) \/ Holds(batch) \/ Holds(wire) \/ Holds(stream)
          BY <3>5, <4>8 DEF CountInv
        <5>. QED  BY <1>1, <1>4, <1>5, <1>13, <3>1, <4>6, <4>8, <5>1
      <4>. QED  BY <1>1, <4>5, <4>7, <4>8 DEF CountInv
    <3>. QED  BY <1>6, <1>7, <1>8, <1>9, <1>10a, <3>2, <3>3, <3>4, <3>6 DEF ImportInv, ImportTyped
  <2>. QED  BY <2>1, <2>2
<1>14. CASE wire' # wire
  <2>1. /\ pump' = "looking" /\ channel' = Tail(channel) /\ UNCHANGED <<outcome, cmd, heard>>
        /\ batch' = <<>> /\ alive /\ wire' = wire \o rows
    BY <1>3, <1>14
  <2>2. rows \in Seq(Frame) /\ \A i \in 1 .. Len(rows) : rows[i] \notin {"open", "end", "cancel"}
    <3>1. Row \subseteq Frame /\ Row \cap {"open", "end", "cancel"} = {}
      BY DEF Frame, Row
    <3>2. \A i \in 1 .. Len(rows) : rows[i] \in Row
      BY <1>5
    <3>. QED  BY <1>5, <3>1, <3>2
  <2>3. Len(rows) \in 1 .. Len(rows) /\ Pumping'
    BY <1>5, <2>1 DEF Pumping
  <2>4. /\ WireInv' /\ wire' \in Seq(Frame) /\ Len(wire') = Len(wire) + Len(rows) /\ Header' = Header
        /\ \A i \in 1 .. Len(wire') : wire'[i] \in {"end", "cancel"} => wire'[i] = rows[Len(rows)]
        /\ wire'[Len(wire')] = rows[Len(rows)] /\ (Flowing' <=> Flowing)
    BY <1>1, <1>2, <1>5, <2>1, <2>2, <2>3, FramesJoin
  <2>5. Trailer' = 0 /\ \A i \in 1 .. Len(wire') : wire'[i] # "end"
    BY <2>2, <2>3, <2>4 DEF Trailer
  <2>6. RowsTyped'
    <3>1. Len(channel') <= Capacity /\ channel' \in Seq(Row)
      BY <1>4, <2>1, CapacitiesAssumption DEF RowsTyped
    <3>. QED  BY <1>1, <2>1, <2>4, <3>1, CapacitiesAssumption DEF RowsTyped
  <2>7. EndInv'
    BY <1>1, <2>5 DEF EndInv
  <2>8. RowsEnded' => RowsEnded
    BY <1>1, <2>5 DEF RowsEnded
  <2>9. AnswerInv'
    BY <1>1, <1>10, <2>1, <2>8 DEF AnswerInv
  <2>10. Moving' <=> Moving
    BY <1>1, <1>2, <2>1, <2>3, <2>4 DEF Moving
  <2>11. OnTheWay' = OnTheWay
    <3>1. Len(batch') = 0
      BY <2>1, EmptyHoldsNothing
    <3>. QED  BY <1>1, <1>4, <1>5, <1>11, <1>12, <2>1, <2>4, <3>1 DEF OnTheWay
  <2>12. CountInv'
    <3>1. wire \in Seq(Frame) /\ (Holds(wire) \/ Holds(rows) => Holds(wire'))
      BY <2>1, <2>2, RowsJoin DEF RowsTyped
    <3>2. Trailer' = Trailer
      BY <1>11, <2>5
    <3>3. Holds(channel) \/ Holds(batch) \/ Holds(wire) \/ Holds(stream) =>
            Holds(channel') \/ Holds(batch') \/ Holds(wire') \/ Holds(stream')
      BY <1>1, <1>4, <1>5, <2>1, <3>1
    <3>. QED  BY <1>1, <2>4, <2>10, <2>11, <3>2, <3>3 DEF CountInv
  <2>. QED  BY <1>6, <1>7, <1>8, <1>9, <1>10a, <2>4, <2>6, <2>7, <2>9, <2>12 DEF ImportInv, ImportTyped
<1>. QED  BY <1>13, <1>14

\* What the process has still to read, one frame later.
LEMMA FramesLeave ==
  ASSUME ThreadTyped, RowsTyped, EngineTyped, WireInv, wire # <<>>, wire' = Tail(wire)
  PROVE  /\ wire' \in Seq(Frame) /\ Len(wire) \in Nat \ {0} /\ Len(wire') = Len(wire) - 1
         /\ \A i \in 1 .. Len(wire') : i + 1 \in 1 .. Len(wire) /\ wire'[i] = wire[i + 1]
         /\ Head(wire) = wire[1] /\ Head(wire) \in Frame
         /\ Holds(wire) <=> Head(wire) = "bad" \/ Holds(wire')
         /\ Head(wire) = "open" <=> tx = "none"
         /\ Head(wire) \in {"end", "cancel"} => wire' = <<>> /\ Trailer = 1 /\ ~Pumping
         /\ Head(wire) \notin {"end", "cancel"} => Trailer' = Trailer
         /\ wire' = <<>> <=> Len(wire') = 0
<1>1. wire \in Seq(Frame)
  BY DEF RowsTyped
<1>2. /\ wire' \in Seq(Frame) /\ Len(wire) \in Nat \ {0} /\ Len(wire') = Len(wire) - 1
      /\ \A i \in 1 .. Len(wire') : wire'[i] = wire[i + 1]
      /\ Head(wire) = wire[1] /\ Head(wire) \in Frame
      /\ Holds(wire) <=> Head(wire) = "bad" \/ Holds(wire')
  BY <1>1, RowLeaves
<1>3. \A i \in 1 .. Len(wire') : i + 1 \in 1 .. Len(wire)
  BY <1>2
<1>4. 1 \in 1 .. Len(wire) /\ (wire' = <<>> <=> Len(wire') = 0)
  <2>1. Len(wire) \in Nat \ {0} /\ wire' \in Seq(Frame)
    BY <1>2
  <2>2. wire' = <<>> <=> Len(wire') = 0
    BY <2>1, QueueOf
  <2>. QED  BY <2>1, <2>2
<1>5. Head(wire) = "open" <=> tx = "none"
  BY <1>2, <1>4 DEF WireInv
<1>6. ASSUME Head(wire) \in {"end", "cancel"} PROVE wire' = <<>> /\ Trailer = 1 /\ ~Pumping
  <2>1. 1 = Len(wire) /\ ~Pumping
    BY <1>2, <1>4, <1>6 DEF WireInv
  <2>2. Len(wire') = 0
    BY <1>2, <2>1
  <2>. QED  BY <1>2, <1>4, <1>6, <2>1, <2>2 DEF Trailer
<1>7. ASSUME Head(wire) \notin {"end", "cancel"} PROVE Trailer' = Trailer
  <2>1. CASE Len(wire) = 1
    <3>1. wire' = <<>> /\ wire[Len(wire)] \notin {"end", "cancel"}
      BY <1>2, <1>4, <1>7, <2>1
    <3>. QED  BY <3>1 DEF Trailer
  <2>2. CASE Len(wire) # 1
    <3>1. Len(wire') \in 1 .. Len(wire') /\ Len(wire') + 1 = Len(wire)
      BY <1>2, <2>2
    <3>2. wire' # <<>> /\ wire'[Len(wire')] = wire[Len(wire)]
      BY <1>2, <1>4, <3>1
    <3>. QED  BY <3>2 DEF Trailer
  <2>. QED  BY <2>1, <2>2
<1>. QED  BY <1>2, <1>3, <1>4, <1>5, <1>6, <1>7

LEMMA ServerReadsKeeps ==
  ASSUME ImportInv, ServerReads
  PROVE  ImportInv'
<1>. /\ ThreadTyped /\ CommandTyped /\ EngineTyped /\ ProcessTyped /\ RowsTyped
     /\ ThreadInv /\ CommandInv /\ WireInv /\ CountInv /\ EndInv /\ AnswerInv /\ TimeoutInv
  BY ImportInvIs
<1>. DEFINE frame == Head(wire)
<1>1. /\ wire # <<>> /\ wire' = Tail(wire)
      /\ UNCHANGED <<via, held, bad, flag, parser, read, verdict, channel, heard, cmd, outcome, told, inserted, pump,
                     batch, reply, alive, eof, cut, late, unheard>>
  BY DEF ServerReads, parsing, command, host
<1>2. /\ wire' \in Seq(Frame) /\ Len(wire) \in Nat \ {0} /\ Len(wire') = Len(wire) - 1
      /\ \A i \in 1 .. Len(wire') : i + 1 \in 1 .. Len(wire) /\ wire'[i] = wire[i + 1]
      /\ frame \in Frame
      /\ Holds(wire) <=> frame = "bad" \/ Holds(wire')
      /\ frame = "open" <=> tx = "none"
      /\ frame \in {"end", "cancel"} => wire' = <<>> /\ Trailer = 1 /\ ~Pumping
      /\ frame \notin {"end", "cancel"} => Trailer' = Trailer
  BY <1>1, FramesLeave
<1>3. \/ frame = "open" /\ tx' = "beginning" /\ streaming' = TRUE /\ UNCHANGED <<stream, abort>>
      \/ frame = "cancel" /\ abort' = TRUE /\ UNCHANGED <<tx, stream, streaming>>
      \/ frame = "end" /\ streaming' = FALSE /\ UNCHANGED <<tx, stream, abort>>
      \/ frame \in Row /\ ~streaming /\ UNCHANGED <<tx, stream, streaming, abort>>
      \/ /\ frame \in Row /\ streaming /\ Len(stream) < StreamCapacity /\ stream' = Append(stream, frame)
         /\ UNCHANGED <<tx, streaming, abort>>
  BY <1>2 DEF ServerReads, Frame, Row
<1>4. via = "sidecar" /\ alive /\ cmd # "counting"
  BY <1>1 DEF CommandInv, WireInv, ThreadTyped
<1>5. frame \in Row => frame \notin {"open", "end", "cancel"}
  BY DEF Row
<1>6. stream \in Seq(Row) /\ (frame \in Row =>
          /\ Append(stream, frame) \in Seq(Row) /\ Len(Append(stream, frame)) = Len(stream) + 1
          /\ Holds(Append(stream, frame)) <=> Holds(stream) \/ frame = "bad")
  BY RowJoins DEF RowsTyped
<1>. HIDE DEF frame
<1>7. ThreadTyped' /\ CommandTyped'
  BY <1>1 DEF ThreadTyped, CommandTyped
<1>8. EngineTyped'
  <2>1. tx' = tx \/ tx' = "beginning"
    BY <1>3
  <2>. QED  BY <1>1, <2>1 DEF EngineTyped
<1>9. ProcessTyped'
  <2>1. streaming' \in BOOLEAN /\ abort' \in BOOLEAN
    BY <1>3 DEF ProcessTyped
  <2>. QED  BY <1>1, <2>1 DEF ProcessTyped
<1>10. stream' \in Seq(Row) /\ Len(stream') <= StreamCapacity
  <2>1. Len(stream) \in Nat /\ StreamCapacity \in Nat
    BY Numbers, CapacitiesAssumption
  <2>2. CASE stream' = stream
    BY <2>2 DEF RowsTyped
  <2>3. CASE frame \in Row /\ Len(stream) < StreamCapacity /\ stream' = Append(stream, frame)
    BY <1>6, <2>1, <2>3
  <2>. QED  BY <1>3, <2>2, <2>3
<1>11. RowsTyped'
  BY <1>1, <1>2, <1>10 DEF RowsTyped
<1>12. ThreadInv'
  BY <1>1, ThreadStays
<1>13. CommandInv'
  BY <1>1, <1>4 DEF CommandInv, Pumping
<1>14. \A i \in 1 .. Len(wire') :
         /\ wire'[i] # "open"
         /\ wire'[i] \in {"end", "cancel"} => i = Len(wire') /\ ~Pumping'
  <2>1. ASSUME NEW i \in 1 .. Len(wire')
        PROVE  /\ wire'[i] # "open"
               /\ wire'[i] \in {"end", "cancel"} => i = Len(wire') /\ ~Pumping'
    <3>1. i + 1 \in 1 .. Len(wire) /\ wire'[i] = wire[i + 1] /\ i + 1 # 1
      BY <1>2
    <3>2. wire[i + 1] # "open" /\ (wire[i + 1] \in {"end", "cancel"} => i + 1 = Len(wire) /\ ~Pumping)
      BY <3>1 DEF WireInv
    <3>3. Len(wire) \in Nat \ {0} /\ Len(wire') = Len(wire) - 1
      BY <1>2
    <3>4. wire'[i] \in {"end", "cancel"} => i + 1 = Len(wire) /\ ~Pumping
      BY <3>1, <3>2
    <3>5. i + 1 = Len(wire) => i = Len(wire')
      BY <3>3
    <3>. QED  BY <1>1, <3>1, <3>2, <3>4, <3>5 DEF Pumping
  <2>. QED  BY <2>1
<1>15. tx' # "none"
  BY <1>2, <1>3, <1>5
<1>16. streaming' => tx' \in {"beginning", "open"} /\ alive'
  BY <1>1, <1>3, <1>4 DEF WireInv
<1>16a. Pumping' => streaming' \/ tx' = "ended"
  <2>1. Pumping' <=> Pumping
    BY <1>1 DEF Pumping
  <2>. QED  BY <1>2, <1>3, <1>5, <2>1 DEF WireInv
<1>17. WireInv'
  BY <1>1, <1>4, <1>14, <1>15, <1>16, <1>16a DEF WireInv
<1>18. (\E i \in 1 .. Len(wire') : wire'[i] = "end") => \E i \in 1 .. Len(wire) : wire[i] = "end"
  <2>1. ASSUME NEW i \in 1 .. Len(wire'), wire'[i] = "end" PROVE \E j \in 1 .. Len(wire) : wire[j] = "end"
    <3>1. i + 1 \in 1 .. Len(wire) /\ wire[i + 1] = "end"
      BY <1>2, <2>1
    <3>. QED  BY <3>1
  <2>. QED  BY <2>1
<1>19. frame = "end" => \E i \in 1 .. Len(wire) : wire[i] = "end"
  <2>1. 1 \in 1 .. Len(wire) /\ frame = wire[1]
    BY <1>1, <1>2, FramesLeave DEF frame
  <2>. QED  BY <2>1
<1>20. RowsEnded' => RowsEnded
  <2>1. tx' \in {"committing", "committed"} => tx \in {"committing", "committed"}
    BY <1>3
  <2>2. tx' \in {"beginning", "open"} /\ ~streaming' => (tx \in {"beginning", "open"} /\ ~streaming) \/ frame = "end"
    BY <1>3
  <2>. QED  BY <1>1, <1>18, <1>19, <2>1, <2>2 DEF RowsEnded
<1>21. AnswerInv'
  <2>1. tx \in {"committed", "ended"} => tx' = tx
    BY <1>2, <1>3
  <2>2. outcome = "failed" \/ reply # "none" => tx \in {"committed", "ended"}
    BY <1>4 DEF AnswerInv
  <2>3. tx' = "committed" => tx = "committed"
    BY <1>3
  <2>. QED  BY <1>1, <1>20, <2>1, <2>2, <2>3 DEF AnswerInv
<1>21a. TimeoutInv'
  <2>1. tx' = "left" => tx = "left"
    BY <1>3
  <2>. QED  BY <1>1, <1>4, <1>20, <2>1 DEF TimeoutInv
<1>22. /\ Len(channel) \in Nat /\ Len(batch) \in Nat /\ Len(stream) \in Nat /\ Sending \in 0 .. 1
       /\ read \in Nat /\ inserted \in Nat /\ Rows \in Nat /\ Header \in 0 .. 1 /\ Trailer \in 0 .. 1
  BY Numbers
<1>22a. (tx # "none" => Header = 0) /\ inserted + OnTheWay <= read + Header + Trailer
  BY Numbers DEF CountInv
<1>23. Header' = 0 /\ Sending' = Sending
  BY <1>1, <1>15 DEF Header, Sending
<1>24. ASSUME Moving' PROVE Moving /\ Pumping /\ streaming'
  <2>1. Pumping /\ streaming'
    BY <1>1, <1>4, <1>15, <1>24 DEF Moving, Flowing, Pumping
  <2>2. streaming \/ tx = "none"
    BY <1>2, <1>3, <2>1
  <2>. QED  BY <1>1, <1>4, <2>1, <2>2 DEF Moving, Flowing
<1>25. CASE frame = "open"
  <2>1. tx = "none" /\ tx' = "beginning" /\ streaming' = TRUE /\ stream' = stream /\ Header = 1 /\ Trailer' = Trailer
    BY <1>1, <1>2, <1>3, <1>5, <1>25 DEF Header
  <2>2. OnTheWay = OnTheWay' + 1 /\ OnTheWay' \in Nat
    BY <1>1, <1>2, <1>22, <1>23, <2>1 DEF OnTheWay
  <2>3. PICK n \in Nat : n = OnTheWay'
    BY <2>2
  <2>4. inserted + n <= read + 0 + Trailer
    <3>1. inserted + OnTheWay <= read + Header + Trailer /\ OnTheWay = n + 1 /\ Header = 1
      BY <1>22a, <2>1, <2>2, <2>3
    <3>. QED  BY <1>22, <3>1
  <2>5. inserted' + OnTheWay' <= read' + Header' + Trailer'
    BY <1>1, <1>23, <2>1, <2>3, <2>4
  <2>6. Holds(wire) <=> Holds(wire')
    BY <1>2, <1>25
  <2>7. CountInv'
    <3>1. ASSUME Moving', verdict # "failed" PROVE inserted' + OnTheWay' = read' + Header'
      <4>1. inserted + OnTheWay = read + Header
        BY <1>24, <3>1 DEF CountInv
      <4>2. inserted + n = read + 0
        <5>1. inserted + (n + 1) = read + 1
          BY <2>1, <2>2, <2>3, <4>1
        <5>. QED  BY <1>22, <5>1
      <4>. QED  BY <1>1, <1>23, <2>3, <4>2
    <3>2. ASSUME Moving', verdict = "ok", bad > 0 PROVE Holds(channel') \/ Holds(batch') \/ Holds(wire') \/ Holds(stream')
      BY <1>1, <1>24, <2>1, <2>6, <3>2 DEF CountInv
    <3>. QED  BY <1>1, <2>5, <3>1, <3>2 DEF CountInv
  <2>8. EndInv'
    <3>1. ASSUME \E i \in 1 .. Len(wire') : wire'[i] = "end"
          PROVE  cut \/ (bad = 0 /\ inserted + Len(stream) + Len(wire') = Rows + 0 + 1) \/ (bad > 0 /\ (Holds(stream) \/ Holds(wire')))
      <4>1. Flowing
        BY <1>1, <1>4, <2>1 DEF Flowing
      <4>2. cut \/ (bad = 0 /\ inserted + Len(stream) + Len(wire) = Rows + Header + 1) \/ (bad > 0 /\ (Holds(stream) \/ Holds(wire)))
        BY <1>18, <3>1, <4>1 DEF EndInv
      <4>3. CASE bad = 0 /\ inserted + Len(stream) + Len(wire) = Rows + Header + 1
        <5>1. inserted + Len(stream) + Len(wire') = Rows + 0 + 1
          BY <1>2, <1>22, <2>1, <4>3
        <5>. QED  BY <4>3, <5>1
      <4>. QED  BY <2>6, <4>2, <4>3
    <3>. QED  BY <1>1, <1>23, <2>1, <3>1 DEF EndInv
  <2>. QED  BY <1>7, <1>8, <1>9, <1>11, <1>12, <1>13, <1>17, <1>21, <1>21a, <2>7, <2>8 DEF ImportInv, ImportTyped
<1>26. CASE frame \in {"cancel", "end"}
  <2>1. /\ wire' = <<>> /\ Trailer = 1 /\ ~Pumping /\ tx' = tx /\ stream' = stream /\ tx # "none"
        /\ streaming' = streaming \/ (frame = "end" /\ streaming' = FALSE)
    BY <1>2, <1>3, <1>5, <1>26
  <2>2. Len(wire') = 0 /\ Trailer' = 0 /\ \A i \in 1 .. Len(wire') : FALSE
    BY <2>1, EmptyHoldsNothing DEF Trailer
  <2>3. Len(wire) = 1 /\ Header = 0
    <3>1. Len(wire) \in Nat \ {0} /\ Len(wire') = Len(wire) - 1 /\ Header = 0
      BY <1>2, <1>22a, <2>1
    <3>. QED  BY <2>2, <3>1
  <2>4. CountInv'
    <3>1. OnTheWay = OnTheWay' + 1 /\ OnTheWay' \in Nat
      BY <1>1, <1>22, <1>23, <2>1, <2>2, <2>3 DEF OnTheWay
    <3>2. PICK n \in Nat : n = OnTheWay'
      BY <3>1
    <3>3. inserted + n <= read + 0 + 0
      <4>1. inserted + OnTheWay <= read + Header + Trailer /\ OnTheWay = n + 1 /\ Header = 0 /\ Trailer = 1
        BY <1>22a, <2>1, <2>3, <3>1, <3>2
      <4>. QED  BY <1>22, <4>1
    <3>4. inserted' + OnTheWay' <= read' + Header' + Trailer'
      BY <1>1, <1>23, <2>2, <3>2, <3>3
    <3>5. ~Moving'
      BY <1>24, <2>1
    <3>. QED  BY <3>4, <3>5 DEF CountInv
  <2>5. ASSUME tx \in {"beginning", "open"}, ~streaming'
        PROVE  cut \/ (bad = 0 /\ inserted + Len(stream) = Rows) \/ (bad > 0 /\ Holds(stream))
    <3>1. CASE ~streaming
      BY <1>4, <2>5, <3>1 DEF EndInv
    <3>2. CASE streaming
      <4>1. frame = "end" /\ Flowing
        BY <1>4, <2>1, <2>5, <3>2 DEF Flowing
      <4>2. cut \/ (bad = 0 /\ inserted + Len(stream) + Len(wire) = Rows + Header + 1) \/ (bad > 0 /\ (Holds(stream) \/ Holds(wire)))
        BY <1>19, <4>1 DEF EndInv
      <4>3. ~Holds(wire)
        BY <1>2, <2>1, <4>1, EmptyHoldsNothing
      <4>4. CASE bad = 0 /\ inserted + Len(stream) + Len(wire) = Rows + Header + 1
        <5>1. inserted + Len(stream) = Rows
          BY <1>22, <2>3, <4>4
        <5>. QED  BY <4>4, <5>1
      <4>. QED  BY <4>2, <4>3, <4>4
    <3>. QED  BY <3>1, <3>2
  <2>6. EndInv'
    BY <1>1, <2>1, <2>2, <2>5 DEF EndInv
  <2>. QED  BY <1>7, <1>8, <1>9, <1>11, <1>12, <1>13, <1>17, <1>21, <1>21a, <2>4, <2>6 DEF ImportInv, ImportTyped
<1>27. CASE frame \in Row
  <2>1. tx' = tx /\ streaming' = streaming /\ tx # "none" /\ Trailer' = Trailer /\ Header = 0
    BY <1>2, <1>3, <1>5, <1>27, <1>22a
  <2>2. CASE ~streaming
    <3>1. stream' = stream
      BY <1>3, <1>5, <1>27, <2>2
    <3>2. CountInv'
      <4>1. OnTheWay = OnTheWay' + 1 /\ OnTheWay' \in Nat
        BY <1>1, <1>2, <1>22, <1>23, <3>1 DEF OnTheWay
      <4>2. PICK n \in Nat : n = OnTheWay'
        BY <4>1
      <4>3. inserted + n <= read + 0 + Trailer
        <5>1. inserted + OnTheWay <= read + Header + Trailer /\ OnTheWay = n + 1 /\ Header = 0
          BY <1>22a, <2>1, <4>1, <4>2
        <5>. QED  BY <1>22, <5>1
      <4>4. inserted' + OnTheWay' <= read' + Header' + Trailer'
        BY <1>1, <1>23, <2>1, <4>2, <4>3
      <4>5. ~Moving'
        BY <1>24, <2>1, <2>2
      <4>. QED  BY <4>4, <4>5 DEF CountInv
    <3>3. ~Flowing'
      BY <2>1, <2>2 DEF Flowing
    <3>4. EndInv'
      BY <1>1, <2>1, <3>1, <3>3 DEF EndInv
    <3>. QED  BY <1>7, <1>8, <1>9, <1>11, <1>12, <1>13, <1>17, <1>21, <1>21a, <3>2, <3>4 DEF ImportInv, ImportTyped
  <2>3. CASE streaming
    <3>1. Len(stream') = Len(stream) + 1 /\ (Holds(stream') <=> Holds(stream) \/ frame = "bad")
      BY <1>3, <1>5, <1>6, <1>27, <2>3
    <3>2. Holds(stream) \/ Holds(wire) <=> Holds(stream') \/ Holds(wire')
      BY <1>2, <3>1
    <3>3. OnTheWay' = OnTheWay
      BY <1>1, <1>2, <1>22, <1>23, <3>1 DEF OnTheWay
    <3>4. CountInv'
      BY <1>1, <1>23, <1>24, <2>1, <3>2, <3>3 DEF CountInv
    <3>5. Len(stream') + Len(wire') = Len(stream) + Len(wire) /\ inserted' + Len(stream') + Len(wire') = inserted + Len(stream) + Len(wire)
      BY <1>1, <1>2, <1>22, <3>1
    <3>6. Flowing
      BY <1>4, <2>3 DEF Flowing
    <3>7. EndInv'
      BY <1>1, <1>18, <1>23, <2>1, <2>3, <3>2, <3>5, <3>6 DEF EndInv
    <3>. QED  BY <1>7, <1>8, <1>9, <1>11, <1>12, <1>13, <1>17, <1>21, <1>21a, <3>4, <3>7 DEF ImportInv, ImportTyped
  <2>. QED  BY <2>2, <2>3
<1>. QED  BY <1>2, <1>25, <1>26, <1>27 DEF Frame

LEMMA ImportRests ==
  ASSUME ImportInv, UNCHANGED import
  PROVE  ImportInv'
<1>. /\ ThreadTyped /\ CommandTyped /\ EngineTyped /\ ProcessTyped /\ RowsTyped
     /\ ThreadInv /\ CommandInv /\ WireInv /\ CountInv /\ EndInv /\ AnswerInv /\ TimeoutInv
  BY ImportInvIs
<1>1. UNCHANGED <<via, held, bad, flag, parser, read, verdict, channel, heard, cmd, outcome, told, tx, inserted, pump,
                  batch, wire, stream, streaming, abort, reply, alive, eof, cut, late, unheard>>
  BY DEF import, parsing, command, driver, host, process
<1>2. ThreadTyped' /\ CommandTyped' /\ EngineTyped' /\ ProcessTyped' /\ RowsTyped'
  BY <1>1 DEF ThreadTyped, CommandTyped, EngineTyped, ProcessTyped, RowsTyped
<1>3. ThreadInv' /\ WireInv' /\ EndInv'
  BY <1>1, ThreadStays, WireStays, EndStays DEF Pumping
<1>4. CommandInv'
  BY <1>1 DEF CommandInv, Pumping
<1>5. CountInv'
  BY <1>1, CountStays DEF Moving, Flowing, Pumping
<1>6. AnswerInv' /\ TimeoutInv'
  BY <1>1, AnswersStay, TimeoutStays
<1>. QED  BY <1>2, <1>3, <1>4, <1>5, <1>6 DEF ImportInv, ImportTyped

LEMMA ImportStarts ==
  ASSUME ImportInit
  PROVE  ImportInv
<1>1. /\ via \in {"direct", "sidecar"} /\ held \in {"pool", "thread", "session"} /\ (held # "pool" => via = "direct")
      /\ bad \in 0 .. Rows /\ flag = FALSE
      /\ parser = "reading" /\ read = 0 /\ verdict = "none" /\ channel = <<>> /\ heard = TRUE
      /\ cmd = "counting" /\ outcome = "none" /\ told = "nothing" /\ tx = "none" /\ inserted = 0
      /\ pump = "idle" /\ batch = <<>> /\ wire = <<>> /\ stream = <<>> /\ streaming = FALSE /\ abort = FALSE
      /\ reply = "none" /\ alive = TRUE /\ eof = FALSE /\ cut = FALSE /\ late = FALSE /\ unheard = FALSE
  BY DEF ImportInit
<1>2. Len(<<>>) = 0 /\ <<>> \in Seq(Row) /\ <<>> \in Seq(Frame) /\ \A i \in 1 .. Len(<<>>) : FALSE
  BY EmptyHoldsNothing
<1>3. Rows \in Nat \ {0} /\ Capacity \in Nat \ {0} /\ BatchRows \in Nat \ {0} /\ StreamCapacity \in Nat \ {0}
  BY CapacitiesAssumption
<1>4. 0 \in 0 .. Rows
  BY <1>3
<1>5. ThreadTyped
  BY <1>1, <1>4 DEF ThreadTyped
<1>6. CommandTyped
  BY <1>1 DEF CommandTyped
<1>7. EngineTyped
  BY <1>1 DEF EngineTyped
<1>8. ProcessTyped
  BY <1>1 DEF ProcessTyped
<1>9. RowsTyped
  BY <1>1, <1>2, <1>3 DEF RowsTyped
<1>10. bad \in Nat
  BY <1>1, <1>3
<1>11. ThreadInv
  BY <1>1, <1>3, <1>10 DEF ThreadInv
<1>12. CommandInv
  BY <1>1 DEF CommandInv, Pumping
<1>13. WireInv
  BY <1>1, <1>2 DEF WireInv, Pumping
<1>14. CountInv
  <2>1. Header = 0 /\ Trailer = 0 /\ Sending = 0 /\ OnTheWay = 0
    BY <1>1, <1>2 DEF Header, Trailer, Sending, OnTheWay
  <2>2. inserted = 0 /\ read = 0 /\ verdict = "none"
    BY <1>1
  <2>. QED  BY <2>1, <2>2 DEF CountInv
<1>15. ~RowsEnded
  BY <1>1, <1>2 DEF RowsEnded
<1>16. EndInv
  BY <1>1, <1>2 DEF EndInv
<1>17. AnswerInv /\ TimeoutInv
  BY <1>1, <1>15 DEF AnswerInv, TimeoutInv
<1>. QED  BY <1>5, <1>6, <1>7, <1>8, <1>9, <1>11, <1>12, <1>13, <1>14, <1>16, <1>17 DEF ImportInv, ImportTyped

LEMMA ImportGoesOn ==
  ASSUME ImportInv, [ImportNext]_import
  PROVE  ImportInv'
<1>1. CASE ImportNext
  <2>1. CASE Terminated
    BY <2>1, ImportRests DEF Terminated
  <2>2. CASE ~Terminated
    BY <1>1, <2>2, ParseKeeps, SendRowKeeps, CancelKeeps, StartImportKeeps, TimeoutKeeps, JoinKeeps, BeginKeeps,
       TakeRowKeeps, EndOfRowsKeeps, CommitKeeps, LookKeeps, PumpRowKeeps, PumpEndKeeps, PumpReplyKeeps,
       ServerReadsKeeps, DiesKeeps, EofKeeps DEF ImportNext, Thread
  <2>. QED  BY <2>1, <2>2
<1>2. CASE UNCHANGED import
  BY <1>2, ImportRests
<1>. QED  BY <1>1, <1>2

\* What is counted and where the rows are, in every state of the import.
LEMMA ImportInvariant == ImportSpec => []ImportInv
  BY ImportStarts, ImportGoesOn, PTL DEF ImportSpec

-----------------------------------------------------------------------------
(***************************************************************************)
(* CsvImport: the theorems                                                 *)
(***************************************************************************)
LEMMA ImportTypes ==
  ASSUME ImportInv
  PROVE  ImportTypeOK
<1>. /\ ThreadTyped /\ CommandTyped /\ EngineTyped /\ ProcessTyped /\ RowsTyped
     /\ ThreadInv /\ CommandInv /\ WireInv /\ CountInv /\ EndInv /\ AnswerInv /\ TimeoutInv
  BY ImportInvIs
<1>1. /\ Len(channel) \in Nat /\ Len(batch) \in Nat /\ Len(wire) \in Nat /\ Len(stream) \in Nat
      /\ Header \in 0 .. 1 /\ Trailer \in 0 .. 1 /\ Sending \in 0 .. 1 /\ inserted \in Nat /\ read \in Nat /\ Rows \in Nat
      /\ Header + Trailer <= Len(wire)
  BY Numbers
<1>2. inserted + OnTheWay <= read + Header + Trailer /\ read <= Rows
  BY <1>1 DEF CountInv, ThreadTyped
<1>3. inserted \in 0 .. Rows
  BY <1>1, <1>2 DEF OnTheWay
<1>4. Frame = Row \cup {"open", "end", "cancel"}
  BY DEF Frame
<1>5. ThreadTyped /\ CommandTyped /\ EngineTyped /\ ProcessTyped /\ RowsTyped
  OBVIOUS
<1>6. {streaming, abort, alive, eof, cut, late, unheard} \subseteq BOOLEAN
  BY <1>5 DEF CommandTyped, ProcessTyped
<1>7. via \in {"direct", "sidecar"} /\ held \in {"pool", "thread", "session"} /\ bad \in 0 .. Rows /\ flag \in BOOLEAN /\ heard \in BOOLEAN
  BY <1>5 DEF ThreadTyped, CommandTyped
<1>8. /\ channel \in Seq(Row) /\ Len(channel) <= Capacity
      /\ batch \in Seq(Row) /\ Len(batch) < BatchRows
      /\ wire \in Seq(Row \cup {"open", "end", "cancel"})
      /\ stream \in Seq(Row) /\ Len(stream) <= StreamCapacity
  BY <1>4, <1>5 DEF RowsTyped
<1>9. /\ parser \in {"reading", "sending", "done"} /\ read \in 0 .. Rows
      /\ verdict \in {"none", "ok", "cancelled", "failed"}
      /\ cmd \in {"counting", "importing", "joining", "verifying", "done"}
      /\ outcome \in {"none", "ok", "failed", "cancelled", "timeout"}
      /\ told \in {"nothing", "success", "rolled_back"}
      /\ tx \in {"none", "beginning", "open", "committing", "committed", "ended", "left"}
      /\ pump \in {"idle", "looking", "receiving", "waiting"}
      /\ reply \in {"none", "ok", "failed", "cancelled"}
  BY <1>5 DEF ThreadTyped, CommandTyped, EngineTyped
<1>. QED  BY <1>3, <1>6, <1>7, <1>8, <1>9 DEF ImportTypeOK

\* The channels of the import stay within their capacities, and no row is inserted
\* twice: whatever the file, the capacities and the sizes of the batches are, no more
\* rows are in the transaction than the file has.
THEOREM ImportTypeCorrect == ImportSpec => []ImportTypeOK
  BY ImportInvariant, ImportTypes, PTL

\* insert_table_row_stream_atomically commits the whole file or nothing, except for a
\* thread that gave up after the driver had looked at the flag for the last time
\* (`cut`): a full batch, a bad row, a cancel, a process that dies and a server that
\* refuses cannot make it commit a part.
THEOREM ImportStaysAtomic == ImportSpec => []ImportIsAtomic
<1>1. ImportInv => ImportIsAtomic
  BY ImportInvIs DEF EndInv, ImportIsAtomic
<1>. QED  BY <1>1, ImportInvariant, PTL

\* A success that import_csv_file_atomically tells is a committed transaction that has
\* every row of the file.
THEOREM SuccessStaysWhole == ImportSpec => []SuccessIsWhole
<1>1. ASSUME ImportInv, told = "success" PROVE tx = "committed" /\ inserted = Rows /\ bad = 0
  <2>. ThreadInv /\ CommandInv /\ EndInv /\ AnswerInv
    BY <1>1, ImportInvIs
  <2>1. verdict = "ok" /\ outcome = "ok"
    BY <1>1 DEF CommandInv
  <2>2. tx = "committed" /\ ~cut
    BY <2>1 DEF AnswerInv, ThreadInv
  <2>. QED  BY <2>2 DEF EndInv
<1>2. ImportInv => SuccessIsWhole
  BY <1>1 DEF SuccessIsWhole
<1>. QED  BY <1>2, ImportInvariant, PTL

\* "CSV import was rolled back" is told of a transaction that is not committed, except
\* for a `cut` one, for the timeout that comes when the rows have ended (`late`:
\* CSV_FILE_IMPORT_TIMEOUT cannot call back a COMMIT) and for a COMMIT whose answer was
\* lost (`unheard`); and a transaction is left open by the timeout alone, on the
\* session of a driver that has no other connection.
THEOREM RolledBackStaysNothing == ImportSpec => []RolledBackIsNothing
<1>1. ASSUME ImportInv, told = "rolled_back", tx = "committed" PROVE cut \/ late \/ unheard
  <2>. ThreadTyped /\ CommandTyped /\ ThreadInv /\ CommandInv /\ AnswerInv /\ TimeoutInv
    BY <1>1, ImportInvIs
  <2>1. RowsEnded
    BY <1>1 DEF RowsEnded
  <2>2. verdict = "ok" \/ cut
    BY <2>1 DEF AnswerInv
  <2>3. verdict # "ok" \/ outcome \in {"failed", "cancelled", "timeout"}
    BY <1>1 DEF CommandInv, CommandTyped
  <2>4. outcome # "cancelled" /\ (outcome = "timeout" => late \/ cut) /\ (outcome = "failed" => unheard)
    BY <1>1, <2>1 DEF AnswerInv, TimeoutInv
  <2>. QED  BY <2>2, <2>3, <2>4
<1>2. ASSUME ImportInv, tx = "left" PROVE held = "session" /\ outcome = "timeout"
  BY <1>2, ImportInvIs DEF TimeoutInv
<1>3. ImportInv => RolledBackIsNothing
  BY <1>1, <1>2 DEF RolledBackIsNothing
<1>. QED  BY <1>3, ImportInvariant, PTL
=============================================================================
