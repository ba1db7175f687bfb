-------------------------- MODULE QueryStore_proofs --------------------------
(***************************************************************************)
(* Proofs about QueryStore, for any databases, statements, runs and bounds:  *)
(* the slot is the newest run's, the store is never left busy, what the      *)
(* cache holds is what its key says and follows the writes acknowledged, and *)
(* it never holds more than its cap.                                         *)
(***************************************************************************)
EXTENDS QueryStore, FiniteSetTheorems, WellFoundedInduction, TLAPS

\* A run that has left idle was asked something, and has no rows before it runs.
Asked ==
  \A r \in Runs : /\ state[r] # "idle" => request[r] # None
                  /\ state[r] \in {"idle", "asking"} => rows[r] = None

\* The run that took the slot last and has not ended runs.
NewestRuns == newest # None => state[newest] = "running"

SlotInv == SlotIsNewest /\ NewestRuns /\ BusyIsOwned

\* Nothing was read or acknowledged that was not committed.
FromTheServer ==
  /\ acked <= data
  /\ \A r \in Runs : rows[r] # None => rows[r].version <= data

\* While a run can still be executed its database is the one it was asked for, or
\* the history says otherwise.
Waits(r) == state[r] = "asking" \/ (state[r] = "running" /\ (rows[r] = None \/ progressive[r]))
OnItsKey == \A r \in Runs : Waits(r) /\ ~disturbed[r] => request[r].db = currentDatabase

\* Rows on their way to the cache are as good as those in it.
RowsAreTrue ==
  \A r \in Runs : state[r] = "running" /\ rows[r] # None /\ ~disturbed[r] =>
    rows[r].db = request[r].db /\ rows[r].version >= acked

CacheInv == FromTheServer /\ OnItsKey /\ RowsAreTrue /\ EntriesAreTrue

Inv == Typed /\ Asked /\ SlotInv /\ CacheInv

-----------------------------------------------------------------------------
\* Facts about the constants.
LEMMA Constants ==
  /\ MaxWrites \in Nat /\ MaxPreviews \in Nat
  /\ None \notin Runs /\ Write \notin Statements
  /\ None \notin Request /\ None \notin Rows /\ None \notin Entry
  BY BoundsAssumption, NoneAssumption, NothingAssumption

\* A call that ends: its own state is reset, the others keep theirs.
LEMMA Ending ==
  ASSUME Typed, NEW r \in Runs, NEW after \in {"idle", "abandoned"}, Ends(r, after)
  PROVE  /\ state' \in [Runs -> {"idle", "asking", "running", "abandoned"}]
         /\ rows' \in [Runs -> Rows \cup {None}]
         /\ progressive' \in [Runs -> BOOLEAN]
         /\ request' \in [Runs -> Request \cup {None}]
         /\ newest' \in Runs \cup {None}
         /\ state'[r] = after /\ rows'[r] = None
         /\ after # "idle" => request' = request
         /\ \A x \in Runs \ {r} : /\ state'[x] = state[x] /\ rows'[x] = rows[x]
                                  /\ progressive'[x] = progressive[x]
                                  /\ request'[x] = request[x]
         /\ newest' = IF newest = r THEN None ELSE newest
  BY DEF Ends, Typed

-----------------------------------------------------------------------------
(***************************************************************************)
(* The cache                                                               *)
(***************************************************************************)
\* The cache and the order of its keys.
CacheTyped ==
  /\ cache \in [Key -> Entry \cup {None}]
  /\ before \in SUBSET (Live \X Live)

LEMMA LiveKeys == Live \subseteq Key
  BY DEF Live

LEMMA Serving ==
  ASSUME CacheTyped, NEW k \in Key, Serve(k)
  PROVE  CacheTyped' /\ cache' = cache
  <1>1. k \in Live /\ Live' = Live
    BY DEF Serve, Live
  <1>2. before' \in SUBSET (Live \X Live)
    BY <1>1 DEF Serve, Moved, Deleted, CacheTyped
  <1> QED
    BY <1>1, <1>2 DEF CacheTyped, Serve

LEMMA Missing ==
  ASSUME CacheTyped, NEW k \in Key, Missed(k)
  PROVE  /\ CacheTyped'
         /\ \A x \in Key : cache'[x] \in {cache[x], None}
  <1>1. /\ cache' \in [Key -> Entry \cup {None}]
        /\ \A x \in Key : cache'[x] = IF x = k THEN None ELSE cache[x]
    BY DEF Missed, CacheTyped
  <1>2. Live' = Live \ {k}
    BY <1>1 DEF Live
  <1>3. before' \in SUBSET (Live' \X Live')
    BY <1>2 DEF Missed, Deleted, CacheTyped
  <1> QED
    BY <1>1, <1>3 DEF CacheTyped

LEMMA Storing ==
  ASSUME CacheTyped, Typed, Asked, NEW r \in Runs,
         state[r] = "running", rows[r] # None, Reads(r), Store(r)
  PROVE  /\ CacheTyped' /\ KeyOf(r) \in Key
         /\ \A x \in Key : \/ cache'[x] \in {cache[x], None}
                           \/ x = KeyOf(r) /\ cache'[x] = [rows |-> rows[r], disturbed |-> disturbed[r]]
  <1> DEFINE k == KeyOf(r)
             out == Evicted(k)
             entry == [rows |-> rows[r], disturbed |-> disturbed[r]]
  <1>1. k \in Key
    BY DEF Key, KeyOf, Reads, Asked, Typed, Request
  <1>2. rows[r] \in Rows /\ disturbed[r] \in BOOLEAN
    BY DEF Typed
  <1>3. entry \in Entry /\ entry # None
    BY <1>2, Constants DEF Entry
  <1>4. out \subseteq Live \ {k}
    BY DEF Evicted
  <1>5. /\ cache' = [x \in Key |-> IF x = k THEN entry ELSE IF x \in out THEN None ELSE cache[x]]
        /\ before' = Deleted(Moved(before, k), out)
    BY DEF Store
  <1> HIDE DEF k, out, entry
  <1>6. /\ cache' \in [Key -> Entry \cup {None}]
        /\ \A x \in Key : cache'[x] = IF x = k THEN entry ELSE IF x \in out THEN None ELSE cache[x]
    BY <1>3, <1>5 DEF CacheTyped
  <1>7. Live' = (Live \ out) \cup {k}
    BY <1>1, <1>3, <1>4, <1>6 DEF Live
  <1>8. before' \in SUBSET (Live' \X Live')
    BY <1>5, <1>7 DEF Deleted, Moved, CacheTyped
  <1> QED
    BY <1>1, <1>6, <1>8 DEF CacheTyped, k, entry

LEMMA Invalidating ==
  ASSUME Invalidate
  PROVE  CacheTyped' /\ \A x \in Key : cache'[x] = None
  <1>1. cache' = [x \in Key |-> None] /\ before' = {}
    BY DEF Invalidate
  <1>2. Live' = {}
    BY <1>1 DEF Live
  <1> QED
    BY <1>1, <1>2 DEF CacheTyped

\* What a step may do to the cache: entries go, or the rows of a run come in.
LEMMA CacheSteps ==
  ASSUME Typed, Asked, [Next]_vars
  PROVE  /\ CacheTyped'
         /\ \A x \in Key : \/ cache'[x] \in {cache[x], None}
                           \/ \E r \in Runs :
                                /\ state[r] = "running" /\ rows[r] # None /\ Reads(r)
                                /\ Answer(r) /\ x = KeyOf(r)
                                /\ cache'[x] = [rows |-> rows[r], disturbed |-> disturbed[r]]
  <1>1. CacheTyped
    BY DEF CacheTyped, Typed
  <1>2. ASSUME UNCHANGED store PROVE CacheTyped' /\ cache' = cache
    BY <1>1, <1>2 DEF CacheTyped, store, Live
  <1>3. ASSUME NEW s \in Statements, Hit(s) PROVE CacheTyped' /\ cache' = cache
    <2>1. <<currentDatabase, s>> \in Key
      BY DEF Key, Typed
    <2> QED
      BY <1>1, <1>3, <2>1, Serving DEF Hit
  <1>4. ASSUME NEW r \in Runs, NEW q \in Request, Ask(r, q)
        PROVE  CacheTyped' /\ \A x \in Key : cache'[x] \in {cache[x], None}
    <2>1. CASE q.kind \in Cached /\ q.stmt # Write
      <3>1. <<q.db, q.stmt>> \in Key /\ Missed(<<q.db, q.stmt>>)
        BY <1>4, <2>1 DEF Key, Request, Ask
      <3> QED
        BY <1>1, <3>1, Missing
    <2>2. CASE ~(q.kind \in Cached /\ q.stmt # Write)
      BY <1>2, <1>4, <2>2 DEF Ask
    <2> QED
      BY <2>1, <2>2
  <1>5. ASSUME NEW r \in Runs, Answer(r)
        PROVE  /\ CacheTyped'
               /\ \A x \in Key : \/ cache'[x] \in {cache[x], None}
                                 \/ /\ state[r] = "running" /\ rows[r] # None /\ Reads(r)
                                    /\ x = KeyOf(r)
                                    /\ cache'[x] = [rows |-> rows[r], disturbed |-> disturbed[r]]
    <2>1. state[r] = "running" /\ rows[r] # None
      BY <1>5 DEF Answer
    <2>2. CASE DropsCache(r)
      BY <1>5, <2>2, Invalidating DEF Answer
    <2>3. CASE ~DropsCache(r) /\ Store(r)
      BY <1>1, <2>1, <2>3, Storing DEF DropsCache
    <2>4. CASE UNCHANGED store
      BY <1>2, <2>4
    <2> QED
      BY <1>5, <2>2, <2>3, <2>4 DEF Answer
  <1>6. ASSUME NEW r \in Runs,
               Refuse(r) \/ Allow(r) \/ Execute(r) \/ ExecuteLate(r) \/ Batch(r) \/ Fallback(r) \/ Failed(r)
        PROVE  UNCHANGED store
    BY <1>6 DEF Refuse, Allow, Execute, ExecuteLate, Batch, Fallback, Failed
  <1>7. ASSUME BeginPreview \/ EndPreview \/ (\E d \in Databases : Switch(d)) \/ UNCHANGED vars
        PROVE  UNCHANGED store
    BY <1>7 DEF BeginPreview, EndPreview, Switch, vars
  <1> QED
    BY <1>2, <1>3, <1>4, <1>5, <1>6, <1>7 DEF Next

-----------------------------------------------------------------------------
(***************************************************************************)
(* Types                                                                   *)
(***************************************************************************)
Others ==
  /\ currentDatabase \in Databases
  /\ data \in 0 .. MaxWrites
  /\ request \in [Runs -> Request \cup {None}]
  /\ state \in [Runs -> {"idle", "asking", "running", "abandoned"}]
  /\ progressive \in [Runs -> BOOLEAN]
  /\ rows \in [Runs -> Rows \cup {None}]
  /\ isExecutingQuery \in BOOLEAN
  /\ activeQueryRequestId \in Runs \cup {None}
  /\ progress \in Runs \cup {None}
  /\ previews \in 0 .. MaxPreviews
  /\ newest \in Runs \cup {None}
  /\ acked \in 0 .. MaxWrites
  /\ disturbed \in [Runs -> BOOLEAN]

LEMMA TypedIsBoth == Typed <=> Others /\ CacheTyped
  BY DEF Typed, Others, CacheTyped

\* The end of a run that had the slot.
LEMMA Releasing ==
  ASSUME Typed, NEW r \in Runs, Release(r)
  PROVE  isExecutingQuery' \in BOOLEAN /\ activeQueryRequestId' \in Runs \cup {None}
  BY DEF Release, Typed

LEMMA OthersStep ==
  ASSUME Typed, Asked, [Next]_vars
  PROVE  Others'
  <1> USE DEF Others
  <1>0. Others
    BY TypedIsBoth
  <1>1. ASSUME NEW s \in Statements, Hit(s) PROVE Others'
    BY <1>0, <1>1 DEF Hit, server, slot, busy
  <1>2. ASSUME NEW r \in Runs, NEW q \in Request, Ask(r, q) PROVE Others'
    BY <1>0, <1>2 DEF Ask, server, slot, busy
  <1>3. ASSUME NEW r \in Runs, Refuse(r) PROVE Others'
    BY <1>0, <1>3, Ending DEF Refuse, server, busy
  <1>4. ASSUME NEW r \in Runs, Allow(r) PROVE Others'
    BY <1>0, <1>4 DEF Allow, server
  <1>5. ASSUME NEW r \in Runs, Execute(r) PROVE Others'
    <2>1. data' \in 0 .. MaxWrites
      BY <1>0, <1>5, Constants DEF Execute, Commit
    <2>2. [db |-> currentDatabase, version |-> data'] \in Rows
      BY <1>0, <2>1 DEF Rows
    <2> QED
      BY <1>0, <1>5, <2>1, <2>2 DEF Execute, slot, busy
  <1>6. ASSUME NEW r \in Runs, ExecuteLate(r) PROVE Others'
    <2>1. data' \in 0 .. MaxWrites
      BY <1>0, <1>6, Constants DEF ExecuteLate, Commit
    <2> QED
      BY <1>0, <1>6, <2>1, Ending DEF ExecuteLate, busy
  <1>7. ASSUME NEW r \in Runs, Batch(r) PROVE Others'
    BY <1>0, <1>7 DEF Batch, server
  <1>8. ASSUME NEW r \in Runs, Fallback(r) PROVE Others'
    BY <1>0, <1>8 DEF Fallback, server, slot, busy
  <1>9. ASSUME NEW r \in Runs, Answer(r) PROVE Others'
    <2>1. isExecutingQuery' \in BOOLEAN /\ activeQueryRequestId' \in Runs \cup {None}
      BY <1>9, Releasing DEF Answer
    <2>2. acked' \in 0 .. MaxWrites
      BY <1>0, <1>9, Constants DEF Answer, Rows
    <2>3. disturbed' \in [Runs -> BOOLEAN] /\ progress' \in Runs \cup {None}
      BY <1>0, <1>9 DEF Answer
    <2> QED
      BY <1>0, <1>9, <2>1, <2>2, <2>3, Ending DEF Answer, server
  <1>10. ASSUME NEW r \in Runs, Failed(r) PROVE Others'
    <2>1. isExecutingQuery' \in BOOLEAN /\ activeQueryRequestId' \in Runs \cup {None}
      BY <1>10, Releasing DEF Failed, ReleaseFailed
    <2>2. disturbed' \in [Runs -> BOOLEAN] /\ progress' \in Runs \cup {None}
      BY <1>0, <1>10 DEF Failed
    <2> QED
      BY <1>0, <1>10, <2>1, <2>2, Ending DEF Failed, server
  <1>11. ASSUME BeginPreview \/ EndPreview PROVE Others'
    <2>1. previews' \in 0 .. MaxPreviews
      BY <1>0, <1>11, Constants DEF BeginPreview, EndPreview
    <2> QED
      BY <1>0, <1>11, <2>1 DEF BeginPreview, EndPreview, server
  <1>12. ASSUME NEW d \in Databases, Switch(d) PROVE Others'
    BY <1>0, <1>12 DEF Switch, slot, busy
  <1>13. ASSUME UNCHANGED vars PROVE Others'
    BY <1>0, <1>13 DEF vars, server, slot, busy
  <1> QED
    BY <1>1, <1>2, <1>3, <1>4, <1>5, <1>6, <1>7, <1>8, <1>9, <1>10, <1>11, <1>12, <1>13 DEF Next

LEMMA AskedStep ==
  ASSUME Typed, Asked, [Next]_vars
  PROVE  Asked'
  <1> USE DEF Asked
  <1>1. ASSUME NEW r \in Runs, NEW q \in Request, Ask(r, q) PROVE Asked'
    BY <1>1, Constants DEF Ask, Typed
  <1>2. ASSUME NEW r \in Runs, Refuse(r) \/ ExecuteLate(r) \/ Answer(r) PROVE Asked'
    <2>1. Ends(r, "idle")
      BY <1>2 DEF Refuse, ExecuteLate, Answer
    <2> QED
      BY <2>1, Ending
  <1>3. ASSUME NEW r \in Runs, Failed(r) PROVE Asked'
    <2>1. PICK after \in {"idle", "abandoned"} : Ends(r, after)
      BY <1>3 DEF Failed
    <2>2. request[r] # None
      BY <1>3 DEF Failed
    <2> QED
      BY <2>1, <2>2, Ending
  <1>4. ASSUME NEW r \in Runs, Allow(r) \/ Execute(r) \/ Batch(r) \/ Fallback(r) PROVE Asked'
    BY <1>4 DEF Allow, Execute, Batch, Fallback, Typed
  <1>5. ASSUME \/ \E s \in Statements : Hit(s)
               \/ BeginPreview \/ EndPreview
               \/ \E d \in Databases : Switch(d)
               \/ UNCHANGED vars
        PROVE  Asked'
    BY <1>5 DEF Hit, BeginPreview, EndPreview, Switch, vars
  <1> QED
    BY <1>1, <1>2, <1>3, <1>4, <1>5 DEF Next

-----------------------------------------------------------------------------
(***************************************************************************)
(* The slot                                                                *)
(***************************************************************************)
LEMMA SlotStep ==
  ASSUME Typed, Asked, SlotInv, [Next]_vars
  PROVE  SlotInv'
  <1> USE Constants DEF SlotInv, SlotIsNewest, NewestRuns, BusyIsOwned
  <1>1. ASSUME NEW r \in Runs, NEW q \in Request, Ask(r, q) PROVE SlotInv'
    BY <1>1 DEF Ask, Typed, slot, busy
  <1>2. ASSUME NEW r \in Runs, Refuse(r) PROVE SlotInv'
    <2>1. newest # r
      BY <1>2 DEF Refuse
    <2> QED
      BY <1>2, <2>1, Ending DEF Refuse, busy, Typed
  <1>3. ASSUME NEW r \in Runs, Allow(r) PROVE SlotInv'
    BY <1>3 DEF Allow, Typed
  <1>4. ASSUME NEW r \in Runs, ExecuteLate(r) PROVE SlotInv'
    <2>1. newest # r
      BY <1>4 DEF ExecuteLate
    <2> QED
      BY <1>4, <2>1, Ending DEF ExecuteLate, busy, Typed
  <1>5. ASSUME NEW r \in Runs, Answer(r) \/ Failed(r) PROVE SlotInv'
    <2>1. PICK after \in {"idle", "abandoned"} : Ends(r, after)
      BY <1>5 DEF Answer, Failed
    <2>2. /\ Release(r)
          /\ previews' = previews
      BY <1>5 DEF Answer, Failed, ReleaseFailed
    <2>3. CASE newest = r
      BY <2>1, <2>2, <2>3, Ending DEF Release
    <2>4. CASE newest # r
      BY <2>1, <2>2, <2>4, Ending DEF Release, Typed
    <2> QED
      BY <2>3, <2>4
  <1>6. ASSUME NEW r \in Runs, Execute(r) \/ Batch(r) \/ Fallback(r) PROVE SlotInv'
    BY <1>6 DEF Execute, Batch, Fallback, slot, busy
  <1>7. ASSUME BeginPreview PROVE SlotInv'
    BY <1>7 DEF BeginPreview, Typed
  <1>8. ASSUME EndPreview PROVE SlotInv'
    BY <1>8 DEF EndPreview
  <1>9. ASSUME \/ \E s \in Statements : Hit(s)
               \/ \E d \in Databases : Switch(d)
               \/ UNCHANGED vars
        PROVE  SlotInv'
    <2>1. UNCHANGED <<slot, previews>> /\ UNCHANGED state
      BY <1>9 DEF Hit, Switch, vars, slot, busy
    <2> QED
      BY <2>1 DEF slot, busy
  <1> QED
    BY <1>1, <1>2, <1>3, <1>4, <1>5, <1>6, <1>7, <1>8, <1>9 DEF Next

-----------------------------------------------------------------------------
(***************************************************************************)
(* The rows                                                                *)
(***************************************************************************)
LEMMA RowsStep ==
  ASSUME Typed, Asked, CacheInv, [Next]_vars
  PROVE  (FromTheServer /\ OnItsKey /\ RowsAreTrue)'
  <1> USE DEF CacheInv, FromTheServer, OnItsKey, RowsAreTrue
  <1> DEFINE Goal == FromTheServer /\ OnItsKey /\ RowsAreTrue
  <1>1. ASSUME NEW s \in Statements, Hit(s) PROVE Goal'
    BY <1>1 DEF Hit, server, Waits
  <1>2. ASSUME NEW r \in Runs, NEW q \in Request, Ask(r, q) PROVE Goal'
    <2>1. rows[r] = None
      BY <1>2 DEF Ask, Asked
    <2> QED
      BY <1>2, <2>1 DEF Ask, Typed, server, Waits
  <1>3. ASSUME NEW r \in Runs, Refuse(r) PROVE Goal'
    <2>1. \A x \in Runs \ {r} : disturbed'[x] = disturbed[x]
      BY <1>3 DEF Refuse, Typed
    <2> QED
      BY <1>3, <2>1, Ending DEF Refuse, server, Waits
  <1>4. ASSUME NEW r \in Runs, Allow(r) PROVE Goal'
    <2>1. Waits(r) /\ rows[r] = None
      BY <1>4 DEF Allow, Waits, Asked
    <2>2. \A x \in Runs \ {r} : state'[x] = state[x] /\ progressive'[x] = progressive[x]
      BY <1>4 DEF Allow, Typed
    <2> QED
      BY <1>4, <2>1, <2>2 DEF Allow, server, Waits
  <1>5. ASSUME NEW r \in Runs, Execute(r) PROVE Goal'
    <2>1. Waits(r) /\ currentDatabase' = currentDatabase
      BY <1>5 DEF Execute, Waits
    <2>2. /\ data' \in Nat /\ data \in Nat /\ data <= data' /\ acked \in Nat
          /\ \A x \in Runs : rows[x] # None => rows[x].version \in Nat
      BY <1>5, Constants DEF Execute, Commit, Typed, Rows
    <2>3. /\ rows'[r] = [db |-> currentDatabase, version |-> data']
          /\ \A x \in Runs \ {r} : rows'[x] = rows[x]
      BY <1>5 DEF Execute, Typed
    <2>4. UNCHANGED <<request, state, progressive, acked, disturbed>>
      BY <1>5 DEF Execute
    <2>5. FromTheServer'
      BY <2>2, <2>3, <2>4
    <2>6. OnItsKey'
      BY <2>1, <2>3, <2>4 DEF Waits
    <2>7. RowsAreTrue'
      BY <2>1, <2>2, <2>3, <2>4
    <2> QED
      BY <2>5, <2>6, <2>7
  <1>6. ASSUME NEW r \in Runs, ExecuteLate(r) PROVE Goal'
    <2>1. /\ data' \in Nat /\ data \in Nat /\ data <= data' /\ acked \in Nat
          /\ \A x \in Runs : rows[x] # None => rows[x].version \in Nat
      BY <1>6, Constants DEF ExecuteLate, Commit, Typed, Rows
    <2>2. Ends(r, "idle") /\ UNCHANGED <<currentDatabase, acked, disturbed>>
      BY <1>6 DEF ExecuteLate
    <2>3. FromTheServer'
      BY <2>1, <2>2, Ending
    <2>4. OnItsKey' /\ RowsAreTrue'
      BY <2>2, Ending DEF Waits
    <2> QED
      BY <2>3, <2>4
  <1>7. ASSUME NEW r \in Runs, Batch(r) PROVE Goal'
    BY <1>7 DEF Batch, server, Waits
  <1>8. ASSUME NEW r \in Runs, Fallback(r) PROVE Goal'
    <2>1. Waits(r)
      BY <1>8 DEF Fallback, Waits
    <2>2. /\ rows'[r] = None
          /\ \A x \in Runs \ {r} : rows'[x] = rows[x] /\ progressive'[x] = progressive[x]
      BY <1>8 DEF Fallback, Typed
    <2> QED
      BY <1>8, <2>1, <2>2 DEF Fallback, server, Waits
  <1>9. ASSUME NEW r \in Runs, Answer(r) PROVE Goal'
    <2>1. Ends(r, "idle") /\ UNCHANGED server
      BY <1>9 DEF Answer
    <2>2. /\ acked \in Nat /\ data \in Nat
          /\ \A x \in Runs : rows[x] # None => rows[x].version \in Nat
      BY Constants DEF Typed, Rows
    <2>3. acked' = IF ~Reads(r) /\ rows[r].version > acked THEN rows[r].version ELSE acked
      BY <1>9 DEF Answer
    <2>4. \A x \in Runs \ {r} :
            disturbed'[x] = (disturbed[x] \/ (~Reads(r) /\ state[x] = "running" /\ rows[x] # None))
      BY <1>9 DEF Answer
    <2>5. rows[r] # None
      BY <1>9 DEF Answer
    <2>6. FromTheServer'
      BY <2>1, <2>2, <2>3, <2>5, Ending DEF server
    <2>7. OnItsKey'
      BY <2>1, <2>4, Ending DEF server, Waits, Typed
    <2>8. RowsAreTrue'
      BY <2>1, <2>3, <2>4, Ending DEF Typed
    <2> QED
      BY <2>6, <2>7, <2>8
  <1>10. ASSUME NEW r \in Runs, Failed(r) PROVE Goal'
    <2>1. PICK after \in {"idle", "abandoned"} : Ends(r, after)
      BY <1>10 DEF Failed
    <2>2. \A x \in Runs \ {r} : disturbed'[x] = disturbed[x]
      BY <1>10 DEF Failed, Typed
    <2>3. UNCHANGED <<server, acked>>
      BY <1>10 DEF Failed
    <2> QED
      BY <2>1, <2>2, <2>3, Ending DEF server, Waits
  <1>11. ASSUME BeginPreview \/ EndPreview PROVE Goal'
    BY <1>11 DEF BeginPreview, EndPreview, server, Waits
  <1>12. ASSUME NEW d \in Databases, Switch(d) PROVE Goal'
    <2>1. \A x \in Runs :
            disturbed'[x] = (disturbed[x] \/ (state[x] \in {"asking", "running"} /\ (rows[x] = None \/ progressive[x])))
      BY <1>12 DEF Switch
    <2>2. UNCHANGED <<data, request, state, progressive, rows, acked>>
      BY <1>12 DEF Switch
    <2>3. \A x \in Runs : Waits(x)' => disturbed'[x]
      BY <2>1, <2>2 DEF Waits, Asked
    <2> QED
      BY <2>1, <2>2, <2>3 DEF Typed
  <1>13. ASSUME UNCHANGED vars PROVE Goal'
    BY <1>13 DEF vars, server, Waits
  <1> QED
    BY <1>1, <1>2, <1>3, <1>4, <1>5, <1>6, <1>7, <1>8, <1>9, <1>10, <1>11, <1>12, <1>13 DEF Next

\* An acknowledged write empties the cache.
LEMMA AckedEmpties ==
  ASSUME [Next]_vars, acked' # acked
  PROVE  \A x \in Key : cache'[x] = None
  <1>1. PICK r \in Runs : Answer(r)
    BY DEF Next, Hit, Ask, Refuse, Allow, Execute, ExecuteLate, Batch, Fallback, Failed,
           BeginPreview, EndPreview, Switch, vars
  <1>2. ~Reads(r)
    BY <1>1 DEF Answer
  <1>3. Invalidate
    BY <1>1, <1>2 DEF Answer, DropsCache
  <1> QED
    BY <1>3, Invalidating

LEMMA EntriesStep ==
  ASSUME Typed, Asked, CacheInv, [Next]_vars
  PROVE  EntriesAreTrue'
  <1>1. CASE acked' # acked
    BY <1>1, AckedEmpties DEF EntriesAreTrue
  <1>2. CASE acked' = acked
    <2> SUFFICES ASSUME NEW k \in Key, cache'[k] # None, ~cache'[k].disturbed
                 PROVE  cache'[k].rows.db = k[1] /\ cache'[k].rows.version >= acked'
      BY DEF EntriesAreTrue
    <2>1. CASE cache'[k] \in {cache[k], None}
      BY <1>2, <2>1 DEF CacheInv, EntriesAreTrue
    <2>2. CASE \E r \in Runs : /\ state[r] = "running" /\ rows[r] # None /\ k = KeyOf(r)
                               /\ cache'[k] = [rows |-> rows[r], disturbed |-> disturbed[r]]
      <3>1. PICK r \in Runs : /\ state[r] = "running" /\ rows[r] # None /\ k = KeyOf(r)
                              /\ cache'[k] = [rows |-> rows[r], disturbed |-> disturbed[r]]
        BY <2>2
      <3>2. k[1] = request[r].db
        BY <3>1 DEF KeyOf
      <3>3. rows[r].db = request[r].db /\ rows[r].version >= acked
        BY <3>1 DEF CacheInv, RowsAreTrue
      <3> QED
        BY <1>2, <3>1, <3>2, <3>3
    <2> QED
      BY <2>1, <2>2, CacheSteps
  <1> QED
    BY <1>1, <1>2

-----------------------------------------------------------------------------
(***************************************************************************)
(* The cap of the cache                                                    *)
(***************************************************************************)
\* The keys of the Map are ordered, and there are at most as many as the cap says.
Ordered ==
  /\ \A x \in Live : <<x, x>> \notin before
  /\ \A x, y, z \in Live : <<x, y>> \in before /\ <<y, z>> \in before => <<x, z>> \in before

Capped == Ordered /\ IsFiniteSet(Live) /\ Cardinality(Live) <= MaxEntries

\* Finite sets that are ordered have a first element.
LEMMA FirstElement ==
  ASSUME NEW S, IsFiniteSet(S), S # {}, NEW order,
         \A x \in S : <<x, x>> \notin order,
         \A x, y, z \in S : <<x, y>> \in order /\ <<y, z>> \in order => <<x, z>> \in order
  PROVE  \E x \in S : \A y \in S : <<y, x>> \notin order
  <1> DEFINE Below(x) == {y \in S : <<y, x>> \in order}
             T == {Below(x) : x \in S}
             R == StrictSubsetOrdering(S)
  <1>1. IsWellFoundedOn(R, SUBSET S)
    BY FS_StrictSubsetOrderingWellFounded, FS_FiniteSubsetsOfFinite
  <1>2. T \subseteq SUBSET S /\ T # {}
    <2>1. PICK x \in S : TRUE
      OBVIOUS
    <2>2. Below(x) \in T
      OBVIOUS
    <2>3. \A y \in S : Below(y) \subseteq S
      OBVIOUS
    <2>4. T \subseteq SUBSET S
      <3> HIDE DEF Below
      <3> QED
        BY <2>3
    <2> QED
      BY <2>2, <2>4
  <1>3. PICK b \in T : \A c \in T : <<c, b>> \notin R
    <2> HIDE DEF T, R
    <2> QED
      BY <1>1, <1>2, WFMin
  <1>4. PICK x \in S : b = Below(x)
    BY <1>3
  <1>5. ASSUME NEW y \in S, <<y, x>> \in order
        PROVE  FALSE
    <2>1. Below(y) \subseteq Below(x) /\ y \in Below(x) /\ y \notin Below(y)
      BY <1>5
    <2>2. <<Below(y), Below(x)>> \in R
      BY <2>1 DEF StrictSubsetOrdering
    <2> QED
      BY <1>3, <1>4, <2>2
  <1> QED
    BY <1>5

\* Fewer keys, in the same order.
LEMMA StaysCapped ==
  ASSUME Capped, Live' \subseteq Live, before' \subseteq before,
         \A x, y \in Live' : <<x, y>> \in before => <<x, y>> \in before'
  PROVE  Capped'
  <1>1. Ordered'
    BY DEF Capped, Ordered
  <1>2. IsFiniteSet(Live') /\ IsFiniteSet(Live) /\ Cardinality(Live') <= Cardinality(Live)
    BY FS_Subset DEF Capped
  <1>3. Cardinality(Live') \in Nat /\ Cardinality(Live) \in Nat /\ MaxEntries \in Nat
    BY <1>2, FS_CardinalityType, BoundsAssumption
  <1> QED
    BY <1>1, <1>2, <1>3 DEF Capped

\* The last key of the Map is moved to its end, or a new one is put there.
LEMMA MovedOrdered ==
  ASSUME CacheTyped, Ordered, NEW k \in Key
  PROVE  /\ \A x \in Live \cup {k} : <<x, x>> \notin Moved(before, k)
         /\ \A x, y, z \in Live \cup {k} :
              <<x, y>> \in Moved(before, k) /\ <<y, z>> \in Moved(before, k)
                => <<x, z>> \in Moved(before, k)
  <1>1. \A x, y : <<x, y>> \in Moved(before, k) <=>
          \/ <<x, y>> \in before /\ x # k /\ y # k
          \/ x \in Live /\ x # k /\ y = k
    BY DEF Moved, Deleted
  <1>2. \A x, y : <<x, y>> \in before => x \in Live /\ y \in Live
    BY DEF CacheTyped
  <1> QED
    BY <1>1, <1>2 DEF Ordered

\* A key is moved to the end: the Map holds what it held.
LEMMA ServingCapped ==
  ASSUME CacheTyped, Capped, NEW k \in Key, Serve(k)
  PROVE  Capped'
  <1>1. k \in Live /\ Live' = Live /\ before' = Moved(before, k)
    BY DEF Serve, Live
  <1>2. Ordered'
    BY <1>1, MovedOrdered DEF Capped, Ordered
  <1> QED
    BY <1>1, <1>2 DEF Capped

LEMMA MissingCapped ==
  ASSUME CacheTyped, Capped, NEW k \in Key, Missed(k)
  PROVE  Capped'
  <1>1. \A x \in Key : cache'[x] = IF x = k THEN None ELSE cache[x]
    BY DEF Missed, CacheTyped
  <1>2. Live' = Live \ {k}
    BY <1>1 DEF Live
  <1>3. before' = Deleted(before, {k})
    BY DEF Missed
  <1> QED
    BY <1>2, <1>3, StaysCapped DEF Deleted

\* A key is put at the end: when that is one too many, the Map has a first key
\* before it, and that leaves.
LEMMA StoringCapped ==
  ASSUME CacheTyped, Capped, Typed, Asked, NEW r \in Runs,
         state[r] = "running", rows[r] # None, Reads(r), Store(r)
  PROVE  Capped'
  <1> DEFINE k == KeyOf(r)
             out == Evicted(k)
             entry == [rows |-> rows[r], disturbed |-> disturbed[r]]
  <1>1. k \in Key
    BY Storing
  <1>2. entry \in Entry /\ entry # None
    BY Constants DEF Typed, Entry
  <1>3. out \in SUBSET (Live \ {k})
    BY DEF Evicted
  <1>4. /\ \A x \in Key : cache'[x] = IF x = k THEN entry ELSE IF x \in out THEN None ELSE cache[x]
        /\ before' = Deleted(Moved(before, k), out)
    BY DEF Store
  <1>5. out = IF Cardinality(Live \cup {k}) <= MaxEntries THEN {}
              ELSE {o \in Live \ {k} : \A p \in before : p[2] = o => p[1] = k}
    BY DEF Evicted
  <1> HIDE DEF k, out, entry
  <1>6. Live' = (Live \ out) \cup {k}
    BY <1>1, <1>2, <1>3, <1>4 DEF Live
  <1>7. Ordered'
    <2>1. \A x, y \in Live' : <<x, y>> \in before' <=> <<x, y>> \in Moved(before, k)
      BY <1>4, <1>6, <1>3 DEF Deleted
    <2> QED
      BY <1>1, <1>6, <2>1, MovedOrdered DEF Capped, Ordered
  <1>8. /\ IsFiniteSet(Live) /\ IsFiniteSet(Live \cup {k}) /\ IsFiniteSet(Live')
        /\ Cardinality(Live) \in Nat /\ Cardinality(Live) <= MaxEntries
        /\ Cardinality(Live \cup {k}) =
             IF k \in Live THEN Cardinality(Live) ELSE Cardinality(Live) + 1
        /\ MaxEntries \in Nat /\ MaxEntries > 0
    <2>1. IsFiniteSet(Live \cup {k}) /\ Live' \in SUBSET (Live \cup {k})
      BY <1>6, FS_AddElement DEF Capped
    <2> QED
      BY <2>1, FS_AddElement, FS_Subset, FS_CardinalityType, BoundsAssumption DEF Capped
  <1>9. Cardinality(Live') <= MaxEntries
    <2>1. CASE Cardinality(Live \cup {k}) <= MaxEntries
      BY <1>5, <1>6, <2>1
    <2>2. CASE ~(Cardinality(Live \cup {k}) <= MaxEntries)
      <3>1. k \notin Live /\ Cardinality(Live) = MaxEntries
        BY <1>8, <2>2
      <3>2. Live # {}
        BY <1>8, <3>1, FS_EmptySet
      <3>3. PICK o \in Live : \A y \in Live : <<y, o>> \notin before
        BY <1>8, <3>2, FirstElement DEF Capped, Ordered
      <3>4. o \in out
        <4>1. \A p \in before : p[1] \in Live /\ p = <<p[1], p[2]>>
          BY DEF CacheTyped
        <4> QED
          BY <1>5, <2>2, <3>1, <3>3, <4>1
      <3>5. Live \ out \in SUBSET (Live \ {o})
        BY <3>4
      <3>6. /\ IsFiniteSet(Live \ {o})
            /\ Cardinality(Live \ {o}) = MaxEntries - 1
        BY <1>8, <3>1, <3>3, FS_RemoveElement
      <3>7. /\ IsFiniteSet(Live \ out) /\ Cardinality(Live \ out) \in Nat
            /\ Cardinality(Live \ out) <= MaxEntries - 1
        BY <3>5, <3>6, FS_Subset, FS_CardinalityType
      <3>8. Cardinality(Live') \in {Cardinality(Live \ out), Cardinality(Live \ out) + 1}
        BY <1>6, <3>7, FS_AddElement
      <3> QED
        BY <1>8, <3>7, <3>8
    <2> QED
      BY <2>1, <2>2
  <1> QED
    BY <1>7, <1>8, <1>9 DEF Capped

LEMMA CappedStep ==
  ASSUME Typed, Asked, Capped, [Next]_vars
  PROVE  Capped'
  <1>1. CacheTyped
    BY DEF CacheTyped, Typed
  <1>2. ASSUME UNCHANGED store PROVE Capped'
    BY <1>2 DEF store, Live, Capped, Ordered
  <1>3. ASSUME NEW s \in Statements, Hit(s) PROVE Capped'
    <2>1. <<currentDatabase, s>> \in Key
      BY DEF Key, Typed
    <2> QED
      BY <1>1, <1>3, <2>1, ServingCapped DEF Hit
  <1>4. ASSUME NEW r \in Runs, NEW q \in Request, Ask(r, q) PROVE Capped'
    <2>1. CASE q.kind \in Cached /\ q.stmt # Write
      <3>1. <<q.db, q.stmt>> \in Key /\ Missed(<<q.db, q.stmt>>)
        BY <1>4, <2>1 DEF Key, Request, Ask
      <3> QED
        BY <1>1, <3>1, MissingCapped
    <2>2. CASE ~(q.kind \in Cached /\ q.stmt # Write)
      BY <1>2, <1>4, <2>2 DEF Ask
    <2> QED
      BY <2>1, <2>2
  <1>5. ASSUME NEW r \in Runs, Answer(r) PROVE Capped'
    <2>1. state[r] = "running" /\ rows[r] # None
      BY <1>5 DEF Answer
    <2>2. CASE Invalidate
      <3>1. Live' = {} /\ before' = {}
        BY <2>2 DEF Invalidate, Live
      <3> QED
        BY <3>1, StaysCapped
    <2>3. CASE ~DropsCache(r) /\ Store(r)
      BY <1>1, <2>1, <2>3, StoringCapped DEF DropsCache
    <2>4. CASE UNCHANGED store
      BY <1>2, <2>4
    <2> QED
      BY <1>5, <2>2, <2>3, <2>4 DEF Answer
  <1>6. ASSUME NEW r \in Runs,
               Refuse(r) \/ Allow(r) \/ Execute(r) \/ ExecuteLate(r) \/ Batch(r) \/ Fallback(r) \/ Failed(r)
        PROVE  UNCHANGED store
    BY <1>6 DEF Refuse, Allow, Execute, ExecuteLate, Batch, Fallback, Failed
  <1>7. ASSUME BeginPreview \/ EndPreview \/ (\E d \in Databases : Switch(d)) \/ UNCHANGED vars
        PROVE  UNCHANGED store
    BY <1>7 DEF BeginPreview, EndPreview, Switch, vars
  <1> QED
    BY <1>2, <1>3, <1>4, <1>5, <1>6, <1>7 DEF Next

-----------------------------------------------------------------------------
(***************************************************************************)
(* The theorems                                                            *)
(***************************************************************************)
LEMMA InitInv == Init => Inv
  <1> SUFFICES ASSUME Init PROVE Inv
    OBVIOUS
  <1>1. Live = {}
    BY DEF Init, Live
  <1>a. /\ currentDatabase \in Databases
        /\ data \in 0..MaxWrites /\ acked \in 0..MaxWrites /\ previews \in 0..MaxPreviews
    BY BoundsAssumption DEF Init
  <1>b. /\ request \in [Runs -> Request \cup {None}]
        /\ state \in [Runs -> {"idle", "asking", "running", "abandoned"}]
        /\ progressive \in [Runs -> BOOLEAN] /\ disturbed \in [Runs -> BOOLEAN]
        /\ rows \in [Runs -> Rows \cup {None}]
        /\ cache \in [Key -> Entry \cup {None}]
    BY DEF Init
  <1>c. /\ isExecutingQuery \in BOOLEAN /\ before \in SUBSET (Live \X Live)
        /\ activeQueryRequestId \in Runs \cup {None}
        /\ progress \in Runs \cup {None} /\ newest \in Runs \cup {None}
    BY DEF Init
  <1>2. Typed
    BY <1>a, <1>b, <1>c DEF Typed
  <1>3. Asked /\ SlotInv
    BY DEF Init, Asked, SlotInv, SlotIsNewest, NewestRuns, BusyIsOwned
  <1>4. CacheInv
    BY DEF Init, CacheInv, FromTheServer, OnItsKey, RowsAreTrue, EntriesAreTrue, Waits
  <1> QED
    BY <1>2, <1>3, <1>4 DEF Inv

LEMMA NextInv == Inv /\ [Next]_vars => Inv'
  <1> SUFFICES ASSUME Inv, [Next]_vars PROVE Inv'
    OBVIOUS
  <1>1. Typed /\ Asked /\ SlotInv /\ CacheInv
    BY DEF Inv
  <1>2. Typed'
    BY <1>1, CacheSteps, OthersStep, TypedIsBoth DEF Typed, Others, CacheTyped
  <1>3. Asked' /\ SlotInv'
    BY <1>1, AskedStep, SlotStep
  <1>4. CacheInv'
    BY <1>1, RowsStep, EntriesStep DEF CacheInv
  <1> QED
    BY <1>2, <1>3, <1>4 DEF Inv

THEOREM Invariance == Spec => []Inv
  BY InitInv, NextInv, PTL DEF Spec

\* Every variable keeps its type, and the Map its cap, for any number of databases
\* and statements: over the cap there is always a first key that may leave.
THEOREM TypeCorrect == Spec => []TypeOK
  <1>1. Init => Capped
    <2> SUFFICES ASSUME Init PROVE Capped
      OBVIOUS
    <2>1. Live = {}
      BY DEF Init, Live
    <2> QED
      BY <2>1, FS_EmptySet, BoundsAssumption DEF Capped, Ordered
  <1>2. Inv /\ Capped /\ [Next]_vars => Capped'
    BY CappedStep DEF Inv
  <1>3. Inv /\ Capped => TypeOK
    BY DEF Inv, Capped, TypeOK
  <1> QED
    BY <1>1, <1>2, <1>3, Invariance, PTL DEF Spec

\* Cancel and the progress of a query are the newest run's, whatever overlaps.
THEOREM CancelIsOfTheNewest == Spec => []SlotIsNewest
  <1>1. Inv => SlotIsNewest
    BY DEF Inv, SlotInv
  <1> QED
    BY <1>1, Invariance, PTL

\* The store is busy for a run in the slot or for a preview only.
THEOREM NeverLeftBusy == Spec => []BusyIsOwned
  <1>1. Inv => BusyIsOwned
    BY DEF Inv, SlotInv
  <1> QED
    BY <1>1, Invariance, PTL

\* The cache serves what its keys say, no older than the last acknowledged write.
THEOREM CacheFollowsWrites == Spec => []EntriesAreTrue
  <1>1. Inv => EntriesAreTrue
    BY DEF Inv, CacheInv
  <1> QED
    BY <1>1, Invariance, PTL
=============================================================================
