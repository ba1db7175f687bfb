--------------------------- MODULE TableGrid_proofs ---------------------------
(***************************************************************************)
(* Proofs about TableGrid, for every set of scopes and every bound.        *)
(***************************************************************************)
EXTENDS TableGrid, FiniteSetTheorems, TLAPS

ViewInv == shown \in BOOLEAN /\ scope \in Scopes /\ currentPage \in Pages /\ due \in BOOLEAN

\* What is fetched and what is loaded is of the scope fetched last.
PagesInv ==
  /\ isLoading \in BOOLEAN /\ dataScope \in Scopes \cup {None}
  /\ loadedTablePages \in [Pages -> Rows \cup {None}]
  /\ fetches \subseteq Fetch /\ \A f \in fetches : f.scope = dataScope
  /\ PagesAreOfScope

CountsInv ==
  counting \subseteq Rows /\ IsFiniteSet(counting) /\ Cardinality(counting) <= MaxCounts

\* Nobody hears of a write that was not committed, and a grid's has the scope of its
\* closure.
DataInv ==
  /\ version \in Versions /\ known \in 0 .. version /\ missed \in 0 .. version
  /\ writes \subseteq Write /\ \A w \in writes : w.version <= version /\ (w.by = "grid" => w.scope \in Scopes)

CacheTyped == tablePageCache \in [Keys -> Entry \cup {None}]

Inv == ViewInv /\ PagesInv /\ CountsInv /\ DataInv /\ CacheTyped /\ CachedPagesFollowWrites

-----------------------------------------------------------------------------
(***************************************************************************)
(* Constants and operators                                                 *)
(***************************************************************************)
LEMMA Bounds ==
  /\ MaxPage \in Nat /\ MaxFetches \in Nat /\ MaxCounts \in Nat /\ MaxWrites \in Nat
  /\ 0 \in Pages /\ 0 \in Versions
  /\ None \notin Scopes /\ None \notin Rows /\ None \notin Entry
  BY BoundsAssumption, NoneAssumption, NothingAssumption DEF Pages, Versions

LEMMA RowsAre ==
  ASSUME NEW s \in Scopes, NEW v \in Versions
  PROVE  [scope |-> s, version |-> v] \in Rows /\ [scope |-> s, version |-> v].scope = s
         /\ [scope |-> s, version |-> v].version = v
  BY DEF Rows

LEMMA FetchIs ==
  ASSUME NEW s \in Scopes, NEW p \in Pages, NEW v \in Versions
  PROVE  [scope |-> s, page |-> p, version |-> v] \in Fetch
         /\ [scope |-> s, page |-> p, version |-> v].scope = s
  BY DEF Fetch

\* Rows of scope s on pages of scope s.
LEMMA LoadedIs ==
  ASSUME NEW before \in [Pages -> Rows \cup {None}], NEW p \in Pages, NEW rows \in Rows,
         NEW s, rows.scope = s,
         \A x \in Pages : before[x] # None => before[x].scope = s
  PROVE  /\ Loaded(before, p, rows) \in [Pages -> Rows \cup {None}]
         /\ \A x \in Pages : Loaded(before, p, rows)[x] # None => Loaded(before, p, rows)[x].scope = s
  BY DEF Loaded

\* What survives a change of scope is of the new one.
LEMMA KeptIs ==
  ASSUME PagesInv, NEW s \in Scopes
  PROVE  /\ Kept(s) \in [Pages -> Rows \cup {None}]
         /\ \A x \in Pages : Kept(s)[x] # None => Kept(s)[x].scope = s
         /\ Flying(s) \subseteq Fetch /\ \A f \in Flying(s) : f.scope = s
  BY DEF PagesInv, PagesAreOfScope, Kept, Flying, NoPages

LEMMA SendIs ==
  ASSUME PagesInv, version \in Versions, NEW s \in Scopes, NEW p \in Pages, Send(s, p)
  PROVE  isLoading' = TRUE /\ fetches' \subseteq Fetch /\ \A f \in fetches' : f.scope = s
  BY KeptIs, FetchIs DEF Send

LEMMA InvalidateIs ==
  ASSUME Invalidate
  PROVE  CacheTyped' /\ CachedPagesFollowWrites'
  <1>1. tablePageCache' = [k \in Keys |-> None]
    BY DEF Invalidate, MatchesCacheScope
  <1> QED
    BY <1>1 DEF CacheTyped, CachedPagesFollowWrites

LEMMA KeepIs ==
  ASSUME CacheTyped, CachedPagesFollowWrites, DataInv,
         NEW s \in Scopes, NEW p \in Pages, NEW v \in Versions, Keep(s, p, v), known' = known
  PROVE  CacheTyped' /\ CachedPagesFollowWrites'
  <1> DEFINE entry == [version |-> v, late |-> v < known]
  <1>1. <<s, p>> \in Keys
    BY DEF Keys
  <1>2. v \in Nat /\ known \in Nat
    BY Bounds DEF DataInv, Versions
  <1>3. (v < known) \in BOOLEAN
    OBVIOUS
  <1>4. entry \in Entry
    BY <1>3, Zenon DEF Entry
  <1>5. ~entry.late => entry.version >= known
    <2>1. ~entry.late => ~(v < known)
      BY Zenon
    <2>2. entry.version = v
      OBVIOUS
    <2>3. ~(v < known) => v >= known
      BY <1>2
    <2> QED
      BY <2>1, <2>2, <2>3, Zenon
  <1>6. tablePageCache' = [tablePageCache EXCEPT ![<<s, p>>] = entry]
    BY DEF Keep
  <1> HIDE DEF entry
  <1>7. CacheTyped'
    BY <1>1, <1>4, <1>6 DEF CacheTyped
  <1>8. ASSUME NEW k \in Keys
        PROVE  tablePageCache'[k] = IF k = <<s, p>> THEN entry ELSE tablePageCache[k]
    BY <1>6 DEF CacheTyped
  <1> QED
    BY <1>5, <1>7, <1>8 DEF CachedPagesFollowWrites

LEMMA NextSplit ==
  ASSUME Next
  PROVE  \/ FetchEffect \/ LoadMore \/ Reload \/ Leave \/ CloseTab
         \/ \E s \in Scopes : SetScope(s) \/ Show(s)
         \/ \E f \in fetches : FetchFails(f)
         \/ \E f \in fetches : \E v \in f.version .. version : Land(f, v)
         \/ \E rows \in counting : Counted(rows)
         \/ BeginWrite \/ \E by \in {"direct", "event"} : CommitElsewhere(by)
         \/ \E w \in writes : Commit(w) \/ WriteDone(w) \/ TableDataUpdated(w)
         \/ \E w \in writes, heard \in BOOLEAN : TableDataUpdatedBehind(w, heard)
  BY DEF Next

-----------------------------------------------------------------------------
(***************************************************************************)
(* What is in view                                                         *)
(***************************************************************************)
LEMMA ViewStep ==
  ASSUME ViewInv, Next
  PROVE  ViewInv'
  <1>b. 0 \in Pages
    BY Bounds
  <1>1. ASSUME FetchEffect PROVE ViewInv'
    <2>1. due' \in BOOLEAN
      BY <1>1 DEF FetchEffect, Restarts
    <2>2. currentPage' \in Pages /\ UNCHANGED <<shown, scope>>
      BY <1>1, <1>b DEF FetchEffect, ViewInv
    <2> QED
      BY <2>1, <2>2 DEF ViewInv
  <1>2. ASSUME Reload \/ \E w \in writes : WriteDone(w) PROVE ViewInv'
    <2>1. due' = (due \/ currentPage # 0) /\ currentPage' = 0 /\ UNCHANGED <<shown, scope>>
      BY <1>2 DEF Reload, WriteDone, Refresh
    <2>2. due' \in BOOLEAN
      BY <2>1
    <2> QED
      BY <1>b, <2>1, <2>2 DEF ViewInv
  <1>3. ASSUME Leave \/ CloseTab PROVE ViewInv'
    BY <1>3, <1>b DEF Leave, CloseTab, Unmount, ViewInv
  <1>4. ASSUME NEW s \in Scopes, SetScope(s) \/ Show(s) PROVE ViewInv'
    BY <1>4, <1>b DEF SetScope, Show, ViewInv
  <1>5. ASSUME LoadMore PROVE ViewInv'
    BY <1>5, Bounds DEF LoadMore, ViewInv, Pages
  <1>6. ASSUME NEW w \in writes, TableDataUpdated(w) PROVE ViewInv'
    <2>1. UNCHANGED <<shown, scope>>
      BY <1>6 DEF TableDataUpdated
    <2>2. (currentPage' = 0 /\ due' = TRUE) \/ UNCHANGED <<currentPage, due>>
      BY <1>6 DEF TableDataUpdated
    <2> QED
      BY <1>b, <2>1, <2>2 DEF ViewInv
  <1>7. ASSUME \/ \E f \in fetches : FetchFails(f) \/ \E v \in f.version .. version : Land(f, v)
               \/ \E rows \in counting : Counted(rows)
               \/ BeginWrite \/ \E by \in {"direct", "event"} : CommitElsewhere(by)
               \/ \E w \in writes : Commit(w) \/ \E heard \in BOOLEAN : TableDataUpdatedBehind(w, heard)
        PROVE  ViewInv'
    <2>1. UNCHANGED view
      BY <1>7 DEF FetchFails, Land, Counted, BeginWrite, CommitElsewhere, Commit,
                  TableDataUpdatedBehind
    <2> QED
      BY <2>1 DEF view, ViewInv
  <1> QED
    BY NextSplit, <1>1, <1>2, <1>3, <1>4, <1>5, <1>6, <1>7

-----------------------------------------------------------------------------
(***************************************************************************)
(* The pages loaded and the fetches heard                                  *)
(***************************************************************************)
\* The pages of scope s after a change to it.
LEMMA PagesAre ==
  ASSUME NEW s \in Scopes, dataScope' = s, isLoading' \in BOOLEAN,
         loadedTablePages' \in [Pages -> Rows \cup {None}],
         \A x \in Pages : loadedTablePages'[x] # None => loadedTablePages'[x].scope = s,
         fetches' \subseteq Fetch, \A f \in fetches' : f.scope = s
  PROVE  PagesInv'
  BY DEF PagesInv, PagesAreOfScope

LEMMA FetchDataPages ==
  ASSUME PagesInv, CacheTyped, version \in Versions,
         NEW s \in Scopes, NEW p \in Pages, FetchData(s, p)
  PROVE  PagesInv'
  <1> DEFINE cached == tablePageCache[<<s, p>>]
             rows == Loaded(Kept(s), p, [scope |-> s, version |-> cached.version])
  <1>k. /\ Kept(s) \in [Pages -> Rows \cup {None}]
        /\ \A x \in Pages : Kept(s)[x] # None => Kept(s)[x].scope = s
        /\ Flying(s) \subseteq Fetch /\ \A f \in Flying(s) : f.scope = s
    BY KeptIs
  <1>1. dataScope' = s
    BY DEF FetchData
  <1>2. \/ loadedTablePages' = Kept(s) /\ fetches' = Flying(s) /\ isLoading' = isLoading
        \/ loadedTablePages' = Kept(s) /\ Send(s, p)
        \/ /\ cached # None /\ loadedTablePages' = rows
           /\ Send(s, p) \/ (fetches' = Flying(s) /\ isLoading' = FALSE)
    BY DEF FetchData
  <1>3. /\ isLoading' \in BOOLEAN
        /\ fetches' \subseteq Fetch /\ \A f \in fetches' : f.scope = s
    <2>1. CASE Send(s, p)
      BY <2>1, SendIs
    <2>2. CASE fetches' = Flying(s) /\ (isLoading' = isLoading \/ isLoading' = FALSE)
      BY <1>k, <2>2 DEF PagesInv
    <2> QED
      BY <1>2, <2>1, <2>2
  <1>4. cached # None =>
          /\ rows \in [Pages -> Rows \cup {None}]
          /\ \A x \in Pages : rows[x] # None => rows[x].scope = s
    <2> SUFFICES ASSUME cached # None
                 PROVE  /\ rows \in [Pages -> Rows \cup {None}]
                        /\ \A x \in Pages : rows[x] # None => rows[x].scope = s
      OBVIOUS
    <2>1. cached \in Entry
      BY DEF CacheTyped, Keys
    <2>2. cached.version \in Versions
      BY <2>1 DEF Entry
    <2>3. /\ [scope |-> s, version |-> cached.version] \in Rows
          /\ [scope |-> s, version |-> cached.version].scope = s
      BY <2>2, RowsAre
    <2> QED
      BY <1>k, <2>3, LoadedIs
  <1> HIDE DEF cached, rows
  <1>5. /\ loadedTablePages' \in [Pages -> Rows \cup {None}]
        /\ \A x \in Pages : loadedTablePages'[x] # None => loadedTablePages'[x].scope = s
    BY <1>k, <1>2, <1>4
  <1> QED
    BY <1>1, <1>3, <1>5, PagesAre

LEMMA NoPagesIs ==
  /\ NoPages \in [Pages -> Rows \cup {None}]
  /\ \A x \in Pages : NoPages[x] = None
  BY DEF NoPages

LEMMA PagesStep ==
  ASSUME ViewInv, PagesInv, CacheTyped, DataInv, Next
  PROVE  PagesInv'
  <1>v. version \in Versions /\ scope \in Scopes /\ currentPage \in Pages /\ 0 \in Pages
    BY Bounds DEF ViewInv, DataInv
  <1>1. ASSUME FetchEffect PROVE PagesInv'
    BY <1>1, <1>v, FetchDataPages DEF FetchEffect
  <1>r. ASSUME NEW s \in Scopes, Refresh(s) PROVE PagesInv'
    <2>1. dataScope' = s /\ loadedTablePages' = NoPages /\ Send(s, 0)
      BY <1>r DEF Refresh
    <2>2. isLoading' = TRUE /\ fetches' \subseteq Fetch /\ \A f \in fetches' : f.scope = s
      BY <1>v, <2>1, SendIs
    <2> QED
      BY <2>1, <2>2, NoPagesIs, PagesAre
  <1>2. ASSUME Reload PROVE PagesInv'
    BY <1>2, <1>r, <1>v DEF Reload
  <1>3. ASSUME NEW w \in writes, WriteDone(w) PROVE PagesInv'
    <2>1. Refresh(w.scope)
      BY <1>3 DEF WriteDone
    <2>2. w.scope \in Scopes
      BY <1>3 DEF WriteDone, DataInv
    <2> QED
      BY <1>r, <2>1, <2>2
  <1>4. ASSUME Leave \/ CloseTab PROVE PagesInv'
    <2>1. /\ isLoading' = FALSE /\ dataScope' = None /\ loadedTablePages' = NoPages
          /\ fetches' = {}
      BY <1>4 DEF Leave, CloseTab, Unmount
    <2> QED
      BY <2>1, NoPagesIs DEF PagesInv, PagesAreOfScope
  <1>5. ASSUME NEW f \in fetches, FetchFails(f) PROVE PagesInv'
    BY <1>5 DEF FetchFails, PagesInv, PagesAreOfScope
  <1>6. ASSUME NEW f \in fetches, NEW v \in f.version .. version, Land(f, v) PROVE PagesInv'
    <2> DEFINE rows == [scope |-> f.scope, version |-> v]
    <2>1. f \in Fetch /\ f.scope = dataScope
      BY DEF PagesInv
    <2>2. f.scope \in Scopes /\ f.page \in Pages /\ f.version \in Versions
      BY <2>1 DEF Fetch
    <2>3. v \in Versions
      BY <1>v, <2>2, Bounds DEF Versions
    <2>4. rows \in Rows /\ rows.scope = dataScope
      BY <2>1, <2>2, <2>3, RowsAre
    <2>5. /\ loadedTablePages' = Loaded(loadedTablePages, f.page, rows)
          /\ isLoading' = FALSE /\ fetches' = fetches \ {f} /\ dataScope' = dataScope
      BY <1>6 DEF Land
    <2> HIDE DEF rows
    <2>6. /\ loadedTablePages' \in [Pages -> Rows \cup {None}]
          /\ \A x \in Pages : loadedTablePages'[x] # None => loadedTablePages'[x].scope = dataScope
      BY <2>2, <2>4, <2>5, LoadedIs DEF PagesInv, PagesAreOfScope
    <2> QED
      BY <2>5, <2>6 DEF PagesInv, PagesAreOfScope
  <1>7. ASSUME NEW w \in writes, TableDataUpdated(w) PROVE PagesInv'
    <2>1. dataScope' = scope /\ loadedTablePages' = Kept(scope)
      BY <1>7 DEF TableDataUpdated
    <2>2. (fetches' = Flying(scope) /\ isLoading' = isLoading) \/ Send(scope, currentPage)
      BY <1>7 DEF TableDataUpdated
    <2>3. isLoading' \in BOOLEAN /\ fetches' \subseteq Fetch /\ \A f \in fetches' : f.scope = scope
      BY <1>v, <2>2, KeptIs, SendIs DEF PagesInv
    <2> QED
      BY <1>v, <2>1, <2>3, KeptIs, PagesAre
  <1>8. ASSUME \/ LoadMore \/ \E s \in Scopes : SetScope(s) \/ Show(s)
               \/ \E rows \in counting : Counted(rows)
               \/ BeginWrite \/ \E by \in {"direct", "event"} : CommitElsewhere(by)
               \/ \E w \in writes : Commit(w) \/ \E heard \in BOOLEAN : TableDataUpdatedBehind(w, heard)
        PROVE  PagesInv'
    <2>1. UNCHANGED pages
      BY <1>8 DEF LoadMore, SetScope, Show, Counted, BeginWrite, CommitElsewhere, Commit,
                  TableDataUpdatedBehind
    <2> QED
      BY <2>1 DEF pages, PagesInv, PagesAreOfScope
  <1> QED
    BY NextSplit, <1>1, <1>2, <1>3, <1>4, <1>5, <1>6, <1>7, <1>8

-----------------------------------------------------------------------------
(***************************************************************************)
(* The counts awaited                                                      *)
(***************************************************************************)
LEMMA CountsStep ==
  ASSUME PagesInv, CountsInv, DataInv, Next
  PROVE  CountsInv'
  <1>m. MaxCounts \in Nat
    BY Bounds
  <1>1. ASSUME NEW f \in fetches, NEW v \in f.version .. version, Land(f, v) PROVE CountsInv'
    <2> DEFINE rows == [scope |-> f.scope, version |-> v]
    <2>1. rows \in Rows
      <3>1. f \in Fetch
        BY DEF PagesInv
      <3>2. v \in Versions /\ f.scope \in Scopes
        BY <3>1, Bounds DEF DataInv, Versions, Fetch
      <3> QED
        BY <3>2, RowsAre
    <2>2. \/ counting' = counting
          \/ counting' \in {{rows}, counting \cup {rows}} /\ Cardinality(counting') <= MaxCounts
      BY <1>1 DEF Land
    <2> HIDE DEF rows
    <2>3. IsFiniteSet({rows}) /\ IsFiniteSet(counting \cup {rows})
      BY FS_Singleton, FS_AddElement DEF CountsInv
    <2> QED
      BY <2>1, <2>2, <2>3 DEF CountsInv
  <1>2. ASSUME NEW rows \in counting, Counted(rows) PROVE CountsInv'
    <2>1. counting' = counting \ {rows}
      BY <1>2 DEF Counted
    <2>2. IsFiniteSet(counting') /\ Cardinality(counting') = Cardinality(counting) - 1
      BY <2>1, FS_RemoveElement DEF CountsInv
    <2>3. Cardinality(counting) \in Nat
      BY FS_CardinalityType DEF CountsInv
    <2>4. Cardinality(counting') <= MaxCounts
      BY <1>m, <2>2, <2>3 DEF CountsInv
    <2> QED
      BY <2>1, <2>2, <2>4 DEF CountsInv
  <1>3. ASSUME Leave \/ CloseTab PROVE CountsInv'
    <2>1. counting' = {}
      BY <1>3 DEF Leave, CloseTab, Unmount
    <2> QED
      BY <1>m, <2>1, FS_EmptySet DEF CountsInv
  <1>4. ASSUME \/ FetchEffect \/ LoadMore \/ Reload \/ \E s \in Scopes : SetScope(s) \/ Show(s)
               \/ \E f \in fetches : FetchFails(f)
               \/ BeginWrite \/ \E by \in {"direct", "event"} : CommitElsewhere(by)
               \/ \E w \in writes : \/ Commit(w) \/ WriteDone(w) \/ TableDataUpdated(w)
                                    \/ \E heard \in BOOLEAN : TableDataUpdatedBehind(w, heard)
        PROVE  CountsInv'
    <2>1. counting' = counting
      BY <1>4 DEF FetchEffect, LoadMore, Reload, SetScope, Show, FetchFails, BeginWrite,
                  CommitElsewhere, Commit, WriteDone, TableDataUpdated, TableDataUpdatedBehind
    <2> QED
      BY <2>1 DEF CountsInv
  <1> QED
    BY NextSplit, <1>1, <1>2, <1>3, <1>4

-----------------------------------------------------------------------------
(***************************************************************************)
(* Writes                                                                  *)
(***************************************************************************)
LEMMA NewerIs ==
  ASSUME NEW n \in Nat, NEW a \in 0 .. n, NEW b \in 0 .. n
  PROVE  Newer(a, b) \in 0 .. n
  BY DEF Newer

LEMMA DataStep ==
  ASSUME ViewInv, DataInv, Next
  PROVE  DataInv'
  <1>n. version \in Nat /\ MaxWrites \in Nat /\ version <= MaxWrites /\ 0 \in Versions
    BY Bounds DEF DataInv, Versions
  <1>w. ASSUME NEW w \in writes
        PROVE  /\ w \in Write /\ w.by \in {"grid", "direct", "event"} /\ w.scope \in Scopes \cup {None}
               /\ w.version \in Versions /\ w.version \in 0 .. version
    BY <1>n DEF DataInv, Write, Versions
  <1>1. ASSUME Leave \/ CloseTab PROVE DataInv'
    <2>1. writes' = {[w EXCEPT !.by = IF @ = "grid" THEN "direct" ELSE @] : w \in writes}
          /\ UNCHANGED <<version, known, missed>>
      BY <1>1 DEF Leave, CloseTab, Unmount
    <2>2. ASSUME NEW w \in writes,
                 NEW x, x = [w EXCEPT !.by = IF @ = "grid" THEN "direct" ELSE @]
          PROVE  x \in Write /\ x.version <= version /\ x.by # "grid"
      BY <1>n, <1>w, <2>2 DEF Write
    <2> QED
      BY <2>1, <2>2 DEF DataInv
  <1>2. ASSUME BeginWrite PROVE DataInv'
    <2> DEFINE x == [by |-> "grid", scope |-> scope, version |-> 0]
    <2>1. x \in Write /\ x.version <= version /\ x.scope \in Scopes
      BY <1>n DEF Write, ViewInv
    <2>2. writes' = writes \cup {x} /\ UNCHANGED <<version, known, missed>>
      BY <1>2 DEF BeginWrite
    <2> HIDE DEF x
    <2> QED
      BY <2>1, <2>2 DEF DataInv
  <1>c. ASSUME version' = version + 1, version < MaxWrites, UNCHANGED <<known, missed>>,
               NEW x, x \in Write, x.version = version', x.by = "grid" => x.scope \in Scopes,
               writes' \subseteq writes \cup {x}
        PROVE  DataInv'
    <2>1. version' \in Versions /\ known \in 0 .. version' /\ missed \in 0 .. version'
      BY <1>c, <1>n DEF DataInv, Versions
    <2>2. \A w \in writes : w.version <= version'
      BY <1>c, <1>n, <1>w
    <2>3. x.version <= version'
      BY <1>c, <1>n
    <2> QED
      BY <1>c, <2>1, <2>2, <2>3 DEF DataInv
  <1>3. ASSUME NEW w \in writes, Commit(w) PROVE DataInv'
    <2> DEFINE x == [w EXCEPT !.version = version']
    <2>1. version' = version + 1 /\ version < MaxWrites /\ writes' = (writes \ {w}) \cup {x}
          /\ UNCHANGED <<known, missed>>
      BY <1>3 DEF Commit
    <2>2. version' \in Versions
      BY <1>n, <2>1 DEF Versions
    <2>3. x \in Write /\ x.version = version' /\ x.by = w.by /\ x.scope = w.scope
      BY <1>w, <2>2 DEF Write
    <2>4. x.by = "grid" => x.scope \in Scopes
      BY <2>3 DEF DataInv
    <2> HIDE DEF x
    <2> QED
      BY <1>c, <2>1, <2>3, <2>4
  <1>4. ASSUME NEW by \in {"direct", "event"}, CommitElsewhere(by) PROVE DataInv'
    <2> DEFINE x == [by |-> by, scope |-> None, version |-> version']
    <2>1. version' = version + 1 /\ version < MaxWrites /\ writes' = writes \cup {x}
          /\ UNCHANGED <<known, missed>>
      BY <1>4 DEF CommitElsewhere
    <2>2. version' \in Versions
      BY <1>n, <2>1 DEF Versions
    <2>3. x \in Write /\ x.version = version' /\ x.by # "grid"
      BY <2>2 DEF Write
    <2> HIDE DEF x
    <2> QED
      BY <1>c, <2>1, <2>3
  <1>5. ASSUME NEW w \in writes,
               WriteDone(w) \/ TableDataUpdated(w) \/ \E heard \in BOOLEAN : TableDataUpdatedBehind(w, heard)
        PROVE  DataInv'
    <2>1. writes' = writes \ {w} /\ version' = version
      BY <1>5 DEF WriteDone, TableDataUpdated, TableDataUpdatedBehind
    <2>2. /\ known' \in {known, Newer(w.version, known)}
          /\ missed' \in {missed, Newer(w.version, missed)}
      BY <1>5 DEF WriteDone, TableDataUpdated, TableDataUpdatedBehind
    <2>3. known' \in 0 .. version /\ missed' \in 0 .. version
      BY <1>n, <1>w, <2>2, NewerIs DEF DataInv
    <2> QED
      BY <2>1, <2>3 DEF DataInv
  <1>6. ASSUME \/ FetchEffect \/ LoadMore \/ Reload \/ \E s \in Scopes : SetScope(s) \/ Show(s)
               \/ \E f \in fetches : FetchFails(f) \/ \E v \in f.version .. version : Land(f, v)
               \/ \E rows \in counting : Counted(rows)
        PROVE  DataInv'
    <2>1. UNCHANGED data
      BY <1>6 DEF FetchEffect, LoadMore, Reload, SetScope, Show, FetchFails, Land, Counted
    <2> QED
      BY <2>1 DEF data, DataInv
  <1> QED
    BY NextSplit, <1>1, <1>2, <1>3, <1>4, <1>5, <1>6

-----------------------------------------------------------------------------
(***************************************************************************)
(* The cache of pages                                                      *)
(***************************************************************************)
LEMMA CacheStep ==
  ASSUME PagesInv, CountsInv, DataInv, CacheTyped, CachedPagesFollowWrites, Next
  PROVE  CacheTyped' /\ CachedPagesFollowWrites'
  <1>1. ASSUME Invalidate PROVE CacheTyped' /\ CachedPagesFollowWrites'
    BY <1>1, InvalidateIs
  <1>2. ASSUME UNCHANGED <<tablePageCache, known>> PROVE CacheTyped' /\ CachedPagesFollowWrites'
    BY <1>2 DEF CacheTyped, CachedPagesFollowWrites
  <1>3. ASSUME NEW f \in fetches, NEW v \in f.version .. version, Land(f, v)
        PROVE  CacheTyped' /\ CachedPagesFollowWrites'
    <2>1. f \in Fetch
      BY DEF PagesInv
    <2>2. v \in Versions /\ f.scope \in Scopes /\ f.page \in Pages
      BY <2>1, Bounds DEF DataInv, Versions, Fetch
    <2>3. Keep(f.scope, f.page, v) /\ known' = known
      BY <1>3 DEF Land, data
    <2> QED
      BY <2>2, <2>3, KeepIs
  <1>4. ASSUME NEW rows \in counting, Counted(rows)
        PROVE  CacheTyped' /\ CachedPagesFollowWrites'
    <2>1. rows.scope \in Scopes /\ rows.version \in Versions /\ 0 \in Pages
      BY Bounds DEF CountsInv, Rows
    <2>2. Keep(rows.scope, 0, rows.version) /\ known' = known
      BY <1>4 DEF Counted, data
    <2> QED
      BY <2>1, <2>2, KeepIs
  <1>5. ASSUME Reload \/ CloseTab \/ \E w \in writes : WriteDone(w) \/ TableDataUpdated(w)
        PROVE  Invalidate
    BY <1>5 DEF Reload, CloseTab, WriteDone, Refresh, TableDataUpdated
  <1>6. ASSUME NEW w \in writes, NEW heard \in BOOLEAN, TableDataUpdatedBehind(w, heard)
        PROVE  Invalidate \/ UNCHANGED <<tablePageCache, known>>
    BY <1>6 DEF TableDataUpdatedBehind
  <1>7. ASSUME \/ FetchEffect \/ LoadMore \/ Leave \/ \E s \in Scopes : SetScope(s) \/ Show(s)
               \/ \E f \in fetches : FetchFails(f)
               \/ BeginWrite \/ \E by \in {"direct", "event"} : CommitElsewhere(by)
               \/ \E w \in writes : Commit(w)
        PROVE  UNCHANGED <<tablePageCache, known>>
    BY <1>7 DEF FetchEffect, LoadMore, Leave, Unmount, SetScope, Show, FetchFails, BeginWrite,
                CommitElsewhere, Commit, data
  <1> QED
    BY NextSplit, <1>1, <1>2, <1>3, <1>4, <1>5, <1>6, <1>7

-----------------------------------------------------------------------------
(***************************************************************************)
(* The theorems                                                            *)
(***************************************************************************)
LEMMA InitInv ==
  ASSUME Init
  PROVE  Inv
  <1>1. ViewInv
    <2>1. shown = TRUE /\ due = TRUE /\ scope \in Scopes /\ currentPage = 0
      BY DEF Init
    <2> QED
      BY <2>1, Bounds DEF ViewInv
  <1>2. PagesInv
    <2>1. isLoading = FALSE /\ dataScope = None /\ loadedTablePages = NoPages /\ fetches = {}
      BY DEF Init
    <2> QED
      BY <2>1, NoPagesIs DEF PagesInv, PagesAreOfScope
  <1>3. CountsInv
    BY Bounds, FS_EmptySet DEF Init, CountsInv
  <1>4. DataInv
    BY Bounds DEF Init, DataInv
  <1>5. CacheTyped /\ CachedPagesFollowWrites
    BY DEF Init, CacheTyped, CachedPagesFollowWrites
  <1> QED
    BY <1>1, <1>2, <1>3, <1>4, <1>5 DEF Inv

LEMMA NextInv ==
  ASSUME Inv, [Next]_vars
  PROVE  Inv'
  <1>1. CASE Next
    BY <1>1, ViewStep, PagesStep, CountsStep, DataStep, CacheStep DEF Inv
  <1>2. CASE UNCHANGED vars
    BY <1>2 DEF vars, view, pages, data, Inv, ViewInv, PagesInv, PagesAreOfScope, CountsInv,
                DataInv, CacheTyped, CachedPagesFollowWrites
  <1> QED
    BY <1>1, <1>2

\* The invariant of the grid, its fetcher and the cache of pages.
THEOREM Invariance == Spec => []Inv
  <1>1. Init => Inv
    BY InitInv
  <1>2. Inv /\ [Next]_vars => Inv'
    BY NextInv
  <1> QED
    BY <1>1, <1>2, PTL DEF Spec

\* State, cache and history keep their types, and the fetches heard are those of
\* the scope fetched last.
THEOREM TypeCorrect == Spec => []TypeOK
  <1>1. Inv => TypeOK
    BY DEF Inv, ViewInv, PagesInv, CountsInv, DataInv, CacheTyped, TypeOK
  <1> QED
    BY <1>1, Invariance, PTL

\* For any number of scopes, pages and fetches: fetchData and refreshTableFromStart
\* never leave pages of two scopes in the rows.
THEOREM RowsAreOfOneScope == Spec => []PagesAreOfScope
  <1>1. Inv => PagesAreOfScope
    BY DEF Inv, PagesInv
  <1> QED
    BY <1>1, Invariance, PTL

\* For any number of scopes, pages and writes: the cache of pages hides no write it
\* was dropped for, but in pages that were asked for before.
THEOREM CacheHidesNoWrite == Spec => []CachedPagesFollowWrites
  <1>1. Inv => CachedPagesFollowWrites
    BY DEF Inv
  <1> QED
    BY <1>1, Invariance, PTL
=============================================================================
