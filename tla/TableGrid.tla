------------------------------ MODULE TableGrid ------------------------------
(***************************************************************************)
(* The grid of a table tab (src/src/components/DataGrid): the fetcher of   *)
(* its pages (hooks/useDataGridTableFetcher.ts), the effects and events    *)
(* that call it (DataGrid.tsx), and the cache of pages that outlives it    *)
(* (hooks/useDataGrid.ts).  Only the tab in front has a grid               *)
(* (components/AppWorkspacePanel.tsx): another tab in front unmounts it.   *)
(* Fetches, counts, writes and the refreshes they cause overlap, and a     *)
(* callback keeps the scope of the render that made it.                    *)
(*                                                                         *)
(* One table and one tab of it.  A scope is a sort with a filter.  Rows    *)
(* are their scope and their version, the number of writes committed when  *)
(* they were read.  A step is a run of the event loop between two awaits;  *)
(* the effects of a render are a step, before the next render.  The age of *)
(* a cached page, the other entries of the Map and the number of rows of a *)
(* page are choices.                                                       *)
(***************************************************************************)
EXTENDS Naturals, FiniteSets

CONSTANTS
  Scopes,
  None,
  MaxPage,     \* bound: the last page of the table
  MaxFetches,  \* bound: live fetches in flight
  MaxCounts,   \* bound: counts awaited
  MaxWrites    \* bound: writes to the table

ASSUME BoundsAssumption == {MaxPage, MaxFetches, MaxCounts, MaxWrites} \subseteq Nat
ASSUME NoneAssumption == None \notin Scopes

Pages == 0 .. MaxPage
Versions == 0 .. MaxWrites
Rows == [scope : Scopes, version : Versions]
Entry == [version : Versions, late : BOOLEAN]
\* A fetch, with the version of the table when it was sent.
Fetch == [scope : Scopes, page : Pages, version : Versions]
\* A write: of this grid, in the closure of a scope; of a component that drops the
\* caches itself; or of one that announces it only.  0 before it is committed.
Write == [by : {"grid", "direct", "event"}, scope : Scopes \cup {None}, version : Versions]

ASSUME NothingAssumption == None \notin Rows \cup Entry

VARIABLES
  shown,         \* the tab is in front: its grid is mounted
  scope, currentPage, isLoading, \* state of the grid
  due,           \* the fetch effect of the last render has still to run
  dataScope, loadedTablePages, \* refs
  fetches,       \* getTableData under way, with the current request id
  counting,      \* pages 0 whose exact count is awaited, by the timer or the query
  tablePageCache,
  version,       \* writes committed
  writes,        \* writes under way or not yet heard of
  known,         \* history: the last write the caches were dropped for
  missed         \* history: the last write announced while the tab was behind

view == <<shown, scope, currentPage, due>>
pages == <<isLoading, dataScope, loadedTablePages, fetches>>
data == <<version, writes, known, missed>>
vars == <<view, pages, counting, tablePageCache, data>>

Keys == Scopes \X Pages
NoPages == [p \in Pages |-> None]

\* Every variable has its type; the fetches heard are those of the current scope.
TypeOK ==
  /\ shown \in BOOLEAN
  /\ scope \in Scopes /\ currentPage \in Pages /\ isLoading \in BOOLEAN
  /\ due \in BOOLEAN
  /\ dataScope \in Scopes \cup {None}
  /\ loadedTablePages \in [Pages -> Rows \cup {None}]
  /\ fetches \subseteq Fetch /\ \A f \in fetches : f.scope = dataScope
  /\ counting \subseteq Rows /\ Cardinality(counting) <= MaxCounts
  /\ tablePageCache \in [Keys -> Entry \cup {None}]
  /\ version \in Versions /\ known \in 0 .. version /\ missed \in 0 .. version
  /\ writes \subseteq Write

Init ==
  /\ shown = TRUE /\ scope \in Scopes /\ currentPage = 0 /\ isLoading = FALSE /\ due = TRUE
  /\ dataScope = None /\ loadedTablePages = NoPages /\ fetches = {} /\ counting = {}
  /\ tablePageCache = [k \in Keys |-> None]
  /\ version = 0 /\ writes = {} /\ known = 0 /\ missed = 0

(***************************************************************************)
(* The cache of pages and the pages loaded                                 *)
(***************************************************************************)
\* Mutant of the next definition: keys are compared as strings, and match none.
MatchesNone == {}

\* The keys of the table that matchesCacheScope finds.
MatchesCacheScope == Keys

\* invalidateTableScopeCaches
Invalidate ==
  tablePageCache' = [k \in Keys |-> IF k \in MatchesCacheScope THEN None ELSE tablePageCache[k]]

\* A page read in version v is kept, although a later one may be known by now.
Keep(s, p, v) ==
  tablePageCache' = [tablePageCache EXCEPT ![<<s, p>>] = [version |-> v, late |-> v < known]]

\* setLoadedTablePage: page 0 starts the rows anew.
Loaded(before, p, rows) ==
  [x \in Pages |-> IF x = p THEN rows ELSE IF p = 0 THEN None ELSE before[x]]

(***************************************************************************)
(* fetchData                                                               *)
(***************************************************************************)
\* Mutant of Kept below: pages are not dropped.
KeepsPages(s) == loadedTablePages

\* A change of scope bumps requestId, the answers to come are not heard; and drops
\* the pages.
Flying(s) == IF dataScope = s THEN fetches ELSE {}

Kept(s) == IF dataScope = s THEN loadedTablePages ELSE NoPages

\* getTableData for page p is sent.
Send(s, p) ==
  /\ isLoading' = TRUE
  /\ fetches' = Flying(s) \cup {[scope |-> s, page |-> p, version |-> version]}
  /\ Cardinality(fetches') <= MaxFetches

\* A change of scope on a later page goes back to page 0, and that is all.
Restarts(s, p) == dataScope # s /\ p # 0

\* Otherwise the page comes from the cache, when it is recent, and is fetched when
\* it is not there or old; an old one is shown meanwhile.
FetchData(s, p) ==
  LET cached == tablePageCache[<<s, p>>]
      rows == Loaded(Kept(s), p, [scope |-> s, version |-> cached.version])
  IN /\ dataScope' = s
     /\ IF Restarts(s, p)
        THEN loadedTablePages' = Kept(s) /\ fetches' = Flying(s) /\ isLoading' = isLoading
        ELSE IF cached = None THEN loadedTablePages' = Kept(s) /\ Send(s, p)
        ELSE /\ loadedTablePages' = rows
             /\ Send(s, p) \/ (fetches' = Flying(s) /\ isLoading' = FALSE)

\* refreshTableFromStart in a callback made when the scope was s: whatever the
\* cache holds, page 0 is fetched.
Refresh(s) ==
  /\ Invalidate
  /\ currentPage' = 0
  /\ due' = (due \/ currentPage # 0)
  /\ loadedTablePages' = NoPages
  /\ dataScope' = s /\ Send(s, 0)

FetchEffect ==
  /\ due
  /\ FetchData(scope, currentPage)
  /\ due' = Restarts(scope, currentPage)
  /\ currentPage' = IF Restarts(scope, currentPage) THEN 0 ELSE currentPage
  /\ UNCHANGED <<shown, scope, counting, tablePageCache, data>>

(***************************************************************************)
(* The user                                                                *)
(***************************************************************************)
\* A sort starts at page 0; a filter, applied by its timer, leaves the page.
SetScope(s) ==
  /\ shown /\ ~due /\ s # scope
  /\ scope' = s /\ due' = TRUE
  /\ currentPage' \in {0, currentPage}
  /\ UNCHANGED <<shown, pages, counting, tablePageCache, data>>

\* The end of the rows is scrolled into view.
LoadMore ==
  /\ shown /\ ~due /\ ~isLoading /\ loadedTablePages # NoPages
  /\ currentPage < MaxPage /\ currentPage' = currentPage + 1
  /\ due' = TRUE
  /\ UNCHANGED <<shown, scope, pages, counting, tablePageCache, data>>

\* Reload, and a tick of the automatic refresh.
Reload ==
  /\ shown /\ ~due
  /\ Refresh(scope)
  /\ UNCHANGED <<shown, scope, counting, data>>

\* The grid is unmounted: what is in flight is not heard.
Unmount ==
  /\ shown' = FALSE /\ currentPage' = 0 /\ isLoading' = FALSE /\ due' = FALSE
  /\ dataScope' = None /\ loadedTablePages' = NoPages /\ fetches' = {} /\ counting' = {}
  /\ writes' = {[w EXCEPT !.by = IF @ = "grid" THEN "direct" ELSE @] : w \in writes}
  /\ UNCHANGED <<scope, version, known, missed>>

\* Another tab comes to the front.
Leave == shown /\ ~due /\ Unmount /\ UNCHANGED tablePageCache

\* removeTab and its like
CloseTab == ~due /\ Invalidate /\ Unmount

\* The tab comes to the front, or the table is opened: a new grid.
Show(s) ==
  /\ ~shown /\ shown' = TRUE
  /\ scope' = s /\ due' = TRUE
  /\ UNCHANGED <<currentPage, pages, counting, tablePageCache, data>>

(***************************************************************************)
(* Answers                                                                 *)
(***************************************************************************)
\* The rows of a fetch arrive; they were read at some moment since it was sent.
\* Page 0 may have its exact count awaited, which clears the timer of an earlier
\* one.
Land(f, v) ==
  LET rows == [scope |-> f.scope, version |-> v]
  IN /\ fetches' = fetches \ {f}
     /\ loadedTablePages' = Loaded(loadedTablePages, f.page, rows)
     /\ isLoading' = FALSE
     /\ Keep(f.scope, f.page, v)
     /\ \/ counting' = counting
        \/ /\ f.page = 0
           /\ counting' \in {{rows}, counting \cup {rows}}
           /\ Cardinality(counting') <= MaxCounts
     /\ UNCHANGED <<view, dataScope, data>>

FetchFails(f) ==
  /\ fetches' = fetches \ {f} /\ isLoading' = FALSE
  /\ UNCHANGED <<view, dataScope, loadedTablePages, counting, tablePageCache, data>>

\* The count arrives, and the page 0 that asked for it is kept again.
Counted(rows) ==
  /\ counting' = counting \ {rows}
  /\ Keep(rows.scope, 0, rows.version)
  /\ UNCHANGED <<view, pages, data>>

(***************************************************************************)
(* Writes                                                                  *)
(***************************************************************************)
\* The user of the grid inserts, deletes, pastes or commits rows.
BeginWrite ==
  /\ shown /\ ~due
  /\ ~\E w \in writes : w.version = 0
  /\ writes' = writes \cup {[by |-> "grid", scope |-> scope, version |-> 0]}
  /\ UNCHANGED <<view, pages, counting, tablePageCache, version, known, missed>>

Commit(w) ==
  /\ w.version = 0 /\ version < MaxWrites /\ version' = version + 1
  /\ writes' = (writes \ {w}) \cup {[w EXCEPT !.version = version']}
  /\ UNCHANGED <<view, pages, counting, tablePageCache, known, missed>>

\* The review of staged edits or another grid writes, or the editor or the agent.
CommitElsewhere(by) ==
  /\ by # "grid"
  /\ version < MaxWrites /\ version' = version + 1
  /\ writes' = writes \cup {[by |-> by, scope |-> None, version |-> version']}
  /\ UNCHANGED <<view, pages, counting, tablePageCache, known, missed>>

Newer(v, w) == IF v > w THEN v ELSE w

\* The answer to a write of the grid, in the callback that sent it.
WriteDone(w) ==
  /\ w.by = "grid" /\ w.version > 0
  /\ writes' = writes \ {w} /\ known' = Newer(w.version, known)
  /\ Refresh(w.scope)
  /\ UNCHANGED <<shown, scope, counting, version, missed>>

\* table-data-updated while the grid listens: the caches are dropped first, then
\* the page in view is fetched, unless the scope changed meanwhile.
TableDataUpdated(w) ==
  /\ w.by # "grid" /\ w.version > 0
  /\ shown /\ ~due
  /\ writes' = writes \ {w} /\ known' = Newer(w.version, known)
  /\ Invalidate
  /\ dataScope' = scope /\ loadedTablePages' = Kept(scope)
  /\ IF Restarts(scope, currentPage)
     THEN fetches' = Flying(scope) /\ isLoading' = isLoading /\ currentPage' = 0 /\ due' = TRUE
     ELSE Send(scope, currentPage) /\ UNCHANGED <<currentPage, due>>
  /\ UNCHANGED <<shown, scope, counting, version, missed>>

\* table-data-updated while the tab is behind: heard if another grid is mounted, in
\* the other pane or below the editor.
TableDataUpdatedBehind(w, heard) ==
  /\ w.by # "grid" /\ w.version > 0
  /\ ~shown
  /\ writes' = writes \ {w} /\ missed' = Newer(w.version, missed)
  /\ IF heard \/ w.by = "direct" THEN Invalidate /\ known' = Newer(w.version, known)
     ELSE UNCHANGED <<tablePageCache, known>>
  /\ UNCHANGED <<view, pages, counting, version>>

Next ==
  \/ FetchEffect
  \/ \E s \in Scopes : SetScope(s) \/ Show(s)
  \/ LoadMore \/ Reload \/ Leave \/ CloseTab
  \/ \E f \in fetches : FetchFails(f) \/ \E v \in f.version .. version : Land(f, v)
  \/ \E rows \in counting : Counted(rows)
  \/ BeginWrite \/ \E by \in {"direct", "event"} : CommitElsewhere(by)
  \/ \E w \in writes : \/ Commit(w) \/ WriteDone(w) \/ TableDataUpdated(w)
                       \/ \E heard \in BOOLEAN : TableDataUpdatedBehind(w, heard)

Spec == Init /\ [][Next]_vars
-----------------------------------------------------------------------------
(***************************************************************************)
(* Properties                                                              *)
(***************************************************************************)
\* Answers arrive late, scopes change between, refreshes run in old callbacks: the
\* pages that make up the rows are all of one scope, the one fetched last.
PagesAreOfScope ==
  \A p \in Pages : loadedTablePages[p] # None => loadedTablePages[p].scope = dataScope

\* No write is hidden by the cache of pages, across tabs and scopes, once the
\* caches were dropped for it; the exception are pages asked for before and kept
\* afterwards.
CachedPagesFollowWrites ==
  \A k \in Keys : tablePageCache[k] # None /\ ~tablePageCache[k].late =>
    tablePageCache[k].version >= known

\* What DataGrid.tsx says of an update announced while the grid was in a background
\* tab: it is fetched as soon as the tab is active again.  A grid that waits for
\* nothing shows every write announced while it was behind.
MissedUpdatesAreFetched ==
  shown /\ ~due /\ fetches = {} =>
    \A p \in Pages : loadedTablePages[p] # None => loadedTablePages[p].version >= missed
=============================================================================
