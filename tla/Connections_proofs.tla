----------------------- MODULE Connections_proofs -----------------------
(***************************************************************************)
(* Proofs about ConnectionStorage, for any connections and calls, and      *)
(* about DatabaseSwitch, for any databases, sessions, statements and       *)
(* switches.                                                               *)
(*                                                                         *)
(* ConnectionStorage: no write is lost because the holder of the lock is   *)
(* at a step that says what the two files are, whichever call failed       *)
(* before it.  DatabaseSwitch: the switches in the queue are numbered in   *)
(* the order of the clicks, and the newest one that still counts is the    *)
(* click (ClickInv); a list of tables that is not the header's is being    *)
(* replaced by a fetch whose answer will be taken (TablesAreComing); and   *)
(* while switches do not overlap, the pool is the header's or on its way   *)
(* to it (CalmInv).                                                        *)
(***************************************************************************)
EXTENDS ConnectionStorage, DatabaseSwitch, TLAPS

Steps == {"idle", "read", "lock", "remove", "rotate", "replace", "scrub", "cache"}

Typed ==
  /\ primary \in File \cup {Absent} /\ backup \in File \cup {Absent}
  /\ lock \in Procs \cup {Absent} /\ guard \in Procs \cup {Absent}
  /\ cache \in File \cup {Absent}
  /\ pc \in [Procs -> Steps] /\ op \in [Procs -> Op] /\ target \in [Procs -> File]
  /\ saved \in Lists /\ cuts \in 0 .. 2
  /\ clobbered \in BOOLEAN /\ overtaken \in BOOLEAN

\* Who holds what: the lock from its opening to the last rename, the guard for the
\* whole of a write.
Holders ==
  \A p \in Procs :
    /\ lock = p <=> pc[p] \in {"remove", "rotate", "replace"}
    /\ guard = p <=> op[p].kind # "load"
    /\ guard = p => pc[p] \notin {"idle", "scrub"}
    /\ pc[p] = "rotate" => guard = p

Sound == cuts < 2 /\ ~clobbered

\* Where the list of the last write is, by what the holder of the lock does next.
Unlocked == Recovered.ids = saved /\ (primary = Absent /\ cuts = 0 => backup = Absent)
Rotating == primary # Absent /\ primary.ids = saved
Replacing ==
  \/ primary # Absent /\ primary.ids = saved
  \/ primary = Absent /\ backup # Absent /\ backup.ids = saved
  \/ primary = Absent /\ backup = Absent /\ (saved = {} \/ cuts = 1)

FilesInv ==
  Sound => /\ lock = Absent \/ pc[lock] = "remove" => Unlocked
           /\ lock # Absent /\ pc[lock] = "rotate" => Rotating
           /\ lock # Absent /\ pc[lock] = "replace" => Replacing

\* A write read the list of the last one, and nobody else changes it.
TargetInv ==
  Sound => \A p \in Procs : guard = p =>
    /\ pc[p] \in {"lock", "remove", "rotate", "replace"} =>
         target[p].ids = Result(op[p], [ids |-> saved, plain |-> FALSE]).ids
    /\ pc[p] = "cache" => target[p].ids = saved

\* The cache is the last list but for a write that has still to fill it.
CacheInv ==
  Sound /\ ~overtaken /\ cache # Absent =>
    cache.ids = saved \/ (guard # Absent /\ pc[guard] = "cache")

Inv == Typed /\ Holders /\ FilesInv /\ TargetInv /\ CacheInv
-----------------------------------------------------------------------------
(***************************************************************************)
(* Results and steps                                                       *)
(***************************************************************************)
\* Result answers with a file, whose list follows from the kind of the call.
LEMMA ResultIs ==
  ASSUME NEW o \in Op, NEW file \in File
  PROVE  /\ Result(o, file) \in File
         /\ o.kind = "load" => Result(o, file).ids = file.ids
         /\ o.kind = "save" => Result(o, file).ids = file.ids \cup o.ids
         /\ o.kind = "delete" => Result(o, file).ids = file.ids \ o.ids
  <1>1. o.kind \in {"load", "save", "delete"} /\ o.ids \in Lists
    BY DEF Op
  <1>2. file.ids \in Lists /\ file.plain \in BOOLEAN
    BY DEF File
  <1>3. CASE o.kind = "load"
    <2>1. Result(o, file) = [file EXCEPT !.plain = FALSE]
      BY <1>3 DEF Result
    <2> QED
      BY <1>2, <1>3, <2>1 DEF File
  <1>4. CASE o.kind = "save"
    <2>1. Result(o, file) = [file EXCEPT !.ids = @ \cup o.ids]
      BY <1>4 DEF Result
    <2>2. file.ids \cup o.ids \in Lists
      BY <1>1, <1>2 DEF Lists
    <2> QED
      BY <1>2, <1>4, <2>1, <2>2 DEF File
  <1>5. CASE o.kind = "delete"
    <2>1. Result(o, file) = [ids |-> file.ids \ o.ids, plain |-> FALSE]
      BY <1>5 DEF Result
    <2>2. file.ids \ o.ids \in Lists
      BY <1>1, <1>2 DEF Lists
    <2> QED
      BY <1>5, <2>1, <2>2 DEF File
  <1> QED
    BY <1>1, <1>3, <1>4, <1>5

\* The list of a result depends on the list alone.
LEMMA ResultOfList ==
  ASSUME NEW o \in Op, NEW a \in File, NEW b \in File, a.ids = b.ids
  PROVE  Result(o, a).ids = Result(o, b).ids
  <1>1. o.kind \in {"load", "save", "delete"}
    BY DEF Op
  <1> QED
    BY <1>1, ResultIs

LEMMA FilesAreFiles ==
  ASSUME Typed
  PROVE  /\ Recovered \in File
         /\ Empty \in File /\ Empty.ids = {}
         /\ [ids |-> saved, plain |-> FALSE] \in File
         /\ [ids |-> saved, plain |-> FALSE].ids = saved
         /\ Load \in Op /\ Load.kind = "load"
         /\ \A id \in Ids, k \in {"save", "delete"} :
              [kind |-> k, ids |-> {id}] \in Op /\ [kind |-> k, ids |-> {id}].kind = k
  BY DEF Typed, Recovered, Empty, File, Lists, Load, Op

\* StorageNext, by its actions.
LEMMA NextSplit ==
  ASSUME StorageNext
  PROVE  \/ Crash
         \/ \E p \in Procs :
              \/ \E k \in {"save", "delete"}, id \in Ids : BeginWrite(p, k, id)
              \/ BeginLoad(p) \/ Read(p) \/ Lock(p) \/ RemoveBackup(p) \/ Rotate(p)
              \/ Replace(p) \/ Scrub(p) \/ Cache(p) \/ Fail(p)
  BY DEF StorageNext

-----------------------------------------------------------------------------
(***************************************************************************)
(* Types                                                                   *)
(***************************************************************************)
LEMMA EndsTyped ==
  ASSUME Typed, NEW p \in Procs, Ends(p)
  PROVE  /\ pc' \in [Procs -> Steps] /\ op' \in [Procs -> Op] /\ target' \in [Procs -> File]
         /\ guard' \in Procs \cup {Absent} /\ lock' \in Procs \cup {Absent}
  <1>1. Load \in Op /\ Empty \in File
    BY FilesAreFiles
  <1> QED
    BY <1>1 DEF Typed, Ends, Steps

LEMMA TypedStep ==
  ASSUME Typed, StorageNext
  PROVE  Typed'
  <1>0. /\ Recovered \in File /\ Empty \in File /\ Load \in Op
        /\ [ids |-> saved, plain |-> FALSE] \in File
        /\ \A id \in Ids, k \in {"save", "delete"} : [kind |-> k, ids |-> {id}] \in Op
    BY FilesAreFiles
  <1>c. cuts \in 0 .. 2
    BY DEF Typed
  <1>1. ASSUME Crash PROVE Typed'
    <2>1. cuts' \in 0 .. 2
      BY <1>1, <1>c DEF Crash, Cut
    <2> QED
      BY <1>0, <1>1, <2>1 DEF Crash, Typed, Steps, files
  <1>2. ASSUME NEW p \in Procs, NEW k \in {"save", "delete"}, NEW id \in Ids, BeginWrite(p, k, id)
        PROVE  Typed'
    <2>1. op' \in [Procs -> Op]
      BY <1>0, <1>2 DEF BeginWrite, Typed
    <2> QED
      BY <1>2, <2>1 DEF BeginWrite, Typed, Steps, files
  <1>3. ASSUME NEW p \in Procs, BeginLoad(p) PROVE Typed'
    BY <1>3 DEF BeginLoad, Typed, Steps, files
  <1>4. ASSUME NEW p \in Procs, Read(p) PROVE Typed'
    <2>1. Result(op[p], Recovered) \in File
      BY <1>0, ResultIs DEF Typed
    <2> QED
      BY <1>4, <2>1 DEF Read, Typed, Steps, files
  <1>5. ASSUME NEW p \in Procs, Lock(p) PROVE Typed'
    BY <1>5 DEF Lock, Goes, Typed, Steps, files
  <1>6. ASSUME NEW p \in Procs, RemoveBackup(p) PROVE Typed'
    BY <1>6 DEF RemoveBackup, Goes, Typed, Steps
  <1>7. ASSUME NEW p \in Procs, Rotate(p) PROVE Typed'
    BY <1>7 DEF Rotate, Goes, Typed, Steps
  <1>8. ASSUME NEW p \in Procs, Replace(p) PROVE Typed'
    <2>1. Result(op[p], [ids |-> saved, plain |-> FALSE]).ids \in Lists
      BY <1>0, ResultIs DEF Typed, File
    <2>2. cuts' \in 0 .. 2
      BY <1>8, <1>c DEF Replace
    <2>3. saved' \in Lists
      BY <1>8, <2>1 DEF Replace
    <2> QED
      BY <1>8, <2>2, <2>3 DEF Replace, Goes, Typed, Steps
  <1>9. ASSUME NEW p \in Procs, Scrub(p) PROVE Typed'
    BY <1>9 DEF Scrub, Goes, Typed, Steps
  <1>10. ASSUME NEW p \in Procs, Cache(p) PROVE Typed'
    <2>1. cache' \in File \cup {Absent}
      BY <1>10 DEF Cache, Caches, Typed
    <2> QED
      BY <1>10, <2>1, EndsTyped DEF Cache, Typed, files
  <1>11. ASSUME NEW p \in Procs, Fail(p) PROVE Typed'
    <2>1. cuts' \in 0 .. 2
      BY <1>11, <1>c DEF Fail, Cut
    <2>2. primary' \in File \cup {Absent} /\ backup' \in File \cup {Absent}
      BY <1>11 DEF Fail, Typed, files
    <2> QED
      BY <1>11, <2>1, <2>2, EndsTyped DEF Fail, Typed
  <1> QED
    BY NextSplit, <1>1, <1>2, <1>3, <1>4, <1>5, <1>6, <1>7, <1>8, <1>9, <1>10, <1>11

-----------------------------------------------------------------------------
(***************************************************************************)
(* The lock and the guard                                                  *)
(***************************************************************************)
LEMMA EndsPoint ==
  ASSUME Typed, NEW p \in Procs, Ends(p)
  PROVE  /\ pc'[p] = "idle" /\ op'[p].kind = "load"
         /\ \A x \in Procs \ {p} : pc'[x] = pc[x] /\ op'[x] = op[x] /\ target'[x] = target[x]
         /\ guard' # p /\ lock' # p
         /\ guard # p => guard' = guard
         /\ lock # p => lock' = lock
  BY HolderAssumption DEF Typed, Ends, Load

LEMMA HoldersStep ==
  ASSUME Typed, Holders, StorageNext
  PROVE  Holders'
  <1>1. ASSUME Crash PROVE Holders'
    BY <1>1, HolderAssumption DEF Crash, Holders, Load
  <1>2. ASSUME NEW p \in Procs, NEW k \in {"save", "delete"}, NEW id \in Ids, BeginWrite(p, k, id)
        PROVE  Holders'
    <2>1. op'[p].kind = k /\ \A x \in Procs \ {p} : op'[x] = op[x]
      BY <1>2 DEF BeginWrite, Typed
    <2> QED
      BY <1>2, <2>1, HolderAssumption DEF BeginWrite, Typed, Holders, files
  <1>3. ASSUME NEW p \in Procs, BeginLoad(p) PROVE Holders'
    BY <1>3 DEF BeginLoad, Typed, Holders
  <1>4. ASSUME NEW p \in Procs, Read(p) PROVE Holders'
    BY <1>4 DEF Read, Typed, Holders
  <1>5. ASSUME NEW p \in Procs, Lock(p) PROVE Holders'
    BY <1>5, HolderAssumption DEF Lock, Goes, Typed, Holders
  <1>6. ASSUME NEW p \in Procs, RemoveBackup(p) PROVE Holders'
    BY <1>6 DEF RemoveBackup, Goes, Typed, Holders
  <1>7. ASSUME NEW p \in Procs, Rotate(p) PROVE Holders'
    BY <1>7 DEF Rotate, Goes, Typed, Holders
  <1>8. ASSUME NEW p \in Procs, Replace(p) PROVE Holders'
    BY <1>8, HolderAssumption DEF Replace, Goes, Typed, Holders
  <1>9. ASSUME NEW p \in Procs, Scrub(p) PROVE Holders'
    BY <1>9 DEF Scrub, Goes, Typed, Holders
  <1>10. ASSUME NEW p \in Procs, Ends(p) PROVE Holders'
    <2>1. ASSUME NEW x \in Procs, x # p PROVE (lock' = x <=> lock = x) /\ (guard' = x <=> guard = x)
      BY <1>10, <2>1, HolderAssumption DEF Ends
    <2>2. lock' # p /\ guard' # p /\ pc'[p] = "idle" /\ op'[p].kind = "load"
      BY <1>10, EndsPoint
    <2>3. ASSUME NEW x \in Procs, x # p PROVE pc'[x] = pc[x] /\ op'[x] = op[x]
      BY <1>10, <2>3, EndsPoint
    <2> QED
      BY <2>1, <2>2, <2>3 DEF Holders
  <1> QED
    BY NextSplit, <1>1, <1>2, <1>3, <1>4, <1>5, <1>6, <1>7, <1>8, <1>9, <1>10 DEF Cache, Fail

-----------------------------------------------------------------------------
(***************************************************************************)
(* The files                                                               *)
(***************************************************************************)
\* Two cuts in a row are not forgotten: Crash and Fail count one, Replace forgets one.
LEMMA CutsOnly ==
  ASSUME Typed, StorageNext, cuts' < 2
  PROVE  cuts < 2
  <1>1. cuts \in 0 .. 2
    BY DEF Typed
  <1>2. Cut \/ cuts' = cuts \/ cuts' = IF cuts = 1 THEN 0 ELSE cuts
    BY NextSplit DEF Crash, BeginWrite, BeginLoad, Read, Lock, RemoveBackup, Rotate,
                     Replace, Scrub, Cache, Fail
  <1> QED
    BY <1>1, <1>2 DEF Cut

LEMMA SoundBack ==
  ASSUME Typed, StorageNext, Sound'
  PROVE  Sound
  <1>1. cuts' < 2 => cuts < 2
    BY NextSplit, CutsOnly
  <1>2. ~clobbered' => ~clobbered
    BY NextSplit DEF Crash, BeginWrite, BeginLoad, Read, Lock, RemoveBackup, Rotate,
                     Replace, Scrub, Cache, Fail
  <1> QED
    BY <1>1, <1>2 DEF Sound

\* An end outside of the writing leaves the files and the lock to their holder.
LEMMA EndsAside ==
  ASSUME Typed, Holders, FilesInv, Sound, NEW p \in Procs, Ends(p),
         UNCHANGED <<files, cuts, clobbered, saved>>, lock # p
  PROVE  FilesInv'
  <1>1. lock' = lock /\ (lock # Absent => pc'[lock] = pc[lock])
    BY EndsPoint DEF Typed
  <1>2. (Unlocked <=> Unlocked') /\ (Rotating <=> Rotating') /\ (Replacing <=> Replacing')
    BY DEF Unlocked, Recovered, Rotating, Replacing, files
  <1> QED
    BY <1>1, <1>2 DEF FilesInv, Sound

LEMMA FilesStep ==
  ASSUME Inv, StorageNext
  PROVE  FilesInv'
  <1> SUFFICES ASSUME Sound' PROVE FilesInv'
    BY DEF FilesInv
  <1>t. Typed /\ Holders /\ FilesInv /\ TargetInv /\ Typed' /\ Holders'
    BY TypedStep, HoldersStep DEF Inv
  <1>s. Sound
    BY <1>t, SoundBack
  <1>n. Absent \notin Procs /\ Absent \notin File
    BY HolderAssumption, FileAssumption
  <1>same. ASSUME UNCHANGED <<files, lock, saved, cuts, clobbered>>,
                  lock # Absent => pc'[lock] = pc[lock]
           PROVE  FilesInv'
    <2>1. (Unlocked <=> Unlocked') /\ (Rotating <=> Rotating') /\ (Replacing <=> Replacing')
      BY <1>same DEF Unlocked, Recovered, Rotating, Replacing, files
    <2> QED
      BY <1>same, <1>t, <2>1 DEF FilesInv, Sound
  <1>1. ASSUME Crash PROVE FilesInv'
    <2>1. lock' = Absent /\ UNCHANGED <<primary, backup, saved>> /\ cuts' < 2
      BY <1>1 DEF Crash, files, Sound
    <2>2. Unlocked'
      <3>1. CASE lock = Absent \/ pc[lock] = "remove"
        BY <1>1, <1>s, <1>t, <2>1, <3>1 DEF Crash, FilesInv, Unlocked, Recovered, Cut, Typed
      <3>2. CASE lock # Absent /\ pc[lock] = "rotate"
        BY <1>1, <1>s, <1>t, <2>1, <3>2 DEF FilesInv, Unlocked, Rotating, Recovered
      <3>3. CASE lock # Absent /\ pc[lock] = "replace"
        <4>1. Replacing
          BY <1>s, <1>t, <3>3 DEF FilesInv
        <4>2. primary = Absent => cuts' = cuts + 1 /\ cuts = 0
          BY <1>1, <1>t, <2>1, <3>3 DEF Crash, Cut, Typed
        <4> QED
          BY <2>1, <4>1, <4>2 DEF Replacing, Unlocked, Recovered, Empty
      <3>4. lock # Absent => pc[lock] \in {"remove", "rotate", "replace"}
        BY <1>t DEF Typed, Holders
      <3> QED
        BY <3>1, <3>2, <3>3, <3>4
    <2> QED
      BY <2>1, <2>2 DEF FilesInv
  <1>2. ASSUME NEW p \in Procs, NEW k \in {"save", "delete"}, NEW id \in Ids, BeginWrite(p, k, id)
        PROVE  FilesInv'
    BY <1>2, <1>t, <1>same DEF BeginWrite, Typed, Holders
  <1>3. ASSUME NEW p \in Procs, BeginLoad(p) PROVE FilesInv'
    BY <1>3, <1>t, <1>same DEF BeginLoad, Typed, Holders
  <1>4. ASSUME NEW p \in Procs, Read(p) PROVE FilesInv'
    BY <1>4, <1>t, <1>same DEF Read
  <1>5. ASSUME NEW p \in Procs, Lock(p) PROVE FilesInv'
    <2>1. Unlocked
      BY <1>5, <1>s, <1>t DEF Lock, FilesInv
    <2>2. Unlocked'
      BY <1>5, <2>1 DEF Lock, Unlocked, Recovered, files
    <2>3. lock' = p /\ pc'[p] = "remove"
      BY <1>5, <1>t DEF Lock, Goes, Typed
    <2> QED
      BY <1>n, <2>2, <2>3 DEF FilesInv
  <1>6. ASSUME NEW p \in Procs, RemoveBackup(p) PROVE FilesInv'
    <2>1. lock = p /\ lock' = p /\ p # Absent /\ Unlocked
      BY <1>6, <1>s, <1>t, <1>n DEF RemoveBackup, Holders, FilesInv
    <2>2. backup' = Absent /\ UNCHANGED <<primary, saved, cuts>>
      BY <1>6 DEF RemoveBackup
    <2>3. CASE primary # Absent /\ op[p].kind # "load"
      <3>1. pc'[p] = "rotate"
        BY <1>6, <1>t, <2>3 DEF RemoveBackup, Goes, Typed
      <3> QED
        BY <2>1, <2>2, <2>3, <3>1 DEF FilesInv, Rotating, Unlocked, Recovered
    <2>4. CASE ~(primary # Absent /\ op[p].kind # "load")
      <3>1. pc'[p] = "replace"
        BY <1>6, <1>t, <2>4 DEF RemoveBackup, Goes, Typed
      <3>2. primary = Absent /\ cuts = 0 => saved = {}
        BY <2>1 DEF Unlocked, Recovered, Empty
      <3>3. cuts = 0 \/ cuts = 1
        BY <1>s, <1>t DEF Sound, Typed
      <3>4. primary # Absent => primary.ids = saved
        BY <2>1 DEF Unlocked, Recovered
      <3>5. Replacing'
        BY <2>2, <3>2, <3>3, <3>4 DEF Replacing
      <3> QED
        BY <2>1, <3>1, <3>5 DEF FilesInv
    <2> QED
      BY <2>3, <2>4
  <1>7. ASSUME NEW p \in Procs, Rotate(p) PROVE FilesInv'
    <2>1. lock = p /\ lock' = p /\ p # Absent /\ Rotating
      BY <1>7, <1>s, <1>t, <1>n DEF Rotate, Holders, FilesInv
    <2>2. pc'[p] = "replace"
      BY <1>7, <1>t DEF Rotate, Goes, Typed
    <2>3. Replacing'
      BY <1>7, <2>1 DEF Rotate, Rotating, Replacing
    <2> QED
      BY <2>1, <2>2, <2>3 DEF FilesInv
  <1>8. ASSUME NEW p \in Procs, Replace(p) PROVE FilesInv'
    <2>1. lock' = Absent /\ primary' = target[p] /\ target[p] \in File
      BY <1>8, <1>t DEF Replace, Typed
    <2>2. primary' # Absent /\ Recovered' = target[p]
      BY <1>n, <2>1 DEF Recovered
    <2> DEFINE last == [ids |-> saved, plain |-> FALSE]
    <2>3. last \in File /\ last.ids = saved /\ op[p] \in Op
      BY <1>t, FilesAreFiles DEF Typed
    <2>4. saved' = Result(op[p], last).ids
      BY <1>8 DEF Replace
    <2> HIDE DEF last
    <2>5. CASE op[p].kind = "load"
      <3>1. saved' = saved
        BY <2>3, <2>4, <2>5, ResultIs
      <3>2. target[p].ids = saved
        BY <1>8, <2>5 DEF Replace, Sound
      <3> QED
        BY <2>1, <2>2, <3>1, <3>2 DEF FilesInv, Unlocked
    <2>6. CASE op[p].kind # "load"
      <3>1. guard = p
        BY <1>t, <2>6 DEF Holders
      <3>2. target[p].ids = Result(op[p], last).ids
        BY <1>8, <1>s, <1>t, <3>1 DEF Replace, TargetInv, last
      <3> QED
        BY <2>1, <2>2, <2>4, <3>2 DEF FilesInv, Unlocked
    <2> QED
      BY <2>5, <2>6
  <1>9. ASSUME NEW p \in Procs, Scrub(p) PROVE FilesInv'
    <2>1. primary # Absent /\ backup' = Absent /\ UNCHANGED <<primary, lock, saved, cuts>>
      BY <1>9 DEF Scrub, Sound
    <2>2. lock # p /\ (lock # Absent => pc'[lock] = pc[lock])
      BY <1>9, <1>t DEF Scrub, Goes, Typed, Holders
    <2>3. (Unlocked => Unlocked') /\ (Rotating => Rotating') /\ (Replacing => Replacing')
      BY <2>1 DEF Unlocked, Recovered, Rotating, Replacing
    <2> QED
      BY <1>s, <1>t, <2>1, <2>2, <2>3 DEF FilesInv
  <1>10. ASSUME NEW p \in Procs, Cache(p) PROVE FilesInv'
    <2>1. lock # p
      BY <1>10, <1>t DEF Cache, Holders
    <2> QED
      BY <1>10, <1>s, <1>t, <2>1, EndsAside DEF Cache
  <1>11. ASSUME NEW p \in Procs, Fail(p) PROVE FilesInv'
    <2>1. CASE lock # p
      <3>1. pc[p] # "replace"
        BY <1>t, <2>1 DEF Holders
      <3>2. UNCHANGED <<files, cuts, clobbered, saved>>
        BY <1>11, <3>1 DEF Fail
      <3> QED
        BY <1>11, <1>s, <1>t, <2>1, <3>2, EndsAside DEF Fail
    <2>2. CASE lock = p
      <3>1. lock' = Absent /\ saved' = saved /\ p # Absent
        BY <1>11, <1>n, <2>2 DEF Fail, Ends
      <3>2. pc[p] \in {"remove", "rotate", "replace"}
        BY <1>t, <2>2 DEF Holders
      <3>3. CASE pc[p] = "remove"
        <4>1. Unlocked /\ UNCHANGED <<primary, backup, cuts>>
          BY <1>11, <1>s, <1>t, <2>2, <3>3 DEF FilesInv, Fail, files
        <4> QED
          BY <3>1, <4>1 DEF FilesInv, Unlocked, Recovered
      <3>4. CASE pc[p] = "rotate"
        <4>1. Rotating /\ UNCHANGED <<primary, backup, cuts>>
          BY <1>11, <1>s, <1>t, <2>2, <3>1, <3>4 DEF FilesInv, Fail, files
        <4> QED
          BY <3>1, <4>1 DEF FilesInv, Unlocked, Rotating, Recovered
      <3>5. CASE pc[p] = "replace"
        <4>1. Replacing
          BY <1>s, <1>t, <2>2, <3>1, <3>5 DEF FilesInv
        <4>2. CASE primary = Absent /\ backup # Absent /\ primary' = backup /\ backup' = Absent
          BY <3>1, <4>1, <4>2 DEF FilesInv, Replacing, Unlocked, Recovered
        <4>3. CASE UNCHANGED files /\ IF primary = Absent THEN Cut ELSE cuts' = cuts
          <5>1. UNCHANGED <<primary, backup>> /\ cuts' < 2
            BY <4>3 DEF files, Sound
          <5>2. primary = Absent => cuts' = cuts + 1 /\ cuts = 0
            BY <1>t, <4>3, <5>1 DEF Cut, Typed
          <5>3. Unlocked'
            BY <3>1, <4>1, <5>1, <5>2 DEF Replacing, Unlocked, Recovered, Empty
          <5> QED
            BY <3>1, <5>3 DEF FilesInv
        <4> QED
          BY <1>11, <3>5, <4>2, <4>3 DEF Fail
      <3> QED
        BY <3>2, <3>3, <3>4, <3>5
    <2> QED
      BY <2>1, <2>2
  <1> QED
    BY NextSplit, <1>1, <1>2, <1>3, <1>4, <1>5, <1>6, <1>7, <1>8, <1>9, <1>10, <1>11

-----------------------------------------------------------------------------
(***************************************************************************)
(* What writes are about to write, and the cache                           *)
(***************************************************************************)
\* Only the last rename of a write by the holder of the guard changes the list that
\* counts.
LEMMA SavedChanges ==
  ASSUME Typed, Holders, StorageNext, saved' # saved
  PROVE  \E p \in Procs : guard = p /\ Replace(p)
  <1>1. PICK p \in Procs : Replace(p)
    BY NextSplit DEF Crash, BeginWrite, BeginLoad, Read, Lock, RemoveBackup, Rotate,
                     Replace, Scrub, Cache, Fail
  <1> DEFINE last == [ids |-> saved, plain |-> FALSE]
  <1>2. last \in File /\ last.ids = saved /\ op[p] \in Op
    BY FilesAreFiles DEF Typed
  <1>3. saved' = Result(op[p], last).ids
    BY <1>1 DEF Replace
  <1> HIDE DEF last
  <1>4. op[p].kind # "load"
    BY <1>2, <1>3, ResultIs
  <1> QED
    BY <1>1, <1>4 DEF Holders

LEMMA TargetStep ==
  ASSUME Inv, StorageNext
  PROVE  TargetInv'
  <1> SUFFICES ASSUME Sound', NEW x \in Procs, guard' = x
               PROVE  /\ pc'[x] \in {"lock", "remove", "rotate", "replace"} =>
                           target'[x].ids = Result(op'[x], [ids |-> saved', plain |-> FALSE]).ids
                      /\ pc'[x] = "cache" => target'[x].ids = saved'
    BY DEF TargetInv, Result
  <1>t. Typed /\ Holders /\ FilesInv /\ TargetInv
    BY DEF Inv
  <1>s. Sound
    BY <1>t, SoundBack DEF Inv
  <1>n. Absent \notin Procs
    BY HolderAssumption
  <1>f. /\ Recovered \in File
        /\ [ids |-> saved, plain |-> FALSE] \in File /\ [ids |-> saved, plain |-> FALSE].ids = saved
    BY <1>t, FilesAreFiles
  <1>same. ASSUME guard = x, UNCHANGED <<op[x], target[x], saved>>,
                  pc'[x] # pc[x] => pc[x] \in {"lock", "remove", "rotate"} /\ pc'[x] # "cache"
           PROVE  /\ pc'[x] \in {"lock", "remove", "rotate", "replace"} =>
                       target'[x].ids = Result(op'[x], [ids |-> saved', plain |-> FALSE]).ids
                  /\ pc'[x] = "cache" => target'[x].ids = saved'
    BY <1>same, <1>s, <1>t DEF TargetInv
  <1>aside. ASSUME NEW p \in Procs \ {x}, guard = x, saved' = saved, pc'[x] = pc[x],
                   op'[x] = op[x], target'[x] = target[x]
            PROVE  /\ pc'[x] \in {"lock", "remove", "rotate", "replace"} =>
                        target'[x].ids = Result(op'[x], [ids |-> saved', plain |-> FALSE]).ids
                   /\ pc'[x] = "cache" => target'[x].ids = saved'
    BY <1>aside, <1>same
  <1>1. ~Crash
    BY <1>n DEF Crash
  <1>2. ASSUME NEW p \in Procs, NEW k \in {"save", "delete"}, NEW id \in Ids, BeginWrite(p, k, id)
        PROVE  pc'[x] = "read"
    BY <1>2, <1>t DEF BeginWrite, Typed
  <1>3. ASSUME NEW p \in Procs, BeginLoad(p)
        PROVE  guard = x /\ p # x /\ saved' = saved /\ pc'[x] = pc[x] /\ op'[x] = op[x]
               /\ target'[x] = target[x]
    BY <1>3, <1>t DEF BeginLoad, Typed, Holders
  <1>4. ASSUME NEW p \in Procs, Read(p), p # x
        PROVE  guard = x /\ saved' = saved /\ pc'[x] = pc[x] /\ op'[x] = op[x]
               /\ target'[x] = target[x]
    BY <1>4, <1>t DEF Read, Typed
  <1>5. ASSUME Read(x)
        PROVE  target'[x].ids = Result(op'[x], [ids |-> saved', plain |-> FALSE]).ids
               /\ pc'[x] # "cache"
    <2>1. lock = Absent /\ Recovered.ids = saved
      BY <1>5, <1>s, <1>t DEF Read, FilesInv, Unlocked
    <2>2. guard = x /\ op[x].kind # "load" /\ op[x] \in Op
      BY <1>5, <1>t DEF Read, Holders, Typed
    <2>3. target'[x] = Result(op[x], Recovered) /\ op'[x] = op[x] /\ saved' = saved
      BY <1>5, <1>t DEF Read, Typed
    <2>4. pc'[x] = "lock"
      BY <1>5, <1>t, <2>2 DEF Read, Typed
    <2>5. Result(op[x], Recovered).ids = Result(op[x], [ids |-> saved, plain |-> FALSE]).ids
      BY <1>f, <2>1, <2>2, ResultOfList
    <2> QED
      BY <2>3, <2>4, <2>5
  <1>6. ASSUME NEW p \in Procs, Lock(p) \/ RemoveBackup(p) \/ Rotate(p)
        PROVE  /\ guard = x /\ UNCHANGED <<op[x], target[x], saved>>
               /\ pc'[x] # pc[x] => pc[x] \in {"lock", "remove", "rotate"} /\ pc'[x] # "cache"
    BY <1>6, <1>t DEF Lock, RemoveBackup, Rotate, Goes, Typed
  <1>7. ASSUME NEW p \in Procs, Replace(p), p # x
        PROVE  guard = x /\ saved' = saved /\ pc'[x] = pc[x] /\ op'[x] = op[x]
               /\ target'[x] = target[x]
    <2>1. guard = x /\ pc'[x] = pc[x] /\ op'[x] = op[x] /\ target'[x] = target[x]
      BY <1>7, <1>t DEF Replace, Goes, Typed
    <2> DEFINE last == [ids |-> saved, plain |-> FALSE]
    <2>2. op[p].kind = "load" /\ op[p] \in Op
      BY <1>7, <1>t, <2>1 DEF Holders, Typed
    <2>3. saved' = Result(op[p], last).ids
      BY <1>7 DEF Replace
    <2>4. last \in File /\ last.ids = saved
      BY <1>f
    <2> HIDE DEF last
    <2> QED
      BY <2>1, <2>2, <2>3, <2>4, ResultIs
  <1>8. ASSUME Replace(x)
        PROVE  pc'[x] = "cache" /\ target'[x].ids = saved'
    <2>1. guard = x /\ op[x].kind # "load"
      BY <1>8, <1>t DEF Replace, Holders
    <2>2. pc'[x] = "cache" /\ target'[x] = target[x]
      BY <1>8, <1>t, <2>1 DEF Replace, Goes, Typed
    <2>3. target[x].ids = Result(op[x], [ids |-> saved, plain |-> FALSE]).ids
      BY <1>8, <1>s, <1>t, <2>1 DEF Replace, TargetInv
    <2> QED
      BY <1>8, <2>2, <2>3 DEF Replace
  <1>9. ASSUME NEW p \in Procs, Scrub(p)
        PROVE  guard = x /\ p # x /\ saved' = saved /\ pc'[x] = pc[x] /\ op'[x] = op[x]
               /\ target'[x] = target[x]
    BY <1>9, <1>t DEF Scrub, Goes, Typed, Holders
  <1>10. ASSUME NEW p \in Procs, Cache(p) \/ Fail(p)
         PROVE  guard = x /\ p # x /\ saved' = saved /\ pc'[x] = pc[x] /\ op'[x] = op[x]
                /\ target'[x] = target[x]
    <2>1. Ends(p) /\ saved' = saved
      BY <1>10 DEF Cache, Fail
    <2>2. p # x
      BY <2>1, <1>t, EndsPoint
    <2>3. guard = x
      BY <2>1, <1>n DEF Ends
    <2> QED
      BY <1>t, <2>1, <2>2, <2>3, EndsPoint
  <1>11. ASSUME NEW p \in Procs, Read(p) \/ Replace(p)
         PROVE  /\ pc'[x] \in {"lock", "remove", "rotate", "replace"} =>
                     target'[x].ids = Result(op'[x], [ids |-> saved', plain |-> FALSE]).ids
                /\ pc'[x] = "cache" => target'[x].ids = saved'
    BY <1>11, <1>4, <1>5, <1>7, <1>8, <1>aside
  <1>12. ASSUME NEW p \in Procs, BeginLoad(p) \/ Scrub(p) \/ Cache(p) \/ Fail(p)
         PROVE  /\ pc'[x] \in {"lock", "remove", "rotate", "replace"} =>
                     target'[x].ids = Result(op'[x], [ids |-> saved', plain |-> FALSE]).ids
                /\ pc'[x] = "cache" => target'[x].ids = saved'
    BY <1>12, <1>3, <1>9, <1>10, <1>aside
  <1> QED
    BY NextSplit, <1>1, <1>2, <1>6, <1>11, <1>12, <1>same

LEMMA CacheStep ==
  ASSUME Inv, StorageNext
  PROVE  CacheInv'
  <1> SUFFICES ASSUME Sound', ~overtaken', cache' # Absent,
                      ~(guard' # Absent /\ pc'[guard'] = "cache")
               PROVE  cache'.ids = saved'
    BY DEF CacheInv
  <1>t. Typed /\ Holders /\ TargetInv /\ CacheInv
    BY DEF Inv
  <1>s. Sound
    BY <1>t, SoundBack DEF Inv
  <1>n. Absent \notin Procs
    BY HolderAssumption
  <1>1. ASSUME NEW p \in Procs, Cache(p)
        PROVE  cache'.ids = saved'
    <2>1. op[p].kind # "delete" /\ cache' = target[p] /\ saved' = saved
      BY <1>1 DEF Cache, Caches
    <2>2. CASE op[p].kind = "load"
      BY <1>1, <2>1, <2>2 DEF Cache
    <2>3. CASE op[p].kind # "load"
      BY <1>1, <1>s, <1>t, <2>1, <2>3 DEF Cache, Holders, TargetInv
    <2> QED
      BY <2>2, <2>3
  <1>2. ASSUME ~\E p \in Procs : Cache(p)
        PROVE  cache'.ids = saved'
    <2>1. cache' = cache /\ overtaken' = overtaken
      BY <1>2, NextSplit DEF Crash, BeginWrite, BeginLoad, Read, Lock, RemoveBackup, Rotate,
                             Replace, Scrub, Fail
    <2>2. cache.ids = saved \/ (guard # Absent /\ pc[guard] = "cache")
      BY <1>s, <1>t, <2>1 DEF CacheInv
    <2>3. saved' = saved
      <3>1. ASSUME NEW p \in Procs, guard = p, Replace(p) PROVE FALSE
        BY <1>t, <1>n, <3>1 DEF Replace, Goes, Holders, Typed
      <3> QED
        BY <1>t, <3>1, SavedChanges
    <2>4. ~(guard # Absent /\ pc[guard] = "cache")
      <3> SUFFICES ASSUME guard \in Procs, pc[guard] = "cache" PROVE FALSE
        BY <1>t DEF Typed
      <3>1. ~Crash
        BY <2>1 DEF Crash
      <3>2. guard' = guard /\ pc'[guard] = "cache"
        <4>1. ASSUME NEW p \in Procs, Fail(p) PROVE guard' = guard /\ pc'[guard] = "cache"
          <5>1. Ends(p) /\ p # guard
            BY <4>1 DEF Fail
          <5> QED
            BY <1>t, <5>1, EndsPoint
        <4>2. ASSUME NEW p \in Procs, NEW k \in {"save", "delete"}, NEW id \in Ids, BeginWrite(p, k, id)
              PROVE  FALSE
          BY <4>2, <1>n DEF BeginWrite
        <4>3. ASSUME NEW p \in Procs,
                     BeginLoad(p) \/ Read(p) \/ Lock(p) \/ RemoveBackup(p) \/ Rotate(p)
                     \/ Replace(p) \/ Scrub(p)
              PROVE  guard' = guard /\ pc'[guard] = "cache"
          BY <1>t, <4>3 DEF BeginLoad, Read, Lock, RemoveBackup, Rotate, Replace, Scrub,
                            Goes, Typed
        <4> QED
          BY <1>2, <3>1, <4>1, <4>2, <4>3, NextSplit
      <3> QED
        BY <1>n, <3>2
    <2> QED
      BY <2>1, <2>2, <2>3, <2>4
  <1> QED
    BY <1>1, <1>2

-----------------------------------------------------------------------------
(***************************************************************************)
(* The theorems                                                            *)
(***************************************************************************)
LEMMA InitInv ==
  ASSUME StorageInit
  PROVE  Inv
  <1>1. Empty \in File /\ Load \in Op /\ Load.kind = "load" /\ Empty.ids = {}
    BY DEF Empty, Load, File, Op, Lists
  <1>2. Recovered \in File
    BY <1>1 DEF StorageInit, Recovered
  <1>3. Typed
    <2>1. saved \in Lists
      <3>1. saved = Recovered.ids
        BY DEF StorageInit
      <3> QED
        BY <1>2, <3>1 DEF File
    <2>2. cuts \in 0 .. 2
      BY DEF StorageInit
    <2>5. clobbered \in BOOLEAN /\ overtaken \in BOOLEAN
      BY DEF StorageInit
    <2>3. /\ primary \in File \cup {Absent} /\ backup \in File \cup {Absent}
          /\ lock \in Procs \cup {Absent} /\ guard \in Procs \cup {Absent}
          /\ cache \in File \cup {Absent}
      BY DEF StorageInit
    <2>4. pc \in [Procs -> Steps] /\ op \in [Procs -> Op] /\ target \in [Procs -> File]
      BY <1>1 DEF StorageInit, Steps
    <2> QED
      BY <2>1, <2>2, <2>3, <2>4, <2>5 DEF Typed
  <1>4. Holders
    BY <1>1, HolderAssumption DEF StorageInit, Holders
  <1>5. FilesInv
    BY DEF StorageInit, FilesInv, Unlocked
  <1>6. TargetInv /\ CacheInv
    BY HolderAssumption DEF StorageInit, TargetInv, CacheInv
  <1> QED
    BY <1>3, <1>4, <1>5, <1>6 DEF Inv

LEMMA NextInv ==
  ASSUME Inv, [StorageNext]_storage
  PROVE  Inv'
  <1>1. CASE StorageNext
    BY <1>1, TypedStep, HoldersStep, FilesStep, TargetStep, CacheStep DEF Inv
  <1>2. CASE UNCHANGED storage
    <2>1. Typed' /\ Holders'
      BY <1>2 DEF Inv, storage, files, call, Typed, Holders
    <2>2. FilesInv' /\ TargetInv' /\ CacheInv'
      BY <1>2 DEF Inv, storage, files, call, FilesInv, TargetInv, CacheInv, Sound, Unlocked,
                  Rotating, Replacing, Recovered, Result
    <2> QED
      BY <2>1, <2>2 DEF Inv
  <1> QED
    BY <1>1, <1>2

\* The invariant of connection_storage.rs and file_storage.rs holds in every state.
THEOREM Invariance == StorageSpec => []Inv
  <1>1. StorageInit => Inv
    BY InitInv
  <1>2. Inv /\ [StorageNext]_storage => Inv'
    BY NextInv
  <1> QED
    BY <1>1, <1>2, PTL DEF StorageSpec

\* However many calls and connections: a crash between any two calls of
\* write_json_atomically_inner leaves the list of the last write to the next reader,
\* but for two cuts in a row and a load that migrates over a write.
THEOREM LastWriteSurvives == StorageSpec => []NothingIsLost
  <1>1. Inv => NothingIsLost
    BY DEF Inv, FilesInv, Unlocked, Sound, NothingIsLost
  <1> QED
    BY <1>1, Invariance, PTL

\* However many calls and connections: the cached list is the saved one when no save
\* or deletion is under way, but for the exceptions the property names.
THEOREM CacheIsSaved == StorageSpec => []CacheFollowsFile
  <1>1. Inv => CacheFollowsFile
    BY DEF Inv, CacheInv, Sound, CacheFollowsFile
  <1> QED
    BY <1>1, Invariance, PTL

-----------------------------------------------------------------------------
(***************************************************************************)
(* DatabaseSwitch: types                                                   *)
(***************************************************************************)
SwitchDb == Databases \cup {None}
Progress == [state : {"idle", "asked", "running", "done"}, asked : SwitchDb, on : SwitchDb,
             conn : Conns \cup {None}, calm : BOOLEAN]

StoreTyped ==
  /\ active \in BOOLEAN /\ keeps \in BOOLEAN /\ switching \in BOOLEAN
  /\ refused \in BOOLEAN /\ restored \in BOOLEAN
  /\ connecting \in {"no", "pending", "other", "failed"}
  /\ before \in Snapshot \cup {None} /\ starting \in 0 .. MaxStarts
  /\ connecting = "pending" => starting + 1 \in 0 .. MaxStarts
  /\ current \in SwitchDb /\ shown \in SwitchDb /\ completed \in SwitchDb /\ clicked \in SwitchDb
  /\ sequence \in 0 .. MaxSwitches /\ queue \in Seq(Switch) /\ fetching \subseteq Databases
RunTyped ==
  /\ run \in [phase : {"idle", "using", "fetching"}, n : 0 .. MaxSwitches, db : SwitchDb]
  /\ run.phase # "idle" => run.db \in Databases
UseTyped ==
  /\ use \in [phase : {"none", "started", "sent", "landed", "closing", "ok", "failed"},
              db : SwitchDb, conn : Conns \cup {None}, live : BOOLEAN]
  /\ use.phase # "none" => use.db \in Databases
PoolTyped ==
  /\ kind \in Drivers /\ recorded \in Databases /\ base \in Databases
  /\ session \in [Conns -> SwitchDb] /\ closing \subseteq Queries /\ torn \in BOOLEAN
StatementsTyped == query \in [Queries -> Progress]

SwitchTyped == StoreTyped /\ RunTyped /\ UseTyped /\ PoolTyped /\ StatementsTyped

LEMMA TypedIsTypeOK == SwitchTyped => TypeOK
  BY DEF SwitchTyped, StoreTyped, RunTyped, UseTyped, PoolTyped, StatementsTyped, TypeOK, SwitchDb,
     Progress

\* A queue loses its head and gains at its tail.
LEMMA QueueMoves ==
  ASSUME NEW S, NEW s \in Seq(S)
  PROVE  /\ \A x \in S : /\ Append(s, x) \in Seq(S) /\ Len(Append(s, x)) = Len(s) + 1
                         /\ Append(s, x)[Len(s) + 1] = x
                         /\ \A i \in 1 .. Len(s) : Append(s, x)[i] = s[i]
         /\ s # <<>> => /\ Head(s) \in S /\ Head(s) = s[1] /\ Tail(s) \in Seq(S)
                        /\ Len(s) \in Nat \ {0} /\ Len(Tail(s)) = Len(s) - 1
                        /\ \A i \in 1 .. Len(Tail(s)) : Tail(s)[i] = s[i + 1]
         /\ s = <<>> <=> Len(s) = 0
         /\ Len(s) \in Nat
  OBVIOUS

\* What a statement loses when the connection it may run on changes.
LEMMA DisturbedIs ==
  ASSUME StatementsTyped
  PROVE  /\ Disturbed \in [Queries -> Progress]
         /\ \A q \in Queries :
              /\ Disturbed[q].state = query[q].state /\ Disturbed[q].asked = query[q].asked
              /\ Disturbed[q].on = query[q].on /\ Disturbed[q].conn = query[q].conn
              /\ Disturbed[q].calm => query[q].calm /\ query[q].state # "asked"
<1>. DEFINE quiet(q) == query[q].calm /\ query[q].state \in {"idle", "done"}
<1>1. ASSUME NEW q \in Queries
      PROVE  /\ Disturbed[q] = [query[q] EXCEPT !.calm = quiet(q)]
             /\ query[q] \in Progress /\ quiet(q) \in BOOLEAN
  BY DEF Disturbed, StatementsTyped, Progress
<1>2. ASSUME NEW q \in Queries
      PROVE  /\ Disturbed[q] \in Progress
             /\ Disturbed[q].state = query[q].state /\ Disturbed[q].asked = query[q].asked
             /\ Disturbed[q].on = query[q].on /\ Disturbed[q].conn = query[q].conn
             /\ Disturbed[q].calm = quiet(q)
  <2>. HIDE DEF quiet
  <2>. QED  BY <1>1, <1>2 DEF Progress
<1>3. Disturbed \in [Queries -> Progress]
  BY <1>2 DEF Disturbed
<1>. QED  BY <1>2, <1>3

LEMMA SessionsAre ==
  ASSUME PoolTyped, NEW c \in Conns
  PROVE  SessionOf(c) \in Databases
  BY DEF PoolTyped, SwitchDb, SessionOf, Open

\* The steps of the driver and of the statements change nothing in the store.
DriverSteps ==
  \/ \E c \in Conns : UseSent(c) \/ Recycle(c)
  \/ UseLands \/ UseRecorded \/ UseSame \/ UseReplacesPool \/ UseClosed \/ UseRefused
  \/ UseDetached \/ UseTimesOut
  \/ \E q \in Queries : Ask(q) \/ End(q) \/ \E c \in Conns : Execute(q, c)

LEMMA DriverLeavesStore ==
  ASSUME DriverSteps
  PROVE  UNCHANGED <<store, clicked, refused, restored>>
  BY DEF history, DriverSteps, UseSent, Recycle, UseLands, UseRecorded, UseSame, UseReplacesPool, UseClosed,
     UseRefused, UseDetached, UseTimesOut, Ask, End, Execute, driver

StoreSteps ==
  \/ \E db \in Databases : CallSwitch(db) \/ TablesArrive(db) \/ TablesFail(db)
  \/ SkipSwitch \/ BeginSwitch \/ UseSucceeds \/ UseFails
  \/ Refresh \/ Leave \/ LeaveByForm \/ LeaveEnds \/ Reopen
  \/ StartConnect \/ Connected \/ LoadMetadata \/ ConnectFails \/ ConnectRestores

LEMMA SwitchSteps ==
  ASSUME [Next]_vars
  PROVE  StoreSteps \/ DriverSteps \/ UNCHANGED vars
  BY DEF Next, Step, StoreStep, DriverStep, FetchEnds, StoreSteps, DriverSteps

\* Who moves the switch that runs.
LEMMA RunMoves ==
  ASSUME [Next]_vars
  PROVE  \/ BeginSwitch \/ UseSucceeds \/ UseFails \/ UNCHANGED run
         \/ \E db \in Databases : TablesArrive(db) \/ TablesFail(db)
<1>1. CASE DriverSteps
  BY <1>1, DriverLeavesStore DEF store
<1>2. CASE UNCHANGED vars
  BY <1>2 DEF vars, store
<1>3. CASE StoreSteps
  BY <1>3 DEF StoreSteps, CallSwitch, SkipSwitch, Refresh, Leave, LeaveByForm, LeaveEnds, Reopen,
     StartConnect, Connected, LoadMetadata, ConnectFails, ConnectRestores
<1>. QED  BY <1>1, <1>2, <1>3, SwitchSteps

\* Who moves the command.
LEMMA UseMoves ==
  ASSUME [Next]_vars
  PROVE  \/ BeginSwitch \/ UseSucceeds \/ UseFails \/ Connected \/ UNCHANGED use
         \/ \E c \in Conns : UseSent(c)
         \/ UseLands \/ UseRecorded \/ UseSame \/ UseReplacesPool \/ UseClosed \/ UseRefused
         \/ UseTimesOut \/ UseDetached
<1>1. CASE DriverSteps
  BY <1>1 DEF DriverSteps, Recycle, Ask, End, Execute, driver
<1>2. CASE UNCHANGED vars
  BY <1>2 DEF vars, driver
<1>3. CASE StoreSteps
  BY <1>3 DEF StoreSteps, CallSwitch, SkipSwitch, Refresh, Leave, LeaveByForm, LeaveEnds, Reopen,
     StartConnect, LoadMetadata, ConnectFails, ConnectRestores, TablesArrive, TablesFail, driver
<1>. QED  BY <1>1, <1>2, <1>3, SwitchSteps

\* Who moves the pool.
pool == <<kind, recorded, base, session, closing, torn>>

LEMMA PoolMoves ==
  ASSUME [Next]_vars
  PROVE  \/ Connected \/ UNCHANGED pool
         \/ \E c \in Conns : UseSent(c) \/ Recycle(c)
         \/ UseLands \/ UseRecorded \/ UseReplacesPool \/ UseClosed \/ UseTimesOut
         \/ \E q \in Queries : End(q) \/ \E c \in Conns : Execute(q, c)
<1>1. CASE DriverSteps
  BY <1>1 DEF DriverSteps, Ask, UseSame, UseRefused, UseDetached, driver, history, pool
<1>2. CASE UNCHANGED vars
  BY <1>2 DEF vars, driver, history, pool
<1>3. CASE StoreSteps
  BY <1>3 DEF StoreSteps, CallSwitch, SkipSwitch, BeginSwitch, UseSucceeds, UseFails, Refresh,
     Leave, LeaveByForm, LeaveEnds, Reopen, StartConnect, LoadMetadata, ConnectFails,
     ConnectRestores, TablesArrive, TablesFail, driver, history, pool
<1>. QED  BY <1>1, <1>2, <1>3, SwitchSteps

\* Who moves the statements.
LEMMA StatementsMove ==
  ASSUME [Next]_vars
  PROVE  \/ Leave \/ LeaveByForm \/ Reopen \/ StartConnect \/ ConnectRestores
         \/ Connected \/ UseReplacesPool \/ UNCHANGED query
         \/ \E db \in Databases : CallSwitch(db)
         \/ \E q \in Queries : Ask(q) \/ End(q) \/ \E c \in Conns : Execute(q, c)
<1>1. CASE DriverSteps
  BY <1>1 DEF DriverSteps, UseSent, Recycle, UseLands, UseRecorded, UseSame, UseClosed, UseRefused,
     UseDetached, UseTimesOut
<1>2. CASE UNCHANGED vars
  BY <1>2 DEF vars
<1>3. CASE StoreSteps
  BY <1>3 DEF StoreSteps, SkipSwitch, BeginSwitch, UseSucceeds, UseFails, Refresh,
     LeaveEnds, LoadMetadata, ConnectFails, TablesArrive, TablesFail
<1>. QED  BY <1>1, <1>2, <1>3, SwitchSteps

LEMMA StoreStaysTyped ==
  ASSUME SwitchTyped, DatabaseAssumption, [Next]_vars
  PROVE  StoreTyped'
<1>. StoreTyped /\ RunTyped
  BY DEF SwitchTyped
<1>. USE DEF StoreTyped, SwitchDb, DatabaseAssumption
<1>1. CASE UNCHANGED <<store, clicked, refused, restored>>
  BY <1>1 DEF store, attempt
<1>2. ASSUME NEW db \in Databases, CallSwitch(db) PROVE StoreTyped'
  <2>1. [n |-> sequence + 1, db |-> db] \in Switch /\ sequence + 1 \in 0 .. MaxSwitches
    BY <1>2, BoundAssumption DEF CallSwitch, Switch
  <2>2. queue' \in Seq(Switch)
    BY <1>2, <2>1, QueueMoves DEF CallSwitch
  <2>. QED  BY <1>2, <2>1, <2>2 DEF CallSwitch, attempt
<1>3. CASE SkipSwitch \/ BeginSwitch
  <2>1. queue' \in Seq(Switch)
    <3>1. queue \in Seq(Switch) /\ queue # <<>> /\ queue' = Tail(queue)
      BY <1>3 DEF SkipSwitch, BeginSwitch
    <3>. HIDE DEF StoreTyped
    <3>. QED  BY <3>1, QueueMoves
  <2>2. UNCHANGED <<active, keeps, refused, restored, connecting, before, starting, current,
                    shown, completed, clicked, sequence, fetching>>
    <3>1. CASE SkipSwitch
      BY <3>1 DEF SkipSwitch, history, attempt
    <3>2. CASE BeginSwitch
      BY <3>2 DEF BeginSwitch, history, attempt
    <3>. QED  BY <1>3, <3>1, <3>2
  <2>3. switching' \in BOOLEAN
    BY <1>3 DEF SkipSwitch, BeginSwitch
  <2>. QED  BY <2>1, <2>2, <2>3
<1>4. CASE UseSucceeds
  <2>1. run.db \in Databases
    BY <1>4 DEF UseSucceeds, RunTyped
  <2>2. UNCHANGED <<active, keeps, connecting, before, starting, shown, completed, clicked,
                    sequence, queue>>
    BY <1>4 DEF UseSucceeds, attempt
  <2>3. current' \in SwitchDb /\ fetching' \subseteq Databases
    BY <1>4, <2>1 DEF UseSucceeds
  <2>4. switching' \in BOOLEAN /\ refused' \in BOOLEAN /\ restored' \in BOOLEAN
    BY <1>4 DEF UseSucceeds
  <2>. QED  BY <2>2, <2>3, <2>4
<1>5. CASE UseFails
  BY <1>5 DEF UseFails, attempt
<1>6. ASSUME NEW db \in Databases, TablesArrive(db) \/ TablesFail(db) PROVE StoreTyped'
  BY <1>6 DEF TablesArrive, TablesFail, SwitchEnds, IsRelevant, attempt
<1>7. CASE Refresh
  BY <1>7 DEF Refresh, history, attempt
<1>8. Screen \in Snapshot
  BY DEF Screen, Snapshot
<1>9. CASE Leave \/ LeaveByForm \/ LeaveEnds \/ Reopen
  BY <1>8, <1>9 DEF Leave, LeaveByForm, LeaveEnds, Reopen, history, attempt
<1>14. CASE StartConnect
  <2>1. starting + 1 \in 0 .. MaxStarts
    BY <1>14, BoundAssumption DEF StartConnect
  <2>. QED  BY <1>8, <1>14, <2>1 DEF StartConnect
<1>10. CASE Connected
  <2>1. starting' \in 0 .. MaxStarts
    BY <1>10 DEF Connected
  <2>. QED  BY <1>10, <2>1 DEF Connected
<1>13. CASE LoadMetadata
  <2>1. /\ starting' \in 0 .. MaxStarts
        /\ connecting' = "pending" => starting' + 1 \in 0 .. MaxStarts
    BY <1>13, BoundAssumption DEF LoadMetadata
  <2>. QED  BY <1>13, <2>1 DEF LoadMetadata, history
<1>11. CASE ConnectFails
  BY <1>11 DEF ConnectFails, history
<1>12. CASE ConnectRestores
  <2>1. before \in Snapshot
    BY <1>12 DEF ConnectRestores
  <2>. QED  BY <1>12, <2>1 DEF ConnectRestores, Snapshot
<1>. QED
  BY <1>1, <1>2, <1>3, <1>4, <1>5, <1>6, <1>7, <1>9, <1>10, <1>11, <1>12, <1>13,
     <1>14, SwitchSteps, DriverLeavesStore DEF StoreSteps, vars, history

LEMMA RunStaysTyped ==
  ASSUME SwitchTyped, [Next]_vars
  PROVE  RunTyped'
<1>. USE DEF RunTyped
<1>. StoreTyped /\ RunTyped
  BY DEF SwitchTyped
<1>1. CASE BeginSwitch
  <2>1. Next1 \in Switch
    BY <1>1, QueueMoves DEF BeginSwitch, Next1, StoreTyped
  <2>. QED  BY <1>1, <2>1 DEF BeginSwitch, Switch, SwitchDb
<1>0. /\ NoSwitch \in [phase : {"idle", "using", "fetching"}, n : 0 .. MaxSwitches, db : SwitchDb]
      /\ NoSwitch.phase = "idle"
  BY BoundAssumption DEF NoSwitch, SwitchDb
<1>2. CASE UseSucceeds \/ UseFails
  <2>1. run' \in {run, NoSwitch, [run EXCEPT !.phase = "fetching"]} /\ run.phase # "idle"
    BY <1>2 DEF UseSucceeds, UseFails
  <2>. QED  BY <1>0, <2>1
<1>3. ASSUME NEW db \in Databases, TablesArrive(db) \/ TablesFail(db) PROVE RunTyped'
  <2>1. run' \in {run, NoSwitch}
    BY <1>3 DEF TablesArrive, TablesFail, SwitchEnds
  <2>. QED  BY <1>0, <2>1
<1>. QED  BY <1>1, <1>2, <1>3, RunMoves

LEMMA UseStaysTyped ==
  ASSUME SwitchTyped, [Next]_vars
  PROVE  UseTyped'
<1>. USE DEF UseTyped
<1>. StoreTyped /\ UseTyped
  BY DEF SwitchTyped
<1>1. CASE BeginSwitch
  <2>0. Next1 \in Switch
    BY <1>1, QueueMoves DEF BeginSwitch, Next1, StoreTyped
  <2>1. Next1.db \in Databases
    BY <2>0 DEF Switch
  <2>. QED  BY <1>1, <2>1 DEF BeginSwitch, SwitchDb
<1>2. CASE UseSucceeds \/ UseFails
  <2>1. use' = NoUse
    BY <1>2 DEF UseSucceeds, UseFails
  <2>. QED  BY <2>1 DEF NoUse, SwitchDb
<1>3. CASE Connected
  BY <1>3 DEF Connected
<1>4. ASSUME NEW c \in Conns, UseSent(c) PROVE UseTyped'
  BY <1>4 DEF UseSent
<1>5. CASE UseLands \/ UseRecorded \/ UseSame \/ UseReplacesPool \/ UseClosed
  BY <1>5 DEF UseLands, UseRecorded, UseSame, UseReplacesPool, UseClosed
<1>6. CASE UseRefused \/ UseTimesOut
  BY <1>6 DEF UseRefused, UseTimesOut
<1>7. CASE UseDetached
  BY <1>7 DEF UseDetached
<1>. QED  BY <1>1, <1>2, <1>3, <1>4, <1>5, <1>6, <1>7, UseMoves

LEMMA PoolStaysTyped ==
  ASSUME SwitchTyped, DatabaseAssumption, [Next]_vars
  PROVE  PoolTyped'
<1>. USE DEF PoolTyped, SwitchDb, DatabaseAssumption
<1>. PoolTyped /\ UseTyped
  BY DEF SwitchTyped
<1>1. CASE Connected
  BY <1>1 DEF Connected
<1>2. CASE UNCHANGED pool
  BY <1>2 DEF pool
<1>3. ASSUME NEW c \in Conns, UseSent(c) \/ Recycle(c) PROVE PoolTyped'
  BY <1>3, SessionsAre DEF UseSent, Recycle, history
<1>4. CASE UseLands \/ UseRecorded \/ UseReplacesPool \/ UseClosed
  <2>1. use.db \in Databases
    BY <1>4 DEF UseTyped, UseLands, UseRecorded, UseReplacesPool, UseClosed
  <2>. QED  BY <1>4, <2>1 DEF UseLands, UseRecorded, UseReplacesPool, UseClosed, history
<1>5. CASE UseTimesOut
  <2>1. use.db \in Databases
    BY <1>5 DEF UseTyped, UseTimesOut
  <2>. QED  BY <1>5, <2>1 DEF UseTimesOut
<1>6. ASSUME NEW q \in Queries, End(q) PROVE PoolTyped'
  BY <1>6 DEF End, history
<1>7. ASSUME NEW q \in Queries, NEW c \in Conns, Execute(q, c) PROVE PoolTyped'
  BY <1>7, SessionsAre DEF Execute, history
<1>. QED  BY <1>1, <1>2, <1>3, <1>4, <1>5, <1>6, <1>7, PoolMoves

LEMMA StatementsStayTyped ==
  ASSUME SwitchTyped, [Next]_vars
  PROVE  StatementsTyped'
<1>. StoreTyped /\ PoolTyped /\ StatementsTyped
  BY DEF SwitchTyped
<1>. USE DEF StatementsTyped
<1>1. CASE \/ Leave \/ LeaveByForm \/ Reopen \/ StartConnect \/ ConnectRestores
           \/ \E db \in Databases : CallSwitch(db)
  BY <1>1, DisturbedIs DEF Leave, LeaveByForm, Reopen, StartConnect, ConnectRestores, CallSwitch
<1>2. CASE Connected
  <2>1. query' = [q \in Queries |-> [Disturbed[q] EXCEPT !.conn = None]]
    BY <1>2 DEF Connected
  <2>2. ASSUME NEW d \in Progress PROVE [d EXCEPT !.conn = None] \in Progress
    BY DEF Progress
  <2>. QED  BY <2>1, <2>2, DisturbedIs
<1>3. CASE UseReplacesPool
  <2>1. query' = [q \in Queries |-> [query[q] EXCEPT !.conn = None]]
    BY <1>3 DEF UseReplacesPool
  <2>2. ASSUME NEW d \in Progress PROVE [d EXCEPT !.conn = None] \in Progress
    BY DEF Progress
  <2>. QED  BY <2>1, <2>2
<1>4. ASSUME NEW q \in Queries, Ask(q) PROVE StatementsTyped'
  <2>1. PICK calm \in BOOLEAN : calm = (NoSwitchRuns /\ ~torn)
    BY DEF NoSwitchRuns
  <2>2. [state |-> "asked", asked |-> current, on |-> None, conn |-> None, calm |-> calm]
          \in Progress
    BY DEF Progress, StoreTyped, SwitchDb
  <2>3. query' = [query EXCEPT ![q] = [state |-> "asked", asked |-> current, on |-> None,
                                       conn |-> None, calm |-> calm]]
    BY <1>4, <2>1 DEF Ask
  <2>. QED  BY <2>2, <2>3
<1>5. ASSUME NEW q \in Queries, End(q) PROVE StatementsTyped'
  <2>1. [query[q] EXCEPT !.state = "done", !.conn = None] \in Progress
    BY DEF Progress
  <2>. QED  BY <1>5, <2>1 DEF End
<1>6. ASSUME NEW q \in Queries, NEW c \in Conns, Execute(q, c) PROVE StatementsTyped'
  <2>1. SessionOf(c) \in SwitchDb
    BY SessionsAre DEF SwitchDb
  <2>2. [query[q] EXCEPT !.state = "running", !.conn = c, !.on = SessionOf(c)] \in Progress
    BY <2>1 DEF Progress
  <2>. QED  BY <1>6, <2>2 DEF Execute
<1>. QED  BY <1>1, <1>2, <1>3, <1>4, <1>5, <1>6, StatementsMove

LEMMA SwitchStartsTyped ==
  ASSUME DatabaseAssumption, BoundAssumption, Init
  PROVE  SwitchTyped
<1>1. StoreTyped
  <2>1. queue \in Seq(Switch) /\ sequence \in 0 .. MaxSwitches /\ starting \in 0 .. MaxStarts
    BY DEF Init, BoundAssumption
  <2>. QED  BY <2>1 DEF Init, StoreTyped, SwitchDb, DatabaseAssumption
<1>2. RunTyped /\ UseTyped
  BY DEF Init, RunTyped, UseTyped, NoSwitch, NoUse, SwitchDb, BoundAssumption
<1>3. PoolTyped
  BY DEF Init, PoolTyped, SwitchDb, DatabaseAssumption
<1>4. NoQuery \in Progress
  BY DEF NoQuery, Progress, SwitchDb
<1>5. StatementsTyped
  BY <1>4 DEF Init, StatementsTyped
<1>. QED  BY <1>1, <1>2, <1>3, <1>5 DEF SwitchTyped

LEMMA SwitchIsTyped == Spec => []SwitchTyped
<1>1. ASSUME SwitchTyped, [Next]_vars PROVE SwitchTyped'
  BY <1>1, DatabaseAssumption, StoreStaysTyped, RunStaysTyped, UseStaysTyped, PoolStaysTyped,
     StatementsStayTyped DEF SwitchTyped
<1>. QED
  BY <1>1, SwitchStartsTyped, DatabaseAssumption, BoundAssumption, PTL DEF Spec

\* The store, the driver and the statements keep their types, for any databases,
\* connections, statements and switches, timeouts and reconnects at any point.
THEOREM SwitchTypeCorrect == Spec => []TypeOK
  BY SwitchIsTyped, TypedIsTypeOK, PTL

-----------------------------------------------------------------------------
(***************************************************************************)
(* DatabaseSwitch: the last click, and the tables                          *)
(***************************************************************************)
\* Switches are numbered in the order of the queue, and the one that runs comes
\* before them.
Numbered ==
  /\ \A i \in 1 .. Len(queue) : queue[i].n + Len(queue) = sequence + i
  /\ run.phase = "using" => run.n + Len(queue) = sequence

\* The database clicked last is at the end of the queue, or its switch runs, or it is
\* the header's.
LastClicked ==
  clicked # None =>
    /\ active
    /\ queue # <<>> => queue[Len(queue)].db = clicked
    /\ queue = <<>> /\ run.phase = "using" => run.db = clicked
    /\ queue = <<>> /\ run.phase # "using" => current = clicked

ClickInv == StoreTyped /\ RunTyped /\ Numbered /\ LastClicked

\* What the head of the queue is, and what is left.
LEMMA HeadOfQueue ==
  ASSUME StoreTyped, Numbered, queue # <<>>
  PROVE  /\ Next1 = queue[1] /\ Next1 \in Switch /\ Next1.n + Len(queue) = sequence + 1
         /\ Len(queue) \in Nat \ {0} /\ sequence \in Nat
         /\ IsLatest(Next1.n) => Len(queue) = 1 /\ Tail(queue) = <<>>
         /\ Tail(queue) # <<>> => /\ ~IsLatest(Next1.n)
                                  /\ Tail(queue)[Len(Tail(queue))] = queue[Len(queue)]
         /\ Tail(queue) = <<>> => Len(queue) = 1
         /\ Len(Tail(queue)) = Len(queue) - 1
         /\ \A i \in 1 .. Len(Tail(queue)) : Tail(queue)[i] = queue[i + 1]
<1>1. /\ queue \in Seq(Switch) /\ Next1 = Head(queue)
      /\ sequence \in Nat
  BY BoundAssumption DEF StoreTyped, Next1
<1>2. /\ Next1 = queue[1] /\ Next1 \in Switch /\ Len(queue) \in Nat \ {0}
      /\ Tail(queue) \in Seq(Switch) /\ Len(Tail(queue)) = Len(queue) - 1
      /\ \A i \in 1 .. Len(Tail(queue)) : Tail(queue)[i] = queue[i + 1]
  BY <1>1, QueueMoves
<1>3. Next1.n + Len(queue) = sequence + 1 /\ Next1.n \in Nat
  BY <1>2 DEF Numbered, Switch
<1>4. IsLatest(Next1.n) <=> Len(queue) = 1
  BY <1>1, <1>2, <1>3 DEF IsLatest
<1>5. Tail(queue) = <<>> <=> Len(queue) = 1
  BY <1>1, <1>2, QueueMoves
<1>6. ASSUME Tail(queue) # <<>>
      PROVE  Tail(queue)[Len(Tail(queue))] = queue[Len(queue)]
  <2>1. Len(Tail(queue)) \in 1 .. Len(Tail(queue)) /\ Len(Tail(queue)) + 1 = Len(queue)
    BY <1>2, <1>5, <1>6
  <2>. QED  BY <1>2, <2>1
<1>. QED  BY <1>1, <1>2, <1>3, <1>4, <1>5, <1>6

LEMMA CallSwitchClicks ==
  ASSUME ClickInv, StoreTyped', RunTyped', NEW db \in Databases, CallSwitch(db)
  PROVE  ClickInv'
<1>. DEFINE s == [n |-> sequence + 1, db |-> db]
<1>1. /\ queue \in Seq(Switch) /\ queue' = Append(queue, s) /\ sequence' = sequence + 1
      /\ sequence \in Nat /\ s \in Switch /\ clicked' = db /\ active' = active /\ active
      /\ run' = run
  BY BoundAssumption DEF CallSwitch, ClickInv, StoreTyped, Switch
<1>2. /\ Len(queue') = Len(queue) + 1 /\ queue'[Len(queue) + 1] = s /\ Len(queue) \in Nat
      /\ \A i \in 1 .. Len(queue) : queue'[i] = queue[i]
  <2>. HIDE DEF s
  <2>. QED  BY <1>1, QueueMoves
<1>3. queue' # <<>> /\ queue'[Len(queue')] = s
  BY <1>2
<1>4. ASSUME NEW i \in 1 .. Len(queue') PROVE queue'[i].n + Len(queue') = sequence' + i
  <2>1. CASE i \in 1 .. Len(queue)
    <3>1. queue[i].n + Len(queue) = sequence + i /\ queue'[i] = queue[i]
      BY <1>2, <2>1 DEF ClickInv, Numbered
    <3>2. queue[i] \in Switch
      BY <1>1, <2>1
    <3>3. queue[i].n \in Nat
      BY <3>2 DEF Switch
    <3>4. queue'[i].n = queue[i].n /\ Len(queue') = Len(queue) + 1 /\ sequence' = sequence + 1
      BY <1>1, <1>2, <3>1
    <3>5. Len(queue) \in Nat /\ sequence \in Nat /\ i \in Nat
      BY <1>1, <1>2, <2>1
    <3>. QED  BY <3>1, <3>3, <3>4, <3>5
  <2>2. CASE i = Len(queue) + 1
    BY <1>1, <1>2, <2>2
  <2>. QED  BY <1>2, <2>1, <2>2
<1>5. run'.phase = "using" => run'.n + Len(queue') = sequence'
  <2>1. run.n \in Nat
    BY BoundAssumption DEF ClickInv, RunTyped
  <2>2. run' = run /\ Len(queue') = Len(queue) + 1 /\ sequence' = sequence + 1
    BY <1>1, <1>2
  <2>3. Len(queue) \in Nat /\ sequence \in Nat
    BY <1>1, <1>2
  <2>4. run.phase = "using" => run.n + Len(queue) = sequence
    BY DEF ClickInv, Numbered
  <2>. QED  BY <2>1, <2>2, <2>3, <2>4
<1>6. Numbered'
  BY <1>4, <1>5 DEF Numbered
<1>7. LastClicked'
  BY <1>1, <1>3 DEF LastClicked
<1>. QED  BY <1>6, <1>7 DEF ClickInv

\* A queue that lost its head is still numbered.
LEMMA RestIsNumbered ==
  ASSUME StoreTyped, Numbered, queue # <<>>, queue' = Tail(queue), sequence' = sequence
  PROVE  \A i \in 1 .. Len(queue') : queue'[i].n + Len(queue') = sequence' + i
<1>. SUFFICES ASSUME NEW i \in 1 .. Len(queue')
              PROVE  queue'[i].n + Len(queue') = sequence' + i
  OBVIOUS
<1>1. /\ i + 1 \in 1 .. Len(queue) /\ queue'[i] = queue[i + 1] /\ Len(queue') = Len(queue) - 1
      /\ Len(queue) \in Nat /\ sequence \in Nat
  BY HeadOfQueue
<1>2. queue[i + 1] \in Switch
  BY <1>1 DEF StoreTyped
<1>3. queue[i + 1].n \in Nat /\ queue[i + 1].n + Len(queue) = sequence + (i + 1)
  BY <1>1, <1>2 DEF Switch, Numbered
<1>. QED  BY <1>1, <1>3

LEMMA SkipSwitchClicks ==
  ASSUME ClickInv, StoreTyped', RunTyped', SkipSwitch
  PROVE  ClickInv'
<1>1. /\ queue' = Tail(queue) /\ sequence' = sequence /\ queue # <<>> /\ run' = run
      /\ run.phase = "idle" /\ clicked' = clicked /\ active' = active /\ current' = current
      /\ ~IsLatest(Next1.n) \/ ~active \/ current = Next1.db
  BY DEF SkipSwitch, history, IsRedundant
<1>2. StoreTyped /\ Numbered
  BY DEF ClickInv
<1>3. Numbered'
  BY <1>1, <1>2, RestIsNumbered DEF Numbered
<1>4. LastClicked'
  <2>. SUFFICES ASSUME clicked # None PROVE LastClicked'
    BY <1>1 DEF LastClicked
  <2>1. active /\ queue[Len(queue)].db = clicked
    BY <1>1 DEF ClickInv, LastClicked
  <2>2. CASE Tail(queue) # <<>>
    <3>1. Tail(queue)[Len(Tail(queue))] = queue[Len(queue)]
      BY <1>1, <1>2, <2>2, HeadOfQueue
    <3>. QED  BY <1>1, <2>1, <2>2, <3>1 DEF LastClicked
  <2>3. CASE Tail(queue) = <<>>
    <3>1. Len(queue) = 1 /\ Next1 = queue[1] /\ Next1.n + 1 = sequence + 1 /\ Next1 \in Switch
          /\ sequence \in Nat
      BY <1>1, <1>2, <2>3, HeadOfQueue
    <3>2. IsLatest(Next1.n)
      BY <3>1 DEF IsLatest, Switch
    <3>3. current = clicked
      BY <1>1, <2>1, <3>1, <3>2
    <3>. QED  BY <1>1, <2>1, <2>3, <3>3 DEF LastClicked
  <2>. QED  BY <2>2, <2>3
<1>. QED  BY <1>3, <1>4 DEF ClickInv

LEMMA BeginSwitchClicks ==
  ASSUME ClickInv, StoreTyped', RunTyped', BeginSwitch
  PROVE  ClickInv'
<1>1. /\ queue' = Tail(queue) /\ sequence' = sequence /\ queue # <<>>
      /\ run' = [phase |-> "using", n |-> Next1.n, db |-> Next1.db]
      /\ IsLatest(Next1.n) /\ clicked' = clicked /\ active' = active
  BY DEF BeginSwitch, history
<1>2. StoreTyped /\ Numbered
  BY DEF ClickInv
<1>3. /\ Len(queue) = 1 /\ queue' = <<>> /\ Next1 = queue[1] /\ Next1 \in Switch
      /\ Next1.n = sequence /\ sequence \in Nat
  BY <1>1, <1>2, HeadOfQueue DEF IsLatest
<1>4. Numbered'
  <2>1. Len(queue') = 0 /\ run'.n = sequence /\ sequence' = sequence
    BY <1>1, <1>3
  <2>. QED  BY <1>3, <2>1 DEF Numbered
<1>5. LastClicked'
  BY <1>1, <1>3 DEF LastClicked, ClickInv
<1>. QED  BY <1>4, <1>5 DEF ClickInv

\* The switch that runs is the latest only with nothing in the queue.
LEMMA LatestIsAlone ==
  ASSUME StoreTyped, RunTyped, Numbered, run.phase = "using"
  PROVE  IsLatest(run.n) <=> queue = <<>>
<1>1. Len(queue) \in Nat /\ (queue = <<>> <=> Len(queue) = 0)
  BY QueueMoves DEF StoreTyped
<1>2. run.n \in Nat /\ sequence \in Nat /\ run.n + Len(queue) = sequence
  BY BoundAssumption DEF RunTyped, StoreTyped, Numbered
<1>. QED  BY <1>1, <1>2 DEF IsLatest

LEMMA RunClicks ==
  ASSUME ClickInv, StoreTyped', RunTyped',
         \/ UseSucceeds \/ UseFails
         \/ \E db \in Databases : TablesArrive(db) \/ TablesFail(db)
  PROVE  ClickInv'
<1>. StoreTyped /\ RunTyped /\ Numbered /\ LastClicked
  BY DEF ClickInv
<1>1. CASE UseSucceeds
  <2>1. /\ run.phase = "using" /\ run'.phase # "using" /\ UNCHANGED <<active, sequence, queue, clicked>>
        /\ IsLatest(run.n) => current' = run.db
    BY <1>1 DEF UseSucceeds, RunTyped, NoSwitch
  <2>. QED  BY <2>1, LatestIsAlone DEF ClickInv, Numbered, LastClicked
<1>2. CASE UseFails
  <2>1. /\ run.phase = "using" /\ run'.phase # "using" /\ UNCHANGED <<active, sequence, queue>>
        /\ clicked' = IF IsLatest(run.n) THEN None ELSE clicked
    BY <1>2 DEF UseFails, NoSwitch
  <2>. QED  BY <2>1, LatestIsAlone DEF ClickInv, Numbered, LastClicked
<1>3. ASSUME NEW db \in Databases, TablesArrive(db) \/ TablesFail(db) PROVE ClickInv'
  <2>1. UNCHANGED <<active, sequence, queue, clicked, current>>
    BY <1>3 DEF TablesArrive, TablesFail
  <2>2. run' = run \/ (run.phase = "fetching" /\ run' = NoSwitch)
    BY <1>3 DEF TablesArrive, TablesFail, SwitchEnds
  <2>3. run' = run \/ (run.phase = "fetching" /\ run'.phase = "idle")
    BY <2>2 DEF NoSwitch
  <2>. QED  BY <2>1, <2>3 DEF ClickInv, Numbered, LastClicked
<1>. QED  BY <1>1, <1>2, <1>3

LEMMA OthersClick ==
  ASSUME ClickInv, StoreTyped', RunTyped',
         \/ UNCHANGED <<store, clicked, refused, restored>> \/ Refresh \/ LeaveEnds \/ ConnectFails
         \/ Leave \/ LeaveByForm \/ Reopen \/ StartConnect \/ Connected \/ LoadMetadata
         \/ ConnectRestores
  PROVE  ClickInv'
<1>1. UNCHANGED <<sequence, queue, run>>
  BY DEF store, Refresh, LeaveEnds, ConnectFails, Leave, LeaveByForm, Reopen, StartConnect,
     Connected, LoadMetadata, ConnectRestores
<1>2. clicked' = None \/ UNCHANGED <<active, current, clicked>>
  BY DEF store, history, Refresh, LeaveEnds, ConnectFails, Leave, LeaveByForm, Reopen,
     StartConnect, Connected, LoadMetadata, ConnectRestores
<1>. QED  BY <1>1, <1>2 DEF ClickInv, Numbered, LastClicked

\* However switches overlap, the header ends on the database clicked last, unless
\* that switch failed or the connection was left, for any databases, switches and
\* reconnects.
THEOREM LastClickStays == Spec => []LastClickWins
<1>1. Init => ClickInv
  <2>. SUFFICES ASSUME Init PROVE ClickInv
    OBVIOUS
  <2>1. StoreTyped /\ RunTyped
    BY SwitchStartsTyped, DatabaseAssumption, BoundAssumption DEF SwitchTyped
  <2>2. queue = <<>> /\ run.phase = "idle" /\ active = TRUE /\ current = clicked
    BY DEF Init, NoSwitch
  <2>. QED  BY <2>1, <2>2 DEF ClickInv, Numbered, LastClicked
<1>2. ASSUME SwitchTyped, SwitchTyped', ClickInv, [Next]_vars PROVE ClickInv'
  <2>1. StoreTyped' /\ RunTyped'
    BY <1>2 DEF SwitchTyped
  <2>2. CASE DriverSteps \/ UNCHANGED vars
    BY <1>2, <2>1, <2>2, DriverLeavesStore, OthersClick DEF vars, history
  <2>3. CASE StoreSteps
    BY <1>2, <2>1, <2>3, CallSwitchClicks, SkipSwitchClicks, BeginSwitchClicks, RunClicks,
       OthersClick DEF StoreSteps
  <2>. QED  BY <1>2, <2>2, <2>3, SwitchSteps
<1>3. ClickInv => LastClickWins
  BY DEF ClickInv, LastClicked, LastClickWins, AtRest, Quiet
<1>. QED
  BY <1>1, <1>2, <1>3, SwitchIsTyped, PTL DEF Spec

\* The tables of the header are there or on their way, by a fetch or by the connect
\* whose start-up commands run.
TablesAreComing ==
  /\ connecting = "other" => ~active
  /\ active /\ connecting = "no" /\ current \in Databases /\ ~refused /\ ~restored =>
       \/ shown = current
       \/ current \in fetching
       \/ starting > 0 /\ current = Initial

\* Once every fetch and the start-up commands have ended the table list is the
\* header's, unless its own fetch failed or a failed connect put back other tables,
\* for any databases and any order of the answers.
THEOREM TablesStayWithHeader == Spec => []TablesFollowHeader
<1>1. Init => TablesAreComing
  BY DEF Init, TablesAreComing
<1>2. ASSUME SwitchTyped, TablesAreComing, [Next]_vars PROVE TablesAreComing'
  <2>. /\ refused \in BOOLEAN /\ restored \in BOOLEAN /\ active \in BOOLEAN
       /\ starting \in Nat
    BY <1>2, BoundAssumption DEF SwitchTyped, StoreTyped
  <2>. USE DEF TablesAreComing
  <2>1. CASE UNCHANGED <<store, clicked, refused, restored>>
    BY <1>2, <2>1 DEF store, attempt
  <2>2. ASSUME NEW db \in Databases, CallSwitch(db) PROVE TablesAreComing'
    BY <1>2, <2>2 DEF CallSwitch, attempt
  <2>3. ASSUME NEW db \in Databases, TablesArrive(db) PROVE TablesAreComing'
    <3>1. CASE IsRelevant(db)
      BY <1>2, <2>3, <3>1 DEF TablesArrive, IsRelevant, attempt
    <3>2. CASE ~IsRelevant(db)
      BY <1>2, <2>3, <3>2 DEF TablesArrive, IsRelevant, attempt
    <3>. QED  BY <3>1, <3>2
  <2>4. ASSUME NEW db \in Databases, TablesFail(db) PROVE TablesAreComing'
    <3>0. UNCHANGED <<active, connecting, current, shown, starting, restored>>
      BY <2>4 DEF TablesFail, attempt
    <3>1. CASE IsRelevant(db)
      <4>1. refused' = TRUE
        BY <2>4, <3>1 DEF TablesFail
      <4>. QED  BY <1>2, <3>0, <4>1
    <3>2. CASE ~IsRelevant(db)
      <4>1. refused' = refused
        BY <2>4, <3>2 DEF TablesFail
      <4>2. db # current \/ ~active
        BY <3>2 DEF IsRelevant
      <4>3. fetching' = fetching \ {db}
        BY <2>4 DEF TablesFail
      <4>. QED  BY <1>2, <3>0, <4>1, <4>2, <4>3
    <3>. QED  BY <3>1, <3>2
  <2>5. CASE SkipSwitch \/ BeginSwitch
    <3>1. UNCHANGED <<active, connecting, current, shown, fetching, refused, restored, starting>>
      BY <2>5 DEF SkipSwitch, BeginSwitch, history, attempt
    <3>. QED  BY <1>2, <3>1
  <2>6. CASE UseFails \/ Refresh \/ ConnectFails \/ LeaveEnds
    <3>1. /\ UNCHANGED <<active, current, refused, restored, shown, starting>>
          /\ fetching \subseteq fetching'
      BY <2>6 DEF UseFails, Refresh, ConnectFails, LeaveEnds, history, attempt
    <3>2. /\ connecting' = "no" => connecting = "no" \/ connecting = "other"
          /\ connecting' = "other" => connecting = "other"
      BY <2>6 DEF UseFails, Refresh, ConnectFails, LeaveEnds, attempt
    <3>. QED  BY <1>2, <3>1, <3>2
  <2>7. CASE UseSucceeds
    <3>1. IsLatest(run.n) => current' \in fetching'
      BY <2>7 DEF UseSucceeds
    <3>2. ~IsLatest(run.n) => UNCHANGED <<current, fetching, refused, restored>>
      BY <2>7 DEF UseSucceeds
    <3>3. UNCHANGED <<active, connecting, shown, starting>>
      BY <2>7 DEF UseSucceeds, attempt
    <3>. QED  BY <1>2, <3>1, <3>2, <3>3
  <2>8. CASE Leave \/ LeaveByForm
    BY <2>8 DEF Leave, LeaveByForm
  <2>9. CASE Reopen
    <3>0. UNCHANGED <<connecting, starting, shown>> /\ connecting = "no"
      BY <2>9 DEF Reopen, attempt
    <3>1. CASE active /\ current = Initial
      <4>1. UNCHANGED <<active, current, fetching>>
        BY <2>9, <3>1 DEF Reopen
      <4>2. refused' = refused /\ restored' = restored
        BY <2>9, <3>1 DEF Reopen
      <4>. QED  BY <1>2, <3>0, <4>1, <4>2
    <3>2. CASE ~(active /\ current = Initial)
      <4>1. current' \in fetching'
        BY <2>9, <3>2 DEF Reopen
      <4>. QED  BY <3>0, <4>1
    <3>. QED  BY <3>1, <3>2
  <2>10. CASE StartConnect
    BY <2>10 DEF StartConnect
  <2>11. CASE Connected
    <3>1. starting' > 0 /\ current' = Initial /\ connecting' = "no"
      BY <2>11 DEF Connected
    <3>. QED  BY <3>1
  <2>12. CASE LoadMetadata
    <3>1. /\ UNCHANGED <<active, connecting, current, shown, refused, restored>>
          /\ fetching' = fetching \cup {Initial}
      BY <2>12 DEF LoadMetadata, history
    <3>. QED  BY <1>2, <3>1
  <2>13. CASE ConnectRestores
    <3>1. connecting' # "other" /\ (~restored' => shown' = current')
      BY <2>13 DEF ConnectRestores
    <3>. QED  BY <3>1
  <2>. QED
    BY <1>2, <2>1, <2>2, <2>3, <2>4, <2>5, <2>6, <2>7, <2>8, <2>9, <2>10, <2>11, <2>12, <2>13,
       SwitchSteps, DriverLeavesStore DEF StoreSteps, vars, history
<1>3. SwitchTyped /\ TablesAreComing => TablesFollowHeader
  BY BoundAssumption DEF SwitchTyped, StoreTyped, TablesAreComing, TablesFollowHeader, AtRest, Quiet
<1>. QED
  BY <1>1, <1>2, <1>3, SwitchIsTyped, PTL DEF Spec

-----------------------------------------------------------------------------
(***************************************************************************)
(* DatabaseSwitch: one switch or one connect at a time                     *)
(***************************************************************************)
\* What is under way, if anything, is one switch or one connect, and the command is
\* where the switch says.
OneAtATime ==
  /\ queue # <<>> => active /\ connecting = "no" /\ run.phase = "idle"
  /\ \A i \in 1 .. Len(queue) : i = 1 /\ queue[i].n = sequence
  /\ run.phase # "idle" => active /\ connecting = "no" /\ run.n = sequence
  /\ run.phase # "using" => use.phase = "none"
  /\ run.phase = "using" => use.phase \in {"started", "closing", "ok", "failed"} /\ use.db = run.db
  /\ use.live
  /\ connecting = "other" => ~active

\* The pool opens its sessions on the header's database, or on that of a switch the
\* store has still to be told of, unless a timeout tore it from the record.
PoolFollows ==
  /\ use.phase = "closing" => base = use.db
  /\ active /\ connecting = "no" /\ ~torn =>
       /\ base = IF use.phase \in {"closing", "ok"} THEN use.db ELSE current
       /\ use.phase # "closing" => recorded = base

\* So it does on the header that a failing connect will put back.
BeforeFollows ==
  before # None =>
    /\ Connecting
    /\ before.active /\ ~before.failed /\ ~torn => base = before.current /\ recorded = base

\* Every session is on the database of the pool, and a statement that no switch
\* overlaps was asked for on it.
SessionsFollow == \A c \in Conns : session[c] \in {None, base}
CalmStatements ==
  \A q \in Queries :
    /\ query[q].state \in {"idle", "asked"} => query[q].on = None
    /\ query[q].state = "asked" /\ query[q].calm => active /\ NoSwitchRuns /\ query[q].asked = base
    /\ query[q].on # None /\ query[q].calm => query[q].on = query[q].asked

CalmInv == OneAtATime /\ PoolFollows /\ BeforeFollows /\ SessionsFollow /\ CalmStatements

\* The steps of a calm run over PostgreSQL.
CalmSteps ==
  \/ SkipSwitch \/ BeginSwitch \/ UseSucceeds \/ UseFails
  \/ \E db \in Databases : TablesArrive(db) \/ TablesFail(db)
  \/ Refresh \/ ConnectFails \/ Connected \/ LoadMetadata \/ ConnectRestores \/ LeaveEnds
  \/ UseSame \/ UseReplacesPool \/ UseClosed \/ UseRefused \/ UseTimesOut
  \/ \E c \in Conns : Recycle(c)
  \/ \E q \in Queries : Ask(q) \/ End(q) \/ \E c \in Conns : Execute(q, c)
  \/ Quiet /\ (Leave \/ LeaveByForm \/ StartConnect)
  \/ AtRest /\ \E db \in Databases : CallSwitch(db)

LEMMA CalmStep ==
  ASSUME ReplacesPool, OneAtATime, [CalmNext]_vars
  PROVE  CalmSteps \/ UNCHANGED vars
<1>1. ~UseDetached /\ ~UseLands /\ ~UseRecorded /\ \A c \in Conns : ~UseSent(c)
  BY DEF OneAtATime, UseDetached, UseLands, UseRecorded, UseSent
<1>. QED
  BY <1>1 DEF CalmNext, Step, StoreStep, DriverStep, FetchEnds, CalmSteps

LEMMA CalmIsNext == ASSUME [CalmNext]_vars PROVE [Next]_vars
  BY DEF CalmNext, Next

\* OneAtATime.
LEMMA QueueStaysCalm ==
  ASSUME SwitchTyped, SwitchTyped', OneAtATime,
         AtRest, NEW db \in Databases, CallSwitch(db)
  PROVE  OneAtATime'
<1>1. queue = <<>> /\ run.phase = "idle" /\ connecting = "no" /\ active
  BY DEF AtRest, Quiet, CallSwitch
<1>2. /\ queue' = Append(queue, [n |-> sequence + 1, db |-> db]) /\ sequence' = sequence + 1
      /\ UNCHANGED <<active, connecting, run, use>>
  BY DEF CallSwitch, driver, attempt
<1>3. queue' = <<[n |-> sequence + 1, db |-> db]>>
  BY <1>1, <1>2
<1>. QED  BY <1>1, <1>2, <1>3 DEF OneAtATime

LEMMA SwitchStaysCalm ==
  ASSUME SwitchTyped, SwitchTyped', OneAtATime,
         SkipSwitch \/ BeginSwitch \/ UseSucceeds \/ UseFails
  PROVE  OneAtATime'
<1>0. queue \in Seq(Switch) /\ queue' \in Seq(Switch)
  BY DEF SwitchTyped, StoreTyped
<1>1. ASSUME SkipSwitch \/ BeginSwitch
      PROVE  /\ queue # <<>> /\ queue' = <<>> /\ Next1.n = sequence /\ sequence' = sequence
             /\ active /\ connecting = "no" /\ use.phase = "none" /\ use.live
             /\ UNCHANGED <<active, connecting>>
  <2>1. queue # <<>> /\ queue' = Tail(queue) /\ UNCHANGED <<sequence, active, connecting>>
    BY <1>1 DEF SkipSwitch, BeginSwitch, attempt
  <2>2. Len(queue) \in Nat \ {0} /\ Head(queue) = queue[1] /\ Len(queue') = Len(queue) - 1
    BY <1>0, <2>1, QueueMoves
  <2>3. Len(queue) = 1
    <3>1. Len(queue) \in 1 .. Len(queue)
      BY <2>2
    <3>. QED  BY <3>1 DEF OneAtATime
  <2>4. queue' = <<>>
    BY <1>0, <2>2, <2>3, QueueMoves
  <2>5. queue[1].n = sequence
    BY <2>3 DEF OneAtATime
  <2>. QED  BY <2>1, <2>2, <2>4, <2>5 DEF OneAtATime, Next1
<1>2. CASE SkipSwitch
  <2>1. UNCHANGED <<run, use>> /\ run.phase = "idle"
    BY <1>2 DEF SkipSwitch, driver
  <2>2. Len(queue') = 0
    BY <1>1, <1>2
  <2>. QED  BY <1>1, <1>2, <2>1, <2>2 DEF OneAtATime
<1>3. CASE BeginSwitch
  <2>1. /\ run' = [phase |-> "using", n |-> Next1.n, db |-> Next1.db]
        /\ use' = [phase |-> "started", db |-> Next1.db, conn |-> None, live |-> TRUE]
    BY <1>3 DEF BeginSwitch
  <2>2. Len(queue') = 0
    BY <1>1, <1>3
  <2>. QED  BY <1>1, <1>3, <2>1, <2>2 DEF OneAtATime
<1>4. CASE UseSucceeds \/ UseFails
  <2>1. /\ run.phase = "using" /\ use' = NoUse /\ UNCHANGED <<queue, sequence, active, connecting>>
        /\ run' \in {NoSwitch, [run EXCEPT !.phase = "fetching"]}
    BY <1>4 DEF UseSucceeds, UseFails, attempt
  <2>2. /\ run'.phase \in {"idle", "fetching"} /\ (run'.phase # "idle" => run'.n = run.n)
        /\ use'.phase = "none" /\ use'.live
    BY <2>1 DEF NoSwitch, NoUse, SwitchTyped, RunTyped
  <2>3. queue = <<>> /\ active /\ connecting = "no" /\ run.n = sequence
    BY <2>1 DEF OneAtATime
  <2>4. Len(queue') = 0
    BY <2>1, <2>3
  <2>. QED  BY <2>1, <2>2, <2>3, <2>4 DEF OneAtATime
<1>. QED  BY <1>2, <1>3, <1>4

LEMMA OthersStayCalm ==
  ASSUME SwitchTyped, OneAtATime,
         \/ \E db \in Databases : TablesArrive(db) \/ TablesFail(db)
         \/ Refresh \/ ConnectFails \/ Connected \/ LoadMetadata \/ ConnectRestores \/ LeaveEnds
         \/ UNCHANGED vars
         \/ UseSame \/ UseReplacesPool \/ UseClosed \/ UseRefused \/ UseTimesOut
         \/ \E c \in Conns : Recycle(c)
         \/ \E q \in Queries : Ask(q) \/ End(q) \/ \E c \in Conns : Execute(q, c)
         \/ Quiet /\ (Leave \/ LeaveByForm \/ StartConnect)
  PROVE  OneAtATime'
<1>. use \in [phase : {"none", "started", "sent", "landed", "closing", "ok", "failed"},
              db : SwitchDb, conn : Conns \cup {None}, live : BOOLEAN]
  BY DEF SwitchTyped, UseTyped
<1>1. ASSUME NEW db \in Databases, TablesArrive(db) \/ TablesFail(db) PROVE OneAtATime'
  <2>1. UNCHANGED <<queue, sequence, active, connecting, use>>
    BY <1>1 DEF TablesArrive, TablesFail, driver, attempt
  <2>2. run' = run \/ (run.phase = "fetching" /\ run' = NoSwitch)
    BY <1>1 DEF TablesArrive, TablesFail, SwitchEnds
  <2>3. run' = run \/ (run.phase = "fetching" /\ run'.phase = "idle")
    BY <2>2 DEF NoSwitch
  <2>. QED  BY <2>1, <2>3 DEF OneAtATime
<1>2. CASE Refresh \/ LoadMetadata \/ UNCHANGED vars \/ \E q \in Queries : Ask(q)
  <2>1. UNCHANGED <<queue, sequence, active, connecting, use, run>>
    BY <1>2 DEF Refresh, LoadMetadata, vars, store, attempt, driver, Ask
  <2>. QED  BY <2>1 DEF OneAtATime
<1>3. ASSUME \/ \E c \in Conns : Recycle(c)
             \/ \E q \in Queries : End(q) \/ \E c \in Conns : Execute(q, c)
      PROVE  OneAtATime'
  <2>1. UNCHANGED <<queue, sequence, active, connecting, use, run>>
    BY <1>3 DEF Recycle, End, Execute, store, attempt
  <2>. QED  BY <2>1 DEF OneAtATime
<1>4. CASE ConnectFails \/ Connected \/ ConnectRestores \/ LeaveEnds
  <2>1. UNCHANGED <<queue, sequence, run>> /\ connecting # "no"
    BY <1>4 DEF ConnectFails, Connected, ConnectRestores, LeaveEnds, Connecting
  <2>2. queue = <<>> /\ run.phase = "idle" /\ use.phase = "none"
    BY <2>1 DEF OneAtATime
  <2>3. use'.phase = use.phase /\ use'.live
    BY <1>4, <2>2 DEF ConnectFails, Connected, ConnectRestores, LeaveEnds, driver, OneAtATime
  <2>4. Len(queue) = 0
    BY <2>2
  <2>5. connecting' # "other"
    BY <1>4 DEF ConnectFails, Connected, ConnectRestores, LeaveEnds
  <2>. QED  BY <2>1, <2>2, <2>3, <2>4, <2>5 DEF OneAtATime
<1>5. CASE UseSame \/ UseReplacesPool \/ UseClosed \/ UseRefused \/ UseTimesOut
  <2>1. UNCHANGED <<queue, sequence, active, connecting, run>>
    BY <1>5 DEF UseSame, UseReplacesPool, UseClosed, UseRefused, UseTimesOut, store, attempt
  <2>2. /\ use.phase # "none" /\ use'.db = use.db /\ use'.live = use.live
        /\ use'.phase \in {"ok", "closing", "failed"}
    BY <1>5 DEF UseSame, UseReplacesPool, UseClosed, UseRefused, UseTimesOut
  <2>. QED  BY <2>1, <2>2 DEF OneAtATime
<1>6. CASE Quiet /\ (Leave \/ LeaveByForm \/ StartConnect)
  <2>1. UNCHANGED <<queue, sequence, run, use>> /\ queue = <<>> /\ run.phase = "idle"
    BY <1>6 DEF Quiet, Leave, LeaveByForm, StartConnect, driver
  <2>2. Len(queue) = 0
    BY <2>1
  <2>3. connecting' = "other" => ~active'
    BY <1>6 DEF Leave, LeaveByForm, StartConnect
  <2>. QED  BY <2>1, <2>2, <2>3 DEF OneAtATime
<1>. QED  BY <1>1, <1>2, <1>3, <1>4, <1>5, <1>6

LEMMA OneStaysAtATime ==
  ASSUME SwitchTyped, SwitchTyped', OneAtATime, CalmSteps \/ UNCHANGED vars
  PROVE  OneAtATime'
  BY QueueStaysCalm, SwitchStaysCalm, OthersStayCalm DEF CalmSteps

\* PoolFollows.
LEMMA PoolStaysFollowing ==
  ASSUME SwitchTyped, ReplacesPool, OneAtATime, PoolFollows, BeforeFollows,
         CalmSteps \/ UNCHANGED vars
  PROVE  PoolFollows'
<1>. /\ use \in [phase : {"none", "started", "sent", "landed", "closing", "ok", "failed"},
                 db : SwitchDb, conn : Conns \cup {None}, live : BOOLEAN]
     /\ torn \in BOOLEAN
  BY DEF SwitchTyped, UseTyped, PoolTyped
<1>1. ASSUME UNCHANGED <<active, connecting, current, base, recorded, use, torn>>
      PROVE  PoolFollows'
  BY <1>1 DEF PoolFollows
<1>2. CASE SkipSwitch \/ Refresh \/ LoadMetadata \/ UNCHANGED vars
  <2>1. UNCHANGED <<active, connecting, current, base, recorded, use, torn>>
    BY <1>2 DEF SkipSwitch, Refresh, LoadMetadata, vars, store, attempt, driver, history
  <2>. QED  BY <1>1, <2>1
<1>3. CASE \E db \in Databases : TablesArrive(db) \/ TablesFail(db)
  <2>1. UNCHANGED <<active, connecting, current, base, recorded, use, torn>>
    BY <1>3 DEF TablesArrive, TablesFail, driver, attempt
  <2>. QED  BY <1>1, <2>1
<1>4. CASE \/ \E c \in Conns : Recycle(c)
           \/ \E q \in Queries : Ask(q) \/ End(q) \/ \E c \in Conns : Execute(q, c)
  <2>1. UNCHANGED <<active, connecting, current, base, recorded, use, torn>>
    BY <1>4 DEF Recycle, Ask, End, Execute, store, attempt, driver, history
  <2>. QED  BY <1>1, <2>1
<1>5. CASE BeginSwitch
  <2>1. /\ use'.phase = "started" /\ run.phase = "idle"
        /\ UNCHANGED <<active, connecting, current, base, recorded, torn>>
    BY <1>5 DEF BeginSwitch, attempt, history
  <2>2. use.phase = "none"
    BY <2>1 DEF OneAtATime
  <2>. QED  BY <2>1, <2>2 DEF PoolFollows
<1>6. CASE UseSucceeds
  <2>1. /\ use.phase = "ok" /\ use' = NoUse /\ run.phase = "using"
        /\ UNCHANGED <<active, connecting, base, recorded, torn>>
        /\ IsLatest(run.n) => current' = run.db
    BY <1>6 DEF UseSucceeds, attempt
  <2>2. current' = use.db
    BY <2>1 DEF OneAtATime, IsLatest
  <2>. QED  BY <2>1, <2>2 DEF PoolFollows, NoUse
<1>7. CASE UseFails
  <2>1. /\ use.phase = "failed" /\ use' = NoUse
        /\ UNCHANGED <<active, connecting, current, base, recorded, torn>>
    BY <1>7 DEF UseFails, attempt
  <2>. QED  BY <2>1 DEF PoolFollows, NoUse
<1>8. CASE Connected
  <2>1. connecting = "pending" /\ base' = Initial /\ current' = Initial /\ recorded' = Initial
    BY <1>8 DEF Connected
  <2>2. use.phase = "none"
    BY <2>1 DEF OneAtATime
  <2>3. use'.phase = "none"
    BY <1>8, <2>2 DEF Connected
  <2>. QED  BY <2>1, <2>3 DEF PoolFollows
<1>9. CASE ConnectFails \/ (Quiet /\ (Leave \/ LeaveByForm \/ StartConnect))
  <2>1. ~(active' /\ connecting' = "no") /\ UNCHANGED <<use, base>>
    BY <1>9 DEF ConnectFails, Leave, LeaveByForm, StartConnect, driver
  <2>. QED  BY <2>1 DEF PoolFollows
<1>10. CASE LeaveEnds
  <2>1. UNCHANGED <<active, use, base>> /\ connecting = "other"
    BY <1>10 DEF LeaveEnds, driver
  <2>. QED  BY <2>1 DEF PoolFollows, OneAtATime
<1>11. CASE ConnectRestores
  <2>1. /\ Connecting /\ before # None /\ UNCHANGED <<use, base, recorded, torn>>
        /\ active' = before.active /\ current' = before.current
        /\ connecting' = "no" => ~before.failed
    BY <1>11 DEF ConnectRestores, driver
  <2>2. use.phase = "none"
    BY <2>1 DEF Connecting, OneAtATime
  <2>. QED  BY <2>1, <2>2 DEF PoolFollows, BeforeFollows
<1>12. CASE AtRest /\ \E db \in Databases : CallSwitch(db)
  <2>1. UNCHANGED <<active, connecting, current, base, recorded, use, torn>>
    BY <1>12 DEF CallSwitch, driver, attempt
  <2>. QED  BY <1>1, <2>1
<1>13. CASE UseSame
  <2>1. /\ use.phase = "started" /\ recorded = use.db /\ use'.phase = "ok" /\ use'.db = use.db
        /\ UNCHANGED <<active, connecting, current, base, recorded, torn>>
    BY <1>13 DEF UseSame, store, attempt, history
  <2>. QED  BY <2>1 DEF PoolFollows
<1>14. CASE UseReplacesPool
  <2>1. /\ base' = use.db /\ use'.phase = "closing" /\ use'.db = use.db
        /\ UNCHANGED <<active, connecting, current, recorded>>
    BY <1>14 DEF UseReplacesPool, store, attempt
  <2>. QED  BY <2>1 DEF PoolFollows
<1>15. CASE UseClosed
  <2>1. /\ use.phase = "closing" /\ recorded' = use.db /\ use'.phase = "ok" /\ use'.db = use.db
        /\ UNCHANGED <<active, connecting, current, base>>
    BY <1>15 DEF UseClosed, store, attempt
  <2>. QED  BY <2>1 DEF PoolFollows
<1>16. CASE UseRefused
  <2>1. /\ use.phase = "started" /\ use'.phase = "failed"
        /\ UNCHANGED <<active, connecting, current, base, recorded, torn>>
    BY <1>16 DEF UseRefused, store, attempt, history
  <2>. QED  BY <2>1 DEF PoolFollows
<1>17. CASE UseTimesOut
  <2>1. /\ use'.phase = "failed" /\ UNCHANGED <<active, connecting, current, base, recorded>>
        /\ use.phase \in {"started", "sent", "landed", "closing"}
        /\ torn' = (torn \/ use.phase = "closing")
    BY <1>17 DEF UseTimesOut, store, attempt
  <2>2. ~torn' => ~torn /\ use.phase \in {"started", "sent", "landed"}
    BY <2>1
  <2>. QED  BY <2>1, <2>2 DEF PoolFollows
<1>. QED
  BY <1>2, <1>3, <1>4, <1>5, <1>6, <1>7, <1>8, <1>9, <1>10, <1>11, <1>12, <1>13, <1>14, <1>15,
     <1>16, <1>17 DEF CalmSteps

\* BeforeFollows: while a connect is under way no switch runs, so the pool, the record
\* and the tear are as they were.
LEMMA BeforeStaysFollowing ==
  ASSUME SwitchTyped, ReplacesPool, OneAtATime, PoolFollows, BeforeFollows,
         CalmSteps \/ UNCHANGED vars
  PROVE  BeforeFollows'
<1>1. ASSUME UNCHANGED <<connecting, before, base, recorded, torn>> PROVE BeforeFollows'
  BY <1>1 DEF BeforeFollows, Connecting
<1>2. CASE \/ SkipSwitch \/ BeginSwitch \/ UseSucceeds \/ UseFails \/ Refresh \/ LoadMetadata
           \/ \E db \in Databases : TablesArrive(db) \/ TablesFail(db)
           \/ AtRest /\ \E db \in Databases : CallSwitch(db)
           \/ UNCHANGED vars
  <2>1. UNCHANGED <<connecting, before, base, recorded, torn>>
    BY <1>2 DEF SkipSwitch, BeginSwitch, UseSucceeds, UseFails, Refresh, LoadMetadata,
       TablesArrive, TablesFail, CallSwitch, vars, store, attempt, driver, history
  <2>. QED  BY <1>1, <2>1
<1>3. CASE \/ UseSame \/ UseRefused \/ \E c \in Conns : Recycle(c)
           \/ \E q \in Queries : Ask(q) \/ End(q) \/ \E c \in Conns : Execute(q, c)
  <2>1. UNCHANGED <<connecting, before, base, recorded, torn>>
    BY <1>3 DEF UseSame, UseRefused, Recycle, Ask, End, Execute, store, attempt, driver, history
  <2>. QED  BY <1>1, <2>1
<1>4. CASE UseReplacesPool \/ UseClosed \/ UseTimesOut
  <2>1. use.phase # "none" /\ UNCHANGED <<connecting, before>>
    BY <1>4 DEF UseReplacesPool, UseClosed, UseTimesOut, store, attempt
  <2>2. connecting = "no"
    BY <2>1 DEF OneAtATime
  <2>3. before = None
    BY <2>2 DEF BeforeFollows, Connecting
  <2>. QED  BY <2>1, <2>3 DEF BeforeFollows
<1>5. CASE Connected \/ ConnectFails \/ ConnectRestores \/ LeaveEnds
  BY <1>5 DEF Connected, ConnectFails, ConnectRestores, LeaveEnds, BeforeFollows
<1>6. CASE Quiet /\ Leave
  <2>1. before' = before /\ ~Connecting
    BY <1>6 DEF Leave
  <2>. QED  BY <2>1 DEF BeforeFollows
<1>7. CASE Quiet /\ (LeaveByForm \/ StartConnect)
  <2>1. /\ before' \in {None, Screen} /\ UNCHANGED <<base, recorded, torn>>
        /\ connecting' \in {"pending", "other"} /\ ~Connecting
    BY <1>7 DEF LeaveByForm, StartConnect, driver
  <2>2. use.phase = "none"
    BY <1>7 DEF Quiet, OneAtATime
  <2>3. ASSUME Screen.active, ~Screen.failed, ~torn PROVE base = Screen.current /\ recorded = base
    <3>1. active /\ connecting = "no" /\ Screen.current = current
      BY <2>1, <2>3 DEF Screen, Connecting, SwitchTyped, StoreTyped
    <3>. QED  BY <2>2, <2>3, <3>1 DEF PoolFollows
  <2>. QED  BY <2>1, <2>3 DEF BeforeFollows, Connecting
<1>. QED
  BY <1>2, <1>3, <1>4, <1>5, <1>6, <1>7 DEF CalmSteps

\* SessionsFollow.
LEMMA SessionsStayFollowing ==
  ASSUME SwitchTyped, ReplacesPool, OneAtATime, SessionsFollow, CalmSteps \/ UNCHANGED vars
  PROVE  SessionsFollow'
<1>. session \in [Conns -> SwitchDb]
  BY DEF SwitchTyped, PoolTyped
<1>1. ASSUME UNCHANGED <<base, session>> PROVE SessionsFollow'
  BY <1>1 DEF SessionsFollow
<1>2. CASE \/ SkipSwitch \/ BeginSwitch \/ UseSucceeds \/ UseFails \/ Refresh \/ ConnectFails
           \/ LoadMetadata \/ ConnectRestores \/ LeaveEnds
           \/ \E db \in Databases : TablesArrive(db) \/ TablesFail(db)
           \/ UNCHANGED vars
  <2>1. UNCHANGED <<base, session>>
    BY <1>2 DEF SkipSwitch, BeginSwitch, UseSucceeds, UseFails, Refresh, ConnectFails,
       LoadMetadata, ConnectRestores, LeaveEnds, TablesArrive, TablesFail, vars, driver
  <2>. QED  BY <1>1, <2>1
<1>3. CASE \/ UseSame \/ UseClosed \/ UseRefused \/ UseTimesOut
           \/ \E q \in Queries : Ask(q) \/ End(q)
           \/ Quiet /\ (Leave \/ LeaveByForm \/ StartConnect)
           \/ AtRest /\ \E db \in Databases : CallSwitch(db)
  <2>1. UseTimesOut => use.phase # "sent"
    BY DEF OneAtATime, UseTimesOut
  <2>2. UNCHANGED <<base, session>>
    BY <1>3, <2>1 DEF UseSame, UseClosed, UseRefused, UseTimesOut, Ask, End, Leave, LeaveByForm,
       StartConnect, CallSwitch, driver
  <2>. QED  BY <1>1, <2>2
<1>4. CASE Connected \/ UseReplacesPool
  <2>1. session' = [c \in Conns |-> None]
    BY <1>4 DEF Connected, UseReplacesPool
  <2>. QED  BY <2>1 DEF SessionsFollow
<1>5. ASSUME NEW c \in Conns, Recycle(c) PROVE SessionsFollow'
  <2>1. session' = [session EXCEPT ![c] = None] /\ base' = base
    BY <1>5 DEF Recycle
  <2>. QED  BY <2>1 DEF SessionsFollow
<1>6. ASSUME NEW q \in Queries, NEW c \in Conns, Execute(q, c) PROVE SessionsFollow'
  <2>1. session' = [session EXCEPT ![c] = SessionOf(c)] /\ base' = base
    BY <1>6 DEF Execute
  <2>2. SessionOf(c) = base
    BY DEF SessionsFollow, SessionOf, Open
  <2>. QED  BY <2>1, <2>2 DEF SessionsFollow
<1>. QED
  BY <1>2, <1>3, <1>4, <1>5, <1>6 DEF CalmSteps

\* CalmStatements: what a statement keeps of its promise.
CalmOne(s) ==
  /\ s.state \in {"idle", "asked"} => s.on = None
  /\ s.state = "asked" /\ s.calm => active /\ NoSwitchRuns /\ s.asked = base
  /\ s.on # None /\ s.calm => s.on = s.asked

LEMMA CalmIsEach == CalmStatements <=> \A q \in Queries : CalmOne(query[q])
  BY DEF CalmStatements, CalmOne

\* A statement that waits for a connection is not calm once a switch disturbed it.
LEMMA DisturbedStayCalm ==
  ASSUME StatementsTyped, CalmStatements,
         \/ query' = Disturbed
         \/ query' = [q \in Queries |-> [Disturbed[q] EXCEPT !.conn = None]]
  PROVE  CalmStatements'
<1>. SUFFICES ASSUME NEW q \in Queries PROVE CalmOne(query[q])'
  BY DEF CalmStatements, CalmOne
<1>1. /\ query'[q].state = query[q].state /\ query'[q].asked = query[q].asked
      /\ query'[q].on = query[q].on
      /\ query'[q].calm => query[q].calm /\ query[q].state # "asked"
  <2>1. CASE query' = Disturbed
    BY <2>1, DisturbedIs
  <2>2. CASE query' = [r \in Queries |-> [Disturbed[r] EXCEPT !.conn = None]]
    <3>1. query'[q] = [Disturbed[q] EXCEPT !.conn = None] /\ Disturbed[q] \in Progress
      BY <2>2, DisturbedIs
    <3>2. /\ query'[q].state = Disturbed[q].state /\ query'[q].asked = Disturbed[q].asked
          /\ query'[q].on = Disturbed[q].on /\ query'[q].calm = Disturbed[q].calm
      BY <3>1 DEF Progress
    <3>. QED  BY <3>2, DisturbedIs
  <2>. QED  BY <2>1, <2>2
<1>2. CalmOne(query[q])
  BY CalmIsEach
<1>. QED  BY <1>1, <1>2 DEF CalmOne

LEMMA StatementsStayCalm ==
  ASSUME SwitchTyped, ReplacesPool, OneAtATime, PoolFollows, SessionsFollow, CalmStatements,
         CalmSteps \/ UNCHANGED vars
  PROVE  CalmStatements'
<1>. StatementsTyped
  BY DEF SwitchTyped
<1>1. ASSUME UNCHANGED <<query, base, active>>, NoSwitchRuns => NoSwitchRuns'
      PROVE  CalmStatements'
  BY <1>1 DEF CalmStatements
<1>2. CASE \/ Refresh \/ LoadMetadata \/ UseFails \/ UNCHANGED vars
           \/ \E db \in Databases : TablesArrive(db) \/ TablesFail(db)
  <2>1. UNCHANGED <<query, base, active, queue, connecting>>
    BY <1>2 DEF Refresh, LoadMetadata, UseFails, TablesArrive, TablesFail, vars, store, attempt,
       driver
  <2>2. run' = run \/ run' = NoSwitch
    BY <1>2 DEF Refresh, LoadMetadata, UseFails, TablesArrive, TablesFail, SwitchEnds, vars, store
  <2>. QED  BY <1>1, <2>1, <2>2 DEF NoSwitchRuns, NoSwitch
<1>3. CASE \/ SkipSwitch \/ BeginSwitch \/ ConnectFails \/ UseSucceeds \/ LeaveEnds
           \/ UseTimesOut
  <2>1. UNCHANGED <<query, base, active>>
    BY <1>3 DEF SkipSwitch, BeginSwitch, ConnectFails, UseSucceeds, LeaveEnds, UseTimesOut, driver,
       store
  <2>2. ~NoSwitchRuns
    BY <1>3 DEF SkipSwitch, BeginSwitch, ConnectFails, UseSucceeds, LeaveEnds, UseTimesOut,
       OneAtATime, NoSwitchRuns
  <2>. QED  BY <1>1, <2>1, <2>2
<1>4. CASE UseSame \/ UseClosed \/ UseRefused \/ \E c \in Conns : Recycle(c)
  <2>1. UNCHANGED <<query, base, active, queue, connecting, run>>
    BY <1>4 DEF UseSame, UseClosed, UseRefused, Recycle, store, attempt
  <2>. QED  BY <1>1, <2>1 DEF NoSwitchRuns
<1>5. CASE \/ Connected \/ ConnectRestores
           \/ Quiet /\ (Leave \/ LeaveByForm \/ StartConnect)
           \/ AtRest /\ \E db \in Databases : CallSwitch(db)
  <2>1. query' = Disturbed \/ query' = [q \in Queries |-> [Disturbed[q] EXCEPT !.conn = None]]
    BY <1>5 DEF Connected, ConnectRestores, Leave, LeaveByForm, StartConnect, CallSwitch
  <2>. QED  BY <2>1, DisturbedStayCalm
<1>6. CASE UseReplacesPool
  <2>1. run.phase = "using"
    BY <1>6 DEF UseReplacesPool, OneAtATime
  <2>2. ~NoSwitchRuns
    BY <2>1 DEF NoSwitchRuns
  <2>3. ASSUME NEW q \in Queries PROVE CalmOne(query[q])'
    <3>1. query'[q] = [query[q] EXCEPT !.conn = None] /\ query[q] \in Progress
      BY <1>6 DEF UseReplacesPool, StatementsTyped
    <3>2. /\ query'[q].state = query[q].state /\ query'[q].asked = query[q].asked
          /\ query'[q].on = query[q].on /\ query'[q].calm = query[q].calm
      BY <3>1 DEF Progress
    <3>3. CalmOne(query[q])
      BY CalmIsEach
    <3>. QED  BY <2>2, <3>2, <3>3 DEF CalmOne
  <2>. QED  BY <2>3 DEF CalmStatements, CalmOne
<1>7. ASSUME NEW q \in Queries, \/ Ask(q) \/ End(q) \/ \E c \in Conns : Execute(q, c)
      PROVE  CalmStatements'
  <2>1. /\ UNCHANGED <<base, active, queue, connecting, run>>
        /\ NoSwitchRuns' <=> NoSwitchRuns
    BY <1>7 DEF Ask, End, Execute, store, attempt, driver, NoSwitchRuns
  <2>2. ASSUME NEW r \in Queries, r # q PROVE CalmOne(query[r])'
    <3>1. query'[r] = query[r]
      BY <1>7, <2>2 DEF Ask, End, Execute, StatementsTyped
    <3>. QED  BY <2>1, <3>1, CalmIsEach DEF CalmOne
  <2>3. query[q] \in Progress /\ CalmOne(query[q])
    BY CalmIsEach DEF StatementsTyped
  <2>4. ASSUME Ask(q) PROVE CalmOne(query[q])'
    <3>1. /\ query'[q].state = "asked" /\ query'[q].asked = current /\ query'[q].on = None
          /\ query'[q].calm = (NoSwitchRuns /\ ~torn) /\ active
      BY <2>4 DEF Ask, StatementsTyped
    <3>2. NoSwitchRuns /\ ~torn => current = base
      BY <3>1 DEF NoSwitchRuns, OneAtATime, PoolFollows
    <3>. QED  BY <2>1, <3>1, <3>2 DEF CalmOne
  <2>5. ASSUME End(q) PROVE CalmOne(query[q])'
    <3>1. /\ query'[q].state = "done" /\ query'[q].asked = query[q].asked
          /\ query'[q].on = query[q].on /\ query'[q].calm = query[q].calm
      BY <2>3, <2>5 DEF End, StatementsTyped, Progress
    <3>. QED  BY <2>3, <3>1 DEF CalmOne
  <2>6. ASSUME NEW c \in Conns, Execute(q, c) PROVE CalmOne(query[q])'
    <3>1. /\ query[q].state = "asked" /\ query'[q].state = "running"
          /\ query'[q].asked = query[q].asked /\ query'[q].on = SessionOf(c)
          /\ query'[q].calm = query[q].calm
      BY <2>3, <2>6 DEF Execute, StatementsTyped, Progress
    <3>2. SessionOf(c) = base
      BY DEF SessionsFollow, SessionOf, Open
    <3>. QED  BY <2>3, <3>1, <3>2 DEF CalmOne
  <2>7. CalmOne(query[q])'
    BY <1>7, <2>4, <2>5, <2>6
  <2>. QED  BY <2>2, <2>7 DEF CalmStatements, CalmOne
<1>. QED
  BY <1>2, <1>3, <1>4, <1>5, <1>6, <1>7 DEF CalmSteps
-----------------------------------------------------------------------------
LEMMA CalmStarts ==
  ASSUME Init
  PROVE  CalmInv
<1>1. Len(queue) = 0 /\ run.phase = "idle" /\ use.phase = "none" /\ use.live
  BY DEF Init, NoSwitch, NoUse
<1>2. OneAtATime
  BY <1>1 DEF Init, OneAtATime
<1>3. PoolFollows /\ SessionsFollow
  BY <1>1 DEF Init, PoolFollows, SessionsFollow
<1>5. BeforeFollows
  BY DEF Init, BeforeFollows
<1>4. CalmStatements
  BY DEF Init, CalmStatements, NoQuery
<1>. QED  BY <1>2, <1>3, <1>4, <1>5 DEF CalmInv

\* The invariant of calm runs, for a driver that replaces its pool.
LEMMA CalmStays == CalmSpec => [](SwitchTyped /\ (ReplacesPool => CalmInv))
<1>1. ASSUME SwitchTyped, SwitchTyped', ReplacesPool => CalmInv, [CalmNext]_vars
      PROVE  (ReplacesPool => CalmInv)'
  <2>1. kind' = kind
    <3>1. [Next]_vars
      BY <1>1, CalmIsNext
    <3>. QED
      BY <3>1, PoolMoves DEF pool, Connected, UseSent, Recycle, UseLands, UseRecorded,
         UseReplacesPool, UseClosed, UseTimesOut, End, Execute
  <2>. SUFFICES ASSUME ReplacesPool PROVE CalmInv'
    BY <2>1 DEF ReplacesPool
  <2>2. CalmInv
    BY <1>1
  <2>3. CalmSteps \/ UNCHANGED vars
    BY <1>1, <2>2, CalmStep DEF CalmInv
  <2>. QED
    BY <1>1, <2>2, <2>3, OneStaysAtATime, PoolStaysFollowing, BeforeStaysFollowing,
       SessionsStayFollowing, StatementsStayCalm DEF CalmInv
<1>2. ASSUME SwitchTyped, [CalmNext]_vars PROVE SwitchTyped'
  BY <1>2, CalmIsNext, DatabaseAssumption, StoreStaysTyped, RunStaysTyped, UseStaysTyped,
     PoolStaysTyped, StatementsStayTyped DEF SwitchTyped
<1>3. Init => SwitchTyped /\ (ReplacesPool => CalmInv)
  BY SwitchStartsTyped, DatabaseAssumption, BoundAssumption, CalmStarts
<1>. QED
  BY <1>1, <1>2, <1>3, PTL DEF CalmSpec

\* With one switch or one connect at a time, at rest the pool of PostgreSQL opens its
\* sessions on the database the header shows, whatever is refused, times out or is put
\* back by a failed connect; a timeout between the new pool and the record is the one
\* exception, until the next switch or connect that goes through.
THEOREM PoolStaysWithHeader == CalmSpec => []HeaderMatchesPool
<1>1. (ReplacesPool => CalmInv) => HeaderMatchesPool
  BY DEF CalmInv, OneAtATime, PoolFollows, HeaderMatchesPool, AtRest, Quiet
<1>. QED
  BY <1>1, CalmStays, PTL

\* On a driver that replaces its pool, a statement that no switch overlaps runs on the
\* database the header showed when it was started, for any number of connections in the
\* pools that are replaced, of which statements still use some, and with timeouts.
THEOREM QueriesRunWhereShown == CalmSpec => []QueryRunsWhereShown
<1>1. (ReplacesPool => CalmInv) => QueryRunsWhereShown
  BY DEF CalmInv, CalmStatements, QueryRunsWhereShown
<1>. QED
  BY <1>1, CalmStays, PTL
=============================================================================
