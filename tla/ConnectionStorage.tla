-------------------------- MODULE ConnectionStorage --------------------------
(***************************************************************************)
(* The saved connections: connections.json with its backup and its lock    *)
(* (src-tauri/src/storage/file_storage.rs), and the commands that load,    *)
(* save and delete connections over it, with their cache                   *)
(* (src-tauri/src/storage/connection_storage.rs).                          *)
(*                                                                         *)
(* A step is a call that other calls or a crash of the program can come    *)
(* between.  A crash loses the processes, the locks and the cache, and     *)
(* leaves the files as they are.  A connection is its id; a file also says *)
(* whether it holds secrets in plain text, which the next load moves to    *)
(* the keyring.  The keyring and files that cannot be parsed are left out. *)
(***************************************************************************)
EXTENDS Naturals

CONSTANTS
  Ids,    \* connections
  Procs,  \* calls of commands
  Absent

ASSUME HolderAssumption == Absent \notin Procs

Lists == SUBSET Ids
File == [ids : Lists, plain : BOOLEAN]
ASSUME FileAssumption == Absent \notin File

Empty == [ids |-> {}, plain |-> FALSE]
Op == [kind : {"load", "save", "delete"}, ids : Lists]
Load == [kind |-> "load", ids |-> {}]

VARIABLES
  primary, backup, \* the two files, Absent when there is none
  lock,            \* who holds connections.json.lock exclusively
  guard,           \* who holds write_guard
  cache,           \* the list of the last load or save, Absent when invalidated
  pc, op,          \* per call, its next step and what it does
  target,          \* per call, what it read, then what it writes or caches
  saved,           \* history: the connections after the last write
  cuts,            \* history: writes in a row that were cut with no primary left,
                   \* 2 for good
  clobbered,       \* history: a load migrated what a write had changed since it read,
                   \* or scrubbed the one file a write had left
  overtaken        \* history: the cache was filled by a load that a write overtook

files == <<primary, backup>>
call == <<pc, op, target>>
storage == <<files, lock, guard, cache, call, saved, cuts, clobbered, overtaken>>

\* read_json_vec_with_backup
Recovered == IF primary # Absent THEN primary ELSE IF backup # Absent THEN backup ELSE Empty

StorageInit ==
  /\ primary \in File \cup {Absent} /\ backup = Absent
  /\ lock = Absent /\ guard = Absent /\ cache = Absent
  /\ pc = [p \in Procs |-> "idle"] /\ op = [p \in Procs |-> Load]
  /\ target = [p \in Procs |-> Empty]
  /\ saved = Recovered.ids /\ cuts = 0
  /\ clobbered = FALSE /\ overtaken = FALSE

(***************************************************************************)
(* Reading                                                                 *)
(***************************************************************************)
\* What a call makes of the list it read.
Result(o, file) ==
  CASE o.kind = "save"   -> [file EXCEPT !.ids = @ \cup o.ids]
    [] o.kind = "delete" -> [ids |-> file.ids \ o.ids, plain |-> FALSE]
    [] o.kind = "load"   -> [file EXCEPT !.plain = FALSE]

\* save_connection, delete_connection: one at a time.
BeginWrite(p, kind, id) ==
  /\ pc[p] = "idle" /\ guard = Absent /\ guard' = p
  /\ pc' = [pc EXCEPT ![p] = "read"]
  /\ op' = [op EXCEPT ![p] = [kind |-> kind, ids |-> {id}]]
  /\ UNCHANGED <<files, lock, cache, target, saved, cuts, clobbered, overtaken>>

\* load_connections: nothing cached; without a primary the list is empty, whatever
\* the backup holds.
BeginLoad(p) ==
  /\ pc[p] = "idle" /\ cache = Absent
  /\ pc' = [pc EXCEPT ![p] = IF primary = Absent THEN "cache" ELSE "read"]
  /\ UNCHANGED <<files, lock, guard, cache, op, target, saved, cuts, clobbered, overtaken>>

\* The file is read under the shared lock.  A load rewrites it only to remove
\* secrets.
Read(p) ==
  /\ pc[p] = "read" /\ lock = Absent
  /\ target' = [target EXCEPT ![p] = Result(op[p], Recovered)]
  /\ pc' = [pc EXCEPT ![p] = IF op[p].kind = "load" /\ ~Recovered.plain THEN "cache" ELSE "lock"]
  /\ UNCHANGED <<files, lock, guard, cache, op, saved, cuts, clobbered, overtaken>>

(***************************************************************************)
(* write_json_atomically_inner                                             *)
(***************************************************************************)
Goes(p, step) == pc' = [pc EXCEPT ![p] = step]

\* The temporary file is written.
Lock(p) ==
  /\ pc[p] = "lock" /\ lock = Absent /\ lock' = p
  /\ Goes(p, "remove")
  /\ UNCHANGED <<files, guard, cache, op, target, saved, cuts, clobbered, overtaken>>

\* The backup goes: to make room for the primary, or because this write keeps
\* none, or there is no primary to keep.
RemoveBackup(p) ==
  /\ pc[p] = "remove" /\ backup' = Absent
  /\ Goes(p, IF primary # Absent /\ op[p].kind # "load" THEN "rotate" ELSE "replace")
  /\ UNCHANGED <<primary, lock, guard, cache, op, target, saved, cuts, clobbered, overtaken>>

\* Mutant of the next definition: the old file is deleted, not renamed.
RotateAway(p) ==
  /\ pc[p] = "rotate" /\ backup' = Absent /\ primary' = Absent
  /\ Goes(p, "replace")
  /\ UNCHANGED <<lock, guard, cache, op, target, saved, cuts, clobbered, overtaken>>

Rotate(p) ==
  /\ pc[p] = "rotate" /\ backup' = primary /\ primary' = Absent
  /\ Goes(p, "replace")
  /\ UNCHANGED <<lock, guard, cache, op, target, saved, cuts, clobbered, overtaken>>

\* The temporary file is renamed, the lock released, and the write is done.
Replace(p) ==
  /\ pc[p] = "replace" /\ primary' = target[p] /\ lock' = Absent
  /\ Goes(p, IF op[p].kind = "load" THEN "scrub" ELSE "cache")
  /\ saved' = Result(op[p], [ids |-> saved, plain |-> FALSE]).ids
  /\ cuts' = IF cuts = 1 THEN 0 ELSE cuts
  /\ clobbered' = (clobbered \/ (op[p].kind = "load" /\ target[p].ids # saved))
  /\ UNCHANGED <<backup, guard, cache, op, target, overtaken>>

\* After its rewrite a load removes the backup again, without the lock.
Scrub(p) ==
  /\ pc[p] = "scrub" /\ backup' = Absent
  /\ Goes(p, "cache")
  /\ clobbered' = (clobbered \/ primary = Absent)
  /\ UNCHANGED <<primary, lock, guard, cache, op, target, saved, cuts, overtaken>>

(***************************************************************************)
(* The end of a call                                                       *)
(***************************************************************************)
Ends(p) ==
  /\ pc' = [pc EXCEPT ![p] = "idle"] /\ op' = [op EXCEPT ![p] = Load]
  /\ target' = [target EXCEPT ![p] = Empty]
  /\ guard' = IF guard = p THEN Absent ELSE guard
  /\ lock' = IF lock = p THEN Absent ELSE lock

\* Mutant of the next definition: a deletion leaves the cache.
KeepsCache(p) ==
  cache' = IF op[p].kind = "delete" THEN cache ELSE target[p]

\* A deletion invalidates the cache, the others fill it.
Caches(p) ==
  cache' = IF op[p].kind = "delete" THEN Absent ELSE target[p]

Cache(p) ==
  /\ pc[p] = "cache"
  /\ Caches(p)
  /\ overtaken' = (op[p].kind = "load" /\ target[p].ids # saved)
  /\ Ends(p)
  /\ UNCHANGED <<files, saved, cuts, clobbered>>

\* A write that ended with no primary.
Cut == cuts' = IF cuts < 2 THEN cuts + 1 ELSE cuts

\* A call returns an error.  If the last rename failed the old file is renamed
\* back, which may fail too.
Fail(p) ==
  /\ pc[p] \in {"read", "lock", "remove", "rotate", "replace", "scrub"}
  /\ \/ UNCHANGED files /\ IF pc[p] = "replace" /\ primary = Absent THEN Cut ELSE cuts' = cuts
     \/ /\ pc[p] = "replace" /\ primary = Absent /\ backup # Absent
        /\ primary' = backup /\ backup' = Absent /\ cuts' = cuts
  /\ Ends(p)
  /\ UNCHANGED <<cache, saved, clobbered, overtaken>>

\* The program dies and is started again.
Crash ==
  /\ lock' = Absent /\ guard' = Absent /\ cache' = Absent
  /\ pc' = [p \in Procs |-> "idle"] /\ op' = [p \in Procs |-> Load]
  /\ target' = [p \in Procs |-> Empty]
  /\ IF lock # Absent /\ primary = Absent /\ pc[lock] = "replace" THEN Cut ELSE cuts' = cuts
  /\ UNCHANGED <<files, saved, clobbered, overtaken>>

StorageNext ==
  \/ \E p \in Procs : \/ \E id \in Ids : BeginWrite(p, "save", id) \/ BeginWrite(p, "delete", id)
                      \/ BeginLoad(p) \/ Read(p) \/ Lock(p) \/ RemoveBackup(p) \/ Rotate(p)
                      \/ Replace(p) \/ Scrub(p) \/ Cache(p) \/ Fail(p)
  \/ Crash

StorageSpec == StorageInit /\ [][StorageNext]_storage
-----------------------------------------------------------------------------
(***************************************************************************)
(* Properties                                                              *)
(***************************************************************************)
\* Writes, migrations and failures follow each other and the program may die
\* between any two calls: whoever gets the lock reads the connections of the last
\* write.  The exceptions are two writes in a row that were cut after the rotation,
\* and a load that rewrote or removed what a write had changed since it read.
NothingIsLost ==
  lock = Absent /\ cuts < 2 /\ ~clobbered => Recovered.ids = saved

\* The list the user sees is the one in the file once no write is under way.  The
\* exceptions are a write that was cut, and a load that was overtaken by a write.
CacheFollowsFile ==
  guard = Absent /\ cache # Absent /\ cuts = 0 /\ ~clobbered /\ ~overtaken => cache.ids = saved
=============================================================================
