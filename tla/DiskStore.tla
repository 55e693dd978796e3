----------------------------- MODULE DiskStore ------------------------------
(***************************************************************************)
(* The table of an app's data on disk (util/disk_store): a directory with  *)
(* an index file, which gives every key the name of a value file, and the  *)
(* value files.  The index is also kept in memory while an app object has  *)
(* the directory open; copies of the object share it and its lock, so that *)
(* one operation runs at a time.  Files are rewritten in place: opened,    *)
(* which empties them, and then written.  The process may die at any of    *)
(* these points.  An app that is closed may be saved over from a copy of   *)
(* it that was received (gui/app/app, save_app).                           *)
(*                                                                         *)
(* The name of a value file is a fresh uuid; as the two indexes never give *)
(* one key two names, the file is modelled under the key it belongs to.  A *)
(* file that is missing and one that is empty both read as no value.       *)
(***************************************************************************)
EXTENDS Naturals, FiniteSets

CONSTANTS Key, Value, Absent, Blank, Broken

ASSUME StoreAssumption ==
    /\ Absent \notin Value /\ Blank \notin Value /\ Broken \notin Value
    /\ Absent # Blank /\ Absent # Broken /\ Blank # Broken
    /\ Absent \notin Key

VARIABLES open,    \* an app object has the directory open
          index,   \* index[k]: the entry of k in memory: no entry, the name
                   \* of a file, or an entry without a name
          saved,   \* the index file, as it was last written
          torn,    \* the index file has been emptied and not yet written
          file,    \* file[k]: what the value file of k reads as
          op,      \* the operation that holds the lock, see TypeOK
          reading  \* the key a script has seen in the table and will read

vars == <<open, index, saved, torn, file, op, reading>>

Entry == {"none", "name", "unnamed"}
NoEntries == [k \in Key |-> "none"]
NoRequest == [k \in {} |-> Absent]
Idle == [args |-> NoRequest, left |-> {}, cur |-> Absent, pc |-> "idle"]

Requests == UNION {[K -> Value \cup {Absent}] : K \in SUBSET Key}

TypeOK ==
    /\ open \in BOOLEAN
    /\ index \in [Key -> Entry] /\ saved \in [Key -> Entry]
    /\ torn \in BOOLEAN
    /\ file \in [Key -> Value \cup {Blank}]
    /\ op \in [args : Requests,                \* what the call was asked to store
               left : SUBSET Key,              \* the keys still to be done
               cur : Key \cup {Absent},        \* the key whose file is open
               pc : {"idle", "key", "put", "index", "save", "wipe"}]
    /\ reading \in Key \cup {Absent}

Init ==
    /\ open = FALSE
    /\ index = NoEntries /\ saved = NoEntries
    /\ torn = FALSE
    /\ file = [k \in Key |-> Blank]
    /\ op = Idle
    /\ reading = Absent

-----------------------------------------------------------------------------
\* disk_store::load: an index file that is missing or empty gives no entries
Load ==
    /\ ~open /\ op = Idle
    /\ open' = TRUE
    /\ index' = saved
    /\ UNCHANGED <<saved, torn, file, op, reading>>

\* The app object and its copies are destroyed
Close ==
    /\ open /\ op = Idle
    /\ open' = FALSE
    /\ index' = NoEntries
    /\ reading' = Absent
    /\ UNCHANGED <<saved, torn, file, op>>

\* The lock is taken for an operation that shall do what r says to the keys K
Lock(r, K, pc) == op' = [args |-> r, left |-> K, cur |-> Absent, pc |-> pc]

One(k, c) == [x \in {k} |-> c]

\* disk_store::set
Set(k, v) ==
    /\ open /\ op = Idle
    /\ Lock(One(k, v), {k}, "key")
    /\ UNCHANGED <<open, index, saved, torn, file, reading>>

\* disk_store::remove
Remove(k) ==
    /\ open /\ op = Idle
    /\ index[k] # "none"
    /\ Lock(One(k, Absent), {k}, "key")
    /\ UNCHANGED <<open, index, saved, torn, file, reading>>

Listed == {k \in Key : index[k] # "none"}

\* disk_store::clear, of a table that is not empty
Clear ==
    /\ open /\ op = Idle
    /\ Listed # {}
    /\ Lock([k \in Listed |-> Absent], Listed, "key")
    /\ UNCHANGED <<open, index, saved, torn, file, reading>>

\* disk_store::import_from
ImportFrom(d) ==
    /\ open /\ op = Idle
    /\ Lock(d, DOMAIN d, IF DOMAIN d = {} THEN "index" ELSE "key")
    /\ UNCHANGED <<open, index, saved, torn, file, reading>>

\* save_app over a directory nobody has open: the data directory is removed,
\* made again, and the data d of the copy, exported only then, imported into it
SaveApp(d) ==
    /\ ~open /\ op = Idle
    /\ Lock([k \in Key |-> IF k \in DOMAIN d THEN d[k] ELSE Absent],
            DOMAIN d, "wipe")
    /\ UNCHANGED <<open, index, saved, torn, file, reading>>

-----------------------------------------------------------------------------
\* delete_directory removes file by file, in no particular order
WipeFile(k) ==
    /\ op.pc = "wipe"
    /\ file' = [file EXCEPT ![k] = Blank]
    /\ UNCHANGED <<open, index, saved, torn, op, reading>>

WipeIndex ==
    /\ op.pc = "wipe"
    /\ saved' = NoEntries
    /\ UNCHANGED <<open, index, torn, file, op, reading>>

Wiped == op.pc = "wipe" /\ saved = NoEntries /\ \A k \in Key : file[k] = Blank

\* ... then export_to throws, when the table of the copy has a spoilt key: the
\* save ends there and the old data are gone
ExportThrows ==
    /\ Wiped
    /\ op' = Idle
    /\ UNCHANGED <<open, index, saved, torn, file, reading>>

\* ... or the empty directory is opened as a new disk_store
WipeDone ==
    /\ Wiped
    /\ open' = TRUE
    /\ index' = NoEntries
    /\ op' = [op EXCEPT !.pc = IF op.left = {} THEN "index" ELSE "key"]
    /\ UNCHANGED <<saved, torn, file, reading>>

\* set_intern: the entry, made if there is none, and the value file opened
OpenFile(k) ==
    /\ op.pc = "key" /\ k \in op.left
    /\ op.args[k] # Absent
    /\ index[k] # "unnamed"
    /\ index' = [index EXCEPT ![k] = "name"]
    /\ file' = [file EXCEPT ![k] = Blank]
    /\ op' = [op EXCEPT !.cur = k, !.pc = "put"]
    /\ UNCHANGED <<open, saved, torn, reading>>

\* What follows a put: the next key of import_from, or save_index
AfterPut(o, L) ==
    [o EXCEPT !.left = L, !.cur = Absent,
              !.pc = IF L = {} THEN "index" ELSE "key"]

\* save_to_file, the value written
PutFile ==
    /\ op.pc = "put"
    /\ file' = [file EXCEPT ![op.cur] = op.args[op.cur]]
    /\ op' = AfterPut(op, op.left \ {op.cur})
    /\ UNCHANGED <<open, index, saved, torn, reading>>

\* Mutant: the entry stays in the index although its file is gone
KeepEntry(k) == index

\* remove_intern: index.remove
DropEntry(k) == [index EXCEPT ![k] = "none"]

\* Mutant: only the entry in memory is removed
AfterDeleteReturn(o, L) ==
    IF L = {} THEN Idle ELSE [o EXCEPT !.left = L, !.pc = "index"]

\* What follows a removal: save_index
AfterDelete(o, L) == [o EXCEPT !.left = L, !.pc = "index"]

\* remove_intern: the value file, then the entry
DeleteFile(k) ==
    /\ op.pc = "key" /\ k \in op.left
    /\ op.args[k] = Absent
    /\ index[k] # "unnamed"
    /\ file' = [file EXCEPT ![k] = Blank]
    /\ index' = DropEntry(k)
    /\ op' = AfterDelete(op, op.left \ {k})
    /\ UNCHANGED <<open, saved, torn, reading>>

\* as_string of an entry without a name throws: the call ends here
Throw(k) ==
    /\ op.pc = "key" /\ k \in op.left
    /\ index[k] = "unnamed"
    /\ op' = Idle
    /\ UNCHANGED <<open, index, saved, torn, file, reading>>

\* save_index: the index file is opened ...
OpenIndex ==
    /\ op.pc = "index"
    /\ torn' = TRUE
    /\ op' = [op EXCEPT !.pc = "save"]
    /\ UNCHANGED <<open, index, saved, file, reading>>

\* ... and written; clear goes on with the next key
SaveIndex ==
    /\ op.pc = "save"
    /\ saved' = index
    /\ torn' = FALSE
    /\ op' = IF op.left = {} THEN Idle ELSE [op EXCEPT !.pc = "key"]
    /\ UNCHANGED <<open, index, file, reading>>

-----------------------------------------------------------------------------
\* A script reads a key: store_ref_get asks has() ...
Has(k) ==
    /\ open /\ op = Idle
    /\ reading = Absent
    /\ index[k] # "none"
    /\ reading' = k
    /\ UNCHANGED <<open, index, saved, torn, file, op>>

\* (*_index)[key] of a key that is not there puts an entry without a name
ReadEntry(k) == IF index[k] = "none" THEN "unnamed" ELSE index[k]

\* ... and then get(), with the lock free in between
Get ==
    /\ open /\ op = Idle
    /\ reading # Absent
    /\ index' = [index EXCEPT ![reading] = ReadEntry(reading)]
    /\ reading' = Absent
    /\ UNCHANGED <<open, saved, torn, file, op>>

\* The process dies
Crash ==
    /\ open' = FALSE
    /\ index' = NoEntries
    /\ saved' = IF torn THEN NoEntries ELSE saved
    /\ torn' = FALSE
    /\ op' = Idle
    /\ reading' = Absent
    /\ UNCHANGED file

Next ==
    \/ Load \/ Close \/ Clear \/ WipeIndex \/ ExportThrows \/ WipeDone
    \/ \E k \in Key, v \in Value : Set(k, v)
    \/ \E d \in UNION {[K -> Value] : K \in SUBSET Key} : ImportFrom(d) \/ SaveApp(d)
    \/ \E k \in Key : \/ Remove(k) \/ WipeFile(k) \/ OpenFile(k) \/ DeleteFile(k)
                      \/ Throw(k) \/ Has(k)
    \/ PutFile \/ OpenIndex \/ SaveIndex \/ Get \/ Crash

Spec == Init /\ [][Next]_vars

-----------------------------------------------------------------------------
\* What an entry e stands for, when the file of its key reads as f
Read(e, f) == CASE e = "none" -> Absent [] e = "name" -> f [] e = "unnamed" -> Broken

Table == [k \in Key |-> Read(IF open THEN index[k] ELSE saved[k], file[k])]

Unsaved == {k \in Key : open /\ index[k] = "name" /\ saved[k] # "name"}

KVS == INSTANCE KeyValueStore WITH
           store <- Table, up <- open, busy <- op.pc # "idle", asked <- op.args,
           unsettled <- DOMAIN op.args \cup Unsaved

(***************************************************************************)
(* The files implement the table that KeyValueStore promises: operations   *)
(* touch their own keys only, and what a finished set, remove, clear or    *)
(* import_from did survives every later crash, wherever it comes between   *)
(* two writes of another operation and short of emptying the index.        *)
(***************************************************************************)
ImplementsTable == KVS!Spec

(***************************************************************************)
(* Whenever the lock is free the index in memory and the one on disk name  *)
(* the same files, but for a key that a late read has spoilt and, only if  *)
(* there is such a key, those that a failed import_from left in memory: an *)
(* app that is closed or dies between two calls has lost nothing.          *)
(***************************************************************************)
IdleMeansSaved ==
    op = Idle =>
      /\ ~torn
      /\ open => /\ \A k \in Key : /\ saved[k] = "name" => index[k] = "name"
                                   /\ index[k] = "none" => saved[k] = "none"
                 /\ Unsaved # {} => \E k \in Key : index[k] = "unnamed"

=============================================================================
