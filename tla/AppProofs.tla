------------------------------ MODULE AppProofs ------------------------------
(***************************************************************************)
(* Proofs about an app: its data on disk and the threads of its script.    *)
(*                                                                         *)
(* Of DiskStore, for every set of keys and values: the invariant           *)
(* IdleMeansSaved, and that the files implement KeyValueStore.  Of LuaApp, *)
(* for any apps, any editors among them and every bound: what belongs to   *)
(* which script, and in which order a window and its backend go.  The two  *)
(* share no state.                                                         *)
(***************************************************************************)
EXTENDS DiskStore, LuaApp, TLAPS

-----------------------------------------------------------------------------
(***************************************************************************)
(* The data on disk.                                                       *)
(***************************************************************************)
\* The lock is free exactly when no request is recorded, the index file is
\* torn only between its two writes, and an operation that works on keys
\* works on keys of its request, in a directory that is open.
OpShape ==
    /\ op.pc = "idle" => op = Idle
    /\ torn => op.pc = "save"
    /\ op.left \subseteq DOMAIN op.args
    /\ op.pc \in {"key", "put", "index", "save"} => open
    /\ op.pc = "wipe" => ~open /\ DOMAIN op.args = Key

\* The keys still to be done are all to be stored or all to be removed; a key
\* whose file is open is one of those to be stored.
OpKeys ==
    /\ \/ \A k \in op.left : op.args[k] = Absent
       \/ \A k \in op.left : op.args[k] \in Value
    /\ op.pc = "put" => /\ op.cur \in op.left
                        /\ op.args[op.cur] \in Value
                        /\ index[op.cur] = "name"
    /\ op.pc = "wipe" => /\ \A k \in op.left : op.args[k] \in Value
                         /\ \A k \in Key \ op.left : op.args[k] = Absent

\* Every entry in memory belongs to the request
AllAsked == \A k \in Key : index[k] # "none" => k \in DOMAIN op.args

\* Of the removals only clear works on several keys, and it was asked to
\* remove all there are.
ClearsAll ==
    /\ op.pc \in {"index", "save"} => op.left = {} \/ AllAsked
    /\ op.pc = "key" /\ (\E k \in op.left : op.args[k] = Absent)
          => (\E x \in op.left : op.left = {x}) \/ AllAsked

\* The keys that an operation has done hold what was asked for
KeysDone == op.pc \in {"key", "put", "index", "save"}
                => \A k \in DOMAIN op.args \ op.left : Table[k] = op.args[k]

\* The two indexes: an entry on disk is in memory too, but for a key whose
\* removal is not saved yet, and an entry without a name stays as it is.
Indexes ==
    open => \A k \in Key :
        /\ saved[k] = "unnamed" => index[k] = "unnamed"
        /\ saved[k] = "name" => index[k] # "unnamed"
        /\ saved[k] = "name" /\ index[k] = "none"
             => /\ op.pc \in {"index", "save"}
                /\ k \in DOMAIN op.args
                /\ file[k] = Blank

\* What a failed import_from left in memory
LeftOver == op.pc = "idle" /\ Unsaved # {} => \E k \in Key : index[k] = "unnamed"

IInv == TypeOK /\ OpShape /\ OpKeys /\ ClearsAll /\ KeysDone /\ Indexes /\ LeftOver

-----------------------------------------------------------------------------
\* A request is a function from some of the keys
LEMMA RequestType ==
  ASSUME NEW K \in SUBSET Key, NEW r \in [K -> Value \cup {Absent}]
  PROVE  r \in Requests /\ DOMAIN r = K
BY DEF Requests

LEMMA RequestDomain ==
  ASSUME NEW r \in Requests
  PROVE  DOMAIN r \subseteq Key /\ \A k \in DOMAIN r : r[k] \in Value \cup {Absent}
BY DEF Requests

LEMMA NoRequestType == NoRequest \in Requests /\ DOMAIN NoRequest = {}
<1>1. {} \in SUBSET Key /\ NoRequest \in [{} -> Value \cup {Absent}]
  BY DEF NoRequest
<1>2. QED BY <1>1, RequestType

\* The free lock
LEMMA IdleType ==
  /\ Idle \in [args : Requests, left : SUBSET Key, cur : Key \cup {Absent},
               pc : {"idle", "key", "put", "index", "save", "wipe"}]
  /\ Idle.args = NoRequest /\ Idle.left = {} /\ Idle.cur = Absent /\ Idle.pc = "idle"
BY NoRequestType DEF Idle

\* The table key by key, in a state and in the next one
LEMMA TableAt ==
  ASSUME NEW k \in Key
  PROVE  /\ Table[k] = Read(IF open THEN index[k] ELSE saved[k], file[k])
         /\ Table'[k] = Read(IF open' THEN index'[k] ELSE saved'[k], file'[k])
BY DEF Table, Read

-----------------------------------------------------------------------------
\* Every action keeps the inductive invariant

LEMMA LoadKeeps ==
  ASSUME IInv, Load
  PROVE  IInv'
<1>1. TypeOK'
  BY DEF IInv, TypeOK, Load
<1>2. OpShape'
  BY DEF IInv, OpShape, Idle, Load
<1>3. OpKeys'
  BY DEF IInv, OpKeys, Idle, Load
<1>4. ClearsAll'
  BY DEF IInv, ClearsAll, AllAsked, Idle, Load
<1>5. KeysDone'
  BY DEF IInv, KeysDone, Table, Read, Idle, Load
<1>6. Indexes'
  BY DEF IInv, Indexes, Load
<1>7. LeftOver'
  BY DEF IInv, LeftOver, Unsaved, Load
<1>8. QED BY <1>1, <1>2, <1>3, <1>4, <1>5, <1>6, <1>7 DEF IInv

LEMMA CloseKeeps ==
  ASSUME IInv, Close
  PROVE  IInv'
<1>1. TypeOK'
  BY DEF IInv, TypeOK, OpShape, Idle, NoRequest, NoEntries, Entry, Close
<1>2. OpShape'
  BY DEF IInv, OpShape, Idle, NoEntries, Close
<1>3. OpKeys'
  BY DEF IInv, OpKeys, Idle, NoEntries, Close
<1>4. ClearsAll'
  BY DEF IInv, ClearsAll, AllAsked, NoEntries, Close
<1>5. KeysDone'
  BY DEF IInv, KeysDone, Table, Read, Idle, NoEntries, Close
<1>6. Indexes'
  BY DEF IInv, Indexes, NoEntries, Close
<1>7. LeftOver'
  BY DEF IInv, LeftOver, Unsaved, NoEntries, Close
<1>8. QED BY <1>1, <1>2, <1>3, <1>4, <1>5, <1>6, <1>7 DEF IInv

LEMMA ClearKeeps ==
  ASSUME IInv, Clear
  PROVE  IInv'
<1>1. TypeOK'
  <2>1. /\ Listed \in SUBSET Key
        /\ [x \in Listed |-> Absent] \in [Listed -> Value \cup {Absent}]
    BY DEF Listed
  <2>2. [x \in Listed |-> Absent] \in Requests
    BY <2>1, RequestType
  <2>3. QED
    BY <2>1, <2>2 DEF IInv, TypeOK, Clear, Lock
<1>2. OpShape'
  BY DEF IInv, OpShape, Idle, Lock, Listed, Clear
<1>3. OpKeys'
  BY DEF IInv, OpKeys, Lock, Listed, Clear
<1>4. ClearsAll'
  BY DEF IInv, ClearsAll, AllAsked, Lock, Listed, Clear
<1>5. KeysDone'
  BY DEF IInv, KeysDone, Table, Read, Lock, Listed, Clear
<1>6. Indexes'
  BY DEF IInv, Indexes, Idle, Lock, Listed, Clear
<1>7. LeftOver'
  BY DEF IInv, LeftOver, Unsaved, Lock, Listed, Clear
<1>8. QED BY <1>1, <1>2, <1>3, <1>4, <1>5, <1>6, <1>7 DEF IInv

LEMMA WipeIndexKeeps ==
  ASSUME IInv, WipeIndex
  PROVE  IInv'
<1>1. TypeOK'
  BY DEF IInv, TypeOK, OpShape, Idle, NoRequest, NoEntries, Entry, WipeIndex
<1>2. OpShape'
  BY DEF IInv, OpShape, NoEntries, WipeIndex
<1>3. OpKeys'
  BY DEF IInv, OpKeys, NoEntries, WipeIndex
<1>4. ClearsAll'
  BY DEF IInv, ClearsAll, AllAsked, NoEntries, WipeIndex
<1>5. KeysDone'
  BY DEF IInv, KeysDone, Table, Read, NoEntries, WipeIndex
<1>6. Indexes'
  BY DEF IInv, Indexes, NoEntries, WipeIndex
<1>7. LeftOver'
  BY DEF IInv, LeftOver, Unsaved, NoEntries, WipeIndex
<1>8. QED BY <1>1, <1>2, <1>3, <1>4, <1>5, <1>6, <1>7 DEF IInv

LEMMA WipeDoneKeeps ==
  ASSUME IInv, WipeDone
  PROVE  IInv'
<1>1. TypeOK'
  BY DEF IInv, TypeOK, NoEntries, Wiped, WipeDone
<1>2. OpShape'
  BY DEF IInv, OpShape, NoEntries, Wiped, WipeDone
<1>3. OpKeys'
  BY DEF IInv, OpKeys, NoEntries, Wiped, WipeDone
<1>4. ClearsAll'
  BY StoreAssumption DEF IInv, ClearsAll, AllAsked, NoEntries, Wiped, WipeDone
<1>5. KeysDone'
  BY DEF IInv, TypeOK, OpShape, OpKeys, KeysDone, Table, Read, Idle,
       NoRequest, NoEntries, Entry, Wiped, WipeDone
<1>6. Indexes'
  BY DEF IInv, Indexes, NoEntries, Wiped, WipeDone
<1>7. LeftOver'
  BY DEF IInv, LeftOver, Unsaved, NoEntries, Wiped, WipeDone
<1>8. QED BY <1>1, <1>2, <1>3, <1>4, <1>5, <1>6, <1>7 DEF IInv

LEMMA ExportThrowsKeeps ==
  ASSUME IInv, ExportThrows
  PROVE  IInv'
<1>1. TypeOK'
  BY IdleType DEF IInv, TypeOK, ExportThrows
<1>2. OpShape'
  BY DEF IInv, OpShape, Idle, NoEntries, Wiped, ExportThrows
<1>3. OpKeys'
  BY DEF IInv, OpKeys, Idle, NoEntries, Wiped, ExportThrows
<1>4. ClearsAll'
  BY DEF IInv, ClearsAll, AllAsked, Idle, NoRequest, Wiped, ExportThrows
<1>5. KeysDone'
  BY DEF IInv, KeysDone, Table, Read, Idle, NoRequest, NoEntries, Wiped, ExportThrows
<1>6. Indexes'
  BY DEF IInv, OpShape, Indexes, Idle, NoEntries, Wiped, ExportThrows
<1>7. LeftOver'
  BY DEF IInv, OpShape, LeftOver, Unsaved, Idle, NoEntries, Wiped, ExportThrows
<1>8. QED BY <1>1, <1>2, <1>3, <1>4, <1>5, <1>6, <1>7 DEF IInv

LEMMA PutFileKeeps ==
  ASSUME IInv, PutFile
  PROVE  IInv'
<1>1. TypeOK'
  BY DEF IInv, TypeOK, OpShape, OpKeys, Idle, NoRequest, Entry, AfterPut,
       PutFile
<1>2. OpShape'
  BY DEF IInv, OpShape, AfterPut, PutFile
<1>3. OpKeys'
  BY DEF IInv, OpKeys, AfterPut, PutFile
<1>4. ClearsAll'
  BY StoreAssumption DEF IInv, TypeOK, OpShape, OpKeys, ClearsAll, AllAsked,
       Idle, NoRequest, Entry, AfterPut, PutFile
<1>5. KeysDone'
  <2>1. /\ op'.args = op.args /\ op'.left = op.left \ {op.cur} /\ op.cur \in op.left
        /\ op.args \in Requests /\ op.pc = "put" /\ op.cur \in Key
        /\ op.args[op.cur] \in Value
    BY RequestDomain DEF IInv, TypeOK, OpShape, OpKeys, PutFile, AfterPut
  <2>2. \A x \in Key \ {op.cur} : Table'[x] = Table[x]
    BY TableAt DEF IInv, TypeOK, PutFile
  <2>3. Table'[op.cur] = op.args[op.cur]
    <3>1. open' /\ index'[op.cur] = "name" /\ file'[op.cur] = op.args[op.cur]
      BY <2>1 DEF IInv, TypeOK, OpShape, OpKeys, PutFile
    <3>2. QED BY <2>1, <3>1, TableAt DEF Read
  <2>4. QED
    BY <2>1, <2>2, <2>3, RequestDomain DEF IInv, KeysDone
<1>6. Indexes'
  BY DEF IInv, Indexes, AfterPut, PutFile
<1>7. LeftOver'
  BY DEF IInv, LeftOver, Unsaved, AfterPut, PutFile
<1>8. QED BY <1>1, <1>2, <1>3, <1>4, <1>5, <1>6, <1>7 DEF IInv

LEMMA OpenIndexKeeps ==
  ASSUME IInv, OpenIndex
  PROVE  IInv'
<1>1. TypeOK'
  BY DEF IInv, TypeOK, OpenIndex
<1>2. OpShape'
  BY DEF IInv, OpShape, OpenIndex
<1>3. OpKeys'
  BY DEF IInv, OpKeys, OpenIndex
<1>4. ClearsAll'
  BY DEF IInv, ClearsAll, AllAsked, OpenIndex
<1>5. KeysDone'
  BY DEF IInv, TypeOK, OpShape, KeysDone, Table, Read, Idle, NoRequest,
       Entry, OpenIndex
<1>6. Indexes'
  BY DEF IInv, Indexes, OpenIndex
<1>7. LeftOver'
  BY DEF IInv, LeftOver, Unsaved, OpenIndex
<1>8. QED BY <1>1, <1>2, <1>3, <1>4, <1>5, <1>6, <1>7 DEF IInv

LEMMA SaveIndexKeeps ==
  ASSUME IInv, SaveIndex
  PROVE  IInv'
<1>1. TypeOK'
  <2>1. CASE op.left = {}
    BY <2>1, IdleType DEF IInv, TypeOK, SaveIndex
  <2>2. CASE op.left # {}
    BY <2>2 DEF IInv, TypeOK, SaveIndex
  <2>3. QED BY <2>1, <2>2
<1>2. OpShape'
  BY DEF IInv, OpShape, Idle, SaveIndex
<1>3. OpKeys'
  BY DEF IInv, OpKeys, Idle, SaveIndex
<1>4. ClearsAll'
  BY DEF IInv, ClearsAll, AllAsked, Idle, SaveIndex
<1>5. KeysDone'
  <2>1. op'.pc \in {"key", "put", "index", "save"} =>
          op'.args = op.args /\ op'.left = op.left
    BY IdleType DEF IInv, TypeOK, SaveIndex
  <2>2. open /\ open' /\ op.args \in Requests /\ op.pc = "save"
    BY DEF IInv, TypeOK, OpShape, SaveIndex
  <2>3. \A x \in Key : Table'[x] = Table[x]
    BY <2>2, TableAt DEF IInv, TypeOK, SaveIndex
  <2>4. QED
    BY <2>1, <2>2, <2>3, RequestDomain DEF IInv, KeysDone
<1>6. Indexes'
  BY DEF IInv, Indexes, SaveIndex
<1>7. LeftOver'
  BY DEF IInv, LeftOver, Unsaved, SaveIndex
<1>8. QED BY <1>1, <1>2, <1>3, <1>4, <1>5, <1>6, <1>7 DEF IInv

LEMMA GetKeeps ==
  ASSUME IInv, Get
  PROVE  IInv'
<1>1. TypeOK'
  BY DEF IInv, TypeOK, OpShape, Idle, NoRequest, Entry, ReadEntry, Get
<1>2. OpShape'
  BY DEF IInv, OpShape, ReadEntry, Get
<1>3. OpKeys'
  BY DEF IInv, OpKeys, ReadEntry, Get
<1>4. ClearsAll'
  BY DEF IInv, ClearsAll, AllAsked, Idle, ReadEntry, Get
<1>5. KeysDone'
  BY DEF IInv, KeysDone, Table, Read, Idle, ReadEntry, Get
<1>6. Indexes'
  BY DEF IInv, Indexes, Idle, ReadEntry, Get
<1>7. LeftOver'
  BY DEF IInv, LeftOver, Unsaved, ReadEntry, Get
<1>8. QED BY <1>1, <1>2, <1>3, <1>4, <1>5, <1>6, <1>7 DEF IInv

LEMMA CrashKeeps ==
  ASSUME IInv, Crash
  PROVE  IInv'
<1>1. TypeOK'
  BY IdleType DEF IInv, TypeOK, Crash, NoEntries, Entry
<1>2. OpShape'
  BY DEF IInv, OpShape, Idle, NoEntries, Crash
<1>3. OpKeys'
  BY DEF IInv, OpKeys, Idle, NoEntries, Crash
<1>4. ClearsAll'
  BY DEF IInv, ClearsAll, AllAsked, NoEntries, Crash
<1>5. KeysDone'
  BY DEF IInv, KeysDone, Table, Read, Idle, NoEntries, Crash
<1>6. Indexes'
  BY DEF IInv, Indexes, NoEntries, Crash
<1>7. LeftOver'
  BY DEF IInv, LeftOver, Unsaved, NoEntries, Crash
<1>8. QED BY <1>1, <1>2, <1>3, <1>4, <1>5, <1>6, <1>7 DEF IInv

LEMMA RemoveKeeps ==
  ASSUME IInv, NEW k \in Key, Remove(k)
  PROVE  IInv'
<1>1. TypeOK'
  <2>1. {k} \in SUBSET Key /\ One(k, Absent) \in [{k} -> Value \cup {Absent}]
    BY DEF One
  <2>2. One(k, Absent) \in Requests
    BY <2>1, RequestType
  <2>3. QED
    BY <2>1, <2>2 DEF IInv, TypeOK, Remove, Lock
<1>2. OpShape'
  BY DEF IInv, OpShape, Idle, Lock, One, Remove
<1>3. OpKeys'
  BY DEF IInv, OpKeys, Lock, One, Remove
<1>4. ClearsAll'
  BY DEF IInv, ClearsAll, AllAsked, Lock, One, Remove
<1>5. KeysDone'
  BY DEF IInv, KeysDone, Table, Read, Lock, One, Remove
<1>6. Indexes'
  BY DEF IInv, Indexes, Idle, Lock, One, Remove
<1>7. LeftOver'
  BY DEF IInv, LeftOver, Unsaved, Lock, One, Remove
<1>8. QED BY <1>1, <1>2, <1>3, <1>4, <1>5, <1>6, <1>7 DEF IInv

LEMMA WipeFileKeeps ==
  ASSUME IInv, NEW k \in Key, WipeFile(k)
  PROVE  IInv'
<1>1. TypeOK'
  BY DEF IInv, TypeOK, WipeFile
<1>2. OpShape'
  BY DEF IInv, OpShape, WipeFile
<1>3. OpKeys'
  BY DEF IInv, OpKeys, WipeFile
<1>4. ClearsAll'
  BY DEF IInv, ClearsAll, AllAsked, WipeFile
<1>5. KeysDone'
  BY DEF IInv, KeysDone, Table, Read, WipeFile
<1>6. Indexes'
  BY DEF IInv, Indexes, WipeFile
<1>7. LeftOver'
  BY DEF IInv, LeftOver, Unsaved, WipeFile
<1>8. QED BY <1>1, <1>2, <1>3, <1>4, <1>5, <1>6, <1>7 DEF IInv

LEMMA OpenFileKeeps ==
  ASSUME IInv, NEW k \in Key, OpenFile(k)
  PROVE  IInv'
<1>1. TypeOK'
  BY DEF IInv, TypeOK, OpShape, Idle, NoRequest, Entry, OpenFile
<1>2. OpShape'
  BY DEF IInv, OpShape, OpenFile
<1>3. OpKeys'
  BY DEF IInv, TypeOK, OpKeys, OpenFile
<1>4. ClearsAll'
  BY DEF IInv, ClearsAll, AllAsked, OpenFile
<1>5. KeysDone'
  <2>1. /\ op'.args = op.args /\ op'.left = op.left /\ k \in op.left
        /\ op.args \in Requests /\ op.pc = "key"
    BY DEF IInv, TypeOK, OpenFile
  <2>2. \A x \in Key \ {k} : Table'[x] = Table[x]
    BY TableAt DEF IInv, TypeOK, OpenFile
  <2>3. QED
    BY <2>1, <2>2, RequestDomain DEF IInv, KeysDone
<1>6. Indexes'
  BY DEF IInv, Indexes, OpenFile
<1>7. LeftOver'
  BY DEF IInv, LeftOver, Unsaved, OpenFile
<1>8. QED BY <1>1, <1>2, <1>3, <1>4, <1>5, <1>6, <1>7 DEF IInv

LEMMA DeleteFileKeeps ==
  ASSUME IInv, NEW k \in Key, DeleteFile(k)
  PROVE  IInv'
<1>1. TypeOK'
  BY DEF IInv, TypeOK, OpShape, Idle, NoRequest, Entry, AfterDelete,
       DropEntry, DeleteFile
<1>2. OpShape'
  BY DEF IInv, OpShape, AfterDelete, DropEntry, DeleteFile
<1>3. OpKeys'
  BY DEF IInv, OpKeys, AfterDelete, DropEntry, DeleteFile
<1>4. ClearsAll'
  BY DEF IInv, ClearsAll, AllAsked, AfterDelete, DropEntry, DeleteFile
<1>5. KeysDone'
  <2>1. /\ op'.args = op.args /\ op'.left = op.left \ {k} /\ k \in op.left
        /\ op.args \in Requests /\ op.pc = "key"
        /\ op.args[k] = Absent
    BY DEF IInv, TypeOK, DeleteFile, AfterDelete
  <2>2. \A x \in Key \ {k} : Table'[x] = Table[x]
    BY TableAt DEF IInv, TypeOK, DeleteFile, DropEntry
  <2>3. Table'[k] = Absent
    <3>1. open' /\ index'[k] = "none"
      BY <2>1 DEF IInv, TypeOK, OpShape, DeleteFile, DropEntry
    <3>2. QED BY <3>1, TableAt DEF Read
  <2>4. QED
    BY <2>1, <2>2, <2>3, RequestDomain DEF IInv, KeysDone
<1>6. Indexes'
  BY DEF IInv, TypeOK, OpShape, Indexes, AfterDelete, DropEntry, DeleteFile
<1>7. LeftOver'
  BY DEF IInv, LeftOver, Unsaved, AfterDelete, DropEntry, DeleteFile
<1>8. QED BY <1>1, <1>2, <1>3, <1>4, <1>5, <1>6, <1>7 DEF IInv

LEMMA ThrowKeeps ==
  ASSUME IInv, NEW k \in Key, Throw(k)
  PROVE  IInv'
<1>1. TypeOK'
  BY IdleType DEF IInv, TypeOK, Throw
<1>2. OpShape'
  BY DEF IInv, OpShape, Idle, Throw
<1>3. OpKeys'
  BY DEF IInv, OpKeys, Idle, Throw
<1>4. ClearsAll'
  BY DEF IInv, ClearsAll, AllAsked, Idle, Throw
<1>5. KeysDone'
  BY DEF IInv, KeysDone, Table, Read, Idle, Throw
<1>6. Indexes'
  BY DEF IInv, Indexes, Throw
<1>7. LeftOver'
  BY DEF IInv, LeftOver, Unsaved, Throw
<1>8. QED BY <1>1, <1>2, <1>3, <1>4, <1>5, <1>6, <1>7 DEF IInv

LEMMA HasKeeps ==
  ASSUME IInv, NEW k \in Key, Has(k)
  PROVE  IInv'
<1>1. TypeOK'
  BY DEF IInv, TypeOK, Has
<1>2. OpShape'
  BY DEF IInv, OpShape, Has
<1>3. OpKeys'
  BY StoreAssumption DEF IInv, OpKeys, Has
<1>4. ClearsAll'
  BY DEF IInv, ClearsAll, AllAsked, Has
<1>5. KeysDone'
  BY DEF IInv, KeysDone, Table, Read, Idle, Has
<1>6. Indexes'
  BY DEF IInv, Indexes, Has
<1>7. LeftOver'
  BY DEF IInv, LeftOver, Unsaved, Has
<1>8. QED BY <1>1, <1>2, <1>3, <1>4, <1>5, <1>6, <1>7 DEF IInv

LEMMA SetKeeps ==
  ASSUME IInv, NEW k \in Key, NEW v \in Value, Set(k, v)
  PROVE  IInv'
<1>1. TypeOK'
  <2>1. {k} \in SUBSET Key /\ One(k, v) \in [{k} -> Value \cup {Absent}]
    BY DEF One
  <2>2. One(k, v) \in Requests
    BY <2>1, RequestType
  <2>3. QED
    BY <2>1, <2>2 DEF IInv, TypeOK, Set, Lock
<1>2. OpShape'
  BY DEF IInv, OpShape, Idle, Lock, One, Set
<1>3. OpKeys'
  BY DEF IInv, OpKeys, Lock, One, Set
<1>4. ClearsAll'
  BY DEF IInv, ClearsAll, AllAsked, Lock, One, Set
<1>5. KeysDone'
  BY DEF IInv, KeysDone, Table, Read, Lock, One, Set
<1>6. Indexes'
  BY DEF IInv, Indexes, Idle, Lock, One, Set
<1>7. LeftOver'
  BY DEF IInv, LeftOver, Unsaved, Lock, One, Set
<1>8. QED BY <1>1, <1>2, <1>3, <1>4, <1>5, <1>6, <1>7 DEF IInv

LEMMA ImportFromKeeps ==
  ASSUME IInv, NEW K \in SUBSET Key, NEW d \in [K -> Value], ImportFrom(d)
  PROVE  IInv'
<1>1. TypeOK'
  BY DEF IInv, TypeOK, OpShape, OpKeys, Idle, NoRequest, Entry, Requests,
       Lock, ImportFrom
<1>2. OpShape'
  BY DEF IInv, OpShape, Idle, Lock, ImportFrom
<1>3. OpKeys'
  BY DEF IInv, OpKeys, Lock, ImportFrom
<1>4. ClearsAll'
  BY StoreAssumption DEF IInv, ClearsAll, AllAsked, Lock, ImportFrom
<1>5. KeysDone'
  BY DEF IInv, KeysDone, Table, Read, Lock, ImportFrom
<1>6. Indexes'
  BY DEF IInv, Indexes, Idle, Lock, ImportFrom
<1>7. LeftOver'
  BY DEF IInv, LeftOver, Unsaved, Lock, ImportFrom
<1>8. QED BY <1>1, <1>2, <1>3, <1>4, <1>5, <1>6, <1>7 DEF IInv

LEMMA SaveAppKeeps ==
  ASSUME IInv, NEW K \in SUBSET Key, NEW d \in [K -> Value], SaveApp(d)
  PROVE  IInv'
<1>1. TypeOK'
  BY DEF IInv, TypeOK, OpShape, OpKeys, Idle, NoRequest, Entry, Requests,
       Lock, SaveApp
<1>2. OpShape'
  BY DEF IInv, OpShape, Lock, SaveApp
<1>3. OpKeys'
  BY DEF IInv, OpKeys, Lock, SaveApp
<1>4. ClearsAll'
  BY DEF IInv, ClearsAll, AllAsked, Lock, SaveApp
<1>5. KeysDone'
  BY DEF IInv, KeysDone, Table, Read, Lock, SaveApp
<1>6. Indexes'
  BY DEF IInv, Indexes, Lock, SaveApp
<1>7. LeftOver'
  BY DEF IInv, LeftOver, Unsaved, Lock, SaveApp
<1>8. QED BY <1>1, <1>2, <1>3, <1>4, <1>5, <1>6, <1>7 DEF IInv

\* The empty directory, before any app object opens it
LEMMA InitIInv == Init => IInv
<1> SUFFICES ASSUME Init PROVE IInv
  OBVIOUS
<1>1. TypeOK
  BY IdleType DEF Init, TypeOK, NoEntries, Entry
<1>2. OpShape /\ OpKeys /\ ClearsAll
  BY IdleType DEF Init, OpShape, OpKeys, ClearsAll
<1>3. KeysDone /\ Indexes /\ LeftOver
  BY IdleType DEF Init, KeysDone, Indexes, LeftOver, Unsaved
<1>4. QED BY <1>1, <1>2, <1>3 DEF IInv

LEMMA StutterKeeps ==
  ASSUME IInv, UNCHANGED vars
  PROVE  IInv'
BY DEF vars, IInv, TypeOK, OpShape, OpKeys, ClearsAll, AllAsked, KeysDone, Indexes,
       LeftOver, Table, Unsaved

LEMMA NextKeeps ==
  ASSUME IInv, [Next]_vars
  PROVE  IInv'
<1>1. CASE UNCHANGED vars
  BY <1>1, StutterKeeps
<1>2. CASE Load \/ Close \/ Clear \/ WipeIndex \/ ExportThrows \/ WipeDone
  BY <1>2, LoadKeeps, CloseKeeps, ClearKeeps, WipeIndexKeeps, ExportThrowsKeeps,
     WipeDoneKeeps
<1>3. CASE \E k \in Key, v \in Value : Set(k, v)
  BY <1>3, SetKeeps
<1>4. CASE \E d \in UNION {[K -> Value] : K \in SUBSET Key} : ImportFrom(d) \/ SaveApp(d)
  <2>1. PICK K \in SUBSET Key : \E d \in [K -> Value] : ImportFrom(d) \/ SaveApp(d)
    BY <1>4
  <2>2. QED BY <2>1, ImportFromKeeps, SaveAppKeeps
<1>5. CASE \E k \in Key : Remove(k) \/ WipeFile(k) \/ OpenFile(k)
  BY <1>5, RemoveKeeps, WipeFileKeeps, OpenFileKeeps
<1>6. CASE \E k \in Key : DeleteFile(k) \/ Throw(k) \/ Has(k)
  BY <1>6, DeleteFileKeeps, ThrowKeeps, HasKeeps
<1>7. CASE PutFile \/ OpenIndex \/ SaveIndex \/ Get \/ Crash
  BY <1>7, PutFileKeeps, OpenIndexKeeps, SaveIndexKeeps, GetKeeps, CrashKeeps
<1>8. QED
  BY <1>1, <1>2, <1>3, <1>4, <1>5, <1>6, <1>7 DEF Next

\* The inductive invariant holds of every history of the files
LEMMA Inductive == Spec => []IInv
<1>1. IInv /\ [Next]_vars => IInv'
  BY NextKeeps
<1>2. QED BY <1>1, InitIInv, PTL DEF Spec

(***************************************************************************)
(* Whenever no operation of disk_store holds the lock, the index in memory *)
(* and the index file name the same files (but for what a late get has     *)
(* spoilt): nothing that a finished call did is in memory only.            *)
(***************************************************************************)
THEOREM SavedWhenIdle == Spec => []IdleMeansSaved
<1>1. ASSUME IInv PROVE IdleMeansSaved
  <2> SUFFICES ASSUME op = Idle
               PROVE  /\ ~torn
                      /\ open => /\ \A k \in Key :
                                      /\ saved[k] = "name" => index[k] = "name"
                                      /\ index[k] = "none" => saved[k] = "none"
                                 /\ Unsaved # {} => \E k \in Key : index[k] = "unnamed"
    BY DEF IdleMeansSaved
  <2>1. op.pc = "idle"
    BY IdleType
  <2>2. QED
    BY <1>1, <2>1 DEF IInv, TypeOK, Entry, OpShape, Indexes, LeftOver
<1>2. QED BY <1>1, Inductive, PTL

-----------------------------------------------------------------------------
\* Every step of the files is a step of the abstract table, or none

\* The mapped table is one of KeyValueStore, in a state and in the next one
LEMMA TableType ==
  /\ TypeOK => Table \in [Key -> KVS!Content]
  /\ TypeOK' => Table' \in [Key -> KVS!Content]
<1>1. ASSUME TypeOK, NEW k \in Key
      PROVE  Table[k] \in KVS!Content
  BY <1>1, TableAt DEF TypeOK, Entry, Read, KVS!Content
<1>2. ASSUME TypeOK', NEW k \in Key
      PROVE  Table'[k] \in KVS!Content
  BY <1>2, TableAt DEF TypeOK, Entry, Read, KVS!Content
<1>3. QED BY <1>1, <1>2 DEF Table

LEMMA TableSame ==
  ASSUME \A k \in Key : Table'[k] = Table[k]
  PROVE  Table' = Table
<1>1. /\ Table = [k \in Key |-> Table[k]]
      /\ Table' = [k \in Key |-> Table'[k]]
  BY DEF Table
<1>2. QED BY <1>1

LEMMA InitMaps == Init => KVS!Init
<1> SUFFICES ASSUME Init PROVE KVS!Init
  OBVIOUS
<1>1. Table = [k \in Key |-> Absent]
  BY DEF Init, Table, Read, NoEntries
<1>2. op.args = NoRequest /\ op.pc = "idle"
  BY IdleType DEF Init
<1>3. Unsaved = {} /\ DOMAIN op.args = {}
  BY <1>2, NoRequestType DEF Unsaved, Init
<1>4. QED
  BY <1>1, <1>2, <1>3 DEF KVS!Init, KVS!Nothing, NoRequest, Init

LEMMA LoadMaps ==
  ASSUME IInv, Load PROVE KVS!Open
<1>1. \A k \in Key : Table'[k] = Table[k]
  BY TableAt DEF Load
<1>2. Unsaved = {} /\ Unsaved' = {}
  BY DEF Load, Unsaved
<1>3. QED
  BY <1>1, <1>2, TableSame DEF Load, KVS!Open

\* set, remove, clear, import_from and save_app take the lock
LEMMA BeginMaps ==
  ASSUME IInv, op = Idle, op'.pc # "idle", op'.args \in Requests,
         UNCHANGED <<open, index, saved, file>>
  PROVE  KVS!Begin(op'.args)
<1>1. \A k \in Key : Table'[k] = Table[k]
  BY TableAt
<1>2. Unsaved' = Unsaved
  BY DEF Unsaved
<1>3. op.pc = "idle" /\ DOMAIN op.args = {}
  BY IdleType, NoRequestType
<1>4. QED
  BY <1>1, <1>2, <1>3, TableSame DEF KVS!Begin

\* A step of the operation that holds the lock
LEMMA WorkMaps ==
  ASSUME IInv, IInv', op.pc # "idle", op'.pc # "idle",
         op'.args = op.args, open' = open,
         DOMAIN op.args \cup Unsaved' = DOMAIN op.args \cup Unsaved,
         \A k \in Key : \/ Table'[k] = Table[k]
                        \/ /\ k \in DOMAIN op.args
                           /\ Table'[k] \in {op.args[k], Blank, Absent}
  PROVE  KVS!Work
<1>1. Table' \in [Key -> KVS!Content]
  BY TableType DEF IInv
<1>2. QED
  BY <1>1 DEF KVS!Work

\* Close: KVS!Crash with the lock free
LEMMA CloseMaps ==
  ASSUME IInv, IInv', Close PROVE KVS!Crash
<1>1. open /\ ~open' /\ op = Idle /\ op' = op
  BY DEF Close
<1>2. op.pc = "idle" /\ op.args = NoRequest /\ DOMAIN op.args = {}
  BY <1>1, IdleType, NoRequestType
<1>3. Unsaved' = {}
  BY <1>1 DEF Unsaved
<1>4. ASSUME NEW k \in Key
      PROVE  \/ Table'[k] = Table[k]
             \/ Table'[k] = Absent /\ Table[k] = Broken
             \/ Table'[k] \in {Absent, Blank} /\ k \in Unsaved
  <2>1. Table[k] = Read(index[k], file[k]) /\ Table'[k] = Read(saved[k], file[k])
    BY <1>1, TableAt DEF Close
  <2>2. /\ index[k] \in Entry /\ saved[k] \in Entry
        /\ saved[k] = "unnamed" => index[k] = "unnamed"
        /\ saved[k] = "name" => index[k] = "name"
        /\ index[k] = "name" /\ saved[k] # "name" => k \in Unsaved
    BY <1>1, <1>2 DEF IInv, TypeOK, Indexes, Unsaved, Entry
  <2>3. QED BY <2>1, <2>2 DEF Read, Entry
<1>5. Table' \in [Key -> KVS!Content]
  BY TableType DEF IInv
<1>6. QED
  BY <1>1, <1>2, <1>3, <1>4, <1>5 DEF KVS!Crash, KVS!Nothing, NoRequest

\* A crash: the index file is either empty, or older than the index in memory
LEMMA CrashMaps ==
  ASSUME IInv, IInv', Crash PROVE KVS!Crash
<1>1. ~open' /\ op' = Idle
  BY DEF Crash
<1>2. op'.pc = "idle" /\ op'.args = NoRequest /\ DOMAIN op'.args = {}
  BY <1>1, IdleType, NoRequestType
<1>3. Unsaved' = {}
  BY <1>1 DEF Unsaved
<1>4. Table' \in [Key -> KVS!Content]
  BY TableType DEF IInv
<1>5. CASE torn
  <2>1. op.pc # "idle"
    BY <1>5 DEF IInv, OpShape
  <2>2. \A k \in Key : Table'[k] = Absent
    BY <1>1, <1>5, TableAt DEF Crash, NoEntries, Read
  <2>3. Table' = [k \in Key |-> Absent]
    BY <2>2 DEF Table
  <2>4. QED
    BY <1>1, <1>2, <1>3, <2>1, <2>3 DEF KVS!Crash, KVS!Nothing, NoRequest
<1>6. CASE ~torn
  <2>1. ASSUME NEW k \in Key
        PROVE  \/ Table'[k] = Table[k]
               \/ Table'[k] = Absent /\ Table[k] = Broken
               \/ Table'[k] \in {Absent, Blank} /\ k \in DOMAIN op.args \cup Unsaved
    <3>1. /\ Table[k] = Read(IF open THEN index[k] ELSE saved[k], file[k])
          /\ Table'[k] = Read(saved[k], file[k])
      BY <1>1, <1>6, TableAt DEF Crash
    <3>2. CASE ~open
      BY <3>1, <3>2
    <3>3. CASE open
      <4>1. /\ index[k] \in Entry /\ saved[k] \in Entry
            /\ saved[k] = "unnamed" => index[k] = "unnamed"
            /\ saved[k] = "name" => index[k] # "unnamed"
            /\ saved[k] = "name" /\ index[k] = "none"
                 => k \in DOMAIN op.args /\ file[k] = Blank
            /\ index[k] = "name" /\ saved[k] # "name" => k \in Unsaved
        BY <3>3 DEF IInv, TypeOK, Indexes, Unsaved, Entry
      <4>2. QED BY <3>1, <3>3, <4>1 DEF Read, Entry
    <3>4. QED BY <3>2, <3>3
  <2>2. QED
    BY <1>1, <1>2, <1>3, <1>4, <2>1 DEF KVS!Crash, KVS!Nothing, NoRequest
<1>7. QED BY <1>5, <1>6

LEMMA OpenFileMaps ==
  ASSUME IInv, IInv', NEW k \in Key, OpenFile(k) PROVE KVS!Work
<1>1. /\ op.pc # "idle" /\ op'.pc # "idle" /\ op'.args = op.args
      /\ k \in op.left /\ k \in DOMAIN op.args /\ open' = open /\ open
  BY DEF IInv, TypeOK, OpShape, OpenFile
<1>2. DOMAIN op.args \cup Unsaved' = DOMAIN op.args \cup Unsaved
  BY <1>1 DEF IInv, TypeOK, OpenFile, Unsaved
<1>3. \A x \in Key \ {k} : Table'[x] = Table[x]
  BY TableAt DEF IInv, TypeOK, OpenFile
<1>4. Table'[k] = Blank
  <2>1. index'[k] = "name" /\ file'[k] = Blank
    BY DEF IInv, TypeOK, OpenFile
  <2>2. QED BY <1>1, <2>1, TableAt DEF Read
<1>5. QED BY <1>1, <1>2, <1>3, <1>4, WorkMaps

LEMMA PutFileMaps ==
  ASSUME IInv, IInv', PutFile PROVE KVS!Work
<1>1. /\ op.pc # "idle" /\ op'.pc # "idle" /\ op'.args = op.args
      /\ op.cur \in DOMAIN op.args /\ op.cur \in Key /\ open' = open /\ open
  BY RequestDomain DEF IInv, TypeOK, OpShape, OpKeys, PutFile, AfterPut
<1>2. Unsaved' = Unsaved
  BY DEF PutFile, Unsaved
<1>3. \A x \in Key \ {op.cur} : Table'[x] = Table[x]
  BY TableAt DEF IInv, TypeOK, PutFile
<1>4. Table'[op.cur] = op.args[op.cur]
  <2>1. index'[op.cur] = "name" /\ file'[op.cur] = op.args[op.cur]
    BY <1>1 DEF IInv, TypeOK, OpKeys, PutFile
  <2>2. QED BY <1>1, <2>1, TableAt DEF Read
<1>5. QED BY <1>1, <1>2, <1>3, <1>4, WorkMaps

LEMMA DeleteFileMaps ==
  ASSUME IInv, IInv', NEW k \in Key, DeleteFile(k) PROVE KVS!Work
<1>1. /\ op.pc # "idle" /\ op'.pc # "idle" /\ op'.args = op.args
      /\ k \in op.left /\ k \in DOMAIN op.args /\ open' = open /\ open
  BY DEF IInv, TypeOK, OpShape, DeleteFile, AfterDelete
<1>2. DOMAIN op.args \cup Unsaved' = DOMAIN op.args \cup Unsaved
  BY <1>1 DEF IInv, TypeOK, DeleteFile, DropEntry, Unsaved
<1>3. \A x \in Key \ {k} : Table'[x] = Table[x]
  BY TableAt DEF IInv, TypeOK, DeleteFile, DropEntry
<1>4. Table'[k] = Absent
  <2>1. index'[k] = "none"
    BY DEF IInv, TypeOK, DeleteFile, DropEntry
  <2>2. QED BY <1>1, <2>1, TableAt DEF Read
<1>5. QED BY <1>1, <1>2, <1>3, <1>4, WorkMaps

LEMMA WipeFileMaps ==
  ASSUME IInv, IInv', NEW k \in Key, WipeFile(k) PROVE KVS!Work
<1>1. /\ op.pc # "idle" /\ op' = op /\ DOMAIN op.args = Key /\ open' = open /\ ~open
  BY DEF IInv, OpShape, WipeFile
<1>2. Unsaved' = Unsaved
  BY DEF WipeFile, Unsaved
<1>3. \A x \in Key \ {k} : Table'[x] = Table[x]
  BY TableAt DEF IInv, TypeOK, WipeFile
<1>4. Table'[k] = Table[k] \/ Table'[k] = Blank
  <2>1. file'[k] = Blank /\ saved[k] \in Entry /\ saved' = saved
    BY DEF IInv, TypeOK, WipeFile
  <2>2. QED BY <1>1, <2>1, TableAt DEF Read, Entry
<1>5. QED BY <1>1, <1>2, <1>3, <1>4, WorkMaps

LEMMA WipeIndexMaps ==
  ASSUME IInv, IInv', WipeIndex PROVE KVS!Work
<1>1. /\ op.pc # "idle" /\ op' = op /\ DOMAIN op.args = Key /\ open' = open /\ ~open
  BY DEF IInv, OpShape, WipeIndex
<1>2. Unsaved' = Unsaved
  BY <1>1 DEF Unsaved
<1>3. \A x \in Key : Table'[x] = Absent
  BY <1>1, TableAt DEF WipeIndex, NoEntries, Read
<1>4. QED BY <1>1, <1>2, <1>3, WorkMaps

LEMMA WipeDoneMaps ==
  ASSUME IInv, WipeDone PROVE KVS!Open
<1>1. /\ op.pc # "idle" /\ op'.pc # "idle" /\ op'.args = op.args /\ ~open /\ open'
  BY DEF IInv, TypeOK, OpShape, Wiped, WipeDone
<1>2. Unsaved = {} /\ Unsaved' = {}
  BY <1>1 DEF Wiped, WipeDone, Unsaved, NoEntries
<1>3. \A x \in Key : Table'[x] = Table[x]
  BY <1>1, TableAt DEF Wiped, WipeDone, NoEntries, Read
<1>4. QED
  BY <1>1, <1>2, <1>3, TableSame DEF KVS!Open

\* The save that breaks off leaves an empty table nobody has open
LEMMA ExportThrowsMaps ==
  ASSUME IInv, IInv', ExportThrows PROVE KVS!BreakOff
<1>1. /\ op.pc # "idle" /\ DOMAIN op.args = Key /\ ~open /\ ~open'
      /\ saved = NoEntries /\ op' = Idle
  BY DEF IInv, TypeOK, OpShape, Wiped, ExportThrows
<1>2. op'.pc = "idle" /\ op'.args = NoRequest /\ DOMAIN op'.args = {}
  BY <1>1, IdleType, NoRequestType
<1>3. Unsaved' = {}
  BY <1>1 DEF Unsaved
<1>4. \A x \in Key : Table[x] = Absent
  BY <1>1, TableAt DEF NoEntries, Read
<1>5. Table = [x \in Key |-> Absent] /\ Table' = Table
  BY <1>4 DEF Table, ExportThrows
<1>6. DOMAIN op'.args \cup Unsaved' = {}
  BY <1>2, <1>3
<1>7. KVS!Nothing = NoRequest
  BY DEF KVS!Nothing, NoRequest
<1>8. UNCHANGED <<Table, open>>
  BY <1>5 DEF ExportThrows
<1>9. QED
  BY <1>1, <1>2, <1>5, <1>6, <1>7, <1>8 DEF KVS!BreakOff

\* as_string throws in the middle of an operation
LEMMA ThrowMaps ==
  ASSUME IInv, NEW k \in Key, Throw(k) PROVE KVS!Fail
<1>1. op.pc # "idle" /\ op.pc = "key" /\ k \in DOMAIN op.args /\ op' = Idle /\ open
  BY DEF IInv, OpShape, Throw
<1>2. op'.pc = "idle" /\ op'.args = NoRequest /\ DOMAIN op'.args = {}
  BY <1>1, IdleType, NoRequestType
<1>3. Table[k] = Broken
  BY <1>1, TableAt DEF Throw, Read
<1>4. \A x \in Key : Table'[x] = Table[x]
  BY TableAt DEF Throw
<1>5. Unsaved' = Unsaved
  BY DEF Throw, Unsaved
<1>6. QED
  BY <1>1, <1>2, <1>3, <1>4, <1>5, TableSame DEF KVS!Fail, KVS!Nothing, NoRequest, Throw

\* The index is on disk: the operation is done, or clear has more keys
LEMMA SaveIndexMaps ==
  ASSUME IInv, SaveIndex PROVE KVS!Done \/ UNCHANGED KVS!vars
<1>1. op.pc = "save" /\ open /\ open' /\ op.args \in Requests
  BY DEF IInv, TypeOK, OpShape, SaveIndex
<1>2. \A x \in Key : Table'[x] = Table[x]
  BY <1>1, TableAt DEF SaveIndex
<1>3. Unsaved' = {}
  BY <1>1 DEF SaveIndex, Unsaved
<1>4. CASE op.left = {}
  <2>1. op'.pc = "idle" /\ op'.args = NoRequest /\ DOMAIN op'.args = {}
    BY <1>4, IdleType, NoRequestType DEF SaveIndex
  <2>2. \A k \in DOMAIN op.args : Table[k] = op.args[k]
    BY <1>1, <1>4 DEF IInv, KeysDone
  <2>3. KVS!Done
    BY <1>1, <1>2, <1>3, <2>1, <2>2, TableSame DEF KVS!Done, KVS!Nothing, NoRequest
  <2>4. QED BY <2>3
<1>5. CASE op.left # {}
  <2>1. op'.pc = "key" /\ op'.args = op.args
    BY <1>5 DEF IInv, TypeOK, SaveIndex
  <2>2. Unsaved \subseteq DOMAIN op.args
    BY <1>1, <1>5 DEF IInv, ClearsAll, AllAsked, Unsaved
  <2>3. UNCHANGED KVS!vars
    BY <1>1, <1>2, <1>3, <2>1, <2>2, TableSame DEF KVS!vars
  <2>4. QED BY <2>3
<1>6. QED BY <1>4, <1>5

\* A late get spoils its key
LEMMA GetMaps ==
  ASSUME IInv, Get PROVE (\E k \in Key : KVS!Spoil(k)) \/ UNCHANGED KVS!vars
<1>1. op' = op /\ op.pc = "idle" /\ open /\ open' /\ reading \in Key
  BY IdleType DEF IInv, TypeOK, Get
<1>2. CASE index[reading] = "none"
  <2>1. \A x \in Key \ {reading} : Table'[x] = Table[x]
    BY TableAt DEF IInv, TypeOK, Get
  <2>2. Table[reading] = Absent /\ Table'[reading] = Broken
    <3>1. index'[reading] = "unnamed"
      BY <1>1, <1>2 DEF IInv, TypeOK, Get, ReadEntry
    <3>2. QED BY <1>1, <1>2, <3>1, TableAt DEF Read
  <2>3. Unsaved' = Unsaved
    BY <1>1, <1>2 DEF IInv, TypeOK, Get, ReadEntry, Unsaved
  <2>4. Table' = [Table EXCEPT ![reading] = Broken]
    BY <1>1, <2>1, <2>2 DEF Table
  <2>5. KVS!Spoil(reading)
    BY <1>1, <2>2, <2>3, <2>4 DEF KVS!Spoil
  <2>6. QED BY <1>1, <2>5
<1>3. CASE index[reading] # "none"
  <2>1. index' = index
    BY <1>1, <1>3 DEF IInv, TypeOK, Get, ReadEntry
  <2>2. \A x \in Key : Table'[x] = Table[x]
    BY <1>1, <2>1, TableAt DEF Get
  <2>3. Unsaved' = Unsaved
    BY <1>1, <2>1 DEF Get, Unsaved
  <2>4. QED
    BY <1>1, <2>2, <2>3, TableSame DEF KVS!vars
<1>4. QED BY <1>2, <1>3

\* Steps that change neither the indexes, nor a file, nor the request
LEMMA StutterMaps ==
  ASSUME UNCHANGED <<open, index, saved, file>>, op'.args = op.args,
         (op'.pc = "idle") <=> (op.pc = "idle")
  PROVE  UNCHANGED KVS!vars
<1>1. \A x \in Key : Table'[x] = Table[x]
  BY TableAt
<1>2. Unsaved' = Unsaved
  BY DEF Unsaved
<1>3. QED BY <1>1, <1>2, TableSame DEF KVS!vars

\* One case per action, for the actions that take the lock by way of <1>1
LEMMA NextMaps ==
  ASSUME IInv, IInv', [Next]_vars
  PROVE  [KVS!Next]_(KVS!vars)
<1>0. KVS!Requests = Requests
  BY DEF KVS!Requests, Requests
<1>1. ASSUME op = Idle, op'.pc # "idle", UNCHANGED <<open, index, saved, file>>
      PROVE  KVS!Next
  <2>1. op'.args \in Requests
    BY DEF IInv, TypeOK
  <2>2. KVS!Begin(op'.args)
    BY <1>1, <2>1, BeginMaps
  <2>3. QED BY <1>0, <2>1, <2>2 DEF KVS!Next
<1>2. CASE UNCHANGED vars
  BY <1>2, StutterMaps DEF vars
<1>3. CASE \/ Load \/ Close \/ WipeIndex \/ ExportThrows \/ WipeDone
           \/ PutFile \/ Crash
  BY <1>3, LoadMaps, CloseMaps, WipeIndexMaps, ExportThrowsMaps, WipeDoneMaps,
     PutFileMaps, CrashMaps
     DEF KVS!Next
<1>4. CASE Clear
  BY <1>1, <1>4 DEF Clear, Lock
<1>5. CASE \E k \in Key, v \in Value : Set(k, v)
  BY <1>1, <1>5 DEF Set, Lock
<1>6. CASE \E d \in UNION {[K -> Value] : K \in SUBSET Key} : ImportFrom(d) \/ SaveApp(d)
  BY <1>1, <1>6 DEF ImportFrom, SaveApp, Lock
<1>7. CASE \E k \in Key : Remove(k)
  BY <1>1, <1>7 DEF Remove, Lock
<1>8. CASE \E k \in Key : WipeFile(k) \/ OpenFile(k) \/ DeleteFile(k) \/ Throw(k)
  BY <1>8, WipeFileMaps, OpenFileMaps, DeleteFileMaps, ThrowMaps DEF KVS!Next
<1>9. CASE \E k \in Key : Has(k)
  BY <1>9, StutterMaps DEF Has
<1>10. CASE OpenIndex
  BY <1>10, StutterMaps DEF IInv, TypeOK, OpenIndex
<1>11. CASE SaveIndex
  BY <1>11, SaveIndexMaps DEF KVS!Next
<1>12. CASE Get
  BY <1>12, GetMaps DEF KVS!Next
<1>13. QED
  BY <1>2, <1>3, <1>4, <1>5, <1>6, <1>7, <1>8, <1>9, <1>10, <1>11, <1>12 DEF Next

(***************************************************************************)
(* The index file and the value files implement the table of               *)
(* KeyValueStore: an operation of disk_store touches its own keys only and *)
(* has done what it was asked to when it returns, and a crash between any  *)
(* two writes costs no key but those of the running operation, short of    *)
(* emptying the table while the index file is rewritten.                   *)
(***************************************************************************)
THEOREM FilesImplementTable == Spec => ImplementsTable
<1>1. IInv /\ IInv' /\ [Next]_vars => [KVS!Next]_(KVS!vars)
  BY NextMaps
<1>2. QED
  BY <1>1, InitMaps, Inductive, PTL DEF Spec, ImplementsTable, KVS!Spec

-----------------------------------------------------------------------------
(***************************************************************************)
(* The script's threads.                                                   *)
(***************************************************************************)
\* Widgets, messages and signals of any size.
AnyWidget == [id : Nat \ {0}, kind : Kind, run : Nat]

Msg == {Run, Reset} \cup {Event(w) : w \in AnyWidget}

Sig == {e \in [app : App, op : {"add", "set", "get", "file", "cleanup"},
               widget : AnyWidget \cup {None}] :
           e.op = "add" => e.widget \in AnyWidget}

BackPc == {"pop", "lua", "text", "wait", "file", "ended"}

Backend == [pc : BackPc, refs : SUBSET AnyWidget, ids : Nat, run : Nat,
            stop : BOOLEAN, event : AnyWidget \cup {None},
            ref : AnyWidget \cup {None}, answered : BOOLEAN]

Frontend == [done : BOOLEAN, widgets : SUBSET AnyWidget]

ReaperTyped ==
    /\ reaper.queue \in Seq(App)
    /\ reaper = [queue |-> reaper.queue, done |-> reaper.done, pc |-> reaper.pc,
                 app |-> reaper.app]

Typed ==
    /\ front \in [App -> Frontend]
    /\ back \in [App -> Backend]
    /\ inbox \in [App -> Seq(Msg)]
    /\ events \in Seq(Sig)
    /\ ReaperTyped
    /\ cleaned \subseteq App

-----------------------------------------------------------------------------
\* The widgets of the events in a mailbox, and those that queued signals add
\* to the window of a; the apps whose window a queued signal deletes.
MailIn(s) == {s[k].widget : k \in {j \in 1..Len(s) : s[j].type = "event"}}

AddedIn(s, a) ==
    {s[k].widget : k \in {j \in 1..Len(s) : s[j].app = a /\ s[j].op = "add"}}

CleanupsIn(s) == {s[k].app : k \in {j \in 1..Len(s) : s[j].op = "cleanup"}}

\* The widgets of a backend: in its tables and in the handler that runs.
HeldBy(b) == b.refs \cup ({b.event, b.ref} \ {None})

\* The widgets app a has anywhere.
Held(a) == HeldBy(back[a]) \cup front[a].widgets \cup MailIn(inbox[a])
             \cup AddedIn(events, a)

(***************************************************************************)
(* A number names one widget for as long as the app lives: ids goes on     *)
(* counting when the script is run again.                                  *)
(***************************************************************************)
NumbersNameWidgets ==
    \A a \in App : /\ \A w \in Held(a) : w.id <= back[a].ids
                   /\ \A v, w \in Held(a) : v.id = w.id => v = w

\* What reset_refs clears is of the script that runs; no handler runs
\* between two messages.
HandlerInProgress ==
    \A a \in App :
        /\ \A r \in back[a].refs : r.kind \in Cleared => r.run = back[a].run
        /\ back[a].pc \in {"pop", "ended"} => back[a].ref = None /\ back[a].event = None

\* The reaper only has closed apps, and cleans up after backends that ended.
ReaperHasClosed ==
    /\ \A k \in 1..Len(reaper.queue) : reaper.queue[k] \notin windows
    /\ reaper.pc = "join" => reaper.app \in App \ windows

CleanupsAfterEnd ==
    \A a \in CleanupsIn(events) : back[a].pc = "ended" /\ a \notin windows

\* The inductive invariant.
AppInv ==
    /\ Typed
    /\ NumbersNameWidgets
    /\ HandlerInProgress
    /\ ReaperHasClosed
    /\ CleanupsAfterEnd
    /\ LateEventsFindNoCallback
    /\ StoppedFrontStaysEmpty
    /\ CleanedAfterBackend

-----------------------------------------------------------------------------
(***************************************************************************)
(* Queues of messages and of signals.                                      *)
(***************************************************************************)
LEMMA MailTail ==
    ASSUME NEW s \in Seq(Msg), s # <<>>
    PROVE  /\ Tail(s) \in Seq(Msg)
           /\ MailIn(Tail(s)) \subseteq MailIn(s)
           /\ Head(s) \in Msg
           /\ Head(s).type = "event" => Head(s).widget \in MailIn(s)
<1>1. Len(s) \in Nat \ {0} /\ Head(s) = s[1] /\ 1 \in 1..Len(s)
  OBVIOUS
<1>2. \A k \in 1..Len(Tail(s)) : Tail(s)[k] = s[k + 1] /\ k + 1 \in 1..Len(s)
  OBVIOUS
<1>3. MailIn(Tail(s)) \subseteq MailIn(s)
  BY <1>2 DEF MailIn
<1>4. Head(s).type = "event" => Head(s).widget \in MailIn(s)
  BY <1>1 DEF MailIn
<1> QED BY <1>1, <1>3, <1>4

LEMMA MailAppend ==
    ASSUME NEW s \in Seq(Msg), NEW m \in Msg
    PROVE  /\ Append(s, m) \in Seq(Msg)
           /\ MailIn(Append(s, m)) \subseteq
                 MailIn(s) \cup (IF m.type = "event" THEN {m.widget} ELSE {})
<1>1. \A k \in 1..Len(Append(s, m)) : \/ k \in 1..Len(s) /\ Append(s, m)[k] = s[k]
                                      \/ Append(s, m)[k] = m
  OBVIOUS
<1>2. Append(s, m) \in Seq(Msg)
  OBVIOUS
<1>3. ASSUME NEW w \in MailIn(Append(s, m)), w \notin MailIn(s)
      PROVE  m.type = "event" /\ w = m.widget
  <2>1. PICK k \in 1..Len(Append(s, m)) :
           Append(s, m)[k].type = "event" /\ w = Append(s, m)[k].widget
    BY DEF MailIn
  <2>2. Append(s, m)[k] = m
    BY <1>1, <1>3, <2>1 DEF MailIn
  <2> QED BY <2>1, <2>2
<1> QED BY <1>2, <1>3

LEMMA SignalTail ==
    ASSUME NEW s \in Seq(Sig), s # <<>>
    PROVE  /\ Tail(s) \in Seq(Sig)
           /\ Head(s) \in Sig
           /\ \A a : AddedIn(Tail(s), a) \subseteq AddedIn(s, a)
           /\ CleanupsIn(Tail(s)) \subseteq CleanupsIn(s)
           /\ Head(s).op = "add" => Head(s).widget \in AddedIn(s, Head(s).app)
           /\ Head(s).op = "cleanup" => Head(s).app \in CleanupsIn(s)
<1>1. Len(s) \in Nat \ {0} /\ Head(s) = s[1] /\ 1 \in 1..Len(s) /\ s[1] \in Sig
  OBVIOUS
<1>2. \A k \in 1..Len(Tail(s)) : Tail(s)[k] = s[k + 1] /\ k + 1 \in 1..Len(s)
  OBVIOUS
<1>3. \A a : AddedIn(Tail(s), a) \subseteq AddedIn(s, a)
  BY <1>2 DEF AddedIn
<1>4. CleanupsIn(Tail(s)) \subseteq CleanupsIn(s)
  BY <1>2 DEF CleanupsIn
<1>5. Head(s).op = "add" => Head(s).widget \in AddedIn(s, Head(s).app)
  BY <1>1 DEF AddedIn
<1>6. Head(s).op = "cleanup" => Head(s).app \in CleanupsIn(s)
  BY <1>1 DEF CleanupsIn
<1>7. Tail(s) \in Seq(Sig)
  OBVIOUS
<1> QED BY <1>1, <1>3, <1>4, <1>5, <1>6, <1>7

LEMMA SignalAppend ==
    ASSUME NEW s \in Seq(Sig), NEW e \in Sig
    PROVE  /\ Append(s, e) \in Seq(Sig)
           /\ \A a : AddedIn(Append(s, e), a) \subseteq
                 AddedIn(s, a) \cup (IF e.op = "add" /\ e.app = a THEN {e.widget} ELSE {})
           /\ CleanupsIn(Append(s, e)) \subseteq
                 CleanupsIn(s) \cup (IF e.op = "cleanup" THEN {e.app} ELSE {})
<1> DEFINE t == Append(s, e)
<1>1. t \in Seq(Sig)
  OBVIOUS
<1>2. \A k \in 1..Len(t) : (k \in 1..Len(s) /\ t[k] = s[k]) \/ t[k] = e
  OBVIOUS
<1> HIDE DEF t
<1>3. ASSUME NEW a, NEW w \in AddedIn(t, a), w \notin AddedIn(s, a)
      PROVE  e.op = "add" /\ e.app = a /\ w = e.widget
  <2>1. PICK k \in 1..Len(t) : t[k].app = a /\ t[k].op = "add" /\ w = t[k].widget
    BY DEF AddedIn
  <2>2. t[k] = e BY <1>2, <1>3, <2>1 DEF AddedIn
  <2> QED BY <2>1, <2>2
<1>4. ASSUME NEW a \in CleanupsIn(t), a \notin CleanupsIn(s)
      PROVE  e.op = "cleanup" /\ a = e.app
  <2>1. PICK k \in 1..Len(t) : t[k].op = "cleanup" /\ a = t[k].app
    BY DEF CleanupsIn
  <2>2. t[k] = e BY <1>2, <1>4, <2>1 DEF CleanupsIn
  <2> QED BY <2>1, <2>2
<1>5. t \in Seq(Sig) /\ t = Append(s, e) BY <1>1 DEF t
<1> QED BY <1>3, <1>4, <1>5

LEMMA Messages ==
    /\ Run \in Msg /\ Reset \in Msg /\ Run.type = "run" /\ Reset.type = "reset"
    /\ \A w \in AnyWidget : /\ Event(w) \in Msg /\ Event(w).type = "event"
                           /\ Event(w).widget = w
    /\ \A m \in Msg : m.type = "event" => m.widget \in AnyWidget
    /\ None \notin AnyWidget
<1>1. Run \in Msg /\ Reset \in Msg /\ Run.type = "run" /\ Reset.type = "reset"
  BY DEF Msg, Run, Reset
<1>2. \A w \in AnyWidget : /\ Event(w) \in Msg /\ Event(w).type = "event"
                          /\ Event(w).widget = w
  BY DEF Msg, Event
<1>3. \A m \in Msg : m.type = "event" => m.widget \in AnyWidget
  BY <1>1, <1>2 DEF Msg
<1>4. None \notin AnyWidget
  BY DEF None, AnyWidget
<1> QED BY <1>1, <1>2, <1>3, <1>4

LEMMA AppInitHolds == AppInit => AppInv
<1> SUFFICES ASSUME AppInit PROVE AppInv OBVIOUS
<1>1. \A a \in App : /\ back[a] \in Backend /\ back[a].refs = {} /\ back[a].event = None
                     /\ back[a].ref = None
                     /\ front[a] \in Frontend /\ front[a].widgets = {} /\ ~front[a].done
                     /\ inbox[a] = <<Run>>
  BY DEF AppInit, Backend, BackPc, Frontend
<1>2. \A a \in App : inbox[a] \in Seq(Msg) /\ MailIn(inbox[a]) = {}
  <2> DEFINE s == <<Run>>
  <2>1. s \in Seq(Msg) /\ \A k \in 1..Len(s) : s[k] = Run
    BY Messages
  <2> HIDE DEF s
  <2>2. MailIn(s) = {} BY <2>1, Messages DEF MailIn
  <2> QED BY <1>1, <2>1, <2>2 DEF s
<1>3. events = <<>> /\ reaper.queue = <<>> /\ reaper.pc = "pop" /\ cleaned = {}
  BY DEF AppInit
<1>4. (\A a : AddedIn(events, a) = {}) /\ CleanupsIn(events) = {}
  BY <1>3 DEF AddedIn, CleanupsIn
<1>5. Typed
  <2>1. front \in [App -> Frontend] /\ back \in [App -> Backend]
    BY <1>1 DEF AppInit
  <2>2. inbox \in [App -> Seq(Msg)]
    BY <1>2 DEF AppInit
  <2>3. ReaperTyped BY DEF AppInit, ReaperTyped
  <2> QED BY <1>3, <2>1, <2>2, <2>3 DEF Typed
<1>6. \A a \in App : Held(a) = {}
  BY <1>1, <1>2, <1>4 DEF Held, HeldBy
<1> QED BY <1>1, <1>3, <1>4, <1>5, <1>6 DEF AppInv, NumbersNameWidgets, HandlerInProgress,
      ReaperHasClosed, CleanupsAfterEnd, LateEventsFindNoCallback,
      StoppedFrontStaysEmpty, CleanedAfterBackend

-----------------------------------------------------------------------------
(***************************************************************************)
(* Steps of the backend thread of a.                                       *)
(***************************************************************************)

\* What the backend of a may become: it holds what a held before, and one
\* widget more when it has counted one more number.
MayBecome(a, b) ==
    /\ b \in Backend
    /\ \/ b.ids = back[a].ids /\ HeldBy(b) \subseteq Held(a)
       \/ /\ b.ids = back[a].ids + 1
          /\ \E w : w.id = b.ids /\ HeldBy(b) \subseteq Held(a) \cup {w}
    /\ \A r \in b.refs : r.kind \in Cleared => r.run = b.run
    /\ b.pc \in {"pop", "ended"} => b.ref = None /\ b.event = None
    /\ b.ref # None => /\ b.ref = b.event
                       /\ b.ref.kind \in Cleared => b.ref.run = b.run
    /\ back[a].pc = "ended" => b.pc = "ended"

\* A signal the backend of a may emit, once it is b.
MayEmit(a, b, e) == /\ e \in Sig /\ e.op # "cleanup"
                    /\ e.op = "add" => e.app = a /\ e.widget \in b.refs

LEMMA AddedAreWidgets ==
    ASSUME Typed, NEW a
    PROVE  AddedIn(events, a) \subseteq AnyWidget
<1>1. \A k \in 1..Len(events) : events[k] \in Sig BY DEF Typed
<1>2. \A e \in Sig : e.op = "add" => e.widget \in AnyWidget BY DEF Sig
<1> QED BY <1>1, <1>2 DEF AddedIn

LEMMA HeldAreWidgets ==
    ASSUME Typed, NEW a \in App
    PROVE  Held(a) \subseteq AnyWidget
<1>1. HeldBy(back[a]) \subseteq AnyWidget BY DEF Typed, Backend, HeldBy
<1>2. front[a].widgets \subseteq AnyWidget BY DEF Typed, Frontend
<1>3. MailIn(inbox[a]) \subseteq AnyWidget
  <2>1. \A k \in 1..Len(inbox[a]) : inbox[a][k] \in Msg BY DEF Typed
  <2> QED BY <2>1, Messages DEF MailIn
<1> QED BY <1>1, <1>2, <1>3, AddedAreWidgets DEF Held

LEMMA CleanupsAreApps == Typed => CleanupsIn(events) \subseteq App
<1> SUFFICES ASSUME Typed PROVE CleanupsIn(events) \subseteq App OBVIOUS
<1>1. \A k \in 1..Len(events) : events[k] \in Sig BY DEF Typed
<1>2. \A e \in Sig : e.app \in App BY DEF Sig
<1> QED BY <1>1, <1>2 DEF CleanupsIn

LEMMA BackendStep ==
    ASSUME AppInv, NEW a \in App, NEW b, MayBecome(a, b),
           back' = [back EXCEPT ![a] = b],
           \/ inbox' = inbox
           \/ inbox[a] # <<>> /\ inbox' = [inbox EXCEPT ![a] = Tail(@)],
           \/ events' = events
           \/ \E e : MayEmit(a, b, e) /\ events' = Append(events, e),
           windows' \subseteq windows, UNCHANGED <<front, cleaned>>,
           ReaperTyped', ReaperHasClosed'
    PROVE  AppInv'
<1> USE DEF AppInv
<1>1. \A k \in App : back'[k] = IF k = a THEN b ELSE back[k]
  BY DEF Typed
<1>2. \A k \in App : inbox'[k] \in Seq(Msg) /\ MailIn(inbox'[k]) \subseteq MailIn(inbox[k])
  <2> TAKE k \in App
  <2>1. CASE inbox'[k] = inbox[k]
    BY <2>1 DEF Typed
  <2>2. CASE inbox[k] # <<>> /\ inbox'[k] = Tail(inbox[k])
    <3>1. inbox[k] \in Seq(Msg) BY DEF Typed
    <3> QED BY <2>2, <3>1, MailTail
  <2>3. inbox'[k] = inbox[k] \/ (inbox[k] # <<>> /\ inbox'[k] = Tail(inbox[k]))
    BY DEF Typed
  <2> QED BY <2>1, <2>2, <2>3
<1>3. /\ events' \in Seq(Sig) /\ CleanupsIn(events') \subseteq CleanupsIn(events)
      /\ \A k \in App \ {a} : AddedIn(events', k) \subseteq AddedIn(events, k)
      /\ AddedIn(events', a) \subseteq AddedIn(events, a) \cup b.refs
  <2>1. CASE events' = events
    BY <2>1 DEF Typed
  <2>2. ASSUME NEW e, MayEmit(a, b, e), events' = Append(events, e)
        PROVE  /\ events' \in Seq(Sig) /\ CleanupsIn(events') \subseteq CleanupsIn(events)
               /\ \A k \in App \ {a} : AddedIn(events', k) \subseteq AddedIn(events, k)
               /\ AddedIn(events', a) \subseteq AddedIn(events, a) \cup b.refs
    <3>1. e \in Sig /\ events \in Seq(Sig) BY <2>2 DEF MayEmit, Typed
    <3>2. /\ Append(events, e) \in Seq(Sig)
          /\ \A k : AddedIn(Append(events, e), k) \subseteq
                AddedIn(events, k) \cup (IF e.op = "add" /\ e.app = k THEN {e.widget} ELSE {})
          /\ CleanupsIn(Append(events, e)) \subseteq
                CleanupsIn(events) \cup (IF e.op = "cleanup" THEN {e.app} ELSE {})
      BY <3>1, SignalAppend
    <3> QED BY <2>2, <3>2 DEF MayEmit
  <2> QED BY <2>1, <2>2
<1>4. inbox' \in [App -> Seq(Msg)]
  <2>1. inbox' = [k \in App |-> inbox'[k]] BY DEF Typed
  <2> QED BY <1>2, <2>1
<1>5. Typed'
  BY <1>3, <1>4 DEF Typed, MayBecome
<1>6. \A k \in App \ {a} : Held(k)' \subseteq Held(k)
  BY <1>1, <1>2, <1>3 DEF Held
<1>7. Held(a)' \subseteq HeldBy(b) \cup Held(a)
  <2>1. b.refs \subseteq HeldBy(b) BY DEF HeldBy
  <2>2. HeldBy(back'[a]) = HeldBy(b) BY <1>1
  <2> QED BY <1>2, <1>3, <2>1, <2>2 DEF Held
<1>8. NumbersNameWidgets'
  <2> SUFFICES ASSUME NEW k \in App
               PROVE  /\ \A w \in Held(k)' : w.id <= back'[k].ids
                      /\ \A v, w \in Held(k)' : v.id = w.id => v = w
    BY DEF NumbersNameWidgets
  <2>1. /\ \A w \in Held(k) : w.id <= back[k].ids
        /\ \A v, w \in Held(k) : v.id = w.id => v = w
    BY DEF NumbersNameWidgets
  <2>2. CASE k # a \/ (b.ids = back[a].ids /\ HeldBy(b) \subseteq Held(a))
    <3>1. Held(k)' \subseteq Held(k) BY <1>6, <1>7, <2>2
    <3>2. back'[k].ids = back[k].ids BY <1>1, <2>2
    <3> QED BY <2>1, <3>1, <3>2
  <2>3. ASSUME k = a, b.ids = back[a].ids + 1,
               NEW w, w.id = b.ids, HeldBy(b) \subseteq Held(a) \cup {w}
        PROVE  /\ \A v \in Held(k)' : v.id <= back'[k].ids
               /\ \A u, v \in Held(k)' : u.id = v.id => u = v
    <3>1. Held(k)' \subseteq Held(k) \cup {w} BY <1>7, <2>3
    <3>2. back'[k].ids = back[k].ids + 1 /\ back[k].ids \in Nat /\ w.id = back[k].ids + 1
      BY <1>1, <2>3 DEF Typed, Backend
    <3>3. Held(k) \subseteq AnyWidget BY HeldAreWidgets
    <3>4. \A v \in Held(k) : v.id \in Nat BY <3>3 DEF AnyWidget
    <3>5. \A v \in Held(k) : v.id < w.id BY <2>1, <3>2, <3>4
    <3>6. \A v \in Held(k)' : v.id <= back'[k].ids
      BY <3>1, <3>2, <3>4, <3>5
    <3>7. \A u, v \in Held(k) \cup {w} : u.id = v.id => u = v
      BY <2>1, <3>2, <3>4, <3>5
    <3> QED BY <3>1, <3>6, <3>7
  <2> QED BY <2>2, <2>3 DEF MayBecome
<1>9. HandlerInProgress' /\ LateEventsFindNoCallback'
  BY <1>1 DEF HandlerInProgress, LateEventsFindNoCallback, MayBecome
<1>10. CleanupsAfterEnd'
  BY <1>1, <1>3, CleanupsAreApps DEF CleanupsAfterEnd, MayBecome, Typed
<1>11. StoppedFrontStaysEmpty'
  BY DEF StoppedFrontStaysEmpty
<1>12. CleanedAfterBackend'
  BY <1>1 DEF CleanedAfterBackend, MayBecome, Typed
<1> QED BY <1>5, <1>8, <1>9, <1>10, <1>11, <1>12

LEMMA BackendInState ==
    ASSUME NEW x \in Backend, NEW p \in BackPc
    PROVE  LET b == [x EXCEPT !.pc = p]
           IN  /\ b \in Backend /\ b.pc = p /\ b.refs = x.refs /\ b.ids = x.ids
               /\ b.run = x.run /\ b.event = x.event /\ b.ref = x.ref
BY DEF Backend

LEMMA OwnState ==
    ASSUME AppInv, NEW a \in App
    PROVE  /\ back[a] \in Backend /\ back[a].ids \in Nat
           /\ HeldBy(back[a]) \subseteq Held(a)
           /\ inbox[a] \in Seq(Msg)
           /\ \A r \in back[a].refs : r \in AnyWidget
                                      /\ (r.kind \in Cleared => r.run = back[a].run)
           /\ back[a].pc \in {"pop", "ended"} =>
                 back[a].ref = None /\ back[a].event = None
           /\ back[a].ref # None =>
                 /\ back[a].ref = back[a].event
                 /\ back[a].ref.kind \in Cleared => back[a].ref.run = back[a].run
BY DEF AppInv, Typed, Backend, Held, HandlerInProgress, LateEventsFindNoCallback

\* A step that only moves the thread, with a handler running or none.
LEMMA MovesMayBecome ==
    ASSUME AppInv, NEW a \in App, NEW p \in BackPc \ {"pop"}, back[a].pc # "ended",
           p = "ended" => back[a].pc = "pop"
    PROVE  MayBecome(a, [back[a] EXCEPT !.pc = p])
<1> DEFINE b == [back[a] EXCEPT !.pc = p]
<1>1. /\ b \in Backend /\ b.pc = p /\ b.refs = back[a].refs /\ b.ids = back[a].ids
      /\ b.run = back[a].run /\ b.event = back[a].event /\ b.ref = back[a].ref
  BY OwnState, BackendInState
<1> HIDE DEF b
<1>2. HeldBy(b) = HeldBy(back[a])
  BY <1>1 DEF HeldBy
<1>3. MayBecome(a, b)
  BY <1>1, <1>2, OwnState DEF MayBecome
<1> QED BY <1>3 DEF b

LEMMA ReaperStays ==
    ASSUME AppInv, UNCHANGED <<reaper, windows>>
    PROVE  /\ ReaperTyped' /\ ReaperHasClosed'
           /\ windows' \subseteq windows
BY DEF AppInv, Typed, ReaperTyped, ReaperHasClosed

LEMMA ThreadMovesKeep ==
    ASSUME AppInv, NEW a \in App,
           BackendEnds(a) \/ HandleRun(a) \/ Answered(a) \/ TimedOut(a)
    PROVE  AppInv'
<1>1. PICK p \in {"ended", "lua"} :
         /\ back' = [back EXCEPT ![a] = [back[a] EXCEPT !.pc = p]]
         /\ p = "ended" => back[a].pc = "pop"
  BY DEF BackendEnds, HandleRun, Answered, TimedOut
<1>2. back[a].pc # "ended"
  BY DEF BackendEnds, HandleRun, Answered, TimedOut, Pops
<1>3. p \in BackPc \ {"pop"} BY <1>1 DEF BackPc
<1>4. MayBecome(a, [back[a] EXCEPT !.pc = p])
  BY <1>1, <1>2, <1>3, MovesMayBecome
<1>5. UNCHANGED <<front, events, gui, windows, reaper, cleaned>>
  BY DEF BackendEnds, HandleRun, Answered, TimedOut, Pops
<1>6. \/ inbox' = inbox
      \/ inbox[a] # <<>> /\ inbox' = [inbox EXCEPT ![a] = Tail(@)]
  BY DEF BackendEnds, HandleRun, Answered, TimedOut, Pops
<1> QED BY <1>1, <1>4, <1>5, <1>6, ReaperStays, BackendStep

LEMMA HandleResetKeeps ==
    ASSUME AppInv, NEW a \in App, HandleReset(a)
    PROVE  AppInv'
<1> DEFINE x == back[a]
           b == ResetRefs(x)
<1>1. /\ back' = [back EXCEPT ![a] = b] /\ x.pc = "pop"
      /\ inbox[a] # <<>> /\ inbox' = [inbox EXCEPT ![a] = Tail(@)]
      /\ UNCHANGED <<front, events, gui, windows, reaper, cleaned>>
  BY DEF HandleReset, Pops
<1>2. x \in Backend BY OwnState
<1>3. /\ b \in Backend /\ b.refs = {r \in x.refs : r.kind \notin Cleared}
      /\ b.ids = x.ids /\ b.pc = x.pc /\ b.event = x.event /\ b.ref = x.ref
  <2> DEFINE R == {r \in x.refs : r.kind \notin Cleared}
             n == x.run + 1
  <2>1. R \in SUBSET AnyWidget /\ n \in Nat BY <1>2 DEF Backend
  <2>2. b = [x EXCEPT !.refs = R, !.run = n] BY DEF ResetRefs
  <2> HIDE DEF R, n, b, x
  <2>3. /\ b \in Backend /\ b.refs = R /\ b.ids = x.ids /\ b.pc = x.pc
        /\ b.event = x.event /\ b.ref = x.ref
    BY <1>2, <2>1, <2>2 DEF Backend
  <2> QED BY <2>3 DEF R
<1> HIDE DEF b
<1>4. HeldBy(b) \subseteq HeldBy(x)
  BY <1>3 DEF HeldBy
<1>5. MayBecome(a, b)
  BY <1>1, <1>3, <1>4, OwnState DEF MayBecome
<1> QED BY <1>1, <1>5, ReaperStays, BackendStep

LEMMA HandleEventKeeps ==
    ASSUME AppInv, NEW a \in App, HandleEvent(a)
    PROVE  AppInv'
<1> DEFINE x == back[a]
           w == Head(inbox[a]).widget
<1>1. /\ x.pc = "pop" /\ inbox[a] # <<>> /\ inbox' = [inbox EXCEPT ![a] = Tail(@)]
      /\ Head(inbox[a]).type = "event"
      /\ UNCHANGED <<front, events, gui, windows, reaper, cleaned>>
  BY DEF HandleEvent, Pops
<1>2. x \in Backend /\ x.ref = None /\ x.event = None
  BY <1>1, OwnState
<1>3. w \in Held(a)
  BY <1>1, OwnState, MailTail DEF Held
<1>4. CASE back' = back
  <2>1. back' = [back EXCEPT ![a] = x] BY <1>4 DEF AppInv, Typed
  <2>2. MayBecome(a, x) BY <1>1, OwnState DEF MayBecome
  <2> QED BY <1>1, <2>1, <2>2, ReaperStays, BackendStep
<1>5. ASSUME NEW r \in RefOf(a, w),
             back' = [back EXCEPT ![a].pc = IF r.kind = "edit" THEN "text" ELSE "lua",
                                  ![a].event = w, ![a].ref = r]
      PROVE  AppInv'
  <2> DEFINE p == IF r.kind = "edit" THEN "text" ELSE "lua"
             b == [x EXCEPT !.pc = p, !.event = w, !.ref = r]
  <2>1. r \in x.refs /\ r.id = w.id /\ r \in AnyWidget
    BY OwnState DEF RefOf
  <2>2. r \in Held(a) BY <2>1, OwnState DEF HeldBy
  <2>3. r = w
    BY <1>3, <2>1, <2>2 DEF AppInv, NumbersNameWidgets
  <2>4. back' = [back EXCEPT ![a] = b] BY <1>5
  <2>5. p \in BackPc /\ p \notin {"pop", "ended"} BY DEF BackPc
  <2> HIDE DEF p, w, x
  <2>6. /\ b \in Backend /\ b.refs = x.refs /\ b.ids = x.ids /\ b.run = x.run
        /\ b.pc = p /\ b.event = w /\ b.ref = r
    BY <1>2, <2>1, <2>3, <2>5 DEF Backend
  <2> HIDE DEF b
  <2>7. HeldBy(b) \subseteq HeldBy(x) \cup {w} BY <2>3, <2>6 DEF HeldBy
  <2>8. MayBecome(a, b)
    BY <1>1, <1>3, <2>1, <2>3, <2>5, <2>6, <2>7, OwnState DEF MayBecome, x
  <2> QED BY <1>1, <2>4, <2>8, ReaperStays, BackendStep
<1> QED BY <1>4, <1>5 DEF HandleEvent

LEMMA HandlerReturnsKeeps ==
    ASSUME AppInv, NEW a \in App, HandlerReturns(a)
    PROVE  AppInv'
<1> DEFINE x == back[a]
           b == [x EXCEPT !.pc = "pop", !.event = None, !.ref = None]
<1>1. /\ back' = [back EXCEPT ![a] = b] /\ x.pc = "lua"
      /\ UNCHANGED <<front, inbox, events, gui, windows, reaper, cleaned>>
  BY DEF HandlerReturns
<1>2. x \in Backend BY OwnState
<1> HIDE DEF x
<1>3. /\ b \in Backend /\ b.refs = x.refs /\ b.ids = x.ids /\ b.run = x.run
      /\ b.pc = "pop" /\ b.event = None /\ b.ref = None
  BY <1>2 DEF Backend, BackPc
<1> HIDE DEF b
<1>4. HeldBy(b) \subseteq HeldBy(x)
  BY <1>3 DEF HeldBy
<1>5. MayBecome(a, b)
  BY <1>1, <1>3, <1>4, OwnState DEF MayBecome, x
<1> QED BY <1>1, <1>5, ReaperStays, BackendStep

\* What a script emits through its frontend client.
LEMMA Emits ==
    ASSUME NEW a \in App, NEW kind, NEW w, events' = Emit(a, kind, w),
           NEW b, kind \in {"add", "set", "get", "file"}, w \in AnyWidget \cup {None},
           kind = "add" => w \in b.refs /\ w \in AnyWidget
    PROVE  \/ events' = events
           \/ \E e : MayEmit(a, b, e) /\ events' = Append(events, e)
<1> DEFINE e == Signal(a, kind, w)
<1>1. e \in Sig /\ e.op = kind /\ e.app = a /\ e.widget = w
  BY DEF Signal, Sig
<1>2. events' = events \/ events' = Append(events, e)
  BY DEF Emit
<1> HIDE DEF e
<1>3. MayEmit(a, b, e) BY <1>1 DEF MayEmit
<1> QED BY <1>2, <1>3

LEMMA CallMakeKeeps ==
    ASSUME AppInv, NEW a \in App, NEW k \in Kind, CallMake(a, k)
    PROVE  AppInv'
<1> DEFINE x == back[a]
           w == [id |-> x.ids + 1, kind |-> k, run |-> x.run]
           b == [x EXCEPT !.ids = @ + 1, !.refs = @ \cup {w}]
<1>1. /\ back' = [back EXCEPT ![a] = b] /\ x.pc = "lua"
      /\ events' = Emit(a, "add", w)
      /\ UNCHANGED <<front, inbox, gui, windows, reaper, cleaned>>
  BY DEF CallMake
<1>2. x \in Backend /\ x.ids \in Nat /\ x.run \in Nat
  BY OwnState DEF Backend
<1>3. w \in AnyWidget /\ w.id = x.ids + 1 /\ w.run = x.run
  BY <1>2 DEF AnyWidget
<1> HIDE DEF w, x
<1>4. /\ b \in Backend /\ b.refs = x.refs \cup {w} /\ b.ids = x.ids + 1 /\ b.run = x.run
      /\ b.pc = x.pc /\ b.event = x.event /\ b.ref = x.ref
  <2> DEFINE R == x.refs \cup {w}
             n == x.ids + 1
  <2>1. R \in SUBSET AnyWidget /\ n \in Nat BY <1>2, <1>3 DEF Backend
  <2> HIDE DEF R, n
  <2>2. b = [x EXCEPT !.ids = n, !.refs = R] BY DEF R, n
  <2> HIDE DEF b
  <2>3. /\ b \in Backend /\ b.refs = R /\ b.ids = n /\ b.run = x.run
        /\ b.pc = x.pc /\ b.event = x.event /\ b.ref = x.ref
    BY <1>2, <2>1, <2>2 DEF Backend
  <2> QED BY <2>3 DEF R, n
<1> HIDE DEF b
<1>5. HeldBy(b) \subseteq HeldBy(x) \cup {w}
  BY <1>4 DEF HeldBy
<1>6. MayBecome(a, b)
  BY <1>1, <1>3, <1>4, <1>5, OwnState DEF MayBecome, x
<1>7. \/ events' = events
      \/ \E e : MayEmit(a, b, e) /\ events' = Append(events, e)
  BY <1>1, <1>3, <1>4, Emits
<1> QED BY <1>1, <1>6, <1>7, ReaperStays, BackendStep

LEMMA CallSetKeeps ==
    ASSUME AppInv, NEW a \in App, NEW w, CallSet(a, w)
    PROVE  AppInv'
<1> DEFINE x == back[a]
<1>1. /\ UNCHANGED <<front, back, inbox, gui, windows, reaper, cleaned>>
      /\ x.pc = "lua" /\ w \in x.refs /\ events' = Emit(a, "set", w)
  BY DEF CallSet
<1>2. back' = [back EXCEPT ![a] = x] BY <1>1 DEF AppInv, Typed
<1>3. w \in AnyWidget BY <1>1, OwnState
<1>4. MayBecome(a, x) BY <1>1, OwnState DEF MayBecome
<1>5. \/ events' = events
      \/ \E e : MayEmit(a, x, e) /\ events' = Append(events, e)
  BY <1>1, <1>3, Emits
<1> QED BY <1>1, <1>2, <1>4, <1>5, ReaperStays, BackendStep

LEMMA AsksKeeps ==
    ASSUME AppInv, NEW a \in App, NEW kind \in {"get", "file"},
           NEW w \in AnyWidget \cup {None},
           NEW p \in {"wait", "file"}, Asks(a, kind, w, p), back[a].pc \in {"lua", "text"}
    PROVE  AppInv'
<1> DEFINE x == back[a]
           q == IF front[a].done THEN "lua" ELSE p
           b == [x EXCEPT !.pc = q, !.answered = FALSE]
<1>1. /\ back' = [back EXCEPT ![a] = b] /\ events' = Emit(a, kind, w)
      /\ UNCHANGED <<front, inbox, gui, windows, reaper, cleaned>>
  BY DEF Asks
<1>2. x \in Backend BY OwnState
<1>3. q \in BackPc /\ q \notin {"pop", "ended"} BY DEF BackPc
<1> HIDE DEF x, q
<1>4. /\ b \in Backend /\ b.refs = x.refs /\ b.ids = x.ids /\ b.run = x.run
      /\ b.pc = q /\ b.event = x.event /\ b.ref = x.ref
  BY <1>2, <1>3 DEF Backend
<1> HIDE DEF b
<1>5. HeldBy(b) = HeldBy(x)
  BY <1>4 DEF HeldBy
<1>6. MayBecome(a, b)
  BY <1>3, <1>4, <1>5, OwnState DEF MayBecome, x
<1>7. \/ events' = events
      \/ \E e : MayEmit(a, b, e) /\ events' = Append(events, e)
  BY <1>1, Emits
<1> QED BY <1>1, <1>6, <1>7, ReaperStays, BackendStep

LEMMA QuestionsKeep ==
    ASSUME AppInv, NEW a \in App,
           (\E w \in back[a].refs : CallGet(a, w)) \/ CallOpenFile(a) \/ AskText(a)
    PROVE  AppInv'
<1>1. CASE \E w \in back[a].refs : CallGet(a, w)
  BY <1>1, OwnState, AsksKeeps DEF CallGet
<1>2. CASE CallOpenFile(a)
  BY <1>2, AsksKeeps DEF CallOpenFile
<1>3. CASE AskText(a)
  <2>1. back[a].ref \in AnyWidget \cup {None} BY OwnState DEF Backend
  <2> QED BY <1>3, <2>1, AsksKeeps DEF AskText
<1> QED BY <1>1, <1>2, <1>3

-----------------------------------------------------------------------------
(***************************************************************************)
(* The GUI thread and the reaper.                                          *)
(***************************************************************************)

\* A step that leaves what the backends hold and where their threads are.
LEMMA GuiStep ==
    ASSUME AppInv, Typed',
           \A a \in App : /\ back'[a].refs = back[a].refs /\ back'[a].ids = back[a].ids
                          /\ back'[a].run = back[a].run /\ back'[a].pc = back[a].pc
                          /\ back'[a].event = back[a].event /\ back'[a].ref = back[a].ref,
           \A a \in App : Held(a)' \subseteq Held(a),
           windows' \subseteq windows, ReaperHasClosed',
           \A a \in CleanupsIn(events') \cup cleaned' :
              a \in App /\ back[a].pc = "ended" /\ a \notin windows,
           StoppedFrontStaysEmpty'
    PROVE  AppInv'
<1>1. NumbersNameWidgets'
  BY DEF AppInv, NumbersNameWidgets
<1>2. HandlerInProgress' /\ LateEventsFindNoCallback'
  BY DEF AppInv, HandlerInProgress, LateEventsFindNoCallback
<1>3. CleanupsAfterEnd' /\ CleanedAfterBackend'
  BY DEF CleanupsAfterEnd, CleanedAfterBackend
<1> QED BY <1>1, <1>2, <1>3 DEF AppInv

LEMMA Cleanups ==
    ASSUME AppInv
    PROVE  \A a \in CleanupsIn(events) \cup cleaned :
              a \in App /\ back[a].pc = "ended" /\ a \notin windows
BY CleanupsAreApps DEF AppInv, Typed, CleanupsAfterEnd, CleanedAfterBackend

LEMMA FrontendFacts ==
    ASSUME NEW f \in Frontend
    PROVE  /\ ResetFront(f) \in Frontend /\ StopFront(f) \in Frontend
           /\ ResetFront(f).done = f.done
           /\ ResetFront(f).widgets \subseteq f.widgets
           /\ StopFront(f).widgets \subseteq f.widgets
           /\ \A w \in ResetFront(f).widgets \cup StopFront(f).widgets :
                 w.kind \in Lasting
           /\ \A w \in AnyWidget : /\ Add(f, w) \in Frontend
                                   /\ f.done => Add(f, w) = f
                                   /\ Add(f, w).done = f.done
                                   /\ Add(f, w).widgets \subseteq f.widgets \cup {w}
<1> DEFINE R == {w \in f.widgets : w.kind \in Lasting}
<1>1. R \in SUBSET AnyWidget /\ R \subseteq f.widgets BY DEF Frontend
<1>2. ResetFront(f) = [f EXCEPT !.widgets = R] BY DEF ResetFront
<1>3. \A w \in R : w.kind \in Lasting OBVIOUS
<1> HIDE DEF R
<1>4. /\ ResetFront(f) \in Frontend /\ ResetFront(f).done = f.done
      /\ ResetFront(f).widgets = R
  BY <1>1, <1>2 DEF Frontend
<1>5. StopFront(f) \in Frontend /\ StopFront(f).widgets = R
  BY <1>4 DEF StopFront, Frontend
<1>6. ASSUME NEW w \in AnyWidget
      PROVE  /\ Add(f, w) \in Frontend
             /\ f.done => Add(f, w) = f
             /\ Add(f, w).done = f.done
             /\ Add(f, w).widgets \subseteq f.widgets \cup {w}
  BY DEF Add, Frontend
<1> QED BY <1>1, <1>3, <1>4, <1>5, <1>6

\* A step that empties the window of a, or leaves it.
LEMMA FrontResetKeeps ==
    ASSUME AppInv, NEW a,
           \/ front' = [front EXCEPT ![a] = ResetFront(@)]
           \/ front' = [front EXCEPT ![a] = StopFront(@)]
    PROVE  /\ front' \in [App -> Frontend] /\ StoppedFrontStaysEmpty'
           /\ \A k \in App : front'[k].widgets \subseteq front[k].widgets
<1>1. \A k \in App : front[k] \in Frontend BY DEF AppInv, Typed
<1>2. \A k \in App : \/ front'[k] = front[k]
                     \/ front'[k] = ResetFront(front[k])
                     \/ front'[k] = StopFront(front[k])
  BY DEF AppInv, Typed
<1>3. front' = [k \in App |-> front'[k]]
  BY DEF AppInv, Typed
<1>4. front' \in [App -> Frontend]
  BY <1>1, <1>2, <1>3, FrontendFacts
<1>5. \A k \in App : front'[k].widgets \subseteq front[k].widgets
  BY <1>1, <1>2, FrontendFacts
<1>6. \A k \in App : front'[k].done => \A w \in front'[k].widgets : w.kind \in Lasting
  BY <1>1, <1>2, FrontendFacts DEF AppInv, StoppedFrontStaysEmpty
<1> QED BY <1>4, <1>5, <1>6 DEF StoppedFrontStaysEmpty

LEMMA SlotKeeps ==
    ASSUME AppInv, Slot
    PROVE  AppInv'
<1> DEFINE e == Head(events)
<1>1. /\ events # <<>> /\ events' = Tail(events)
      /\ front' = IF e.op = "add" THEN [front EXCEPT ![e.app] = Add(@, e.widget)] ELSE front
      /\ \/ back' = back
         \/ back' = [back EXCEPT ![e.app].answered = TRUE]
      /\ cleaned' = IF e.op = "cleanup" THEN cleaned \cup {e.app} ELSE cleaned
      /\ UNCHANGED <<inbox, gui, windows, reaper, used>>
  BY DEF Slot
<1>2. events \in Seq(Sig) BY DEF AppInv, Typed
<1>3. /\ events' \in Seq(Sig) /\ e \in Sig
      /\ \A a : AddedIn(events', a) \subseteq AddedIn(events, a)
      /\ CleanupsIn(events') \subseteq CleanupsIn(events)
      /\ e.op = "add" => e.widget \in AddedIn(events, e.app)
      /\ e.op = "cleanup" => e.app \in CleanupsIn(events)
  BY <1>1, <1>2, SignalTail
<1>4. e.app \in App /\ e.widget \in AnyWidget \cup {None} BY <1>3 DEF Sig
<1> HIDE DEF e
<1>5. \A a \in App : back'[a] \in Backend
         /\ back'[a].refs = back[a].refs /\ back'[a].ids = back[a].ids
         /\ back'[a].run = back[a].run /\ back'[a].pc = back[a].pc
         /\ back'[a].event = back[a].event /\ back'[a].ref = back[a].ref
  <2> TAKE a \in App
  <2>1. back[a] \in Backend BY OwnState
  <2>2. back'[a] = back[a] \/ back'[a] = [back[a] EXCEPT !.answered = TRUE]
    BY <1>1, <1>4 DEF AppInv, Typed
  <2> QED BY <2>1, <2>2 DEF Backend
<1>6. back' \in [App -> Backend]
  <2>1. back' = [a \in App |-> back'[a]] BY <1>1 DEF AppInv, Typed
  <2> QED BY <1>5, <2>1
<1>7. \A a \in App : /\ front'[a] \in Frontend
                     /\ front'[a].widgets \subseteq front[a].widgets \cup AddedIn(events, a)
                     /\ front'[a] = front[a] \/ ~front'[a].done
  <2> TAKE a \in App
  <2>1. front[a] \in Frontend BY DEF AppInv, Typed
  <2>2. CASE front'[a] = front[a] BY <2>1, <2>2
  <2>3. CASE e.op = "add" /\ e.app = a /\ front'[a] = Add(front[a], e.widget)
    <3>1. CASE front[a].done BY <2>1, <2>3, <3>1 DEF Add
    <3>2. CASE ~front[a].done
      <4>1. e.widget \in AddedIn(events, a) BY <1>3, <2>3
      <4>2. e.widget \in AnyWidget BY <4>1, AddedAreWidgets DEF AppInv
      <4> QED BY <2>1, <2>3, <3>2, <4>1, <4>2, FrontendFacts
    <3> QED BY <3>1, <3>2
  <2> QED BY <1>1, <2>2, <2>3 DEF AppInv, Typed
<1>8. front' \in [App -> Frontend]
  <2>1. front' = [a \in App |-> front'[a]] BY <1>1 DEF AppInv, Typed
  <2> QED BY <1>7, <2>1
<1>9. StoppedFrontStaysEmpty'
  BY <1>7 DEF AppInv, StoppedFrontStaysEmpty
<1>10. \A a \in App : Held(a)' \subseteq Held(a)
  BY <1>1, <1>3, <1>5, <1>7 DEF Held, HeldBy
<1>11. \A a \in CleanupsIn(events') \cup cleaned' :
          a \in App /\ back[a].pc = "ended" /\ a \notin windows
  BY <1>1, <1>3, Cleanups
<1>12. Typed'
  <2>1. cleaned' \subseteq App BY <1>11
  <2>2. ReaperTyped' BY <1>1 DEF AppInv, Typed, ReaperTyped
  <2> QED BY <1>1, <1>3, <1>4, <1>6, <1>8, <2>1, <2>2 DEF AppInv, Typed
<1>13. windows' \subseteq windows /\ ReaperHasClosed'
  BY <1>1, ReaperStays
<1> QED BY <1>5, <1>9, <1>10, <1>11, <1>12, <1>13, GuiStep

\* Steps that leave the backends, the signals and the reaper alone.
LEMMA UserEventKeeps ==
    ASSUME AppInv, NEW a \in App, NEW w \in front[a].widgets, UserEvent(a, w)
    PROVE  AppInv'
<1>1. /\ inbox' = [inbox EXCEPT ![a] = Append(@, Event(w))]
      /\ UNCHANGED <<front, back, events, gui, windows, reaper, cleaned>>
  BY DEF UserEvent
<1>2. w \in AnyWidget BY DEF AppInv, Typed, Frontend
<1>3. Event(w) \in Msg /\ Event(w).type = "event" /\ Event(w).widget = w
  BY <1>2, Messages
<1>4. inbox[a] \in Seq(Msg) BY OwnState
<1>5. inbox'[a] = Append(inbox[a], Event(w)) /\ \A k \in App \ {a} : inbox'[k] = inbox[k]
  BY <1>1 DEF AppInv, Typed
<1>6. inbox'[a] \in Seq(Msg) /\ MailIn(inbox'[a]) \subseteq MailIn(inbox[a]) \cup {w}
  BY <1>3, <1>4, <1>5, MailAppend
<1>7. \A k \in App : Held(k)' \subseteq Held(k)
  BY <1>1, <1>5, <1>6 DEF Held, HeldBy
<1>8. inbox' \in [App -> Seq(Msg)]
  BY <1>1, <1>5, <1>6 DEF AppInv, Typed
<1>9. Typed'
  BY <1>1, <1>8 DEF AppInv, Typed, ReaperTyped
<1>10. StoppedFrontStaysEmpty' BY <1>1 DEF AppInv, StoppedFrontStaysEmpty
<1> QED BY <1>1, <1>7, <1>9, <1>10, Cleanups, ReaperStays, GuiStep

LEMMA RerunKeeps ==
    ASSUME AppInv, NEW a \in App, Rerun(a)
    PROVE  AppInv'
<1>1. /\ inbox' = [inbox EXCEPT ![a] = @ \o <<Reset, Run>>]
      /\ front' = [front EXCEPT ![a] = ResetFront(@)]
      /\ UNCHANGED <<back, events, gui, windows, reaper, cleaned>>
  BY DEF Rerun
<1>2. inbox[a] \in Seq(Msg) BY OwnState
<1>3. /\ inbox'[a] = inbox[a] \o <<Reset, Run>>
      /\ \A k \in App \ {a} : inbox'[k] = inbox[k]
  BY <1>1 DEF AppInv, Typed
<1>4. inbox'[a] \in Seq(Msg) /\ MailIn(inbox'[a]) \subseteq MailIn(inbox[a])
  <2> DEFINE s == inbox[a]
             t == s \o <<Reset, Run>>
  <2>1. s \in Seq(Msg) BY <1>2
  <2> HIDE DEF s
  <2>2. t \in Seq(Msg) BY <2>1, Messages
  <2>3. \A k \in 1..Len(t) : (k \in 1..Len(s) /\ t[k] = s[k]) \/ t[k] \in {Reset, Run}
    BY <2>1
  <2> HIDE DEF t
  <2>4. MailIn(t) \subseteq MailIn(s) BY <2>3, Messages DEF MailIn
  <2> QED BY <1>3, <2>2, <2>4 DEF s, t
<1>5. /\ front' \in [App -> Frontend] /\ StoppedFrontStaysEmpty'
      /\ \A k \in App : front'[k].widgets \subseteq front[k].widgets
  BY <1>1, FrontResetKeeps
<1>6. \A k \in App : Held(k)' \subseteq Held(k)
  <2> TAKE k \in App
  <2>1. MailIn(inbox'[k]) \subseteq MailIn(inbox[k])
    <3>1. CASE k = a BY <1>4, <3>1
    <3>2. CASE k # a BY <1>3, <3>2
    <3> QED BY <3>1, <3>2
  <2>2. front'[k].widgets \subseteq front[k].widgets BY <1>5
  <2> QED BY <1>1, <2>1, <2>2 DEF Held, HeldBy
<1>7. inbox' \in [App -> Seq(Msg)]
  BY <1>1, <1>3, <1>4 DEF AppInv, Typed
<1>8. Typed'
  BY <1>1, <1>5, <1>7 DEF AppInv, Typed, ReaperTyped
<1> QED BY <1>1, <1>5, <1>6, <1>8, Cleanups, ReaperStays, GuiStep

\* A step that touches windows, the reaper and the set of open apps only.
LEMMA WindowStep ==
    ASSUME AppInv, UNCHANGED <<back, inbox, events, cleaned>>, windows' \subseteq windows,
           front' \in [App -> Frontend], StoppedFrontStaysEmpty',
           \A k \in App : front'[k].widgets \subseteq front[k].widgets,
           ReaperTyped', ReaperHasClosed'
    PROVE  AppInv'
<1>1. \A k \in App : Held(k)' \subseteq Held(k)
  BY DEF Held, HeldBy
<1>2. Typed' BY DEF AppInv, Typed
<1> QED BY <1>1, <1>2, Cleanups, GuiStep

LEMMA FrontStays ==
    ASSUME AppInv, UNCHANGED front
    PROVE  /\ front' \in [App -> Frontend] /\ StoppedFrontStaysEmpty'
           /\ \A k \in App : front'[k].widgets \subseteq front[k].widgets
BY DEF AppInv, Typed, StoppedFrontStaysEmpty

LEMMA CloseAppKeeps ==
    ASSUME AppInv, NEW a \in App, CloseApp(a)
    PROVE  AppInv'
<1>1. /\ windows' = windows \ {a}
      /\ front' = [front EXCEPT ![a] = StopFront(@)]
      /\ reaper' = [reaper EXCEPT !.queue = Append(@, a)]
      /\ UNCHANGED <<back, inbox, events, gui, cleaned>>
  BY DEF CloseApp
<1>2. reaper' = [queue |-> Append(reaper.queue, a), done |-> reaper.done,
                 pc |-> reaper.pc, app |-> reaper.app]
  BY <1>1 DEF AppInv, Typed, ReaperTyped
<1>3. reaper.queue \in Seq(App) BY DEF AppInv, Typed, ReaperTyped
<1>4. ReaperTyped' BY <1>2, <1>3 DEF ReaperTyped
<1>5. \A k \in 1..Len(reaper'.queue) : \/ k \in 1..Len(reaper.queue)
                                          /\ reaper'.queue[k] = reaper.queue[k]
                                       \/ reaper'.queue[k] = a
  BY <1>2, <1>3
<1>6. ReaperHasClosed'
  BY <1>1, <1>2, <1>5 DEF AppInv, ReaperHasClosed
<1> QED BY <1>1, <1>4, <1>6, FrontResetKeeps, WindowStep

LEMMA QuitKeeps ==
    ASSUME AppInv, Quit \/ ReaperEnds
    PROVE  AppInv'
<1>1. UNCHANGED <<front, back, inbox, events, windows, cleaned>>
  BY DEF Quit, ReaperEnds
<1>2. reaper' = [reaper EXCEPT !.done = TRUE] \/ reaper' = [reaper EXCEPT !.pc = "ended"]
  BY DEF Quit, ReaperEnds
<1>3. /\ reaper' = [queue |-> reaper.queue, done |-> reaper'.done, pc |-> reaper'.pc,
                    app |-> reaper.app]
      /\ reaper'.pc \in {reaper.pc, "ended"}
  BY <1>2 DEF AppInv, Typed, ReaperTyped
<1>4. ReaperTyped' BY <1>3 DEF AppInv, Typed, ReaperTyped
<1>5. ReaperHasClosed' BY <1>1, <1>3 DEF AppInv, ReaperHasClosed
<1> QED BY <1>1, <1>4, <1>5, FrontStays, WindowStep

LEMMA WaitingKeeps ==
    ASSUME AppInv, ReaperJoined \/ AppJoined \/ Exit
    PROVE  AppInv'
<1>1. UNCHANGED <<back, inbox, events, windows, reaper, cleaned>>
  BY DEF ReaperJoined, AppJoined, Exit
<1>2. UNCHANGED front \/ front' = [front EXCEPT ![gui.app] = StopFront(@)]
  BY DEF ReaperJoined, AppJoined, Exit
<1> QED BY <1>1, <1>2, FrontStays, FrontResetKeeps, ReaperStays, WindowStep

\* service::stop asks the thread to end; it goes on with what it does.
LEMMA StopMayBecome ==
    ASSUME AppInv, NEW a \in App
    PROVE  MayBecome(a, [back[a] EXCEPT !.stop = TRUE])
<1> DEFINE x == back[a]
           b == [x EXCEPT !.stop = TRUE]
<1>1. x \in Backend BY OwnState
<1> HIDE DEF x
<1>2. /\ b \in Backend /\ b.refs = x.refs /\ b.ids = x.ids /\ b.run = x.run
      /\ b.pc = x.pc /\ b.event = x.event /\ b.ref = x.ref
  BY <1>1 DEF Backend
<1> HIDE DEF b
<1>3. HeldBy(b) = HeldBy(x) BY <1>2 DEF HeldBy
<1>4. MayBecome(a, b) BY <1>2, <1>3, OwnState DEF MayBecome, x
<1> QED BY <1>4 DEF b, x

LEMMA DestroyAppKeeps ==
    ASSUME AppInv, NEW a \in App, DestroyApp(a)
    PROVE  AppInv'
<1>1. /\ windows' = windows \ {a}
      /\ back' = [back EXCEPT ![a] = [back[a] EXCEPT !.stop = TRUE]]
      /\ UNCHANGED <<front, inbox, events, reaper, cleaned>>
  BY DEF DestroyApp
<1>2. ReaperTyped' /\ ReaperHasClosed'
  BY <1>1 DEF AppInv, Typed, ReaperTyped, ReaperHasClosed
<1> QED BY <1>1, <1>2, StopMayBecome, BackendStep

LEMMA ReaperPopsKeeps ==
    ASSUME AppInv, ReaperPops
    PROVE  AppInv'
<1> DEFINE a == Head(reaper.queue)
<1>1. /\ reaper.queue # <<>>
      /\ reaper' = [reaper EXCEPT !.queue = Tail(@), !.pc = "join", !.app = a]
      /\ back' = [back EXCEPT ![a] = [back[a] EXCEPT !.stop = TRUE]]
      /\ UNCHANGED <<front, inbox, events, gui, windows, cleaned>>
  BY DEF ReaperPops
<1>2. reaper.queue \in Seq(App) BY DEF AppInv, Typed, ReaperTyped
<1>3. a \in App /\ a = reaper.queue[1] /\ 1 \in 1..Len(reaper.queue)
  BY <1>1, <1>2
<1>4. reaper' = [queue |-> Tail(reaper.queue), done |-> reaper.done, pc |-> "join", app |-> a]
  <2>1. reaper = [queue |-> reaper.queue, done |-> reaper.done, pc |-> reaper.pc,
                  app |-> reaper.app]
    BY DEF AppInv, Typed, ReaperTyped
  <2> QED BY <1>1, <2>1
<1>5. a \notin windows BY <1>3 DEF AppInv, ReaperHasClosed
<1>6. \A k \in 1..Len(Tail(reaper.queue)) : /\ k + 1 \in 1..Len(reaper.queue)
                                            /\ Tail(reaper.queue)[k] = reaper.queue[k + 1]
  BY <1>1, <1>2
<1>7. Tail(reaper.queue) \in Seq(App) BY <1>1, <1>2
<1> HIDE DEF a
<1>8. ReaperTyped' BY <1>4, <1>7 DEF ReaperTyped
<1>9. ReaperHasClosed'
  BY <1>1, <1>3, <1>4, <1>5, <1>6 DEF AppInv, ReaperHasClosed
<1> QED BY <1>1, <1>3, <1>8, <1>9, StopMayBecome, BackendStep

LEMMA ReaperJoinsKeeps ==
    ASSUME AppInv, ReaperJoins
    PROVE  AppInv'
<1> DEFINE a == reaper.app
           e == Cleanup(a)
<1>1. /\ reaper.pc = "join" /\ back[a].pc = "ended"
      /\ reaper' = [reaper EXCEPT !.pc = "pop"]
      /\ events' = Append(events, e)
      /\ UNCHANGED <<front, back, inbox, gui, windows, cleaned, used>>
  BY DEF ReaperJoins
<1>2. a \in App /\ a \notin windows BY <1>1 DEF AppInv, ReaperHasClosed
<1>3. e \in Sig /\ e.op = "cleanup" /\ e.app = a
  BY <1>2 DEF Cleanup, Signal, Sig
<1> HIDE DEF e
<1>4. events \in Seq(Sig) BY DEF AppInv, Typed
<1>5. /\ events' \in Seq(Sig) /\ CleanupsIn(events') \subseteq CleanupsIn(events) \cup {a}
      /\ \A k : AddedIn(events', k) \subseteq AddedIn(events, k)
  BY <1>1, <1>3, <1>4, SignalAppend
<1>6. /\ reaper' = [queue |-> reaper.queue, done |-> reaper.done, pc |-> "pop",
                    app |-> reaper.app]
      /\ reaper.queue \in Seq(App)
  BY <1>1 DEF AppInv, Typed, ReaperTyped
<1>7. ReaperTyped' /\ ReaperHasClosed'
  BY <1>1, <1>6 DEF AppInv, ReaperTyped, ReaperHasClosed
<1>8. Typed'
  BY <1>1, <1>5, <1>7 DEF AppInv, Typed
<1>9. \A k \in App : Held(k)' \subseteq Held(k)
  BY <1>1, <1>5 DEF Held, HeldBy
<1>10. \A k \in CleanupsIn(events') \cup cleaned' :
          k \in App /\ back[k].pc = "ended" /\ k \notin windows
  BY <1>1, <1>2, <1>5, Cleanups
<1> QED BY <1>1, <1>7, <1>8, <1>9, <1>10, FrontStays, GuiStep

-----------------------------------------------------------------------------
LEMMA AppNextKeeps == AppInv /\ [AppNext]_appVars => AppInv'
<1> SUFFICES ASSUME AppInv, [AppNext]_appVars PROVE AppInv' OBVIOUS
<1>1. CASE UNCHANGED appVars
  BY <1>1, FrontStays, ReaperStays, WindowStep DEF appVars
<1>2. ASSUME NEW a \in App, Script(a) PROVE AppInv'
  BY <1>2, CallMakeKeeps, CallSetKeeps, QuestionsKeep DEF Script
<1>3. ASSUME NEW a \in App, BackendThread(a) PROVE AppInv'
  BY <1>3, ThreadMovesKeep, HandleResetKeeps, HandleEventKeeps, HandlerReturnsKeeps,
     QuestionsKeep DEF BackendThread
<1>4. CASE GuiThread
  BY <1>4, SlotKeeps, WaitingKeeps, DestroyAppKeeps DEF GuiThread
<1>5. CASE ReapThread
  BY <1>5, ReaperPopsKeeps, ReaperJoinsKeeps, QuitKeeps DEF ReapThread
<1>6. CASE User
  BY <1>6, CloseAppKeeps, RerunKeeps, UserEventKeeps, QuitKeeps DEF User
<1> QED BY <1>1, <1>2, <1>3, <1>4, <1>5, <1>6 DEF AppNext

THEOREM AppInvariance == AppSpec => []AppInv
<1> QED BY AppInitHolds, AppNextKeeps, PTL DEF AppSpec

(***************************************************************************)
(* An event that was on its way when the script was run again calls        *)
(* nothing of the new script, however many widgets, events and runs: the   *)
(* numbers of new_id are never used twice and reset_refs clears the rest.  *)
(***************************************************************************)
THEOREM CallbacksBelongToTheScript == AppSpec => []LateEventsFindNoCallback
<1>1. AppInv => LateEventsFindNoCallback BY DEF AppInv
<1> QED BY <1>1, AppInvariance, PTL

(***************************************************************************)
(* A frontend that was stopped stays empty, whatever the backend still     *)
(* emits (qt_frontend_client::stop and the do_add slots).                  *)
(***************************************************************************)
THEOREM StoppedFrontendsStayEmpty == AppSpec => []StoppedFrontStaysEmpty
<1>1. AppInv => StoppedFrontStaysEmpty BY DEF AppInv
<1> QED BY <1>1, AppInvariance, PTL

(***************************************************************************)
(* The window of a closed app is deleted only after its backend ended, for *)
(* any number of apps in the reaper's queue (reap_thread).                 *)
(***************************************************************************)
THEOREM CleanupComesLast == AppSpec => []CleanedAfterBackend
<1>1. AppInv => CleanedAfterBackend BY DEF AppInv
<1> QED BY <1>1, AppInvariance, PTL
=============================================================================
