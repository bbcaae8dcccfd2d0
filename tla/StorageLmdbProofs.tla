------------------------- MODULE StorageLmdbProofs -------------------------
(***************************************************************************)
(* Proofs about StorageLmdb for any number of processes, keys, values and  *)
(* any of the faults: the writer lock never leaks, the layer implements    *)
(* AtomicStore, and a scan misses nothing.                                 *)
(***************************************************************************)
EXTENDS StorageLmdb, WellFoundedInduction, SequenceTheorems, TLAPS

(* A writer's root is still the committed one, whoever does not write has  *)
(* no pages of its own, and a handle without a transaction holds nothing.  *)
WriterCurrent == \A h \in Handles : txn[h] \in Writing => snap[h] = db
ReaderClean   == \A h \in Handles : txn[h] \notin Writing => dirty[h] = NoEdits
IdleEmpty     ==
  \A h \in Handles : txn[h] = "none" => snap[h] = Nothing /\ got[h] = Absent

StorageInv == TypeOK /\ NoLockLeak /\ WriterCurrent /\ ReaderClean /\ IdleEmpty

(* The initial states satisfy the invariant. *)
LEMMA InitStorageInv == Init => StorageInv
  BY StorageAssumption
  DEF Init, StorageInv, TypeOK, NoLockLeak, WriterCurrent, ReaderClean, IdleEmpty,
      Kinds, Writing, Codes, Stored, Nothing, NoEdits

(* What a handle sees is a map of stored values. *)
LEMMA ViewType ==
  ASSUME TypeOK, NEW h \in Handles
  PROVE  View(h) \in [Keys -> Stored]
  BY DEF TypeOK, View, Stored

(* Beginning a transaction keeps every part of the invariant that is about *)
(* the handle's own pages.                                                 *)
LEMMA StartType ==
  ASSUME TypeOK, NEW h \in Handles, NEW kind \in Kinds, Start(h, kind)
  PROVE  /\ txn' \in [Handles -> Kinds]
         /\ snap' \in [Handles -> [Keys -> Stored]]
         /\ dirty' \in [Handles -> [Keys -> Stored \cup {Clean}]]
         /\ bad' \in [Handles -> BOOLEAN]
         /\ rc' \in Codes
         /\ txn'[h] = kind /\ snap'[h] = db /\ dirty'[h] = NoEdits
         /\ \A g \in Handles \ {h} :
              /\ txn'[g] = txn[g] /\ snap'[g] = snap[g] /\ dirty'[g] = dirty[g]
<1>1. NoEdits \in [Keys -> Stored \cup {Clean}]
  BY DEF NoEdits
<1> QED BY <1>1 DEF TypeOK, Start, Returns, Codes

(* Ending a transaction empties the handle's slot, gives back the lock and *)
(* leaves every other handle alone.                                        *)
LEMMA EndType ==
  ASSUME TypeOK, NEW h \in Handles, End(h)
  PROVE  /\ txn' \in [Handles -> Kinds]
         /\ snap' \in [Handles -> [Keys -> Stored]]
         /\ dirty' \in [Handles -> [Keys -> Stored \cup {Clean}]]
         /\ bad' \in [Handles -> BOOLEAN]
         /\ got' \in [Handles -> Stored]
         /\ lock' \in Handles \cup {NoHandle} /\ lock' # h
         /\ lock' = (IF lock = h THEN NoHandle ELSE lock)
         /\ txn'[h] = "none" /\ snap'[h] = Nothing /\ dirty'[h] = NoEdits
         /\ got'[h] = Absent
         /\ \A g \in Handles \ {h} :
              /\ txn'[g] = txn[g] /\ snap'[g] = snap[g] /\ dirty'[g] = dirty[g]
              /\ got'[g] = got[g]
<1>1. NoEdits \in [Keys -> Stored \cup {Clean}] /\ Nothing \in [Keys -> Stored]
  BY DEF NoEdits, Nothing, Stored
<1> QED BY <1>1, StorageAssumption DEF TypeOK, End, Kinds, Stored

(* Ending a transaction without changing the committed contents keeps the  *)
(* invariant.                                                              *)
LEMMA EndKeepsInv ==
  ASSUME StorageInv, NEW h \in Handles, End(h), db' = db,
         mode' \in [Handles -> {"closed", "rw", "ro"}], rc' \in Codes
  PROVE  StorageInv'
<1>1. TypeOK /\ NoLockLeak /\ WriterCurrent /\ ReaderClean /\ IdleEmpty
  BY DEF StorageInv
<1>2. TypeOK'
  BY <1>1, EndType DEF TypeOK
<1>3. NoLockLeak'
  BY <1>1, EndType, StorageAssumption DEF NoLockLeak, Writing
<1>4. WriterCurrent'
  BY <1>1, EndType DEF WriterCurrent, Writing
<1>5. ReaderClean'
  BY <1>1, EndType DEF ReaderClean, NoEdits
<1>6. IdleEmpty'
  BY <1>1, EndType DEF IdleEmpty, Nothing
<1> QED BY <1>2, <1>3, <1>4, <1>5, <1>6 DEF StorageInv

(* Beginning a transaction keeps the invariant: a writer takes the lock    *)
(* when nobody has it, a reader leaves it alone.                           *)
LEMMA StartKeepsInv ==
  ASSUME StorageInv, NEW h \in Handles, NEW kind \in Kinds \ {"none"}, Start(h, kind),
         txn[h] = "none", UNCHANGED <<db, mode, got>>,
         IF kind \in Writing THEN lock = NoHandle /\ lock' = h ELSE lock' = lock
  PROVE  StorageInv'
<1>1. TypeOK /\ NoLockLeak /\ WriterCurrent /\ ReaderClean /\ IdleEmpty
  BY DEF StorageInv
<1>2. TypeOK'
  BY <1>1, StartType DEF TypeOK
<1>3. NoLockLeak'
  BY <1>1, StartType, StorageAssumption DEF NoLockLeak, Writing
<1>4. WriterCurrent'
  BY <1>1, StartType DEF WriterCurrent
<1>5. ReaderClean'
  BY <1>1, StartType DEF ReaderClean, NoEdits
<1>6. IdleEmpty'
  BY <1>1, StartType DEF IdleEmpty, Nothing
<1> QED BY <1>2, <1>3, <1>4, <1>5, <1>6 DEF StorageInv

(* A put or delete that works changes one entry of the writer's own pages. *)
LEMMA WritesKeepsInv ==
  ASSUME StorageInv, NEW h \in Handles, NEW k \in Keys, NEW v \in Stored,
         MayWrite(h), Writes(h, k, v), UNCHANGED <<db, mode>>
  PROVE  StorageInv'
<1>1. TypeOK /\ NoLockLeak /\ WriterCurrent /\ ReaderClean /\ IdleEmpty
  BY DEF StorageInv
<1>2. /\ dirty' \in [Handles -> [Keys -> Stored \cup {Clean}]]
      /\ \A g \in Handles \ {h} : dirty'[g] = dirty[g]
  BY <1>1 DEF TypeOK, Writes
<1>3. TypeOK'
  BY <1>1, <1>2 DEF TypeOK, Writes, Returns, Codes
<1>4. NoLockLeak' /\ WriterCurrent' /\ IdleEmpty'
  BY <1>1 DEF NoLockLeak, WriterCurrent, IdleEmpty, Writes, Nothing
<1>5. ReaderClean'
  BY <1>1, <1>2 DEF ReaderClean, Writes, MayWrite, NoEdits
<1> QED BY <1>3, <1>4, <1>5 DEF StorageInv

(* One that fails ends the transaction or leaves it as it is. *)
LEMMA FailsKeepsInv ==
  ASSUME StorageInv, NEW h \in Handles, NEW code \in Codes, Fails(h, code),
         UNCHANGED <<db, mode>>
  PROVE  StorageInv'
<1>1. CASE txn[h] = "single"
  BY <1>1, EndKeepsInv DEF Fails, Returns, StorageInv, TypeOK
<1>2. CASE txn[h] # "single"
  <2>1. /\ UNCHANGED <<db, mode, lock, txn, snap, dirty, got>> /\ rc' \in Codes
        /\ bad' \in [Handles -> BOOLEAN]
    BY <1>2 DEF Fails, Returns, StorageInv, TypeOK
  <2> QED BY <2>1 DEF StorageInv, TypeOK, NoLockLeak, WriterCurrent, ReaderClean,
                      IdleEmpty, NoEdits, Nothing
<1> QED BY <1>1, <1>2

(* Every step keeps the invariant; only a commit changes what is           *)
(* committed, and then no other handle is a writer.                        *)
LEMMA StepStorageInv == StorageInv /\ [Next]_vars => StorageInv'
<1> SUFFICES ASSUME StorageInv, [Next]_vars
             PROVE  StorageInv'
  OBVIOUS
<1>0. TypeOK /\ NoLockLeak /\ WriterCurrent /\ ReaderClean /\ IdleEmpty
  BY DEF StorageInv
<1>1. CASE UNCHANGED vars
  BY <1>1 DEF StorageInv, TypeOK, NoLockLeak, WriterCurrent, ReaderClean, IdleEmpty,
              vars, NoEdits, Nothing
<1>2. CASE Next
  <2>0. PICK h \in Handles :
          \/ storage_env_open(h) \/ storage_env_close(h) \/ Die(h)
          \/ begin_read_txn(h) \/ BeginWrite(h)
          \/ Get(h) \/ Put(h) \/ Delete(h) \/ RefuseWrite(h)
          \/ storage_txn_commit(h) \/ storage_txn_abort(h)
          \/ Iterate(h) \/ storage_iter_next(h) \/ storage_iter_close(h)
    BY <1>2 DEF Next
  <2>1. CASE storage_env_open(h) \/ storage_env_close(h)
    <3>1. /\ UNCHANGED <<db, lock, txn, snap, dirty, bad, got>> /\ rc' \in Codes
          /\ mode' \in [Handles -> {"closed", "rw", "ro"}]
      BY <1>0, <2>1 DEF storage_env_open, storage_env_close, Returns, Codes, TypeOK
    <3> QED BY <1>0, <3>1 DEF StorageInv, TypeOK, NoLockLeak, WriterCurrent,
                              ReaderClean, IdleEmpty, NoEdits, Nothing
  <2>2. CASE Die(h)
    <3>1. /\ End(h) /\ db' = db /\ rc' \in Codes
          /\ mode' \in [Handles -> {"closed", "rw", "ro"}]
      BY <1>0, <2>2 DEF Die, TypeOK
    <3> QED BY <3>1, EndKeepsInv
  <2>3. CASE begin_read_txn(h)
    BY <2>3, StartKeepsInv DEF begin_read_txn, Free, Kinds, Writing
  <2>4. CASE BeginWrite(h)
    <3>1. PICK kind \in Writing : begin_write_txn(h, kind)
      BY <2>4 DEF BeginWrite
    <3>2. CASE mode[h] = "ro"
      <4>1. UNCHANGED <<db, mode, got, lock, txn, snap, dirty, bad>> /\ rc' \in Codes
        BY <3>1, <3>2 DEF begin_write_txn, Returns, Codes
      <4> QED BY <1>0, <4>1 DEF StorageInv, TypeOK, NoLockLeak, WriterCurrent,
                                ReaderClean, IdleEmpty, NoEdits, Nothing
    <3>3. CASE mode[h] # "ro"
      <4>1. /\ txn[h] = "none" /\ lock = NoHandle /\ lock' = h /\ Start(h, kind)
            /\ UNCHANGED <<db, mode, got>>
        BY <3>1, <3>3 DEF begin_write_txn, Free
      <4>2. kind \in Kinds \ {"none"}
        BY DEF Kinds, Writing
      <4> QED BY <4>1, <4>2, StartKeepsInv
    <3> QED BY <3>2, <3>3
  <2>5. CASE Get(h) \/ RefuseWrite(h)
    <3>1. UNCHANGED <<db, lock, mode, txn, snap, dirty, bad>>
      BY <2>5 DEF Get, txn_get_raw, RefuseWrite
    <3>2. rc' \in Codes
      BY <2>5 DEF Get, txn_get_raw, RefuseWrite, Returns, Codes
    <3>3. /\ got' \in [Handles -> Stored]
          /\ \A g \in Handles : txn[g] = "none" => got'[g] = got[g]
      <4>1. CASE got' = got
        BY <1>0, <4>1 DEF TypeOK
      <4>2. CASE got' # got
        <5>1. PICK k \in Keys : /\ txn[h] \in {"read", "write"}
                                /\ got' = [got EXCEPT ![h] = View(h)[k]]
          BY <2>5, <4>2 DEF Get, txn_get_raw, RefuseWrite
        <5>2. View(h)[k] \in Stored
          BY <1>0, ViewType
        <5> QED BY <1>0, <5>1, <5>2 DEF TypeOK
      <4> QED BY <4>1, <4>2
    <3> QED BY <1>0, <3>1, <3>2, <3>3 DEF StorageInv, TypeOK, NoLockLeak, WriterCurrent,
                                          ReaderClean, IdleEmpty, NoEdits, Nothing
  <2>6. CASE Put(h)
    <3>1. PICK k \in Keys, v \in Cells : txn_put_raw(h, k, v)
      BY <2>6 DEF Put
    <3>2. MayWrite(h) /\ UNCHANGED <<db, mode>> /\ (Writes(h, k, v) \/ OutOfSpace(h))
      BY <3>1 DEF txn_put_raw
    <3>3. CASE Writes(h, k, v)
      BY <3>2, <3>3, WritesKeepsInv DEF Stored
    <3>4. CASE OutOfSpace(h)
      BY <3>2, <3>4, FailsKeepsInv DEF OutOfSpace, Codes
    <3> QED BY <3>2, <3>3, <3>4
  <2>7. CASE Delete(h)
    <3>1. PICK k \in Keys : txn_delete_impl(h, k)
      BY <2>7 DEF Delete
    <3>2. /\ MayWrite(h) /\ UNCHANGED <<db, mode>>
          /\ Writes(h, k, Absent) \/ Fails(h, "NOTFOUND") \/ OutOfSpace(h)
      BY <3>1 DEF txn_delete_impl
    <3>3. CASE Writes(h, k, Absent)
      BY <3>2, <3>3, WritesKeepsInv DEF Stored
    <3>4. CASE Fails(h, "NOTFOUND") \/ OutOfSpace(h)
      BY <3>2, <3>4, FailsKeepsInv DEF OutOfSpace, Codes
    <3> QED BY <3>2, <3>3, <3>4
  <2>8. CASE storage_txn_commit(h)
    <3>1. End(h) /\ UNCHANGED mode /\ rc' \in Codes
      BY <2>8 DEF storage_txn_commit, Returns, Codes
    <3>2. db' \in [Keys -> Stored] /\ (db' = db \/ txn[h] \in Writing)
      BY <1>0, <2>8, ViewType DEF storage_txn_commit, TypeOK, Writing
    <3>3. TypeOK'
      BY <1>0, <3>1, <3>2, EndType DEF TypeOK
    <3>4. NoLockLeak'
      BY <1>0, <3>1, EndType, StorageAssumption DEF NoLockLeak, Writing
    <3>5. \A g \in Handles \ {h} : db' # db => txn[g] \notin Writing
      BY <1>0, <3>2 DEF NoLockLeak
    <3>6. WriterCurrent'
      BY <1>0, <3>1, <3>5, EndType DEF WriterCurrent, Writing
    <3>7. ReaderClean'
      BY <1>0, <3>1, EndType DEF ReaderClean, NoEdits
    <3>8. IdleEmpty'
      BY <1>0, <3>1, EndType DEF IdleEmpty, Nothing
    <3> QED BY <3>3, <3>4, <3>6, <3>7, <3>8 DEF StorageInv
  <2>9. CASE storage_txn_abort(h) \/ storage_iter_close(h)
    <3>1. End(h) /\ db' = db /\ UNCHANGED <<mode, rc>>
      BY <2>9 DEF storage_txn_abort, storage_iter_close
    <3> QED BY <1>0, <3>1, EndKeepsInv DEF TypeOK
  <2>10. CASE Iterate(h)
    BY <2>10, StartKeepsInv DEF Iterate, storage_iter_open, Free, Kinds, Writing
  <2>11. CASE storage_iter_next(h)
    <3>1. UNCHANGED <<db, lock, mode, txn, snap, dirty, bad, got>> /\ rc' \in Codes
      BY <2>11 DEF storage_iter_next, Returns, Codes
    <3> QED BY <1>0, <3>1 DEF StorageInv, TypeOK, NoLockLeak, WriterCurrent,
                              ReaderClean, IdleEmpty, NoEdits, Nothing
  <2> QED BY <2>0, <2>1, <2>2, <2>3, <2>4, <2>5, <2>6, <2>7, <2>8, <2>9, <2>10, <2>11
<1> QED BY <1>1, <1>2

(* In every reachable state the invariant holds. *)
THEOREM StorageSafe == Spec => []StorageInv
  BY InitStorageInv, StepStorageInv, PTL DEF Spec

(* The writer lock is held exactly while a handle is in a write            *)
(* transaction, so no path of storage_set_*, storage_delete or             *)
(* storage_txn_* leaves it behind.                                         *)
THEOREM LockNeverLeaks == Spec => []NoLockLeak
<1>1. StorageInv => NoLockLeak
  BY DEF StorageInv
<1> QED BY <1>1, StorageSafe, PTL

(* The initial states are initial states of the atomic map. *)
LEMMA InitRefines == Init => Store!AInit
  BY DEF Init, Store!AInit, Store!Stored, Store!Nothing, Store!NoEdits,
         Stored, Nothing, NoEdits

(* Ending a transaction is Drop when nothing is installed, and nothing at  *)
(* all when there was no transaction.                                      *)
LEMMA EndRefines ==
  ASSUME StorageInv, NEW h \in Handles, End(h), db' = db
  PROVE  Store!Drop(h) \/ UNCHANGED Store!avars
<1>0. TypeOK /\ IdleEmpty /\ ReaderClean
  BY DEF StorageInv
<1>1. CASE txn[h] = "none"
  <2>1. txn' = txn /\ snap' = snap /\ dirty' = dirty /\ got' = got
    BY <1>0, <1>1 DEF End, TypeOK, IdleEmpty, ReaderClean, Writing
  <2> QED BY <2>1 DEF Store!avars
<1>2. CASE txn[h] # "none"
  <2>1. h \in {g \in Handles : txn[g] # "none"}
    BY <1>2
  <2>2. {g \in Handles : txn'[g] # "none"} = {g \in Handles : txn[g] # "none"} \ {h}
    BY <1>0 DEF End, TypeOK
  <2> QED BY <2>1, <2>2 DEF End, Store!Drop, Store!Ended, Store!Nothing, Store!NoEdits,
                            Nothing, NoEdits
<1> QED BY <1>1, <1>2

(* Beginning one is Begin. *)
LEMMA StartRefines ==
  ASSUME StorageInv, NEW h \in Handles, NEW kind \in Kinds \ {"none"}, Start(h, kind),
         txn[h] = "none", UNCHANGED <<db, got>>
  PROVE  Store!Begin(h)
<1>0. TypeOK
  BY DEF StorageInv
<1>1. h \notin {g \in Handles : txn[g] # "none"}
  OBVIOUS
<1>2. {g \in Handles : txn'[g] # "none"} = {g \in Handles : txn[g] # "none"} \cup {h}
  BY <1>0 DEF Start, TypeOK
<1> QED BY <1>1, <1>2 DEF Start, Store!Begin, Store!NoEdits, NoEdits

(* A failing put or delete ends the transaction or changes nothing the     *)
(* atomic map knows of.                                                    *)
LEMMA FailsRefines ==
  ASSUME StorageInv, NEW h \in Handles, NEW code, Fails(h, code), db' = db
  PROVE  Store!Drop(h) \/ UNCHANGED Store!avars
<1>1. CASE txn[h] = "single"
  BY <1>1, EndRefines DEF Fails
<1>2. CASE txn[h] # "single"
  BY <1>2 DEF Fails, Store!avars
<1> QED BY <1>1, <1>2

(* One that works is Edit. *)
LEMMA WritesRefines ==
  ASSUME StorageInv, NEW h \in Handles, NEW k \in Keys, NEW v,
         MayWrite(h), Writes(h, k, v), db' = db
  PROVE  Store!Edit(h, k, v)
<1>1. h \in {g \in Handles : txn[g] # "none"}
  BY DEF MayWrite, Writing
<1> QED BY <1>1 DEF Writes, Store!Edit

(* Every step is a step of the atomic map or leaves it alone.  The case    *)
(* that matters is the commit: LMDB installs the writer's root, which is   *)
(* the current map with its edits because nobody else could commit since.  *)
LEMMA StepRefines == StorageInv /\ [Next]_vars => [Store!ANext]_(Store!avars)
<1> SUFFICES ASSUME StorageInv, [Next]_vars
             PROVE  Store!ANext \/ UNCHANGED Store!avars
  OBVIOUS
<1>0. TypeOK /\ NoLockLeak /\ WriterCurrent /\ ReaderClean /\ IdleEmpty
  BY DEF StorageInv
<1>1. CASE UNCHANGED vars
  BY <1>1 DEF vars, Store!avars
<1>2. CASE Next
  <2>0. PICK h \in Handles :
          \/ storage_env_open(h) \/ storage_env_close(h) \/ Die(h)
          \/ begin_read_txn(h) \/ BeginWrite(h)
          \/ Get(h) \/ Put(h) \/ Delete(h) \/ RefuseWrite(h)
          \/ storage_txn_commit(h) \/ storage_txn_abort(h)
          \/ Iterate(h) \/ storage_iter_next(h) \/ storage_iter_close(h)
    BY <1>2 DEF Next
  <2>1. CASE storage_env_open(h) \/ storage_env_close(h) \/ RefuseWrite(h)
             \/ storage_iter_next(h)
    BY <2>1 DEF storage_env_open, storage_env_close, RefuseWrite, storage_iter_next,
                Store!avars
  <2>2. CASE Die(h) \/ storage_txn_abort(h) \/ storage_iter_close(h)
    <3>1. End(h) /\ db' = db
      BY <2>2 DEF Die, storage_txn_abort, storage_iter_close
    <3> QED BY <3>1, EndRefines DEF Store!ANext
  <2>3. CASE begin_read_txn(h) \/ Iterate(h)
    <3>1. PICK kind \in {"read", "iter"} : Start(h, kind) /\ txn[h] = "none" /\ UNCHANGED <<db, got>>
      BY <2>3 DEF begin_read_txn, Iterate, storage_iter_open, Free
    <3>2. kind \in Kinds \ {"none"}
      BY DEF Kinds
    <3> QED BY <3>1, <3>2, StartRefines DEF Store!ANext
  <2>4. CASE BeginWrite(h)
    <3>1. PICK kind \in Writing : begin_write_txn(h, kind)
      BY <2>4 DEF BeginWrite
    <3>2. CASE mode[h] = "ro"
      BY <3>1, <3>2 DEF begin_write_txn, Store!avars
    <3>3. CASE mode[h] # "ro"
      <4>1. txn[h] = "none" /\ Start(h, kind) /\ UNCHANGED <<db, got>>
        BY <3>1, <3>3 DEF begin_write_txn, Free
      <4>2. kind \in Kinds \ {"none"}
        BY DEF Kinds, Writing
      <4> QED BY <4>1, <4>2, StartRefines DEF Store!ANext
    <3> QED BY <3>2, <3>3
  <2>5. CASE Get(h)
    <3>1. PICK k \in Keys : txn_get_raw(h, k)
      BY <2>5 DEF Get
    <3>2. CASE bad[h]
      BY <3>1, <3>2 DEF txn_get_raw, Store!avars
    <3>3. CASE ~bad[h]
      <4>1. /\ got' = [got EXCEPT ![h] = View(h)[k]] /\ txn[h] # "none"
            /\ UNCHANGED <<db, txn, snap, dirty>>
        BY <3>1, <3>3 DEF txn_get_raw
      <4>2. View(h) = Store!Merge(dirty[h], snap[h])
        BY DEF View, Store!Merge
      <4>3. Store!Read(h, k)
        BY <4>1, <4>2 DEF Store!Read
      <4> QED BY <4>3 DEF Store!ANext
    <3> QED BY <3>2, <3>3
  <2>6. CASE Put(h)
    <3>1. PICK k \in Keys, v \in Cells : txn_put_raw(h, k, v)
      BY <2>6 DEF Put
    <3>2. MayWrite(h) /\ db' = db /\ (Writes(h, k, v) \/ OutOfSpace(h))
      BY <3>1 DEF txn_put_raw
    <3>3. CASE Writes(h, k, v)
      <4>1. Store!Edit(h, k, v) /\ v \in Store!Stored
        BY <3>2, <3>3, WritesRefines DEF Store!Stored
      <4> QED BY <4>1 DEF Store!ANext
    <3>4. CASE OutOfSpace(h)
      BY <3>2, <3>4, FailsRefines DEF OutOfSpace, Store!ANext
    <3> QED BY <3>2, <3>3, <3>4
  <2>7. CASE Delete(h)
    <3>1. PICK k \in Keys : txn_delete_impl(h, k)
      BY <2>7 DEF Delete
    <3>2. /\ MayWrite(h) /\ db' = db
          /\ Writes(h, k, Absent) \/ Fails(h, "NOTFOUND") \/ OutOfSpace(h)
      BY <3>1 DEF txn_delete_impl
    <3>3. CASE Writes(h, k, Absent)
      <4>1. Store!Edit(h, k, Absent) /\ Absent \in Store!Stored
        BY <3>2, <3>3, WritesRefines DEF Store!Stored
      <4> QED BY <4>1 DEF Store!ANext
    <3>4. CASE Fails(h, "NOTFOUND") \/ OutOfSpace(h)
      BY <3>2, <3>4, FailsRefines DEF OutOfSpace, Store!ANext
    <3> QED BY <3>2, <3>3, <3>4
  <2>8. CASE storage_txn_commit(h)
    <3>1. End(h) /\ txn[h] # "none"
      BY <2>8 DEF storage_txn_commit, Writing
    <3>2. CASE db' = db /\ ~(txn[h] \in Writing /\ db' = View(h))
      BY <3>1, <3>2, EndRefines DEF Store!ANext
    <3>3. CASE txn[h] \in Writing /\ db' = View(h)
      <4>1. db = snap[h]
        BY <1>0, <3>3 DEF WriterCurrent
      <4>2. db' = Store!Merge(dirty[h], db)
        BY <3>3, <4>1 DEF View, Store!Merge
      <4>3. {g \in Handles : txn'[g] # "none"} = {g \in Handles : txn[g] # "none"} \ {h}
        BY <1>0, <3>1 DEF End, TypeOK
      <4>4. Store!Ended(h)
        BY <3>1, <4>3 DEF End, Store!Ended, Store!Nothing, Store!NoEdits, Nothing, NoEdits
      <4>5. Store!Apply(h)
        BY <3>1, <4>1, <4>2, <4>4 DEF Store!Apply
      <4> QED BY <4>5 DEF Store!ANext
    <3> QED BY <2>8, <3>2, <3>3 DEF storage_txn_commit, Writing
  <2> QED BY <2>0, <2>1, <2>2, <2>3, <2>4, <2>5, <2>6, <2>7, <2>8
<1> QED BY <1>1, <1>2

(* The storage layer implements the atomic map, for any number of          *)
(* processes, keys and values, with every fault of the model.              *)
THEOREM ImplementsAtomicStore == Spec => AtomicTransactions
  BY StorageSafe, InitRefines, StepRefines, PTL DEF Spec, AtomicTransactions, Store!ASpec

-----------------------------------------------------------------------------
(* Scans.  Beside ScanExact: an iterator that has begun and met no error   *)
(* has delivered something, so that "the keys after the last one" is what  *)
(* is left.                                                                *)
Iterators == [prefix : [from : Nat, to : Nat], started : BOOLEAN,
              last : Codes, keys : Seq(Keys)]

ScanStep(h) ==
  /\ ~it[h].started => it[h].keys = <<>>
  /\ it[h].started /\ it[h].last = "OK" => it[h].keys # <<>>

ScanOk(h) ==
  /\ \A i, j \in DOMAIN it[h].keys : i < j => it[h].keys[i] < it[h].keys[j]
  /\ Delivered(h) \subseteq Matching(h)
  /\ \A k \in Matching(h) : k \notin Delivered(h) => k > At(h)
  /\ it[h].last = "NOTFOUND" => Delivered(h) = Matching(h)

ScanInv ==
  /\ it \in [Handles -> Iterators]
  /\ \A h \in Handles : txn[h] = "iter" => ScanStep(h) /\ ScanOk(h)

(* LMDB's cursor finds the next key when there is one. *)
LEMMA LeastKey ==
  ASSUME NEW S, S \subseteq Keys, S # {}
  PROVE  Least(S) \in S /\ \A k \in S : Least(S) <= k
<1> DEFINE Less == {ss \in Nat \X Nat : ss[1] < ss[2]}
<1>1. IsWellFoundedOn(Less, Nat)
  BY NatLessThanWellFounded DEF OpToRel
<1>2. S \subseteq Nat
  BY StorageAssumption
<1>3. \E x \in S : \A y \in S : ~(<<y, x>> \in Less)
  <2> HIDE DEF Less
  <2> QED BY <1>1, <1>2, WFMin
<1>4. PICK x \in S : \A y \in S : ~(y < x)
  BY <1>2, <1>3
<1>5. \A y \in S : x <= y
  BY <1>2, <1>4
<1> QED BY <1>5 DEF Least

(* The keys ahead of a cursor that has met no error include all that the   *)
(* scan still owes, and none that it has delivered.                        *)
LEMMA AheadOwed ==
  ASSUME StorageInv, ScanInv, NEW h \in Handles, txn[h] = "iter", it[h].last = "OK"
  PROVE  /\ Ahead(h) \subseteq Keys
         /\ \A k \in Matching(h) : k \notin Delivered(h) => k \in Ahead(h)
         /\ \A k \in Ahead(h) : /\ it[h].prefix.from <= k
                                /\ \A d \in Delivered(h) : d < k
<1>1. ScanStep(h) /\ ScanOk(h) /\ it[h] \in Iterators
  BY DEF ScanInv
<1> DEFINE ks == it[h].keys
<1>2. ks \in Seq(Keys) /\ Keys \subseteq Nat /\ it[h].prefix.from \in Nat
      /\ it[h].prefix.to \in Nat
  BY <1>1, StorageAssumption DEF Iterators
<1>3. CASE it[h].started
  <2>1. ks # <<>> /\ Len(ks) \in Nat \ {0} /\ DOMAIN ks = 1..Len(ks)
    BY <1>1, <1>2, <1>3, EmptySeq, LenProperties DEF ScanStep
  <2>2. At(h) = ks[Len(ks)] /\ At(h) \in Delivered(h)
    BY <2>1 DEF At, Delivered
  <2>3. \A d \in Delivered(h) : d <= At(h) /\ d \in Nat
    <3> SUFFICES ASSUME NEW i \in DOMAIN ks PROVE ks[i] <= At(h) /\ ks[i] \in Nat
      BY DEF Delivered
    <3>1. ks[i] \in Nat /\ ks[Len(ks)] \in Nat
      <4>1. it[h].keys \in [1..Len(it[h].keys) -> Keys]
        BY <1>2, LenProperties
      <4>2. \A n \in 1..Len(it[h].keys) : it[h].keys[n] \in Nat
        BY <1>2, <4>1
      <4>3. i \in 1..Len(it[h].keys) /\ Len(it[h].keys) \in 1..Len(it[h].keys)
        BY <2>1
      <4> QED BY <4>2, <4>3
    <3>2. CASE i = Len(ks)
      BY <2>2, <3>1, <3>2
    <3>3. CASE i < Len(ks)
      BY <1>1, <2>1, <2>2, <3>1, <3>3 DEF ScanOk
    <3> QED BY <2>1, <3>2, <3>3
  <2>4. it[h].prefix.from <= At(h) /\ At(h) \in Nat
    BY <1>1, <1>2, <2>2 DEF ScanOk, Matching, HasPrefix
  <2> QED BY <1>1, <1>2, <1>3, <2>3, <2>4 DEF Ahead, ScanOk, Matching
<1>4. CASE ~it[h].started
  <2>1. Delivered(h) = {}
    BY <1>1, <1>4 DEF ScanStep, Delivered
  <2> QED BY <1>2, <1>4, <2>1 DEF Ahead, Matching, HasPrefix
<1> QED BY <1>1, <1>3, <1>4 DEF Iterators

(* One step of a cursor keeps the scan exact. *)
LEMMA NextKeepsScan ==
  ASSUME StorageInv, ScanInv, NEW h \in Handles, storage_iter_next(h)
  PROVE  ScanInv'
<1>1. /\ txn[h] = "iter" /\ it[h].last = "OK" /\ UNCHANGED <<txn, snap>>
      /\ ScanStep(h) /\ ScanOk(h) /\ it[h] \in Iterators
  BY DEF ScanInv, storage_iter_next
<1> DEFINE ks == it[h].keys
<1>2. ks \in Seq(Keys) /\ Keys \subseteq Nat /\ Len(ks) \in Nat /\ DOMAIN ks = 1..Len(ks)
  BY <1>1, StorageAssumption, LenProperties DEF Iterators
<1>3. SUFFICES /\ it' \in [Handles -> Iterators]
               /\ \A g \in Handles \ {h} : it'[g] = it[g]
               /\ ScanStep(h)' /\ ScanOk(h)'
  <2> SUFFICES ASSUME NEW g \in Handles \ {h}, it'[g] = it[g], txn[g] = "iter"
               PROVE  ScanStep(g)' /\ ScanOk(g)'
    BY <1>1, <1>3 DEF ScanInv
  <2> QED BY <1>1 DEF ScanInv, ScanStep, ScanOk, Delivered, Matching, At
<1>4. CASE /\ Ahead(h) # {} /\ HasPrefix(Least(Ahead(h)), it[h].prefix)
           /\ it' = [it EXCEPT ![h] = [it[h] EXCEPT !.started = TRUE,
                                                !.keys = Append(@, Least(Ahead(h)))]]
  <2> DEFINE k == Least(Ahead(h))
             new == Append(ks, k)
  <2>1. /\ k \in Ahead(h) /\ k \in Keys /\ k \in Nat
        /\ \A j \in Ahead(h) : k <= j
    BY <1>1, <1>2, <1>4, AheadOwed, LeastKey
  <2>2. /\ new \in Seq(Keys) /\ Len(new) = Len(ks) + 1 /\ DOMAIN new = 1..(Len(ks) + 1)
        /\ \A i \in 1..Len(ks) : new[i] = ks[i]
        /\ new[Len(ks) + 1] = k /\ new # <<>>
    <3> HIDE DEF k, ks
    <3> QED BY <1>2, <2>1, AppendProperties, LenProperties
  <2>3. it'[h] = [prefix |-> it[h].prefix, started |-> TRUE, last |-> it[h].last, keys |-> new]
    <3>1. it'[h] = [it[h] EXCEPT !.started = TRUE, !.keys = Append(it[h].keys, Least(Ahead(h)))]
      BY <1>4 DEF ScanInv
    <3>2. it[h] = [prefix |-> it[h].prefix, started |-> it[h].started,
                   last |-> it[h].last, keys |-> it[h].keys]
      BY <1>1 DEF Iterators
    <3> QED BY <3>1, <3>2
  <2> HIDE DEF new, k
  <2>4. /\ it'[h].keys = new /\ it'[h].started /\ it'[h].prefix = it[h].prefix
        /\ it'[h].last = "OK" /\ it'[h] \in Iterators
    BY <1>1, <2>2, <2>3 DEF Iterators
  <2>5. /\ it' \in [Handles -> Iterators]
        /\ \A g \in Handles \ {h} : it'[g] = it[g]
    BY <1>4, <2>4 DEF ScanInv
  <2>6. ScanStep(h)'
    BY <2>2, <2>4 DEF ScanStep
  <2>7. Delivered(h)' = Delivered(h) \cup {k}
    <3>1. Delivered(h)' = {new[i] : i \in 1..(Len(ks) + 1)}
      BY <2>2, <2>4 DEF Delivered
    <3>2. Delivered(h) = {ks[i] : i \in 1..Len(ks)}
      BY <1>2 DEF Delivered
    <3>3. 1..(Len(ks) + 1) = 1..Len(ks) \cup {Len(ks) + 1}
      BY <1>2
    <3> QED BY <2>2, <3>1, <3>2, <3>3
  <2>8. Matching(h)' = Matching(h) /\ k \in Matching(h)
    BY <1>1, <1>4, <2>1, <2>4 DEF Matching, Ahead, k
  <2>9. At(h)' = k
    BY <2>2, <2>4 DEF At
  <2>10. ASSUME NEW i \in DOMAIN new, NEW j \in DOMAIN new, i < j
         PROVE  new[i] < new[j]
    <3>1. i \in 1..Len(ks)
      BY <1>2, <2>2, <2>10
    <3>2. CASE j = Len(ks) + 1
      BY <1>1, <1>2, <2>1, <2>2, <3>1, <3>2, AheadOwed DEF Delivered
    <3>3. CASE j \in 1..Len(ks)
      BY <1>1, <1>2, <2>2, <2>10, <3>1, <3>3 DEF ScanOk
    <3> QED BY <2>2, <3>2, <3>3, <1>2
  <2>11. ASSUME NEW m \in Matching(h), m \notin Delivered(h), m # k
         PROVE  m > k
    <3>1. m \in Ahead(h) /\ m \in Nat
      BY <1>1, <1>2, <2>11, AheadOwed DEF Matching
    <3> QED BY <2>1, <2>11, <3>1
  <2>12. ScanOk(h)'
    BY <1>1, <2>4, <2>7, <2>8, <2>9, <2>10, <2>11 DEF ScanOk
  <2> QED BY <2>5, <2>6, <2>12
<1>5. ASSUME NEW code \in {"NOTFOUND", "IO"},
             code = "NOTFOUND" =>
               (Ahead(h) # {} => ~HasPrefix(Least(Ahead(h)), it[h].prefix)),
             it' = [it EXCEPT ![h] = [it[h] EXCEPT !.started = TRUE, !.last = code]]
      PROVE  /\ it' \in [Handles -> Iterators]
             /\ \A g \in Handles \ {h} : it'[g] = it[g]
             /\ ScanStep(h)' /\ ScanOk(h)'
  <2>1. /\ it'[h] = [it[h] EXCEPT !.started = TRUE, !.last = code]
        /\ it'[h].keys = ks /\ it'[h].prefix = it[h].prefix /\ it'[h].last = code
        /\ it'[h].started /\ it'[h] \in Iterators
    BY <1>1, <1>5 DEF ScanInv, Iterators, Codes
  <2>2. /\ it' \in [Handles -> Iterators]
        /\ \A g \in Handles \ {h} : it'[g] = it[g]
    BY <1>5, <2>1 DEF ScanInv
  <2>3. ScanStep(h)'
    BY <1>5, <2>1 DEF ScanStep
  <2>4. UNCHANGED <<Delivered(h), Matching(h), At(h)>>
    BY <1>1, <2>1 DEF Delivered, Matching, At
  <2>5. code = "NOTFOUND" => Matching(h) \subseteq Delivered(h)
    <3> SUFFICES ASSUME code = "NOTFOUND", NEW m \in Matching(h), m \notin Delivered(h)
                 PROVE  FALSE
      OBVIOUS
    <3>1. m \in Ahead(h) /\ Ahead(h) \subseteq Keys
      BY <1>1, AheadOwed
    <3>2. /\ Least(Ahead(h)) \in Ahead(h) /\ Least(Ahead(h)) <= m
          /\ it[h].prefix.from <= Least(Ahead(h))
      BY <1>1, <3>1, LeastKey, AheadOwed
    <3>3. m <= it[h].prefix.to /\ m \in Nat /\ Least(Ahead(h)) \in Nat
          /\ it[h].prefix.to \in Nat
      BY <1>1, <1>2, <3>1, <3>2 DEF Matching, HasPrefix, Iterators
    <3>4. HasPrefix(Least(Ahead(h)), it[h].prefix)
      BY <3>2, <3>3 DEF HasPrefix
    <3> QED BY <1>5, <3>1, <3>4
  <2>6. ScanOk(h)'
    <3>1. Delivered(h)' = Delivered(h) /\ Matching(h)' = Matching(h) /\ At(h)' = At(h)
      BY <2>4
    <3>2. Delivered(h) \subseteq Matching(h) /\ (code = "NOTFOUND" => Delivered(h) = Matching(h))
      BY <1>1, <2>5 DEF ScanOk
    <3>3. \A i, j \in DOMAIN ks : i < j => ks[i] < ks[j]
      BY <1>1 DEF ScanOk
    <3>4. \A k \in Matching(h) : k \notin Delivered(h) => k > At(h)
      BY <1>1 DEF ScanOk
    <3> QED BY <2>1, <3>1, <3>2, <3>3, <3>4 DEF ScanOk
  <2> QED BY <2>2, <2>3, <2>6
<1> QED BY <1>4, <1>5 DEF storage_iter_next

(* Every step keeps every scan exact: what others commit does not reach a  *)
(* snapshot.                                                               *)
LEMMA StepScanInv == StorageInv /\ ScanInv /\ [Next]_vars => ScanInv'
<1> SUFFICES ASSUME StorageInv, ScanInv, [Next]_vars PROVE ScanInv'
  OBVIOUS
<1> TypeOK
  BY DEF StorageInv
<1>none. NoIter \in Iterators
  BY EmptySeq DEF NoIter, NoPrefix, Iterators, Codes
(* It is enough that a handle's iterator and its snapshot stay together. *)
<1>1. ASSUME it' \in [Handles -> Iterators],
             \A g \in Handles : txn'[g] = "iter" =>
               txn[g] = "iter" /\ snap'[g] = snap[g] /\ it'[g] = it[g]
      PROVE  ScanInv'
  <2> SUFFICES ASSUME NEW h \in Handles, txn'[h] = "iter" PROVE (ScanStep(h) /\ ScanOk(h))'
    BY <1>1 DEF ScanInv
  <2>1. txn[h] = "iter" /\ snap'[h] = snap[h] /\ it'[h] = it[h]
    BY <1>1
  <2>2. ScanStep(h) /\ ScanOk(h)
    BY <2>1 DEF ScanInv
  <2>3. Delivered(h)' = Delivered(h) /\ Matching(h)' = Matching(h) /\ At(h)' = At(h)
    BY <2>1 DEF Delivered, Matching, At
  <2>4. ScanStep(h)'
    BY <2>1, <2>2 DEF ScanStep
  <2>5. ScanOk(h)'
    BY <2>1, <2>2, <2>3 DEF ScanOk
  <2> QED BY <2>4, <2>5
<1>2. ASSUME NEW h \in Handles, End(h), it' = it \/ it' = [it EXCEPT ![h] = NoIter]
      PROVE  ScanInv'
  <2>1. /\ txn'[h] = "none"
        /\ \A g \in Handles \ {h} : txn'[g] = txn[g] /\ snap'[g] = snap[g] /\ it'[g] = it[g]
    BY <1>2, EndType DEF ScanInv
  <2>2. it' \in [Handles -> Iterators]
    BY <1>none, <1>2 DEF ScanInv
  <2> QED BY <1>1, <2>1, <2>2
<1>3. ASSUME NEW h \in Handles, NEW kind \in Kinds \ {"iter"}, Start(h, kind), it' = it
      PROVE  ScanInv'
  <2>1. /\ txn'[h] = kind
        /\ \A g \in Handles \ {h} : txn'[g] = txn[g] /\ snap'[g] = snap[g]
    BY <1>3, StartType
  <2> QED BY <1>1, <1>3, <2>1 DEF ScanInv
<1>4. ASSUME UNCHANGED <<txn, snap, it>>
      PROVE  ScanInv'
  BY <1>1, <1>4 DEF ScanInv
<1>5. ASSUME NEW h \in Handles, NEW p \in Scans, storage_iter_open(h, p)
      PROVE  ScanInv'
  <2> DEFINE fresh == [NoIter EXCEPT !.prefix = p]
  <2>1. /\ p \in [from : Nat, to : Nat]
        /\ txn'[h] = "iter" /\ it' = [it EXCEPT ![h] = fresh]
        /\ \A g \in Handles \ {h} : txn'[g] = txn[g] /\ snap'[g] = snap[g]
    BY <1>5, StartType, StorageAssumption DEF storage_iter_open, Kinds
  <2>2. /\ fresh \in Iterators /\ fresh.keys = <<>> /\ ~fresh.started
        /\ fresh.last = "OK" /\ fresh.prefix = p
    BY <1>none, <2>1 DEF NoIter, Iterators
  <2> HIDE DEF fresh
  <2>3. it'[h] = fresh /\ it' \in [Handles -> Iterators]
        /\ \A g \in Handles \ {h} : it'[g] = it[g]
    BY <2>1, <2>2 DEF ScanInv
  <2>4. ScanStep(h)'
    BY <2>2, <2>3 DEF ScanStep
  <2>5. ScanOk(h)'
    <3>1. Delivered(h)' = {} /\ At(h)' = 0 /\ DOMAIN it'[h].keys = {}
      BY <2>2, <2>3 DEF Delivered, At
    <3>2. \A k \in Matching(h)' : k > 0
      BY StorageAssumption DEF Matching
    <3> QED BY <2>2, <2>3, <3>1, <3>2 DEF ScanOk
  <2>6. ASSUME NEW g \in Handles \ {h}, txn'[g] = "iter"
        PROVE  ScanStep(g)' /\ ScanOk(g)'
    BY <2>1, <2>3, <2>6 DEF ScanInv, ScanStep, ScanOk, Delivered, Matching, At
  <2> QED BY <2>3, <2>4, <2>5, <2>6 DEF ScanInv
<1>6. ASSUME NEW h \in Handles, NEW code, Fails(h, code), it' = it
      PROVE  ScanInv'
  BY <1>2, <1>4, <1>6 DEF Fails
<1>7. ASSUME NEW h \in Handles, OutOfSpace(h), it' = it
      PROVE  ScanInv'
  BY <1>6, <1>7 DEF OutOfSpace
<1>8. ASSUME NEW h \in Handles,
             \/ storage_env_open(h) \/ storage_env_close(h) \/ Get(h) \/ RefuseWrite(h)
      PROVE  ScanInv'
  BY <1>4, <1>8 DEF storage_env_open, storage_env_close, Get, txn_get_raw, RefuseWrite
<1>9. ASSUME NEW h \in Handles,
             \/ Die(h) \/ storage_txn_commit(h) \/ storage_txn_abort(h) \/ storage_iter_close(h)
      PROVE  ScanInv'
  BY <1>2, <1>9 DEF Die, storage_txn_commit, storage_txn_abort, storage_iter_close
<1>10. ASSUME NEW h \in Handles, begin_read_txn(h) \/ BeginWrite(h)
       PROVE  ScanInv'
  BY <1>3, <1>4, <1>10 DEF begin_read_txn, BeginWrite, begin_write_txn, Kinds, Writing
<1>11. ASSUME NEW h \in Handles, Put(h) \/ Delete(h)
       PROVE  ScanInv'
  BY <1>4, <1>6, <1>7, <1>11 DEF Put, Delete, txn_put_raw, txn_delete_impl, Writes
<1>12. CASE UNCHANGED vars
  BY <1>4, <1>12 DEF vars
<1> QED BY <1>5, <1>8, <1>9, <1>10, <1>11, <1>12, NextKeepsScan DEF Next, Iterate

(* A scan delivers the keys its snapshot has under the prefix in ascending *)
(* order and without a gap, and NOTFOUND means that it has delivered them  *)
(* all, for any number of keys, prefixes and concurrent writers.           *)
THEOREM ScansExact == Spec => []ScanExact
<1>1. Init => ScanInv
  <2>1. NoIter \in Iterators
    BY EmptySeq DEF NoIter, NoPrefix, Iterators, Codes
  <2> QED BY <2>1 DEF Init, ScanInv
<1>2. ScanInv => ScanExact
  BY DEF ScanInv, ScanOk, ScanExact
<1> QED BY <1>1, <1>2, StorageSafe, StepScanInv, PTL DEF Spec
=============================================================================
