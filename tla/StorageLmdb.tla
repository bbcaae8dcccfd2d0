---------------------------- MODULE StorageLmdb ----------------------------
(***************************************************************************)
(* One LMDB environment as src/storage_lmdb.c and the Rust storage crate   *)
(* use it: handles of several processes, explicit transactions, the        *)
(* single-call helpers with a transaction of their own, prefix iterators,  *)
(* error returns, and processes that die anywhere.                         *)
(*                                                                         *)
(* LMDB itself is external: a transaction starts from the committed root,  *)
(* writers take one lock between all processes, a commit installs the      *)
(* writer's root, and a transaction in which a put ran out of space can    *)
(* only be abandoned.  A process has at most one transaction open on an    *)
(* environment; no caller in the repository nests them.                    *)
(***************************************************************************)
EXTENDS Integers, Sequences

CONSTANTS Handles,    \* one per process that opens the environment
          Keys,       \* keys by their place in LMDB's bytewise order
          Cells, Absent, Clean,
          Scans,      \* prefixes iterators are opened with
          Faults,     \* what may fail: "put" (MDB_MAP_FULL), "commit", "cursor"
          NoHandle

(* The keys that start with a prefix are neighbours in bytewise order, so  *)
(* a prefix stands for an interval; the empty prefix is all of it.         *)
ASSUME StorageAssumption ==
  /\ Keys \subseteq Nat \ {0}
  /\ Scans \subseteq [from : Nat, to : Nat]
  /\ Faults \subseteq {"put", "commit", "cursor"}
  /\ Absent \notin Cells /\ Clean \notin Cells /\ Absent # Clean
  /\ NoHandle \notin Handles

VARIABLES db,      \* the committed contents
          lock,    \* the handle in a write transaction, or NoHandle
          mode,    \* handle -> "closed", "rw", "ro"
          txn,     \* handle -> the transaction it has: see Kinds
          snap,    \* handle -> the root its transaction began from
          dirty,   \* handle -> the pages it has written, or Clean
          bad,     \* handle -> the transaction has the error flag
          rc,      \* what the last call of any process returned
          got,     \* handle -> what its last get delivered, Absent for NOTFOUND
          it       \* handle -> its iterator and the keys it has delivered

vars == <<db, lock, mode, txn, snap, dirty, bad, rc, got, it>>

Stored  == Cells \cup {Absent}
Nothing == [k \in Keys |-> Absent]
NoEdits == [k \in Keys |-> Clean]

(* A transaction of storage_txn_begin for writing, one of storage_set_* or *)
(* storage_delete, a transaction for reading, and that of an iterator.     *)
Writing == {"write", "single"}
Kinds   == {"none", "read", "iter"} \cup Writing
Codes   == {"OK", "NOTFOUND", "FULL", "IO", "READONLY"}

NoPrefix == [from |-> 0, to |-> 0]
NoIter   == [prefix |-> NoPrefix, started |-> FALSE, last |-> "OK", keys |-> <<>>]

Init ==
  /\ db \in [Keys -> Stored]
  /\ lock = NoHandle
  /\ mode = [h \in Handles |-> "closed"]
  /\ txn = [h \in Handles |-> "none"]
  /\ snap = [h \in Handles |-> Nothing] /\ dirty = [h \in Handles |-> NoEdits]
  /\ bad = [h \in Handles |-> FALSE]
  /\ rc = "OK" /\ got = [h \in Handles |-> Absent]
  /\ it = [h \in Handles |-> NoIter]

(* The root of a handle's transaction, its own writes included. *)
View(h) == [k \in Keys |-> IF dirty[h][k] = Clean THEN snap[h][k] ELSE dirty[h][k]]

Returns(code)    == rc' = code
Open(h)          == mode[h] # "closed"
Free(h)          == Open(h) /\ txn[h] = "none"

-----------------------------------------------------------------------------
(* The environment.  Opening it read-write runs a short write transaction  *)
(* that opens the unnamed database, so it waits for the writer lock; with  *)
(* STORAGE_ENV_READONLY it does not.                                       *)
storage_env_open(h) ==
  /\ mode[h] = "closed"
  /\ \/ lock = NoHandle /\ mode' = [mode EXCEPT ![h] = "rw"]
     \/ mode' = [mode EXCEPT ![h] = "ro"]
  /\ Returns("OK")
  /\ UNCHANGED <<db, lock, txn, snap, dirty, bad, got, it>>

storage_env_close(h) ==
  /\ Free(h)
  /\ mode' = [mode EXCEPT ![h] = "closed"]
  /\ UNCHANGED <<db, lock, txn, snap, dirty, bad, rc, got, it>>

-----------------------------------------------------------------------------
(* Transactions: storage_txn_begin, begin_read_txn, begin_write_txn.  A    *)
(* writer waits while another process holds the lock.                      *)
Start(h, kind) ==
  /\ txn' = [txn EXCEPT ![h] = kind]
  /\ snap' = [snap EXCEPT ![h] = db]
  /\ dirty' = [dirty EXCEPT ![h] = NoEdits]
  /\ bad' = [bad EXCEPT ![h] = FALSE]
  /\ Returns("OK")

begin_read_txn(h) ==
  /\ Free(h)
  /\ Start(h, "read")
  /\ UNCHANGED <<db, lock, mode, got, it>>

begin_write_txn(h, kind) ==
  /\ Free(h)
  /\ IF mode[h] = "ro"
       THEN Returns("READONLY") /\ UNCHANGED <<lock, txn, snap, dirty, bad>>
       ELSE lock = NoHandle /\ lock' = h /\ Start(h, kind)
  /\ UNCHANGED <<db, mode, got, it>>

(* The transaction is over, and with it the lock and the pointers into it. *)
End(h) ==
  /\ txn' = [txn EXCEPT ![h] = "none"]
  /\ snap' = [snap EXCEPT ![h] = Nothing]
  /\ dirty' = [dirty EXCEPT ![h] = NoEdits]
  /\ bad' = [bad EXCEPT ![h] = FALSE]
  /\ got' = [got EXCEPT ![h] = Absent]
  /\ lock' = IF lock = h THEN NoHandle ELSE lock

(* A get inside a transaction; a single storage_get_* is begin, this, end. *)
txn_get_raw_OwnTxn(h, k) ==
  /\ txn[h] \in {"read", "write"}
  /\ got' = [got EXCEPT ![h] = db[k]]
  /\ Returns(IF db[k] = Absent THEN "NOTFOUND" ELSE "OK")
  /\ UNCHANGED <<db, lock, mode, txn, snap, dirty, bad, it>>

txn_get_raw(h, k) ==
  /\ txn[h] \in {"read", "write"}
  /\ IF bad[h]
       THEN Returns("IO") /\ UNCHANGED got
       ELSE /\ got' = [got EXCEPT ![h] = View(h)[k]]
            /\ Returns(IF View(h)[k] = Absent THEN "NOTFOUND" ELSE "OK")
  /\ UNCHANGED <<db, lock, mode, txn, snap, dirty, bad, it>>

(* A put or delete that fails.  The helpers abort; an explicit transaction *)
(* stays open and it is the caller who aborts or commits it.  Out of space *)
(* leaves the error flag, a missing key does not.                          *)
Fails_NoAbort(h, code) ==
  /\ Returns(code)
  /\ IF txn[h] = "single"
       THEN /\ txn' = [txn EXCEPT ![h] = "none"]
            /\ UNCHANGED <<lock, snap, dirty, bad, got>>
       ELSE /\ bad' = [bad EXCEPT ![h] = @ \/ code # "NOTFOUND"]
            /\ UNCHANGED <<lock, txn, snap, dirty, got>>

Fails(h, code) ==
  /\ Returns(code)
  /\ IF txn[h] = "single"
       THEN End(h)
       ELSE /\ bad' = [bad EXCEPT ![h] = @ \/ code # "NOTFOUND"]
            /\ UNCHANGED <<lock, txn, snap, dirty, got>>

(* The helpers do one thing and commit. *)
MayWrite(h) == txn[h] \in Writing /\ (txn[h] = "single" => dirty[h] = NoEdits)

Writes(h, k, v) ==
  /\ ~bad[h]
  /\ dirty' = [dirty EXCEPT ![h] = [@ EXCEPT ![k] = v]]
  /\ Returns("OK")
  /\ UNCHANGED <<lock, txn, snap, bad, got>>

OutOfSpace(h) ==
  \/ "put" \in Faults /\ ~bad[h] /\ Fails(h, "FULL")
  \/ bad[h] /\ Fails(h, "IO")

txn_put_raw(h, k, v) ==
  /\ MayWrite(h)
  /\ Writes(h, k, v) \/ OutOfSpace(h)
  /\ UNCHANGED <<db, mode, it>>

txn_delete_impl(h, k) ==
  /\ MayWrite(h)
  /\ \/ View(h)[k] # Absent /\ Writes(h, k, Absent)
     \/ View(h)[k] = Absent /\ ~bad[h] /\ Fails(h, "NOTFOUND")
     \/ OutOfSpace(h)
  /\ UNCHANGED <<db, mode, it>>

(* storage_txn_set_* and storage_txn_delete on a transaction for reading. *)
RefuseWrite(h) ==
  /\ txn[h] = "read"
  /\ Returns("READONLY")
  /\ UNCHANGED <<db, lock, mode, txn, snap, dirty, bad, got, it>>

(* storage_txn_commit and commit_write_txn.  The transaction is over       *)
(* whatever mdb_txn_commit says; only a success installs its root.         *)
CommitOk(h) == ~bad[h]

storage_txn_commit(h) ==
  /\ txn[h] \in {"read"} \cup Writing
  /\ txn[h] = "single" => dirty[h] # NoEdits
  /\ \/ /\ CommitOk(h)
        /\ db' = IF txn[h] = "read" THEN db ELSE View(h)
        /\ Returns("OK")
     \/ /\ bad[h] \/ (txn[h] \in Writing /\ "commit" \in Faults)
        /\ UNCHANGED db
        /\ Returns("IO")
  /\ End(h)
  /\ UNCHANGED <<mode, it>>

storage_txn_abort(h) ==
  /\ txn[h] \in {"read", "write"}
  /\ End(h)
  /\ UNCHANGED <<db, mode, rc, it>>

-----------------------------------------------------------------------------
(* Iterators: a transaction for reading that lasts until it is closed. *)
storage_iter_open(h, p) ==
  /\ Free(h)
  /\ Start(h, "iter")
  /\ it' = [it EXCEPT ![h] = [NoIter EXCEPT !.prefix = p]]
  /\ UNCHANGED <<db, lock, mode, got>>

(* Where the cursor is: nowhere, or on the key it delivered last. *)
At(h) == IF it[h].keys = <<>> THEN 0 ELSE it[h].keys[Len(it[h].keys)]

(* The keys mdb_cursor_get looks among: MDB_SET_RANGE or MDB_FIRST on the  *)
(* first call, MDB_NEXT afterwards.                                        *)
Ahead_Live(h) ==
  {k \in Keys : db[k] # Absent /\ IF it[h].started THEN k > At(h) ELSE k >= it[h].prefix.from}

Ahead(h) ==
  {k \in Keys : /\ snap[h][k] # Absent
                /\ IF it[h].started THEN k > At(h) ELSE k >= it[h].prefix.from}

Least(S) == CHOOSE k \in S : \A j \in S : k <= j

HasPrefix(k, p) == p.from <= k /\ k <= p.to

(* The flag exhausted is last = NOTFOUND.  A caller stops at any return    *)
(* but OK, as rowset_load_column does.                                     *)
storage_iter_next(h) ==
  /\ txn[h] = "iter" /\ it[h].last = "OK"
  /\ \/ /\ Ahead(h) # {} /\ HasPrefix(Least(Ahead(h)), it[h].prefix)
        /\ it' = [it EXCEPT ![h] = [it[h] EXCEPT !.started = TRUE,
                                                 !.keys = Append(@, Least(Ahead(h)))]]
        /\ Returns("OK")
     \/ /\ Ahead(h) # {} => ~HasPrefix(Least(Ahead(h)), it[h].prefix)
        /\ it' = [it EXCEPT ![h] = [it[h] EXCEPT !.started = TRUE, !.last = "NOTFOUND"]]
        /\ Returns("NOTFOUND")
     \/ /\ "cursor" \in Faults
        /\ it' = [it EXCEPT ![h] = [it[h] EXCEPT !.started = TRUE, !.last = "IO"]]
        /\ Returns("IO")
  /\ UNCHANGED <<db, lock, mode, txn, snap, dirty, bad, got>>

storage_iter_close(h) ==
  /\ txn[h] = "iter"
  /\ End(h)
  /\ it' = [it EXCEPT ![h] = NoIter]
  /\ UNCHANGED <<db, mode, rc>>

-----------------------------------------------------------------------------
(* A process dies.  Its transaction never happened, and LMDB's robust      *)
(* mutex gives the lock to the next writer.                                *)
Die(h) ==
  /\ Open(h)
  /\ mode' = [mode EXCEPT ![h] = "closed"]
  /\ End(h)
  /\ it' = [it EXCEPT ![h] = NoIter]
  /\ UNCHANGED <<db, rc>>

(* The calls of both languages.  The Rust crate's put_raw, put_many_raw    *)
(* and delete_many_raw are "write" transactions that an error drops, its   *)
(* get_raw a "read", its keys_with_prefix an iterator.                     *)
BeginWrite(h) == \E kind \in Writing : begin_write_txn(h, kind)
Get(h)        == \E k \in Keys : txn_get_raw(h, k)
Put(h)        == \E k \in Keys, v \in Cells : txn_put_raw(h, k, v)
Delete(h)     == \E k \in Keys : txn_delete_impl(h, k)
Iterate(h)    == \E p \in Scans : storage_iter_open(h, p)

Next ==
  \E h \in Handles :
    \/ storage_env_open(h) \/ storage_env_close(h) \/ Die(h)
    \/ begin_read_txn(h) \/ BeginWrite(h)
    \/ Get(h) \/ Put(h) \/ Delete(h) \/ RefuseWrite(h)
    \/ storage_txn_commit(h) \/ storage_txn_abort(h)
    \/ Iterate(h) \/ storage_iter_next(h) \/ storage_iter_close(h)

Spec == Init /\ [][Next]_vars

-----------------------------------------------------------------------------
(* Every variable has its type; what storage_get_* delivers in particular  *)
(* is a stored cell or NOTFOUND, never a page marker of the transaction.   *)
TypeOK ==
  /\ db \in [Keys -> Stored]
  /\ lock \in Handles \cup {NoHandle}
  /\ mode \in [Handles -> {"closed", "rw", "ro"}]
  /\ txn \in [Handles -> Kinds]
  /\ snap \in [Handles -> [Keys -> Stored]]
  /\ dirty \in [Handles -> [Keys -> Stored \cup {Clean}]]
  /\ bad \in [Handles -> BOOLEAN]
  /\ rc \in Codes
  /\ got \in [Handles -> Stored]

(* The layer implements the atomic map: transactions of several processes, *)
(* with failing puts and commits, with callers that commit after an error  *)
(* and with processes that die in the middle, are seen whole or not at     *)
(* all, and a write transaction (bootstrap's probe-then-write) never       *)
(* overwrites what somebody else committed after it looked.                *)
Store == INSTANCE AtomicStore WITH
           Clients <- Handles, map <- db, active <- {h \in Handles : txn[h] # "none"},
           base <- snap, edits <- dirty, answer <- got

AtomicTransactions == Store!ASpec

Matching(h) == {k \in Keys : snap[h][k] # Absent /\ HasPrefix(k, it[h].prefix)}
Delivered(h) == {it[h].keys[i] : i \in DOMAIN it[h].keys}

(* A scan delivers the keys its snapshot has under the prefix in ascending *)
(* order and without a gap, and when it says NOTFOUND it has delivered     *)
(* them all, whatever others commit meanwhile: rows do not go missing.     *)
ScanExact ==
  \A h \in Handles : txn[h] = "iter" =>
    /\ \A i, j \in DOMAIN it[h].keys : i < j => it[h].keys[i] < it[h].keys[j]
    /\ Delivered(h) \subseteq Matching(h)
    /\ \A k \in Matching(h) : k \notin Delivered(h) => k > At(h)
    /\ it[h].last = "NOTFOUND" => Delivered(h) = Matching(h)

(* A lock that is held is held by a process in a write transaction, which  *)
(* can give it back: no error path of the helpers leaves it behind, where  *)
(* every later write of every process would wait for it.                   *)
NoLockLeak == \A h \in Handles : lock = h <=> txn[h] \in Writing
=============================================================================
