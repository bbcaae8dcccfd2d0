---------------------------- MODULE AtomicStore ----------------------------
(***************************************************************************)
(* What the storage layer promises its callers: one map, and transactions  *)
(* that see it as it was when they began, take effect whole at their       *)
(* commit or not at all, and, when they write, run as if they were alone.  *)
(* No locks, no cursors, no error codes, no processes that die.            *)
(***************************************************************************)
CONSTANTS Clients, Keys,
          Cells,     \* values a key may hold
          Absent,    \* the key is not there
          Clean      \* the transaction has not touched the key

Stored == Cells \cup {Absent}

VARIABLES map,      \* the committed contents
          active,   \* clients with a transaction open
          base,     \* client -> the map when its transaction began
          edits,    \* client -> what it has written, or Clean
          answer    \* client -> what its transaction's last read returned

avars == <<map, active, base, edits, answer>>

Nothing  == [k \in Keys |-> Absent]
NoEdits  == [k \in Keys |-> Clean]

(* A map with a transaction's edits on top. *)
Merge(e, m) == [k \in Keys |-> IF e[k] = Clean THEN m[k] ELSE e[k]]

AInit ==
  /\ map \in [Keys -> Stored]
  /\ active = {}
  /\ base = [c \in Clients |-> Nothing]
  /\ edits = [c \in Clients |-> NoEdits]
  /\ answer = [c \in Clients |-> Absent]

Begin(c) ==
  /\ c \notin active
  /\ active' = active \cup {c}
  /\ base' = [base EXCEPT ![c] = map]
  /\ edits' = [edits EXCEPT ![c] = NoEdits]
  /\ UNCHANGED <<map, answer>>

Edit(c, k, v) ==
  /\ c \in active
  /\ edits' = [edits EXCEPT ![c] = [@ EXCEPT ![k] = v]]
  /\ UNCHANGED <<map, active, base, answer>>

Read(c, k) ==
  /\ c \in active
  /\ answer' = [answer EXCEPT ![c] = Merge(edits[c], base[c])[k]]
  /\ UNCHANGED <<map, active, base, edits>>

Ended(c) ==
  /\ active' = active \ {c}
  /\ base' = [base EXCEPT ![c] = Nothing]
  /\ edits' = [edits EXCEPT ![c] = NoEdits]
  /\ answer' = [answer EXCEPT ![c] = Absent]

(* Commit.  Nobody else has committed anything since a writer began. *)
Apply(c) ==
  /\ c \in active
  /\ edits[c] # NoEdits => map = base[c]
  /\ map' = Merge(edits[c], map)
  /\ Ended(c)

(* Abort, a failed commit, or the end of the client's process. *)
Drop(c) ==
  /\ c \in active
  /\ UNCHANGED map
  /\ Ended(c)

ANext ==
  \E c \in Clients :
    \/ Begin(c) \/ Apply(c) \/ Drop(c)
    \/ \E k \in Keys : Read(c, k) \/ \E v \in Stored : Edit(c, k, v)

ASpec == AInit /\ [][ANext]_avars
=============================================================================
