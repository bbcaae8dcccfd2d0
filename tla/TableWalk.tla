----------------------------- MODULE TableWalk -----------------------------
(***************************************************************************)
(* An SNMP walk of sensorTable while its rows come and go.  Each GETNEXT   *)
(* enumerates the rows anew from the key space (table_rows.c), one read    *)
(* transaction per column, and then reads one cell in another              *)
(* (demo_status_table.c); telemetry writes and deletes whole rows in one   *)
(* transaction (storage/table.rs), and other programs delete single cells. *)
(* portConfigTable is generated from the same template and walked the same *)
(* way, its columns being in two environments.                             *)
(*                                                                         *)
(* The table iterator of net-snmp is external: it asks for the rows in     *)
(* order and takes the first one after the requested instance, goes on to  *)
(* the next column when there is none, and past a cell that is reported    *)
(* missing.                                                                *)
(***************************************************************************)
EXTENDS Integers

CONSTANTS NColumns,   \* columns of the table; sensorTable has three
          Rows,       \* instances with the index syntax of the table
          Malformed,  \* instances under the columns that do not parse
          Odd,        \* instances that parse and have another index syntax
          Faults      \* "enumerate", "read"

ASSUME WalkAssumption ==
  /\ Rows \cup Malformed \cup Odd \subseteq Nat \ {0}
  /\ Rows \cap Malformed = {} /\ Rows \cap Odd = {} /\ Malformed \cap Odd = {}
  /\ NColumns \in Nat \ {0} /\ Faults \subseteq {"enumerate", "read"}

Columns == 1 .. NColumns
Cells   == Columns \X Rows

VARIABLES cells,   \* the cells that are there
          pc,      \* "idle", "load", "search", "cell", "done", "error"
          at,      \* the column and instance GETNEXT continues after
          loaded,  \* columns of the row set loaded so far
          rows,    \* the row set
          row,     \* the instance the iterator stopped at
          answers, \* the cells the manager has been given
          steady,  \* cells that were there all the time since the walk began
          cut      \* an enumeration failed during the walk

vars == <<cells, pc, at, loaded, rows, row, answers, steady, cut>>

Init ==
  /\ \E R \in SUBSET Rows : cells = Columns \X R
  /\ pc = "idle" /\ at = [col |-> 1, row |-> 0]
  /\ loaded = 0 /\ rows = {} /\ row = 0
  /\ answers = {} /\ steady = {} /\ cut = FALSE

-----------------------------------------------------------------------------
(* Writers. *)
Becomes(new) ==
  /\ cells' = new
  /\ steady' = steady \cap new
  /\ UNCHANGED <<pc, at, loaded, rows, row, answers, cut>>

put_row(r) ==
  Becomes(cells \cup (Columns \X {r}))

delete_row(r) ==
  Becomes(cells \ (Columns \X {r}))

(* A single cell goes: another tool, or the UNDO of a SET in the case of   *)
(* portConfigTable.                                                        *)
storage_delete(k) ==
  Becomes(cells \ {k})

-----------------------------------------------------------------------------
(* The row set.  One column's instances, from one read transaction; keys   *)
(* that do not parse are counted and skipped.  An error anywhere frees the *)
(* set, and get_first_data_point reports no row at all.                    *)
Under(c) == {r \in Rows : <<c, r>> \in cells} \cup Odd \cup Malformed

rowset_load_column ==
  /\ pc = "load"
  /\ \/ /\ rows' = rows \cup (Under(loaded + 1) \ Malformed)
        /\ loaded' = loaded + 1
        /\ pc' = IF loaded' = NColumns THEN "search" ELSE "load"
        /\ UNCHANGED cut
     \/ /\ "enumerate" \in Faults
        /\ rows' = {} /\ loaded' = 0 /\ cut' = TRUE /\ pc' = "search"
  /\ UNCHANGED <<cells, at, row, answers, steady>>

(* table_instance_compare of two one-part instances, and what memcmp makes *)
(* of their keys: as in the code, rows 2 and 10 change places.             *)
Before_Bytewise(r, s) ==
  LET lead(n) == IF n < 10 THEN n ELSE n \div 10
  IN  lead(r) < lead(s) \/ (lead(r) = lead(s) /\ r < s)

Before(r, s) == r < s

(* table_rowset_load: qsort and the pass that removes duplicates put this  *)
(* one of the rows first.                                                  *)
SortedFirst(S) == CHOOSE r \in S : \A s \in S \ {r} : Before(r, s)

(* parse_oid_indexes takes the whole instance, or it is no row of this     *)
(* table.                                                                  *)
table_instance_to_indexes(r) == r \notin Odd

(* The rows get_first_data_point and get_next_data_point hand out, in      *)
(* order.                                                                  *)
DataPoints == {r \in rows : table_instance_to_indexes(r)}

-----------------------------------------------------------------------------
(* net-snmp: the first data point after the requested instance, or the     *)
(* next column, from its beginning, with a row set of its own.             *)
Ahead == {r \in DataPoints : r > at.row}

Reload == loaded' = 0 /\ rows' = {} /\ row' = 0

Search ==
  /\ pc = "search"
  /\ \/ /\ Ahead # {}
        /\ row' = SortedFirst(Ahead) /\ pc' = "cell"
        /\ UNCHANGED <<at, loaded, rows>>
     \/ /\ Ahead = {} /\ at.col < NColumns
        /\ at' = [col |-> at.col + 1, row |-> 0]
        /\ pc' = "load" /\ Reload
     \/ /\ Ahead = {} /\ at.col = NColumns
        /\ pc' = "done" /\ Reload
        /\ UNCHANGED at
  /\ UNCHANGED <<cells, answers, steady, cut>>

(* handle_sensorTable in MODE_GET for the row found.  The next GETNEXT, or *)
(* net-snmp's own retry after noSuchInstance, continues after it.          *)
Wanted == <<at.col, row>>

Continue == pc' = "load" /\ at' = [at EXCEPT !.row = row] /\ Reload

handle_sensorTable ==
  /\ pc = "cell"
  /\ \/ /\ Wanted \in cells
        /\ answers' = answers \cup {Wanted}
        /\ Continue
     \/ /\ Wanted \notin cells            \* noSuchInstance
        /\ UNCHANGED answers
        /\ Continue
     \/ /\ "read" \in Faults               \* genErr: the walk ends
        /\ pc' = "error"
        /\ UNCHANGED <<at, loaded, rows, row, answers>>
  /\ UNCHANGED <<cells, steady, cut>>

-----------------------------------------------------------------------------
(* A manager. *)
StartWalk ==
  /\ pc = "idle"
  /\ pc' = "load"
  /\ steady' = cells
  /\ UNCHANGED <<cells, at, loaded, rows, row, answers, cut>>

(* It starts over when it likes. *)
Again ==
  /\ pc \in {"done", "error"}
  /\ pc' = "idle" /\ at' = [col |-> 1, row |-> 0]
  /\ Reload
  /\ answers' = {} /\ steady' = {} /\ cut' = FALSE
  /\ UNCHANGED cells

Writer == \/ \E r \in Rows : put_row(r) \/ delete_row(r)
          \/ \E k \in Cells : storage_delete(k)
Walker == rowset_load_column \/ Search \/ handle_sensorTable

Next == Writer \/ StartWalk \/ Walker \/ Again

Spec == Init /\ [][Next]_vars

-----------------------------------------------------------------------------
(* A walk that comes to its end, and in which no enumeration of rows       *)
(* failed, has returned every cell that was there all the time, whatever   *)
(* rows and cells appeared or went meanwhile, with keys of other shapes in *)
(* between.  A failed enumeration looks to the manager like the end of the *)
(* column (demo_status_table.c:110), so such a walk is excluded.           *)
NothingSkipped ==
  (pc = "done" /\ ~cut) => steady \subseteq answers
=============================================================================
