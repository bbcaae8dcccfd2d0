-------------------------- MODULE TableWalkProofs --------------------------
(***************************************************************************)
(* Proofs about TableWalk for any number of columns, any rows and any keys *)
(* of other shapes between them: a walk skips no cell that stays.          *)
(***************************************************************************)
EXTENDS TableWalk, WellFoundedInduction, TLAPS

TypeInv ==
  /\ cells \subseteq Cells /\ steady \subseteq cells
  /\ pc \in {"idle", "load", "search", "cell", "done", "error"}
  /\ at \in [col : Columns, row : Nat]
  /\ loaded \in 0 .. NColumns /\ rows \subseteq Rows \cup Odd /\ row \in Nat
  /\ pc = "load" => loaded < NColumns

(* Between two walks nothing is left of the last one. *)
IdleInv ==
  pc = "idle" => /\ at = [col |-> 1, row |-> 0] /\ loaded = 0 /\ rows = {}
                 /\ answers = {} /\ cut = FALSE

(* GETNEXT has gone past the cell. *)
Passed(c, r) == c < at.col \/ (c = at.col /\ r <= at.row)

(* What the walk has gone past and was there all the time has been         *)
(* returned; at the end that is everything.                                *)
PassedInv ==
  ~cut => \A c \in Columns, r \in Rows : <<c, r>> \in steady =>
            (Passed(c, r) \/ pc = "done" => <<c, r>> \in answers)

(* A row with a cell that stays is in the row set once its column has been *)
(* loaded, and the row the iterator stops at is not after the next such    *)
(* row of the column.                                                      *)
LoadInv ==
  /\ ~cut /\ pc = "search" => loaded = NColumns
  /\ ~cut /\ pc \in {"load", "search"} =>
       \A c \in Columns, r \in Rows : <<c, r>> \in steady /\ c <= loaded => r \in rows
  /\ ~cut /\ pc = "cell" =>
       \A r \in Rows : <<at.col, r>> \in steady /\ r > at.row => row <= r

WalkInv == TypeInv /\ IdleInv /\ PassedInv /\ LoadInv

-----------------------------------------------------------------------------
(* The iterator finds the first row ahead when there is one. *)
LEMMA FirstAhead ==
  ASSUME TypeInv, Ahead # {}
  PROVE  /\ SortedFirst(Ahead) \in Ahead /\ SortedFirst(Ahead) \in Nat
         /\ \A r \in Ahead : SortedFirst(Ahead) <= r
<1> DEFINE Less == {ss \in Nat \X Nat : ss[1] < ss[2]}
           A == Ahead
<1>1. IsWellFoundedOn(Less, Nat)
  BY NatLessThanWellFounded DEF OpToRel
<1>2. A \subseteq Nat /\ A # {}
  BY WalkAssumption DEF Ahead, DataPoints, TypeInv
<1> HIDE DEF Less, A
<1>3. PICK x \in A : \A y \in A : ~(<<y, x>> \in Less)
  BY <1>1, <1>2, WFMin
<1>4. \A y \in A \ {x} : x < y
  <2>1. \A y \in A : ~(y < x)
    BY <1>2, <1>3 DEF Less
  <2> QED BY <1>2, <2>1
<1>5. SortedFirst(A) \in A /\ \A s \in A \ {SortedFirst(A)} : Before(SortedFirst(A), s)
  BY <1>4 DEF SortedFirst, Before
<1>6. \A r \in A : SortedFirst(A) <= r
  <2> DEFINE z == SortedFirst(A)
  <2>1. z \in Nat /\ \A s \in A \ {z} : z < s
    BY <1>2, <1>5 DEF Before
  <2> HIDE DEF z
  <2>2. \A r \in A : z <= r
    BY <1>2, <2>1
  <2> QED BY <2>2 DEF z
<1> QED BY <1>2, <1>5, <1>6 DEF A

(* A row with a cell that stays, in the column being walked and after the  *)
(* requested instance, is ahead.                                           *)
LEMMA SteadyAhead ==
  ASSUME TypeInv, LoadInv, ~cut, pc = "search", NEW r \in Rows, <<at.col, r>> \in steady,
         r > at.row
  PROVE  r \in Ahead
<1>1. at.col \in Columns /\ at.col <= loaded
  BY WalkAssumption DEF TypeInv, LoadInv, Columns
<1>2. r \in rows /\ r \notin Odd
  BY <1>1, WalkAssumption DEF LoadInv
<1> QED BY <1>2 DEF Ahead, DataPoints, table_instance_to_indexes

LEMMA StepType ==
  WalkInv /\ [Next]_vars => TypeInv'
<1> SUFFICES ASSUME TypeInv, IdleInv, [Next]_vars PROVE TypeInv'
  BY DEF WalkInv
<1> USE WalkAssumption
<1>1. ASSUME NEW r \in Rows, put_row(r) \/ delete_row(r) PROVE TypeInv'
  BY <1>1 DEF put_row, delete_row, Becomes, TypeInv, Cells
<1>2. ASSUME NEW k \in Cells, storage_delete(k) PROVE TypeInv'
  BY <1>2 DEF storage_delete, Becomes, TypeInv
<1>3. CASE StartWalk
  BY <1>3 DEF StartWalk, TypeInv, IdleInv
<1>4. CASE rowset_load_column
  <2>1. Under(loaded + 1) \ Malformed \subseteq Rows \cup Odd
    BY DEF Under
  <2>2. UNCHANGED <<cells, at, row, steady>> /\ pc = "load"
    BY <1>4 DEF rowset_load_column
  <2>3. CASE rows' = {} /\ loaded' = 0 /\ pc' = "search"
    BY <2>2, <2>3 DEF TypeInv
  <2>4. CASE /\ rows' = rows \cup (Under(loaded + 1) \ Malformed) /\ loaded' = loaded + 1
             /\ pc' = IF loaded' = NColumns THEN "search" ELSE "load"
    <3>1. loaded' \in 0 .. NColumns /\ (pc' = "load" => loaded' < NColumns)
      BY <2>2, <2>4 DEF TypeInv
    <3> QED BY <2>1, <2>2, <2>4, <3>1 DEF TypeInv
  <2> QED BY <1>4, <2>3, <2>4 DEF rowset_load_column
<1>5. CASE Search
  <2>1. CASE Ahead # {}
    BY <1>5, <2>1, FirstAhead DEF Search, TypeInv
  <2>2. CASE Ahead = {}
    BY <1>5, <2>2 DEF Search, Reload, TypeInv, Columns
  <2> QED BY <2>1, <2>2
<1>6. CASE handle_sensorTable
  BY <1>6 DEF handle_sensorTable, Continue, Reload, TypeInv
<1>7. CASE Again
  BY <1>7 DEF Again, Reload, TypeInv, Columns
<1>8. CASE UNCHANGED vars
  BY <1>8 DEF vars, TypeInv
<1> QED BY <1>1, <1>2, <1>3, <1>4, <1>5, <1>6, <1>7, <1>8 DEF Next, Writer, Walker

LEMMA StepIdle ==
  WalkInv /\ [Next]_vars => IdleInv'
<1> SUFFICES ASSUME IdleInv, [Next]_vars PROVE IdleInv'
  BY DEF WalkInv
<1>1. CASE Writer
  BY <1>1 DEF Writer, put_row, delete_row, storage_delete, Becomes, IdleInv
<1>2. CASE StartWalk \/ Walker
  BY <1>2 DEF StartWalk, Walker, rowset_load_column, Search, handle_sensorTable, Continue, IdleInv
<1>3. CASE Again
  BY <1>3 DEF Again, Reload, IdleInv
<1>4. CASE UNCHANGED vars
  BY <1>4 DEF vars, IdleInv
<1> QED BY <1>1, <1>2, <1>3, <1>4 DEF Next

LEMMA StepPassed ==
  WalkInv /\ [Next]_vars => PassedInv'
<1> SUFFICES ASSUME TypeInv, IdleInv, PassedInv, LoadInv, [Next]_vars, ~cut',
                    NEW c \in Columns, NEW r \in Rows, <<c, r>> \in steady',
                    Passed(c, r)' \/ pc' = "done"
             PROVE  <<c, r>> \in answers'
  BY DEF WalkInv, PassedInv
<1> USE WalkAssumption
<1>num. /\ c \in Nat \ {0} /\ c <= NColumns /\ r \in Nat \ {0}
        /\ at.col \in Nat /\ at.row \in Nat /\ at.col <= NColumns /\ row \in Nat
  BY DEF TypeInv, Columns
<1>1. CASE steady' \subseteq steady /\ UNCHANGED <<at, answers, cut>> /\ (pc' = "done" => pc = "done")
  <2>1. Passed(c, r) \/ pc = "done"
    BY <1>1 DEF Passed
  <2> QED BY <1>1, <2>1 DEF PassedInv
<1>2. CASE Writer
  BY <1>1, <1>2 DEF Writer, put_row, delete_row, storage_delete, Becomes
<1>3. CASE StartWalk
  <2>1. at'.col = 1 /\ at'.row = 0 /\ pc' = "load"
    BY <1>3 DEF StartWalk, IdleInv
  <2> QED BY <1>num, <2>1 DEF Passed
<1>4. CASE rowset_load_column
  BY <1>1, <1>4 DEF rowset_load_column
<1>5. CASE Search
  <2>1. UNCHANGED <<cells, answers, steady, cut>> /\ pc = "search" /\ ~cut
    BY <1>5 DEF Search
  <2>2. CASE Ahead # {}
    BY <1>1, <1>5, <2>2 DEF Search
  <2>3. CASE Ahead = {} /\ at.col < NColumns
    <3>1. at'.col = at.col + 1 /\ at'.row = 0 /\ pc' = "load"
      BY <1>5, <2>3 DEF Search
    <3>2. c <= at.col
      BY <1>num, <3>1 DEF Passed
    <3>3. c = at.col => r <= at.row
      BY <1>num, <2>1, <2>3, SteadyAhead
    <3>4. Passed(c, r)
      BY <1>num, <3>2, <3>3 DEF Passed
    <3> QED BY <2>1, <3>4 DEF PassedInv
  <2>4. CASE Ahead = {} /\ at.col = NColumns
    <3>1. c = at.col => r <= at.row
      BY <1>num, <2>1, <2>4, SteadyAhead
    <3>2. Passed(c, r)
      BY <1>num, <2>4, <3>1 DEF Passed
    <3> QED BY <2>1, <3>2 DEF PassedInv
  <2> QED BY <1>5, <2>2, <2>3, <2>4 DEF Search
<1>6. CASE handle_sensorTable
  <2>1. /\ UNCHANGED <<cells, steady, cut>> /\ pc = "cell" /\ pc' # "done" /\ ~cut
        /\ answers \subseteq answers'
    BY <1>6 DEF handle_sensorTable, Continue
  <2>2. CASE pc' = "error"
    BY <1>1, <1>6, <2>1, <2>2 DEF handle_sensorTable, Continue
  <2>3. CASE pc' # "error"
    <3>1. at' = [at EXCEPT !.row = row] /\ (Wanted \in cells => Wanted \in answers')
      BY <1>6, <2>3 DEF handle_sensorTable, Continue
    <3>2. at'.col = at.col /\ at'.row = row
      BY <3>1 DEF TypeInv
    <3>3. CASE Passed(c, r)
      BY <2>1, <3>3 DEF PassedInv
    <3>4. CASE ~Passed(c, r)
      <4>1. c = at.col /\ r > at.row /\ r <= row
        BY <1>num, <2>1, <3>2, <3>4 DEF Passed
      <4>2. row <= r
        BY <2>1, <4>1 DEF LoadInv
      <4>3. r = row
        BY <1>num, <4>1, <4>2
      <4> QED BY <2>1, <3>1, <4>1, <4>3 DEF Wanted, TypeInv
    <3> QED BY <3>3, <3>4
  <2> QED BY <2>2, <2>3
<1>7. CASE Again
  BY <1>7 DEF Again
<1>8. CASE UNCHANGED vars
  BY <1>1, <1>8 DEF vars
<1> QED BY <1>2, <1>3, <1>4, <1>5, <1>6, <1>7, <1>8 DEF Next, Walker

LEMMA StepLoad ==
  WalkInv /\ [Next]_vars => LoadInv'
<1> SUFFICES ASSUME TypeInv, IdleInv, LoadInv, [Next]_vars, ~cut' PROVE LoadInv'
  BY DEF WalkInv, LoadInv
<1> USE WalkAssumption
<1>1. CASE steady' \subseteq steady /\ UNCHANGED <<at, cut, pc, loaded, rows, row>>
  BY <1>1 DEF LoadInv
<1>2. CASE pc' = "load" /\ loaded' = 0
  <2>1. \A c \in Columns : ~(c <= loaded')
    BY <1>2 DEF Columns
  <2> QED BY <1>2, <2>1 DEF LoadInv
<1>3. CASE pc' \notin {"load", "search", "cell"}
  BY <1>3 DEF LoadInv
<1>4. CASE Writer
  BY <1>1, <1>4 DEF Writer, put_row, delete_row, storage_delete, Becomes
<1>5. CASE StartWalk
  BY <1>2, <1>5 DEF StartWalk, IdleInv
<1>6. CASE rowset_load_column
  <2>1. /\ pc = "load" /\ ~cut /\ loaded' = loaded + 1
        /\ rows' = rows \cup (Under(loaded + 1) \ Malformed)
        /\ pc' = IF loaded' = NColumns THEN "search" ELSE "load"
        /\ UNCHANGED <<cells, at, row, steady>>
    BY <1>6 DEF rowset_load_column
  <2>2. ASSUME NEW c \in Columns, NEW r \in Rows, <<c, r>> \in steady, c <= loaded + 1
        PROVE  r \in rows'
    <3>1. CASE c <= loaded
      BY <2>1, <2>2, <3>1 DEF LoadInv
    <3>2. CASE c = loaded + 1
      BY <2>1, <2>2, <3>2 DEF TypeInv, Under
    <3> QED BY <2>2, <3>1, <3>2 DEF TypeInv, Columns
  <2> QED BY <2>1, <2>2 DEF LoadInv
<1>7. CASE Search
  <2>1. CASE Ahead # {}
    <3>1. /\ UNCHANGED <<steady, cut, at>> /\ pc = "search" /\ pc' = "cell" /\ row' = SortedFirst(Ahead)
      BY <1>7, <2>1 DEF Search
    <3>2. ASSUME NEW r \in Rows, <<at.col, r>> \in steady, r > at.row PROVE row' <= r
      BY <2>1, <3>1, <3>2, FirstAhead, SteadyAhead
    <3> QED BY <3>1, <3>2 DEF LoadInv
  <2>2. CASE Ahead = {}
    BY <1>2, <1>3, <1>7, <2>2 DEF Search, Reload
  <2> QED BY <2>1, <2>2
<1>8. CASE handle_sensorTable
  BY <1>2, <1>3, <1>8 DEF handle_sensorTable, Continue, Reload
<1>9. CASE Again
  BY <1>3, <1>9 DEF Again
<1>10. CASE UNCHANGED vars
  BY <1>1, <1>10 DEF vars
<1> QED BY <1>4, <1>5, <1>6, <1>7, <1>8, <1>9, <1>10 DEF Next, Walker

(* The invariant of the walk holds throughout. *)
LEMMA WalkInvariant == Spec => []WalkInv
<1>1. Init => WalkInv
  <2> SUFFICES ASSUME Init PROVE WalkInv
    OBVIOUS
  <2>1. PICK R \in SUBSET Rows : cells = Columns \X R
    BY DEF Init
  <2>2. TypeInv
    BY <2>1, WalkAssumption DEF Init, TypeInv, Cells, Columns
  <2> QED BY <2>2 DEF Init, WalkInv, IdleInv, PassedInv, LoadInv
<1>2. WalkInv /\ [Next]_vars => WalkInv'
  BY StepType, StepIdle, StepPassed, StepLoad DEF WalkInv
<1> QED BY <1>1, <1>2, PTL DEF Spec

-----------------------------------------------------------------------------
(* A walk that comes to its end has returned every cell that was there all *)
(* the time, although each GETNEXT enumerates and sorts the rows anew and  *)
(* rows and cells come and go between its transactions.                    *)
THEOREM WalkSkipsNothing == Spec => []NothingSkipped
<1>1. WalkInv => NothingSkipped
  BY DEF WalkInv, TypeInv, Cells, PassedInv, NothingSkipped
<1> QED BY <1>1, WalkInvariant, PTL
=============================================================================
