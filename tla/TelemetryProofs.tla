-------------------------- MODULE TelemetryProofs --------------------------
(***************************************************************************)
(* Proofs about Telemetry for any number of sensors and samples and any    *)
(* width of the counters: types agree, there are no holes, a manager that  *)
(* reads backwards never mixes samples, and the counters count.            *)
(***************************************************************************)
EXTENDS Telemetry, TLAPS

CellSet == [type : {"Int32", "Uint32", "Bytes"}, serial : Nat, shown : Nat]

TypeInv ==
  /\ cache \in [Keys -> CellSet \cup {NoCell}]
  /\ proc \in {"off", "ready", "sampling", "asleep"}
  /\ step \in 0 .. (4 + NSensors) /\ count \in Nat /\ serial \in Nat
  /\ clearing \in 0 .. NSensors
  /\ seen \in [key : Keys, serial : Nat]

Present(k) == cache[k] # NoCell

(* The sample a key is of, a scalar that is not there counting as seeded. *)
Age(k)   == IF Present(k) THEN cache[k].serial ELSE 0
Known(k) == Present(k) \/ k \in Scalars

(* A cell has the type its handler asks for and is of no later sample than *)
(* the last.                                                               *)
CellInv ==
  \A k \in Keys : Present(k) =>
    cache[k].type = GetType(k) /\ cache[k].serial <= serial

(* What is written earlier in a sample is never of an older sample; in the *)
(* middle of one, what has been written is of this one.                    *)
OrderInv ==
  /\ \A k, l \in Keys : Rank(k) < Rank(l) /\ Known(k) /\ Present(l) => Age(k) >= Age(l)
  /\ proc = "sampling" => \A k \in Keys : Rank(k) <= step /\ Known(k) => Age(k) = serial

(* Nothing that is read after the remembered answer is older. *)
SeenInv ==
  /\ seen.serial <= serial
  /\ \A k \in Keys : (Rank(k) < Rank(seen.key) \/ k = seen.key) /\ Known(k) => Age(k) >= seen.serial

(* A process that has taken all samples has counted them all. *)
CountInv == ~restarted /\ proc # "off" => count = serial

TelemetryInv ==
  /\ TypeInv /\ GenErrMeansFailure /\ CellInv /\ NoHoles /\ OrderInv /\ SeenInv
  /\ CountInv /\ CountsSinceBoot

-----------------------------------------------------------------------------
(* The keys. *)

(* A key is a scalar or belongs to one row; its rank says which            *)
(* transaction of run_once writes it.                                      *)
LEMMA ScalarKey ==
  ASSUME NEW k \in Scalars
  PROVE  /\ k \in Keys /\ k[2] = 0 /\ Rank(k) \in 1..4 /\ \A r \in Sensors : k \notin Row(r)
         /\ PutType(k[1]) = GetType(k) /\ SeedType(k[1]) = GetType(k)
         /\ GetType(k) \in {"Int32", "Uint32", "Bytes"}
         /\ k = <<SCALARS[Rank(k)], 0>>
<1>1. PICK s \in {"cpuTempMilliC", "sampleCount", "lastUpdateEpoch", "statusText"} : k = <<s, 0>>
  BY DEF Scalars
<1>2. k \in Keys
  BY DEF Keys
<1>3. \A r \in Sensors : k \notin Row(r)
  BY <1>1 DEF Row, SENSOR_COLUMNS
<1>4. CASE s = "cpuTempMilliC"
  BY <1>1, <1>2, <1>3, <1>4 DEF Rank, PutType, GetType, ScalarGetType, SeedType, SCALARS, Scalars
<1>5. CASE s = "sampleCount"
  BY <1>1, <1>2, <1>3, <1>5 DEF Rank, PutType, GetType, ScalarGetType, SeedType, SCALARS, Scalars
<1>6. CASE s = "lastUpdateEpoch"
  BY <1>1, <1>2, <1>3, <1>6 DEF Rank, PutType, GetType, ScalarGetType, SeedType, SCALARS, Scalars
<1>7. CASE s = "statusText"
  BY <1>1, <1>2, <1>3, <1>7 DEF Rank, PutType, GetType, ScalarGetType, SeedType, SCALARS, Scalars
<1> QED BY <1>4, <1>5, <1>6, <1>7

LEMMA RowKey ==
  ASSUME NEW r \in Sensors, NEW k \in Row(r)
  PROVE  /\ k \in Keys /\ k \notin Scalars /\ k[2] = r /\ Rank(k) = 4 + r
         /\ PutType(k[1]) = GetType(k) /\ GetType(k) \in {"Int32", "Uint32", "Bytes"}
<1>1. PICK col \in SENSOR_COLUMNS : k = <<col, r>>
  BY DEF Row
<1>2. k \in Keys
  BY DEF Keys
<1>3. k \notin Scalars
  BY <1>1 DEF Scalars, SENSOR_COLUMNS
<1>4. CASE col = "sensorName"
  BY <1>1, <1>2, <1>3, <1>4 DEF Rank, PutType, GetType, ColumnGetType
<1>5. CASE col = "sensorTempMilliC"
  BY <1>1, <1>2, <1>3, <1>5 DEF Rank, PutType, GetType, ColumnGetType
<1>6. CASE col = "sensorSampleCount"
  BY <1>1, <1>2, <1>3, <1>6 DEF Rank, PutType, GetType, ColumnGetType
<1> QED BY <1>4, <1>5, <1>6 DEF SENSOR_COLUMNS

LEMMA KeyFacts ==
  ASSUME NEW k \in Keys
  PROVE  /\ k \in Scalars \/ \E r \in Sensors : k \in Row(r)
         /\ Rank(k) \in 1 .. (4 + NSensors)
         /\ PutType(k[1]) = GetType(k) /\ GetType(k) \in {"Int32", "Uint32", "Bytes"}
         /\ \A i \in 1 .. (4 + NSensors) : k \in Writes[i] <=> Rank(k) = i
<1>1. k \in Scalars \/ \E r \in Sensors : k \in Row(r)
  BY DEF Keys
<1>2. CASE k \in Scalars
  <2>1. ASSUME NEW i \in 1 .. (4 + NSensors) PROVE k \in Writes[i] <=> Rank(k) = i
    <3>1. CASE i <= 4
      <4>1. Writes[i] = {<<SCALARS[i], 0>>} /\ i \in 1..4
        BY <3>1, TelemetryAssumption DEF Writes
      <4>2. Rank(k) \in 1..4 /\ k = <<SCALARS[Rank(k)], 0>>
        BY <1>2, ScalarKey
      <4>3. \A j, l \in 1..4 : SCALARS[j] = SCALARS[l] => j = l
        BY DEF SCALARS
      <4> QED BY <4>1, <4>2, <4>3
    <3>2. CASE ~(i <= 4)
      <4>1. i - 4 \in Sensors /\ Writes[i] = Row(i - 4)
        BY <3>2, TelemetryAssumption DEF Writes, Sensors
      <4>2. Rank(k) \in 1..4 /\ k \notin Row(i - 4)
        BY <1>2, <4>1, ScalarKey
      <4> QED BY <3>2, <4>1, <4>2
    <3> QED BY <3>1, <3>2
  <2>2. Rank(k) \in 1 .. (4 + NSensors)
    BY <1>2, ScalarKey, TelemetryAssumption
  <2> QED BY <1>1, <1>2, <2>1, <2>2, ScalarKey
<1>3. ASSUME NEW r \in Sensors, k \in Row(r)
      PROVE  /\ Rank(k) \in 1 .. (4 + NSensors)
             /\ PutType(k[1]) = GetType(k) /\ GetType(k) \in {"Int32", "Uint32", "Bytes"}
             /\ \A i \in 1 .. (4 + NSensors) : k \in Writes[i] <=> Rank(k) = i
  <2>1. /\ k \notin Scalars /\ Rank(k) = 4 + r /\ k[2] = r /\ r \in 1..NSensors
        /\ PutType(k[1]) = GetType(k) /\ GetType(k) \in {"Int32", "Uint32", "Bytes"}
    BY <1>3, RowKey DEF Sensors
  <2>2. ASSUME NEW i \in 1 .. (4 + NSensors) PROVE k \in Writes[i] <=> Rank(k) = i
    <3>1. CASE i <= 4
      <4>1. Writes[i] = {<<SCALARS[i], 0>>} /\ i \in 1..4
        BY <3>1, TelemetryAssumption DEF Writes
      <4>2. k # <<SCALARS[i], 0>>
        BY <2>1
      <4> QED BY <2>1, <4>1, <4>2
    <3>2. CASE ~(i <= 4)
      <4>1. i - 4 \in Sensors /\ Writes[i] = Row(i - 4)
        BY <3>2, TelemetryAssumption DEF Writes, Sensors
      <4>2. k \in Row(i - 4) => r = i - 4
        BY <2>1, <4>1, RowKey
      <4>3. r = i - 4 <=> 4 + r = i
        BY <2>1
      <4> QED BY <1>3, <2>1, <4>1, <4>2, <4>3
    <3> QED BY <3>1, <3>2
  <2> QED BY <2>1, <2>2, TelemetryAssumption
<1> QED BY <1>1, <1>2, <1>3

LEMMA WritesLength == Len(Writes) = 4 + NSensors
BY TelemetryAssumption DEF Writes

-----------------------------------------------------------------------------
(* What the actions do to the cache. *)

(* A cell telemetry writes. *)
LEMMA WrittenCell ==
  ASSUME TypeInv, NEW k \in Keys
  PROVE  /\ Cell(k) \in CellSet /\ Cell(k) # NoCell /\ Cell(k).serial = serial
         /\ Cell(k).type = GetType(k)
         /\ k[1] \in Counters => Cell(k).shown = count % Wrap
<1>1. PutType(k[1]) = GetType(k) /\ PutType(k[1]) \in {"Int32", "Uint32", "Bytes"}
  BY KeyFacts
<1>2. serial \in Nat /\ count % Wrap \in Nat
  BY TelemetryAssumption DEF TypeInv
<1>3. Shown(k[1]) \in Nat
  BY <1>2 DEF Shown
<1>4. k[1] \in Counters => Shown(k[1]) = count % Wrap
  BY DEF Shown
<1> QED BY <1>1, <1>2, <1>3, <1>4, TelemetryAssumption DEF Cell, CellSet

LEMMA RunOnceEffect ==
  ASSUME TypeInv, run_once
  PROVE  /\ step \in 0 .. (3 + NSensors) /\ step' = step + 1 /\ proc = "sampling"
         /\ \A k \in Keys : cache'[k] = IF Rank(k) = step + 1 THEN Cell(k) ELSE cache[k]
         /\ cache' \in [Keys -> CellSet \cup {NoCell}]
         /\ UNCHANGED <<agent, proc, count, serial, clearing, restarted, polled>>
<1>1. /\ proc = "sampling" /\ step < 4 + NSensors
      /\ cache' = [k \in Keys |-> IF k \in Writes[step + 1] THEN Cell(k) ELSE cache[k]]
      /\ step' = step + 1
      /\ UNCHANGED <<agent, proc, count, serial, clearing, restarted, polled>>
  BY WritesLength DEF run_once
<1>2. step \in 0 .. (3 + NSensors) /\ step + 1 \in 1 .. (4 + NSensors)
  BY <1>1, TelemetryAssumption DEF TypeInv
<1>3. \A k \in Keys : k \in Writes[step + 1] <=> Rank(k) = step + 1
  BY <1>2, KeyFacts
<1>4. \A k \in Keys : cache'[k] = IF Rank(k) = step + 1 THEN Cell(k) ELSE cache[k]
  BY <1>1, <1>3
<1>5. cache' \in [Keys -> CellSet \cup {NoCell}]
  BY <1>1, WrittenCell DEF TypeInv
<1> QED BY <1>1, <1>2, <1>4, <1>5

LEMMA DeleteEffect ==
  ASSUME TypeInv, delete_row
  PROVE  /\ clearing \in Sensors
         /\ \A k \in Keys : cache'[k] = IF k \in Row(clearing) THEN NoCell ELSE cache[k]
         /\ \A k \in Scalars : cache'[k] = cache[k]
         /\ cache' \in [Keys -> CellSet \cup {NoCell}] /\ clearing' \in 0 .. NSensors
         /\ UNCHANGED <<agent, proc, step, count, serial, restarted, polled>>
<1>1. clearing \in Sensors /\ clearing' \in 0 .. NSensors
  BY TelemetryAssumption DEF delete_row, NextRow, TypeInv, Sensors
<1>2. /\ \A k \in Keys : cache'[k] = IF k \in Row(clearing) THEN NoCell ELSE cache[k]
      /\ cache' \in [Keys -> CellSet \cup {NoCell}]
  BY DEF delete_row, TypeInv
<1>3. \A k \in Scalars : cache'[k] = cache[k]
  BY <1>1, <1>2, ScalarKey
<1> QED BY <1>1, <1>2, <1>3 DEF delete_row

LEMMA StartEffect ==
  ASSUME TypeInv, AgentStart
  PROVE  /\ \A k \in Keys : cache'[k] = IF k \in Scalars /\ ~Present(k) THEN SeedCell(k) ELSE cache[k]
         /\ \A k \in Scalars : /\ SeedCell(k) \in CellSet /\ SeedCell(k) # NoCell
                               /\ SeedCell(k).type = GetType(k)
                               /\ SeedCell(k).serial = 0 /\ SeedCell(k).shown = 0
         /\ cache' \in [Keys -> CellSet \cup {NoCell}]
         /\ UNCHANGED <<proc, step, count, serial, clearing, restarted, polled>>
<1>1. \A k \in Scalars : /\ SeedCell(k) \in CellSet /\ SeedCell(k) # NoCell
                         /\ SeedCell(k).type = GetType(k)
                         /\ SeedCell(k).serial = 0 /\ SeedCell(k).shown = 0
  BY ScalarKey, TelemetryAssumption DEF SeedCell, CellSet
<1>2. \A k \in Keys : cache'[k] = IF k \in Scalars /\ ~Present(k) THEN SeedCell(k) ELSE cache[k]
  BY DEF AgentStart, cache_bootstrap_defaults, Present
<1>3. cache' \in [Keys -> CellSet \cup {NoCell}]
  BY <1>1 DEF AgentStart, cache_bootstrap_defaults, TypeInv
<1> QED BY <1>1, <1>2, <1>3 DEF AgentStart

-----------------------------------------------------------------------------
(* The invariant, one conjunct at a time. *)

(* What the manager was shown is a key's cell. *)
LEMMA GetEffect ==
  ASSUME TypeInv, CellInv, NEW k \in Keys, Get(k) \/ GetFails(k)
  PROVE  /\ GenErrMeansFailure'
         /\ UNCHANGED seen \/ (Present(k) /\ seen' = [key |-> k, serial |-> cache[k].serial])
         /\ UNCHANGED <<cache, agent, proc, step, count, serial, clearing, restarted>>
<1>1. CASE Get(k)
  BY <1>1 DEF Get, Answer, Present, CellInv, GenErrMeansFailure
<1>2. CASE GetFails(k)
  BY <1>2 DEF GetFails, GenErrMeansFailure
<1> QED BY <1>1, <1>2

LEMMA StepType ==
  TelemetryInv /\ [Next]_vars => TypeInv'
<1> SUFFICES ASSUME TypeInv, CellInv, [Next]_vars
             PROVE  TypeInv'
  BY DEF TelemetryInv
<1> USE TelemetryAssumption DEF polled
<1>1. CASE Start \/ BeginSample \/ Exit \/ ClearFails \/ AgentExit
  BY <1>1 DEF Start, BeginSample, Exit, ClearFails, AgentExit, TypeInv
<1>2. CASE run_once
  <2>1. step' \in 0 .. (4 + NSensors)
    BY <1>2, RunOnceEffect
  <2> QED BY <1>2, <2>1, RunOnceEffect DEF TypeInv
<1>3. CASE Sleep
  BY <1>3 DEF Sleep, TypeInv
<1>4. CASE BeginClear
  BY <1>4 DEF BeginClear, TypeInv
<1>5. CASE delete_row
  BY <1>5, DeleteEffect DEF TypeInv
<1>6. CASE AgentStart
  BY <1>6, StartEffect DEF TypeInv
<1>7. ASSUME NEW k \in Keys, Get(k) \/ GetFails(k) PROVE TypeInv'
  <2>1. Present(k) => [key |-> k, serial |-> cache[k].serial] \in [key : Keys, serial : Nat]
    BY DEF Present, TypeInv, CellSet
  <2>2. seen' \in [key : Keys, serial : Nat]
    BY <1>7, <2>1, GetEffect DEF TypeInv
  <2> QED BY <1>7, <2>2, GetEffect DEF TypeInv
<1>8. CASE PowerCycle
  <2>1. <<"statusText", 0>> \in Keys
    BY DEF Keys, Scalars
  <2> QED BY <1>8, <2>1 DEF PowerCycle, TypeInv, NothingSeen
<1>9. CASE UNCHANGED vars
  BY <1>9 DEF vars, TypeInv
<1> QED BY <1>1, <1>2, <1>3, <1>4, <1>5, <1>6, <1>7, <1>8, <1>9 DEF Next, Poll

(* Only a GET gives an answer. *)
LEMMA StepGenErr ==
  TelemetryInv /\ [Next]_vars => GenErrMeansFailure'
<1> SUFFICES ASSUME TypeInv, CellInv, GenErrMeansFailure, [Next]_vars PROVE GenErrMeansFailure'
  BY DEF TelemetryInv
<1>1. ASSUME UNCHANGED polled PROVE GenErrMeansFailure'
  BY <1>1 DEF polled, GenErrMeansFailure
<1>2. CASE Poll
  BY <1>2, GetEffect DEF Poll
<1>3. CASE PowerCycle
  BY <1>3 DEF PowerCycle, GenErrMeansFailure
<1>4. CASE ~Poll /\ ~PowerCycle
  <2>1. UNCHANGED polled
    BY <1>4 DEF Next, Start, BeginSample, run_once, Sleep, Exit, BeginClear, delete_row, ClearFails,
                AgentStart, AgentExit, vars
  <2> QED BY <1>1, <2>1
<1> QED BY <1>2, <1>3, <1>4

LEMMA StepCell ==
  TelemetryInv /\ [Next]_vars => CellInv'
<1> SUFFICES ASSUME TypeInv, CellInv, [Next]_vars, NEW k \in Keys, cache'[k] # NoCell
             PROVE  cache'[k].type = GetType(k) /\ cache'[k].serial <= serial'
  BY DEF TelemetryInv, CellInv, Present, GetType
<1> USE TelemetryAssumption
<1>1. ASSUME cache'[k] = cache[k], serial' \in Nat, serial' >= serial
      PROVE  cache'[k].type = GetType(k) /\ cache'[k].serial <= serial'
  <2>1. /\ cache[k].type = GetType(k) /\ cache[k].serial <= serial
        /\ cache[k].serial \in Nat /\ serial \in Nat
    BY <1>1 DEF CellInv, Present, TypeInv, CellSet
  <2> QED BY <1>1, <2>1
<1>2. CASE UNCHANGED <<cache, serial>>
  BY <1>1, <1>2 DEF TypeInv
<1>3. CASE BeginSample
  BY <1>1, <1>3 DEF BeginSample, TypeInv
<1>4. CASE run_once
  <2>1. CASE Rank(k) = step + 1
    BY <1>4, <2>1, RunOnceEffect, WrittenCell DEF TypeInv
  <2>2. CASE Rank(k) # step + 1
    BY <1>1, <1>4, <2>2, RunOnceEffect DEF TypeInv
  <2> QED BY <2>1, <2>2
<1>5. CASE delete_row
  BY <1>1, <1>5, DeleteEffect DEF TypeInv
<1>6. CASE AgentStart
  <2>1. CASE k \in Scalars /\ ~Present(k)
    BY <1>6, <2>1, StartEffect DEF TypeInv
  <2>2. CASE ~(k \in Scalars /\ ~Present(k))
    BY <1>1, <1>6, <2>2, StartEffect DEF TypeInv
  <2> QED BY <2>1, <2>2
<1>7. CASE PowerCycle
  BY <1>7 DEF PowerCycle
<1>8. CASE Start \/ Sleep \/ Exit \/ BeginClear \/ ClearFails \/ AgentExit \/ Poll
  BY <1>2, <1>8 DEF Start, Sleep, Exit, BeginClear, ClearFails, AgentExit, Poll, Get, GetFails
<1>9. CASE UNCHANGED vars
  BY <1>2, <1>9 DEF vars
<1> QED BY <1>3, <1>4, <1>5, <1>6, <1>7, <1>8, <1>9 DEF Next

LEMMA StepHoles ==
  TelemetryInv /\ [Next]_vars => NoHoles'
<1> SUFFICES ASSUME TypeInv, NoHoles, [Next]_vars PROVE NoHoles'
  BY DEF TelemetryInv
<1> USE TelemetryAssumption
<1>1. CASE UNCHANGED cache /\ (agent' = "up" => agent = "up")
  BY <1>1 DEF NoHoles
<1>2. CASE run_once
  <2>1. ASSUME NEW k \in Scalars, agent' = "up" PROVE cache'[k] # NoCell
    <3>1. cache[k] # NoCell /\ k \in Keys
      BY <1>2, <2>1, RunOnceEffect, ScalarKey DEF NoHoles
    <3> QED BY <1>2, <3>1, RunOnceEffect, WrittenCell
  <2>2. ASSUME NEW r \in Sensors, NEW k \in Row(r), NEW l \in Row(r)
        PROVE  cache'[k] = NoCell <=> cache'[l] = NoCell
    <3>1. k \in Keys /\ l \in Keys /\ Rank(k) = Rank(l)
      BY RowKey
    <3>2. CASE Rank(k) = step + 1
      BY <1>2, <3>1, <3>2, RunOnceEffect, WrittenCell
    <3>3. CASE Rank(k) # step + 1
      BY <1>2, <3>1, <3>3, RunOnceEffect DEF NoHoles
    <3> QED BY <3>2, <3>3
  <2> QED BY <2>1, <2>2 DEF NoHoles
<1>3. CASE delete_row
  <2>1. ASSUME NEW r \in Sensors, NEW k \in Row(r), NEW l \in Row(r)
        PROVE  cache'[k] = NoCell <=> cache'[l] = NoCell
    <3>1. k \in Keys /\ l \in Keys /\ k[2] = r /\ l[2] = r /\ clearing \in Sensors
      BY <1>3, RowKey, DeleteEffect
    <3>2. k \in Row(clearing) <=> l \in Row(clearing)
      BY <3>1, RowKey
    <3> QED BY <1>3, <3>1, <3>2, DeleteEffect DEF NoHoles
  <2>2. ASSUME NEW k \in Scalars, agent' = "up" PROVE cache'[k] # NoCell
    BY <1>3, <2>2, DeleteEffect DEF NoHoles
  <2> QED BY <2>1, <2>2 DEF NoHoles
<1>4. CASE AgentStart
  <2>1. ASSUME NEW k \in Scalars PROVE cache'[k] # NoCell
    BY <1>4, StartEffect, ScalarKey DEF Present
  <2>2. ASSUME NEW r \in Sensors, NEW k \in Row(r) PROVE cache'[k] = cache[k]
    BY <1>4, StartEffect, RowKey
  <2> QED BY <2>1, <2>2 DEF NoHoles
<1>5. CASE PowerCycle
  <2>1. \A r \in Sensors : \A k \in Row(r) : cache'[k] = NoCell
    BY <1>5, RowKey DEF PowerCycle
  <2> QED BY <1>5, <2>1 DEF PowerCycle, NoHoles
<1>6. CASE Start \/ BeginSample \/ Sleep \/ Exit \/ BeginClear \/ ClearFails \/ AgentExit \/ Poll
  BY <1>1, <1>6 DEF Start, BeginSample, Sleep, Exit, BeginClear, ClearFails, AgentExit, Poll, Get, GetFails
<1>7. CASE UNCHANGED vars
  BY <1>1, <1>7 DEF vars
<1> QED BY <1>2, <1>3, <1>4, <1>5, <1>6, <1>7 DEF Next

(* Ages and ranks are numbers. *)
LEMMA AgeFacts ==
  ASSUME TypeInv, CellInv, NEW k \in Keys
  PROVE  Age(k) \in Nat /\ Age(k) <= serial /\ serial \in Nat /\ Rank(k) \in Nat
BY KeyFacts, TelemetryAssumption DEF TypeInv, CellInv, Age, Present, CellSet

(* How ages change, by what happens to the cache. *)
LEMMA AgeRunOnce ==
  ASSUME TypeInv, CellInv, run_once, NEW k \in Keys
  PROVE  /\ Rank(k) = step + 1 => Present(k)' /\ Known(k)' /\ Age(k)' = serial
         /\ Rank(k) # step + 1 => /\ Present(k)' = Present(k) /\ Known(k)' = Known(k)
                                  /\ Age(k)' = Age(k)
BY RunOnceEffect, WrittenCell DEF Present, Known, Age

LEMMA AgeDelete ==
  ASSUME TypeInv, CellInv, delete_row, NEW k \in Keys
  PROVE  /\ Known(k)' => Known(k) /\ Age(k)' = Age(k)
         /\ Present(k)' => Present(k)
BY DeleteEffect, RowKey DEF Present, Known, Age

LEMMA AgeStart ==
  ASSUME TypeInv, CellInv, AgentStart, NEW k \in Keys
  PROVE  Known(k)' = Known(k) /\ Age(k)' = Age(k) /\ (Present(k)' => Present(k) \/ Age(k) = 0)
BY StartEffect DEF Present, Known, Age

LEMMA StepOrder ==
  TelemetryInv /\ [Next]_vars => OrderInv'
<1> SUFFICES ASSUME TypeInv, CellInv, OrderInv, [Next]_vars PROVE OrderInv'
  BY DEF TelemetryInv
<1> DEFINE Ordered == \A k, l \in Keys : Rank(k) < Rank(l) /\ Known(k) /\ Present(l) => Age(k) >= Age(l)
           Fresh   == proc = "sampling" => \A k \in Keys : Rank(k) <= step /\ Known(k) => Age(k) = serial
<1>old. Ordered /\ Fresh
  BY DEF OrderInv
<1>split. ASSUME Ordered', Fresh' PROVE OrderInv'
  BY <1>split DEF OrderInv, Rank
<1>1. ASSUME UNCHANGED cache PROVE Ordered'
  BY <1>old, <1>1 DEF Rank, Known, Present, Age
<1>2. ASSUME UNCHANGED <<cache, step, serial>>, proc' = "sampling" => proc = "sampling" PROVE Fresh'
  BY <1>old, <1>2 DEF Rank, Known, Present, Age
<1>3. CASE BeginSample
  <2>1. Fresh'
    BY <1>3, KeyFacts DEF BeginSample
  <2> QED BY <1>split, <1>1, <1>3, <2>1 DEF BeginSample
<1>4. CASE run_once
  <2>0. step \in Nat /\ serial \in Nat /\ proc = "sampling" /\ step' = step + 1 /\ serial' = serial
    BY <1>4, RunOnceEffect DEF TypeInv
  <2>1. ASSUME NEW k \in Keys, NEW l \in Keys, Rank(k) < Rank(l), Known(k)', Present(l)'
        PROVE  Age(k)' >= Age(l)'
    <3>1. CASE Rank(k) = step + 1
      BY <1>4, <2>0, <2>1, <3>1, AgeRunOnce, AgeFacts
    <3>2. CASE Rank(k) # step + 1 /\ Rank(l) = step + 1
      <4>1. Rank(k) <= step /\ Known(k)
        BY <1>4, <2>0, <2>1, <3>2, AgeRunOnce, AgeFacts
      <4>2. Age(k) = serial /\ Age(k)' = Age(k) /\ Age(l)' = serial
        BY <1>old, <1>4, <2>0, <3>2, <4>1, AgeRunOnce
      <4> QED BY <2>0, <4>2
    <3>3. CASE Rank(k) # step + 1 /\ Rank(l) # step + 1
      BY <1>old, <1>4, <2>1, <3>3, AgeRunOnce
    <3> QED BY <3>1, <3>2, <3>3
  <2>2. ASSUME NEW k \in Keys, Rank(k) <= step', Known(k)' PROVE Age(k)' = serial'
    <3>1. CASE Rank(k) = step + 1
      BY <1>4, <2>0, <3>1, AgeRunOnce
    <3>2. CASE Rank(k) # step + 1
      <4>1. Rank(k) <= step
        BY <2>0, <2>2, <3>2, AgeFacts
      <4> QED BY <1>old, <1>4, <2>0, <2>2, <3>2, <4>1, AgeRunOnce
    <3> QED BY <3>1, <3>2
  <2> QED BY <1>split, <2>1, <2>2 DEF Rank
<1>5. CASE delete_row
  <2>1. ASSUME NEW k \in Keys, NEW l \in Keys, Rank(k) < Rank(l), Known(k)', Present(l)'
        PROVE  Age(k)' >= Age(l)'
    <3>1. Known(l)'
      BY <2>1 DEF Known
    <3> QED BY <1>old, <1>5, <2>1, <3>1, AgeDelete
  <2>2. ASSUME NEW k \in Keys, proc' = "sampling", Rank(k) <= step', Known(k)'
        PROVE  Age(k)' = serial'
    BY <1>old, <1>5, <2>2, AgeDelete, DeleteEffect
  <2> QED BY <1>split, <2>1, <2>2 DEF Rank
<1>6. CASE AgentStart
  <2>1. ASSUME NEW k \in Keys, NEW l \in Keys, Rank(k) < Rank(l), Known(k)', Present(l)'
        PROVE  Age(k)' >= Age(l)'
    <3>1. Known(k) /\ Age(k)' = Age(k) /\ Age(l)' = Age(l) /\ (Present(l) \/ Age(l) = 0)
      BY <1>6, <2>1, AgeStart
    <3> QED BY <1>old, <2>1, <3>1, AgeFacts
  <2>2. ASSUME NEW k \in Keys, proc' = "sampling", Rank(k) <= step', Known(k)'
        PROVE  Age(k)' = serial'
    BY <1>old, <1>6, <2>2, AgeStart, StartEffect
  <2> QED BY <1>split, <2>1, <2>2 DEF Rank
<1>7. CASE PowerCycle
  <2>1. proc' = "off" /\ \A k \in Keys : ~Present(k)'
    BY <1>7 DEF PowerCycle, Present
  <2> QED BY <1>split, <2>1
<1>8. CASE Start \/ Sleep \/ Exit \/ BeginClear \/ ClearFails \/ AgentExit \/ Poll \/ UNCHANGED vars
  BY <1>split, <1>1, <1>2, <1>8
     DEF Start, Sleep, Exit, BeginClear, ClearFails, AgentExit, Poll, Get, GetFails, vars, polled
<1> QED BY <1>3, <1>4, <1>5, <1>6, <1>7, <1>8 DEF Next

LEMMA StepSeen ==
  TelemetryInv /\ [Next]_vars => SeenInv'
<1> SUFFICES ASSUME TypeInv, CellInv, OrderInv, SeenInv, [Next]_vars PROVE SeenInv'
  BY DEF TelemetryInv
<1> USE DEF polled
<1> DEFINE Upto(k, a) == Rank(k) < Rank(a) \/ k = a
<1>old. /\ seen.serial \in Nat /\ serial \in Nat /\ seen.serial <= serial /\ seen.key \in Keys
        /\ \A k \in Keys : Upto(k, seen.key) /\ Known(k) => Age(k) >= seen.serial
  BY DEF SeenInv, TypeInv
<1>split. ASSUME seen'.serial <= serial',
                 \A k \in Keys : Upto(k, seen'.key) /\ Known(k)' => Age(k)' >= seen'.serial
          PROVE  SeenInv'
  BY <1>split DEF SeenInv, Rank
<1> HIDE DEF Upto
<1>1. ASSUME UNCHANGED <<cache, seen>>, serial' >= serial, serial' \in Nat PROVE SeenInv'
  <2>1. \A k \in Keys : Known(k)' = Known(k) /\ Age(k)' = Age(k)
    BY <1>1 DEF Known, Present, Age
  <2>2. seen'.serial <= serial'
    BY <1>old, <1>1
  <2> QED BY <1>split, <1>old, <1>1, <2>1, <2>2
<1>2. CASE run_once
  <2>1. ASSUME NEW k \in Keys, Upto(k, seen.key), Known(k)' PROVE Age(k)' >= seen.serial
    BY <1>2, <1>old, <2>1, AgeRunOnce
  <2> QED BY <1>split, <1>old, <1>2, <2>1, RunOnceEffect
<1>3. CASE delete_row
  BY <1>split, <1>old, <1>3, AgeDelete, DeleteEffect
<1>4. CASE AgentStart
  BY <1>split, <1>old, <1>4, AgeStart, StartEffect
<1>5. ASSUME NEW l \in Keys, Get(l) \/ GetFails(l) PROVE SeenInv'
  <2>1. CASE UNCHANGED seen
    BY <1>1, <1>5, <2>1, GetEffect DEF TypeInv
  <2>2. CASE Present(l) /\ seen' = [key |-> l, serial |-> cache[l].serial]
    <3>1. seen'.key = l /\ seen'.serial = Age(l) /\ serial' = serial /\ UNCHANGED cache
      BY <1>5, <2>2, GetEffect DEF Age
    <3>2. ASSUME NEW k \in Keys, Upto(k, l), Known(k)' PROVE Age(k)' >= Age(l)
      <4>1. Known(k) /\ Age(k)' = Age(k)
        BY <3>1, <3>2 DEF Known, Present, Age
      <4> QED BY <2>2, <3>2, <4>1, AgeFacts DEF OrderInv, Upto
    <3> QED BY <1>split, <3>1, <3>2, AgeFacts
  <2> QED BY <1>5, <2>1, <2>2, GetEffect
<1>6. CASE PowerCycle
  <2>1. seen'.serial = 0 /\ serial' = 0 /\ \A k \in Keys : Age(k)' = 0
    BY <1>6 DEF PowerCycle, NothingSeen, Age, Present
  <2> QED BY <1>split, <2>1
<1>7. CASE BeginSample
  BY <1>1, <1>7 DEF BeginSample, TypeInv
<1>8. CASE Start \/ Sleep \/ Exit \/ BeginClear \/ ClearFails \/ AgentExit \/ UNCHANGED vars
  BY <1>1, <1>8, <1>old DEF Start, Sleep, Exit, BeginClear, ClearFails, AgentExit, vars
<1> QED BY <1>2, <1>3, <1>4, <1>5, <1>6, <1>7, <1>8 DEF Next, Poll

(* A step that is no power cycle does not forget a restart. *)
LEMMA StepCount ==
  TelemetryInv /\ [Next]_vars => CountInv'
<1> SUFFICES ASSUME TypeInv, CountInv, [Next]_vars, ~restarted', proc' # "off"
             PROVE  count' = serial'
  BY DEF TelemetryInv, CountInv
<1>1. ASSUME UNCHANGED <<count, serial, restarted>>, proc # "off" PROVE count' = serial'
  BY <1>1 DEF CountInv
<1>2. CASE Start
  <2>1. count' = 0 /\ serial' = serial /\ restarted' = (restarted \/ serial > 0)
    BY <1>2 DEF Start
  <2>2. ~(serial > 0)
    BY <2>1
  <2>3. serial \in Nat
    BY DEF TypeInv
  <2> QED BY <2>1, <2>2, <2>3
<1>3. CASE BeginSample
  BY <1>3 DEF BeginSample, CountInv
<1>4. CASE run_once
  BY <1>1, <1>4, RunOnceEffect
<1>5. CASE delete_row
  BY <1>1, <1>5, DeleteEffect
<1>6. CASE AgentStart
  BY <1>1, <1>6, StartEffect
<1>7. CASE Exit \/ PowerCycle
  BY <1>7 DEF Exit, PowerCycle
<1>8. CASE Sleep \/ BeginClear \/ ClearFails \/ AgentExit \/ Poll \/ UNCHANGED vars
  BY <1>1, <1>8 DEF Sleep, BeginClear, ClearFails, AgentExit, Poll, Get, GetFails, vars
<1> QED BY <1>2, <1>3, <1>4, <1>5, <1>6, <1>7, <1>8 DEF Next

LEMMA StepShown ==
  TelemetryInv /\ [Next]_vars => CountsSinceBoot'
<1> SUFFICES ASSUME TypeInv, CountInv, CountsSinceBoot, [Next]_vars, ~restarted',
                    NEW k \in Keys, k[1] \in Counters, cache'[k] # NoCell
             PROVE  cache'[k].shown = cache'[k].serial % Wrap
  BY DEF TelemetryInv, CountsSinceBoot, Counters
<1>1. ASSUME cache'[k] = cache[k], ~restarted PROVE cache'[k].shown = cache'[k].serial % Wrap
  BY <1>1 DEF CountsSinceBoot
<1>2. CASE run_once
  <2>1. CASE Rank(k) = step + 1
    <3>1. cache'[k] = Cell(k) /\ ~restarted /\ proc = "sampling"
      BY <1>2, <2>1, RunOnceEffect
    <3>2. Cell(k).shown = count % Wrap /\ Cell(k).serial = serial
      BY WrittenCell
    <3>3. count = serial
      BY <3>1 DEF CountInv
    <3> QED BY <3>1, <3>2, <3>3
  <2>2. CASE Rank(k) # step + 1
    BY <1>1, <1>2, <2>2, RunOnceEffect
  <2> QED BY <2>1, <2>2
<1>3. CASE delete_row
  BY <1>1, <1>3, DeleteEffect
<1>4. CASE AgentStart
  <2>1. CASE k \in Scalars /\ ~Present(k)
    <3>1. cache'[k].shown = 0 /\ cache'[k].serial = 0
      BY <1>4, <2>1, StartEffect
    <3>2. 0 % Wrap = 0
      BY TelemetryAssumption
    <3> QED BY <3>1, <3>2
  <2>2. CASE ~(k \in Scalars /\ ~Present(k))
    BY <1>1, <1>4, <2>2, StartEffect
  <2> QED BY <2>1, <2>2
<1>5. CASE PowerCycle
  BY <1>5 DEF PowerCycle
<1>6. CASE Start
  <2>1. UNCHANGED cache /\ restarted' = (restarted \/ serial > 0)
    BY <1>6 DEF Start
  <2>2. ~restarted
    BY <2>1
  <2> QED BY <1>1, <2>1, <2>2
<1>7. CASE BeginSample \/ Sleep \/ Exit \/ BeginClear \/ ClearFails \/ AgentExit \/ Poll \/ UNCHANGED vars
  BY <1>1, <1>7
     DEF BeginSample, Sleep, Exit, BeginClear, ClearFails, AgentExit, Poll, Get, GetFails, vars
<1> QED BY <1>2, <1>3, <1>4, <1>5, <1>6, <1>7 DEF Next

LEMMA InitTelemetry == Init => TelemetryInv
<1> SUFFICES ASSUME Init PROVE TelemetryInv
  OBVIOUS
<1>1. \A k \in Keys : ~Present(k) /\ Age(k) = 0 /\ cache[k] = NoCell
  BY DEF Init, Present, Age
<1>2. TypeInv
  <2>1. <<"statusText", 0>> \in Keys
    BY DEF Keys, Scalars
  <2> QED BY <2>1, TelemetryAssumption DEF Init, TypeInv, NothingSeen
<1>3. CellInv /\ OrderInv
  BY <1>1 DEF CellInv, OrderInv, Init
<1>4. SeenInv
  BY <1>1 DEF SeenInv, Init, NothingSeen
<1>5. NoHoles
  BY <1>1, RowKey DEF NoHoles, Init
<1>6. GenErrMeansFailure /\ CountInv /\ CountsSinceBoot
  BY <1>1 DEF GenErrMeansFailure, CountInv, CountsSinceBoot, Init
<1> QED BY <1>2, <1>3, <1>4, <1>5, <1>6 DEF TelemetryInv

(* The invariant holds throughout. *)
LEMMA TelemetryInvariant == Spec => []TelemetryInv
<1>1. TelemetryInv /\ [Next]_vars => TelemetryInv'
  BY StepType, StepGenErr, StepCell, StepHoles, StepOrder, StepSeen, StepCount, StepShown DEF TelemetryInv
<1> QED BY <1>1, InitTelemetry, PTL DEF Spec

-----------------------------------------------------------------------------
(* Whichever of telemetry and bootstrap wrote a cell, and whichever of     *)
(* them died, it has the type its handler reads: a GET answers genErr only *)
(* when storage failed in it.                                              *)
THEOREM TypesAgree == Spec => []GenErrMeansFailure
<1>1. TelemetryInv => GenErrMeansFailure
  BY DEF TelemetryInv
<1> QED BY <1>1, TelemetryInvariant, PTL

(* While the subagent serves, the scalars have values, and a sensor row is *)
(* there with all its cells or with none.                                  *)
THEOREM RowsWhole == Spec => []NoHoles
<1>1. TelemetryInv => NoHoles
  BY DEF TelemetryInv
<1> QED BY <1>1, TelemetryInvariant, PTL

(* Read in the reverse of the order of run_once, no value is older than    *)
(* one read before it, across crashes and restarts of both programs.       *)
THEOREM BackwardsIsFresh == Spec => []ReadBackwards
<1>1. TelemetryInv => ReadBackwards
  BY DEF TelemetryInv, SeenInv, ReadBackwards, Known, Present, Age
<1> QED BY <1>1, TelemetryInvariant, PTL

(* sampleCount and sensorSampleCount show the samples taken since boot,    *)
(* modulo their width, as long as telemetry is not restarted.              *)
THEOREM CountersCount == Spec => []CountsSinceBoot
<1>1. TelemetryInv => CountsSinceBoot
  BY DEF TelemetryInv
<1> QED BY <1>1, TelemetryInvariant, PTL
=============================================================================
