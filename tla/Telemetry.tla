----------------------------- MODULE Telemetry -----------------------------
(***************************************************************************)
(* The keys of cache.lmdb that the Rust telemetry program writes           *)
(* (rust-app/src/bin/telemetry.rs), the subagent that seeds and serves     *)
(* them (cache_bootstrap_defaults, demo_status.c), and a manager that      *)
(* polls.  Each scalar is a transaction of its own, each sensor row one    *)
(* transaction; either process dies anywhere and is started again; a power *)
(* cycle empties the cache, which is on tmpfs.                             *)
(*                                                                         *)
(* A cell carries the number of the sample that wrote it (0: the seed),    *)
(* counted since the device came up, beside the number a manager is shown. *)
(***************************************************************************)
EXTENDS Integers, Sequences

CONSTANTS NSensors,    \* SENSORS.len(); the code has three
          MaxSerial,   \* bound: samples between two power cycles
          Wrap,        \* values of a uint32_t: 2^32 in the code
          NoCell

ASSUME TelemetryAssumption ==
  /\ NSensors \in Nat \ {0}
  /\ MaxSerial \in Nat /\ Wrap \in Nat \ {0, 1}
  /\ NoCell \notin [type : {"Int32", "Uint32", "Bytes"}, serial : Nat, shown : Nat]

(* Row instances: a sensor's position plus one. *)
Sensors == 1 .. NSensors

Scalars == {<<s, 0>> : s \in {"cpuTempMilliC", "sampleCount", "lastUpdateEpoch", "statusText"}}
SENSOR_COLUMNS == {"sensorName", "sensorTempMilliC", "sensorSampleCount"}
Row(r) == {<<col, r>> : col \in SENSOR_COLUMNS}
Keys == Scalars \cup UNION {Row(r) : r \in Sensors}

VARIABLES cache,       \* key -> cell, or NoCell
          agent,       \* the subagent: "down", "up"
          proc,        \* telemetry: "off", "ready", "sampling", "asleep"
          step,        \* transactions of run_once done
          count,       \* sample_count, a u64
          serial,      \* samples begun since the device came up
          clearing,    \* the row telemetry --clear-sensor-rows deletes next, or 0
          restarted,   \* telemetry was started again after a sample of this boot
          answer,      \* what the last GET was answered with
          failed,      \* a storage call of that GET failed
          seen         \* an answer the manager remembers: its key and its sample

polled == <<answer, failed, seen>>
vars   == <<cache, agent, proc, step, count, serial, clearing, restarted, polled>>

NothingSeen == [key |-> <<"statusText", 0>>, serial |-> 0]

Init ==
  /\ cache = [k \in Keys |-> NoCell]
  /\ agent = "down" /\ proc = "off"
  /\ step = 0 /\ count = 0 /\ serial = 0
  /\ clearing = 0 /\ restarted = FALSE
  /\ answer = "none" /\ failed = FALSE /\ seen = NothingSeen

-----------------------------------------------------------------------------
(* Three tables that nothing but care keeps equal: the type telemetry      *)
(* writes, the type the bootstrap writes, and the type a GET handler asks  *)
(* storage for.                                                            *)
PutType_Wide(name) ==
  CASE name \in {"cpuTempMilliC", "sensorTempMilliC"} -> "Int32"
    [] name \in {"sampleCount", "lastUpdateEpoch"} -> "Uint64"
    [] name = "sensorSampleCount" -> "Uint32"
    [] OTHER -> "Bytes"

PutType(name) ==
  CASE name \in {"cpuTempMilliC", "sensorTempMilliC"} -> "Int32"
    [] name \in {"sampleCount", "lastUpdateEpoch", "sensorSampleCount"} -> "Uint32"
    [] OTHER -> "Bytes"

SeedType(name) ==
  CASE name = "cpuTempMilliC" -> "Int32"
    [] name \in {"sampleCount", "lastUpdateEpoch"} -> "Uint32"
    [] name = "statusText" -> "Bytes"

(* The storage_get_ call of each scalar's handler, and of each column of   *)
(* handle_sensorTable.                                                     *)
ScalarGetType(name) ==
  CASE name = "cpuTempMilliC" -> "Int32"
    [] name \in {"sampleCount", "lastUpdateEpoch"} -> "Uint32"
    [] name = "statusText" -> "Bytes"

ColumnGetType(name) ==
  CASE name = "sensorName" -> "Bytes"
    [] name = "sensorTempMilliC" -> "Int32"
    [] name = "sensorSampleCount" -> "Uint32"

GetType(k) == IF k \in Scalars THEN ScalarGetType(k[1]) ELSE ColumnGetType(k[1])

-----------------------------------------------------------------------------
(* Telemetry.  How long it sleeps is left open, and with it the interval   *)
(* that main reads from config.lmdb before the loop.                       *)
Start ==
  /\ proc = "off"
  /\ proc' = "ready" /\ count' = 0
  /\ restarted' = (restarted \/ serial > 0)
  /\ UNCHANGED <<cache, agent, step, serial, clearing, polled>>

BeginSample ==
  /\ proc \in {"ready", "asleep"} /\ serial < MaxSerial
  /\ proc' = "sampling" /\ step' = 0
  /\ count' = count + 1 /\ serial' = serial + 1
  /\ UNCHANGED <<cache, agent, clearing, restarted, polled>>

(* The transactions of run_once: the scalars, one by one, then the rows. *)
SCALARS_CountFirst == <<"sampleCount", "cpuTempMilliC", "lastUpdateEpoch", "statusText">>

SCALARS == <<"cpuTempMilliC", "sampleCount", "lastUpdateEpoch", "statusText">>

Writes == [i \in 1 .. (4 + NSensors) |-> IF i <= 4 THEN {<<SCALARS[i], 0>>} ELSE Row(i - 4)]

(* What is shown: the counters are cut to 32 bits; no property is about    *)
(* the other values.                                                       *)
Counters == {"sampleCount", "sensorSampleCount"}

Shown_Saturating(name) ==
  IF name \in Counters THEN (IF count < Wrap THEN count ELSE Wrap - 1) ELSE 0

Shown(name) == IF name \in Counters THEN count % Wrap ELSE 0

Cell(k) == [type |-> PutType(k[1]), serial |-> serial, shown |-> Shown(k[1])]

run_once ==
  /\ proc = "sampling" /\ step < Len(Writes)
  /\ cache' = [k \in Keys |-> IF k \in Writes[step + 1] THEN Cell(k) ELSE cache[k]]
  /\ step' = step + 1
  /\ UNCHANGED <<agent, proc, count, serial, clearing, restarted, polled>>

Sleep ==
  /\ proc = "sampling" /\ step = Len(Writes)
  /\ proc' = "asleep"
  /\ UNCHANGED <<cache, agent, step, count, serial, clearing, restarted, polled>>

(* An error from storage, --once, --iterations or a signal; systemd may    *)
(* start it again.                                                         *)
Exit ==
  /\ proc # "off"
  /\ proc' = "off"
  /\ UNCHANGED <<cache, agent, step, count, serial, clearing, restarted, polled>>

(* telemetry --clear-sensor-rows, a process of its own, which ends after   *)
(* the last row or at the first error.                                     *)
BeginClear ==
  /\ clearing = 0
  /\ clearing' = 1
  /\ UNCHANGED <<cache, agent, proc, step, count, serial, restarted, polled>>

NextRow == clearing' = IF clearing < NSensors THEN clearing + 1 ELSE 0

delete_row_ForgetsColumn ==
  /\ clearing # 0
  /\ cache' = [k \in Keys |-> IF k \in Row(clearing) /\ k[1] # "sensorSampleCount"
                                THEN NoCell ELSE cache[k]]
  /\ NextRow
  /\ UNCHANGED <<agent, proc, step, count, serial, restarted, polled>>

delete_row ==
  /\ clearing # 0
  /\ cache' = [k \in Keys |-> IF k \in Row(clearing) THEN NoCell ELSE cache[k]]
  /\ NextRow
  /\ UNCHANGED <<agent, proc, step, count, serial, restarted, polled>>

ClearFails ==
  /\ clearing # 0
  /\ clearing' = 0
  /\ UNCHANGED <<cache, agent, proc, step, count, serial, restarted, polled>>

-----------------------------------------------------------------------------
(* The subagent.  One transaction seeds the scalars that are not there; a  *)
(* key that is there is left alone, whatever its type.                     *)
SeedCell(k) == [type |-> SeedType(k[1]), serial |-> 0, shown |-> 0]

cache_bootstrap_defaults ==
  [k \in Keys |-> IF k \in Scalars /\ cache[k] = NoCell THEN SeedCell(k) ELSE cache[k]]

(* subagent_storage_init, as far as these keys go. *)
AgentStart ==
  /\ agent = "down"
  /\ agent' = "up"
  /\ cache' = cache_bootstrap_defaults
  /\ UNCHANGED <<proc, step, count, serial, clearing, restarted, polled>>

AgentExit ==
  /\ agent = "up"
  /\ agent' = "down"
  /\ UNCHANGED <<cache, proc, step, count, serial, clearing, restarted, polled>>

(* MODE_GET of handle_cpuTempMilliC and its siblings, and of a sensorTable *)
(* cell whose row the iterator found.  The manager may keep the answer, to *)
(* compare a later one with.                                               *)
Answer(k) ==
  CASE cache[k] = NoCell -> "noSuchInstance"
    [] cache[k] # NoCell /\ cache[k].type # GetType(k) -> "genErr"
    [] OTHER -> "value"

Get(k) ==
  /\ agent = "up"
  /\ answer' = Answer(k) /\ failed' = FALSE
  /\ \/ Answer(k) = "value" /\ seen' = [key |-> k, serial |-> cache[k].serial]
     \/ UNCHANGED seen
  /\ UNCHANGED <<cache, agent, proc, step, count, serial, clearing, restarted>>

(* Storage fails: any error but STORAGE_ERR_NOTFOUND is a genErr, and a    *)
(* row set that cannot be loaded has no rows.                              *)
GetFails(k) ==
  /\ agent = "up"
  /\ answer' \in IF k \in Scalars THEN {"genErr"} ELSE {"genErr", "noSuchInstance"}
  /\ failed' = TRUE
  /\ UNCHANGED <<cache, agent, proc, step, count, serial, clearing, restarted, seen>>

PowerCycle ==
  /\ cache' = [k \in Keys |-> NoCell]
  /\ agent' = "down" /\ proc' = "off"
  /\ step' = 0 /\ count' = 0 /\ serial' = 0
  /\ clearing' = 0 /\ restarted' = FALSE
  /\ answer' = "none" /\ failed' = FALSE /\ seen' = NothingSeen

Poll == \E k \in Keys : Get(k) \/ GetFails(k)

Next ==
  \/ Start \/ BeginSample \/ run_once \/ Sleep \/ Exit
  \/ BeginClear \/ delete_row \/ ClearFails
  \/ AgentStart \/ AgentExit \/ Poll
  \/ PowerCycle

Spec == Init /\ [][Next]_vars

-----------------------------------------------------------------------------
(* A GET is answered genErr only when storage failed in it: whichever of   *)
(* telemetry and bootstrap came first and whichever of them died, a cell   *)
(* has the type its handler asks for (docs/design.md A.6 is about the time *)
(* when it had not).                                                       *)
GenErrMeansFailure == answer = "genErr" => failed

(* While the subagent serves, each of the four scalars has a value, and    *)
(* rows are whole: there are no holes that a program of the repository     *)
(* made.                                                                   *)
NoHoles ==
  /\ agent = "up" => \A k \in Scalars : cache[k] # NoCell
  /\ \A r \in Sensors : \A k, l \in Row(r) : cache[k] = NoCell <=> cache[l] = NoCell

Rank(k) ==
  CASE k[1] = "cpuTempMilliC" -> 1 [] k[1] = "sampleCount" -> 2
    [] k[1] = "lastUpdateEpoch" -> 3 [] k[1] = "statusText" -> 4
    [] OTHER -> 4 + k[2]

(* A manager that reads in the reverse of the order telemetry writes never *)
(* combines a newer value with an older one: once it has seen sampleCount  *)
(* of a sample, or a row of it, the temperature it reads next is of that   *)
(* sample or a later one, across crashes and restarts of both programs.    *)
(* With one key for both it says that no answer is ever older than an      *)
(* earlier one, so the bootstrap of a restarted subagent resets nothing.   *)
ReadBackwards ==
  \A k \in Keys :
    (cache[k] # NoCell /\ (Rank(k) < Rank(seen.key) \/ k = seen.key))
      => cache[k].serial >= seen.serial

(* "Number of telemetry samples taken since boot", as a Counter32          *)
(* (AGENTX-DEMO-MIB.txt:94, and :241 for each sensor): modulo 2^32 that is *)
(* what the counters show, seeds and cells of an earlier sample included,  *)
(* for as long as one telemetry process has taken all the samples.  After  *)
(* a restart it is not, as main counts from 0 again.                       *)
CountsSinceBoot ==
  ~restarted =>
    \A k \in Keys : (k[1] \in Counters /\ cache[k] # NoCell)
                     => cache[k].shown = cache[k].serial % Wrap
=============================================================================
