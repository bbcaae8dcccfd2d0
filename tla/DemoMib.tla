------------------------------ MODULE DemoMib ------------------------------
(***************************************************************************)
(* The writable half of AGENTX-DEMO-MIB as the generated C code implements *)
(* it: which objects there are, which LMDB environment each lives in, what *)
(* RESERVE1 accepts, what the IPC allowlist accepts, and what bootstrap    *)
(* writes when the key is missing.                                         *)
(*                                                                         *)
(* An object is a pair <<name, instance>>.  A scalar has instance 0, as in *)
(* SNMP; a cell of portConfigTable has its row number.  A value is an      *)
(* integer; an octet string stands by its length, the only thing any       *)
(* handler looks at.                                                       *)
(***************************************************************************)
EXTENDS Integers

CONSTANTS ScalarNames,   \* the scalars the instance has
          ColumnNames,   \* the columns of portConfigTable it has
          Ports,         \* the row numbers a manager may name
          Provisioned,   \* 1..TABLE_ROWS_portConfigTable: the rows bootstrap seeds
          NoValue        \* the key is not in its environment

(***************************************************************************)
(* One record per generated handler.  The handlers are instances of two    *)
(* mib2c templates, so a record holds everything in which one differs from *)
(* the next: the range RESERVE1 accepts, and which environment the handler *)
(* picks (storage_mode.h).                                                 *)
(***************************************************************************)
handle_deviceName          == [lo |-> 0,      hi |-> 63,     home |-> "config"]
handle_tempThresholdMilliC == [lo |-> -40000, hi |-> 125000, home |-> "cache"]
handle_adminStatusExt      == [lo |-> 1,      hi |-> 3,      home |-> "config"]
handle_sampleIntervalSec   == [lo |-> 1,      hi |-> 86400,  home |-> "config"]
portDescr                  == [lo |-> 0,      hi |-> 63,     home |-> "config"]
portAdminStatus            == [lo |-> 1,      hi |-> 3,      home |-> "config"]
portAlarmThresholdMilliC   == [lo |-> -40000, hi |-> 125000, home |-> "cache"]

Handler(o) ==
  CASE o[1] = "deviceName"               -> handle_deviceName
    [] o[1] = "tempThresholdMilliC"      -> handle_tempThresholdMilliC
    [] o[1] = "adminStatusExt"           -> handle_adminStatusExt
    [] o[1] = "sampleIntervalSec"        -> handle_sampleIntervalSec
    [] o[1] = "portDescr"                -> portDescr
    [] o[1] = "portAdminStatus"          -> portAdminStatus
    [] o[1] = "portAlarmThresholdMilliC" -> portAlarmThresholdMilliC

(* The values RESERVE1 lets through. *)
Legal(o) == Handler(o).lo .. Handler(o).hi

(* Whether the object lives in config.lmdb (kept) or cache.lmdb (tmpfs). *)
Persistent(o) == Handler(o).home = "config"

(* g_config_objects: the ranges the IPC server checks, kept by hand. *)
g_config_objects(o) ==
  CASE o[1] = "deviceName"          -> [min |-> 0,      max |-> 63]
    [] o[1] = "tempThresholdMilliC" -> [min |-> -40000, max |-> 125000]
    [] o[1] = "adminStatusExt"      -> [min |-> 1,      max |-> 3]
    [] o[1] = "sampleIntervalSec"   -> [min |-> 1,      max |-> 86400]

IpcRange(o) == g_config_objects(o).min .. g_config_objects(o).max

(* The DEFVALs; "agentx-demo" has length 11, "port" length 4. *)
DefVal(o) ==
  CASE o[1] = "deviceName"               -> 11
    [] o[1] = "tempThresholdMilliC"      -> 70000
    [] o[1] = "adminStatusExt"           -> 1
    [] o[1] = "sampleIntervalSec"        -> 60
    [] o[1] = "portDescr"                -> 4
    [] o[1] = "portAdminStatus"          -> 1
    [] o[1] = "portAlarmThresholdMilliC" -> 80000

(* Seeded for cpuTempMilliC, the one telemetry scalar the alarm reads. *)
CpuDefVal == 0

Scalars   == ScalarNames \X {0}
Cells     == ColumnNames \X Ports
Objects   == Scalars \cup Cells
Threshold == <<"tempThresholdMilliC", 0>>

Shipped_CellsOnly == ColumnNames \X Provisioned

(* What bootstrap seeds: every scalar, and the cells of provisioned rows. *)
Shipped == Scalars \cup (ColumnNames \X Provisioned)

ASSUME MibAssumption ==
  /\ ScalarNames \subseteq {"deviceName", "tempThresholdMilliC",
                            "adminStatusExt", "sampleIntervalSec"}
  /\ "tempThresholdMilliC" \in ScalarNames
  /\ ColumnNames \subseteq {"portDescr", "portAdminStatus",
                            "portAlarmThresholdMilliC"}
  /\ Ports \subseteq Nat \ {0}
  /\ Provisioned \subseteq Ports
  /\ NoValue \notin Int
=============================================================================
