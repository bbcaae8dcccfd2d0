-------------------------- MODULE MCSubagentHistory --------------------------
(* Instances of SubagentHistory for TLC. *)
EXTENDS SubagentHistory

(* One persistent scalar; one persistent and one volatile column, so that  *)
(* a row spans both environments; row 1 provisioned, row 2 left over from  *)
(* a firmware with more ports.                                             *)
SetManaged == {<<"sampleIntervalSec", 0>>, <<"portAdminStatus", 2>>,
               <<"portAlarmThresholdMilliC", 1>>, <<"portAlarmThresholdMilliC", 2>>}

(* A persistent scalar and the cell of a left-over row that may be missing. *)
RollbackManaged == {<<"sampleIntervalSec", 0>>, <<"portAlarmThresholdMilliC", 2>>}

(* The threshold alone, for the alarm. *)
AlarmManaged == {Threshold}
=============================================================================
