CONSTANTS
  ScalarNames = {"tempThresholdMilliC", "sampleIntervalSec"}
  ColumnNames = {"portAdminStatus", "portAlarmThresholdMilliC"}
  Ports = {1, 2}
  Provisioned = {1}
  NoValue = NoValue
  Values = {1, 2}
  Managed <- RollbackManaged
  MaxVarbinds = 2
  CpuSamples = {}
  Faults = {"read", "write"}
SPECIFICATION HSpec
INVARIANT NoAcknowledgedWriteLost
