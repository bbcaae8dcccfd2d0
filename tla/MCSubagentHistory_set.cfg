\* Two varbinds per SET; 0 is illegal for two of the objects.
CONSTANTS
  ScalarNames = {"tempThresholdMilliC", "sampleIntervalSec"}
  ColumnNames = {"portAdminStatus", "portAlarmThresholdMilliC"}
  Ports = {1, 2}
  Provisioned = {1}
  NoValue = NoValue
  Values = {0, 2}
  Managed <- SetManaged
  MaxVarbinds = 2
  CpuSamples = {}
  Faults = {"read", "write"}
SPECIFICATION HSpec
INVARIANTS TypeOK StoredLegal ShippedAnswered RollbackExact AckedStored
PROPERTY ConfigKept
