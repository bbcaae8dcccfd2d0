\* 1600 - 500 = 1100 is the boundary of the hysteresis band.
CONSTANTS
  ScalarNames = {"tempThresholdMilliC"}
  ColumnNames = {}
  Ports = {}
  Provisioned = {}
  NoValue = NoValue
  Values = {1000, 1600}
  Managed <- AlarmManaged
  MaxVarbinds = 2
  CpuSamples = {1100, 1101, 1700}
  Faults = {}
SPECIFICATION HFairSpec
INVARIANTS NoRepeatedTrap ExactlyOneTrap
PROPERTIES AlarmRaised AlarmCleared
