CONSTANTS
  NSensors = 2
  MaxSerial = 4
  Wrap = 3
  NoCell = NoCell
SPECIFICATION Spec
INVARIANTS GenErrMeansFailure NoHoles ReadBackwards CountsSinceBoot
