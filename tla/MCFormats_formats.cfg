\* Six-valued bytes and two-byte words; strings of two digits.
CONSTANTS
  Base = 6
  Word = 2
  Reserved = 1
  MaxBytes = 3
  MaxSubids = 2
  MaxForeign = 5
  Radix = 2
  MaxSubid = 2
  TABLE_ROW_SUBID_MAX = 3
  STORAGE_KEY_MAX = 7
  MaxLen = 7
SPECIFICATION Spec
INVARIANTS RoundTrip RustSubsetOfC FitsOrTellsHowMuch ParseExact ParsersAgree SameKeys
CHECK_DEADLOCK FALSE
