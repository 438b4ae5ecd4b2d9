SPECIFICATION Spec
CONSTANTS
  Limit = 2
  Cap = 4
  Keep = 2
  MaxCalls = 8
INVARIANTS
  NewestKept
  OutageTolerated
  NoRepeatUnlessUnacked
PROPERTIES
  LossOnlyInOutage
  KeepsTheLog
