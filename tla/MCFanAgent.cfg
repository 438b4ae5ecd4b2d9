SPECIFICATION Spec
CONSTANTS
  None = None
  Torn = Torn
  Temps = {1, 2, 3, 4, 5}
  OnLow = 3
  OnHigh = 5
  OffLow = 0
  OffHigh = 3
  Gap = 2
  DEFAULT_POLICY <- MCDefault
  Requests <- MCRequests
  MaxWrites = 2
  MaxFaults = 3
INVARIANTS
  TypeOK
  ForcedIsMax
  MaxIsKnown
PROPERTIES
  NoFlapping
  HotGetsCooled
  PolicyArrives
