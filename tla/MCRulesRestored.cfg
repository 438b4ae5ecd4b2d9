SPECIFICATION Spec
CONSTANTS
  r1 = r1
  r2 = r2
  edit = edit
  bad = bad
  d1 = d1
  d2 = d2
  None = None
  Disk <- MCDisk
  Drafts <- MCDrafts
  Raising = {bad}
  Name <- MCName
  Threshold <- MCThreshold
  DryRuns <- MCDryRuns
  Window = 1
  MaxEvents = 3
INVARIANT
  RulesRestored
