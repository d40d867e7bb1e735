SPECIFICATION Spec
CONSTANTS
  x1 = x1
  x2 = x2
  None = None
  Hidden = Hidden
  Embedded = 2
  Files <- MCFiles
  FirstFile = x1
INVARIANTS
  ChoiceHonoured
  OneRenderer
