SPECIFICATION Spec
CONSTANTS
  Devices = {d1, d2}
  Requests = {q1, q2}
  NoDevice = NoDevice
  MaxTokens = 3
  MaxUpsets = 2
SYMMETRY TokenSymmetry
INVARIANTS
  TypeOK
  OrphanPerUpset
  StrandedByUpset
  AlarmHasCause
