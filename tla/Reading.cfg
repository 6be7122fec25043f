SPECIFICATION Spec
CONSTANTS
  Locals = {a, b}
  None = None
  Clients <- ClientsMC
SYMMETRY Symmetric
CHECK_DEADLOCK FALSE
INVARIANTS UsesAsRead LocalsAsWritten
