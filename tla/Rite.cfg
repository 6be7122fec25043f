SPECIFICATION Spec
CONSTANTS
  Base = 8
  Depth = 3
  PoolMax = 2
  SymCap = 1
  SymMax = 3
  Clients <- ClientsMC
CHECK_DEADLOCK FALSE
INVARIANTS SizesFit FileSaysWhatWasAsked IrepsSayWhatWasAsked RewriteIsIdentity StripsAlike
