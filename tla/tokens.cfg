SPECIFICATION Spec
CONSTANTS
  Processes = {p1, p2}
  NoProcess = NoProcess
  MaxTokens = 3
SYMMETRY ProcessSymmetry
CHECK_DEADLOCK FALSE
INVARIANTS LoginKept SpentIsReplaced
