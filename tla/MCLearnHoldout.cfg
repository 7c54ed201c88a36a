CONSTANTS
  Groups = {1, 2}
  Memory = 3
  Past = 2
  Every = 2
  MaxIterations = 8
  InverseDelta = 100
  Fates <- MCFates
  STRAY = STRAY
  NONE = NONE
  CUT = CUT
  FAILED = FAILED
  Commands <- MCCommands
  MaxCommands = 1
  MaxKills = 0
SPECIFICATION LearnSpec
INVARIANT HoldoutIsUnseen
