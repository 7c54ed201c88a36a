SPECIFICATION Spec
CONSTANTS
  old = old  new = new  g = g  h = h  x = x
  Binaries = {old, new}
  Name <- MCName
  Extractions <- MCExtractions
  Text <- MCText
  Feat <- MCFeat
  Features = {g, h, x}
  Kept = {g, x}
  EndAddr <- MCEndAddr
  Labels = {1, 12}
  CutTo <- MCCutTo
  CUT = CUT  BLANK = BLANK  NONE = NONE
  MaxRuns = 2
INVARIANTS
  ChainOfAdjacentFunctions
