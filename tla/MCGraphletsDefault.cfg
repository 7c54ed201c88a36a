SPECIFICATION Spec
CONSTANTS
  Cfgs <- OneEdge
  Sizes = {2}
  EdgeTypes = {1, 5}
  ColorMap <- MCColorMap
  BranchMap <- MCBranchMap
  NOCOLOR = 15
  NOBRANCH = 24
  Insns <- MCInsns
  LastInsn <- MCLastInsn
  MaxNodes = 5
  Base = 16
  ILLEGAL = 5
  NOP = 6
  WILD = 10
  Codes <- MCCodes
  IdiomSizes = {1}
INVARIANTS
  StringsOfDefaultModel
