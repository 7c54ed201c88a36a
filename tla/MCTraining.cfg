SPECIFICATION Spec
CONSTANTS
  b1 = b1
  b2 = b2
  b3 = b3
  f1 = f1
  f2 = f2
  f3 = f3
  f4 = f4
  CUT = CUT
  NONE = NONE
  Binaries <- MCBinaries
  Features <- MCFeatures
  Dir <- MCDir
  Toolchain <- MCToolchain
  Name <- MCName
  Extractions = {1, 2}
  Text <- MCText
  CutTo <- MCCutTo
  Feat <- MCFeat
  FileLists <- MCFileLists
  Keep = 2
  MaxRounds = 2
  MaxDeaths = 1
INVARIANTS
  TrainedAsIdentified
  DataOfWholeExtractions
  ChainsAreBinaries
