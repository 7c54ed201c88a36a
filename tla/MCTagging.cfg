SPECIFICATION FairSpec
CONSTANTS
  a1 = a1
  a2 = a2
  a3 = a3
  NONE = NONE
  NumTables = 2
  Hash <- MCHash
  MaxNumber = 3
  Trainings <- MCTrainings
  DataFiles <- MCDataFiles
  Options <- MCOptions
INVARIANTS
  RankedByProbability
  LabelsInOrder
  EvaluationCountsWhatIsPrinted
PROPERTY TagReturns
