CONSTANTS
  L = 2
  A = 2
  Features <- MCFeatures
  Trainset <- MCTrainset
  Testset <- MCTestset
  OnlineOptions <- MCOnlineOptions
  SquareRoot <- MCSquareRoot
  SgdOptions <- MCSgdOptions
  Outcomes <- MCOutcomes
  INFINITE = INFINITE
  SearchOptions <- MCSearchOptions
  Slopes <- MCSlopes
  Evaluations <- MCEvaluations
  Ratio <- MCRatio
  Problems <- MCProblems
  RawDirections <- MCRawDirections
  Steps <- MCSteps
  FTol <- MCFTol
  MinStep <- MCMinStep
  MaxTrials = 4
  LastIteration = 4
  MaxResumes = 1
  Groups = {1, 2}
  Memory = 3
  Past = 2
  Every = 2
  MaxIterations = 8
  InverseDelta = 100
  Fates <- MCFates
  STRAY = STRAY
  NONE = NONE
  CUT = CUT
  FAILED = FAILED
  Commands <- MCCommands
  MaxCommands = 3
  MaxKills = 2
SPECIFICATION Spec
INVARIANTS
  StateIsOfItsIterations InterruptedLearnsTheSame
  AverageIsMean UpdatesReachTheMargin FactorIsExact BestIsKept
  IntervalHoldsTheMinimum StepKeepsItsConditions
  OrthantwiseDescent ConvergedIsMinimum
\* A training returns.
CHECK_DEADLOCK FALSE
