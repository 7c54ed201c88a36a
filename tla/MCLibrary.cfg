SPECIFICATION Spec
CONSTANTS
  Subjects = {"tree", "trainer", "tagger", "encoder", "model file", "sequence", "objects"}
  a1 = a1
  a2 = a2
  a3 = a3
  x = x
  y = y
  z = z
  NumRecords = 7
  L = 2
  A = 2
  Features <- MCFeatures
  Trainset <- MCTrainset
  Testset <- MCTestset
  WeightVectors <- MCWeightVectors
  Scales <- MCScales
  MaxCalls = 3
  NoString = NoString
  Sequences <- MCSequences
  Declared <- MCDeclared
  Names <- MCNames
  Texts <- MCTexts
  MaxDataCalls = 4
  MaxSettings = 3
  ModelFiles <- MCModelFiles
  ItemRows <- MCItemRows
  LabelRows <- MCLabelRows
  MaxTaggerCalls = 4
  Elements = {x, y}
  NewElement = x
  Absent = Absent
  MaxLength = 2
  Arguments <- MCArguments
  Indices <- MCIndices
  Slices <- MCSlices
  NumTables = 2
  Hash <- MCHash
  SavedModels <- MCSavedModels
  StringSize <- MCStringSize
  MaxObjects = 3
  MaxProxies = 3
  MaxBadLists = 1
INVARIANTS
  TreeIsThreadedAvl
  TrainsAsAsked
  TaggerAnswersAreTrue
  EncoderAnswersAreTrue
  FileIsTheModelOrEmpty
  SequenceActsAsList
  OwnershipIsSound
PROPERTY ImplementsRecordSet
\* Callers may stop at any call.
CHECK_DEADLOCK FALSE
