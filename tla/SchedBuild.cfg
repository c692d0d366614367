SPECIFICATION FairSpec
CONSTANTS
  Edges <- FourteenEdges
  Inputs <- ResumeInputs
  Fan = {3, 5, 6, 8, 9, 11, 12}
  ThreadSafe = {5, 8, 9}
  Alias = {2, 10}
  MayTake = {5, 8, 9, 11}
  Produced <- ResumeProduced
  Paths <- OwnPaths
  Outputs = {13}
  BuildAlso = {3}
  Satisfied = {1}
  KeepItems = FALSE
  Faulty <- FourteenEdges
  Workers = {w1, w2, w3}
  Whole = Whole
  None = None
INVARIANTS
  TakenIsNotRead
  NeverStalls
  SuccessIsComplete
  BuildInv
  NoLostWakeup
  KeysAreFinal
PROPERTIES
  ImplementsDataflow
  Terminates
  FailureStops
