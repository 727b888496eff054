SPECIFICATION PipelineSpec
CHECK_DEADLOCK FALSE
CONSTANTS
  Docs = {d1}
  Groups = 2
  MaxStarts = 2
  ReadyPolls = 1
INVARIANTS PipelineTypeOK OneLiveCapture ReadInOrder FaithfulOnceChosen QuietOnceDisposed
PROPERTIES FailureIsTold EveryStartSettles
