SPECIFICATION PipelineSpec
CHECK_DEADLOCK FALSE
CONSTANTS
  Docs = {d1}
  Groups = 2
  MaxStarts = 1
  ReadyPolls = 1
INVARIANT WholeDocumentRead
