CONSTANTS
  Thread = {t1, t2, t3}
  Height = 3
  Width = 2
  Depth = 2
SPECIFICATION Spec
INVARIANTS TypeOK ProgressInOrder AnswerIsTrue FewAfterAbort
PROPERTY OperationEnds
