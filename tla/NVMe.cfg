CONSTANTS
  Tasks = {t1, t2}
  Ques = {q1, q2}
  Size = 2
  CmplSize = 3
  None = none
SPECIFICATION Spec
INVARIANT OwnResult
PROPERTY AnsweredUnlessLapped
CHECK_DEADLOCK FALSE
