CONSTANTS
  Word = 2
  RootCnt <- SixAndTwo
  PushCnt <- FiveAndTwo
  LastPage = 5
SPECIFICATION Spec
INVARIANT OneHolder
INVARIANT CountsAgree
CHECK_DEADLOCK FALSE
