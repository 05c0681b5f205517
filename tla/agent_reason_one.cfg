SPECIFICATION Spec
CONSTANTS
  NumQuestions = 1
  LlmIteration = 3
  DeleteCounter = 3
  WaIds = {w1}
  ThreadIds = {t1}
  None = None
  RunOutcomes = {"completed"}
  Activities <- MCActivities1
  MaxLives = 1
INVARIANT ReasonOneMeansBuildFailure
