SPECIFICATION FairSpec
CONSTANTS
  NumQuestions = 2
  LlmIteration = 2
  DeleteCounter = 2
  WaIds = {w1, w2}
  ThreadIds = {t1, t2}
  None = None
  RunOutcomes = {"completed"}
  Activities <- MCActivities
  MaxLives = 1
PROPERTIES
  EveryQuestionEnds
  ImplementsRepairLoop
