SPECIFICATION Spec
CONSTANTS
  NumQuestions = 2
  LlmIteration = 2
  DeleteCounter = 2
  WaIds = {w1, w2}
  ThreadIds = {t1, t2, t3}
  None = None
  RunOutcomes = {"completed", "failed"}
  Activities <- MCActivities
  MaxLives = 2
SYMMETRY Symmetry
INVARIANTS
  TypeOK
  OneProgramPerAttempt
  AnswerFollowsTrace
  MeasuresOwnTrace
  ReasonThreeMeansRan
  ThreadReleased
  DeleteNeverFails
  LeaksOnlyByCrash
