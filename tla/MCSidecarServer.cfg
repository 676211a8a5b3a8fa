CONSTANTS
  N = 4
  Cap = 1
SPECIFICATION FairSpec
PROPERTIES
  AnswersFrames
  FramesAnswered
CHECK_DEADLOCK FALSE
