SPECIFICATION FairSpec
CONSTANTS
  PIPE_BUFFER_SIZE = 5
  MAX_CMDS = 3
  LINE_SIZE = 3
  Words = {"echo", "grep", "cat", "b", "ab", "abab"}
  Bar = "|"
  Space = "_"
  Chars = {"a", "b", "n"}
  Newline = "n"
  Text <- MCText
  Said <- MCSaid
  Report <- MCReport
  Complaint <- MCComplaint
  Content <- MCContent
  InputLines <- MCLines
INVARIANTS PipeInBounds PipelineComposes
PROPERTIES LinesEnd
