CONSTANTS
  None = None
  Pages <- AllPages
  Messages <- TwoValues
  MaxEdits = 1
  MaxRuns = 2
  MaxReports <- AllReports
  Emptying <- MainPage
SPECIFICATION FairSpec
INVARIANTS AnswerDue ShownIsCurrent TableComplete CodeKept
PROPERTIES StopKillsOwn StopEnds FormatAnswered
CHECK_DEADLOCK FALSE
