CONSTANTS
  None = None
  Empty = ""
  LikeFalse <- TheLikeFalse
  Types <- TheTypes
  Members <- TheMembers
  Texts <- TheTexts
  Query <- TheQueries
  MaxResultsDisplay = 5
  MaxTyped = 3
  MaxEnters = 2
SPECIFICATION FairSpec
INVARIANTS HighlightIsShown ShownIsLastSearch DelayEnds OneOrder
  AllTermsShown
PROPERTIES EnterAnswered
CHECK_DEADLOCK FALSE
