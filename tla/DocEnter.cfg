CONSTANTS
  None = None
  Empty = ""
  LikeFalse <- TheLikeFalse
  Types <- TheTypes
  Members <- TheMembers
  Texts <- TheTexts
  Query <- TheQueries
  MaxResultsDisplay = 5
  MaxTyped = 1
  MaxEnters = 1
SPECIFICATION LoadingSpec
PROPERTIES EnterOpens
CHECK_DEADLOCK FALSE
