SPECIFICATION Spec
CONSTANTS
  Name <- MCName
  Up = up
  Index = index
  Pages <- MCPages
  Libraries <- MCLibraries
  MaxDepth = 5
  up = up
  index = index
  sub = sub
  a = a
  site = site
  star = star
  MaxLines = 2
INVARIANTS TocFollowsLists TocPassesPack StrictPackIsNavigable
PROPERTY TreeGetsBuilt
CHECK_DEADLOCK FALSE
