SPECIFICATION AlgorithmsSpec
CONSTANTS
  HoldBack = 4
  K = 60
  Scale = 476532
  ClaimsEach = 2
  MaxChild = 2
  MaxFragments = 5
  MaxPages = 3
  MaxCandidates = 4
  Answers <- MCAnswers
  Rankings <- MCRankings
  Claimed <- MCClaimed
  Searches <- MCSearches
  Parsed <- MCParsed
INVARIANTS
  OnlyUnknownMarkersVanish
  NoUnknownMarkerIsShown
  FusionIsMonotone
  DuplicatesYield
  SelectionHolds
  ChildrenTileTheirParent
CHECK_DEADLOCK FALSE
