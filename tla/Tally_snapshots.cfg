\* Two voters with or without a legacy row, two computations, two commits of voters
\* and administrators; the lock outlives every computation.
SPECIFICATION Spec
CONSTANTS
  Voters = {v1, v2}
  Tokens <- MCTokens
  Candidates <- MCCandidates
  Unlisted = 0
  Canonical <- MCCanonical
  SystemId <- MCSystemId
  Categories <- MCCategories
  Ballots <- MCBallots
  Legacy <- MCLegacy
  Papers <- MCPapers
  Gender = "gender"
  Label <- MCLabel
  Times <- MCTimes
  TotalHours = 2
  Computations = {c1, c2}
  NoOne = NoOne
  Nothing = Nothing
  MaxCommits = 2
  MayOverrun = FALSE
INVARIANTS RankingIsCompetition NetDeltaIsCount  SectionsAgree
 
SYMMETRY Interchange
CHECK_DEADLOCK FALSE
