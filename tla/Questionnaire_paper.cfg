\* One voter's paper, gate and readers (two requests) against one edit of each kind.
SPECIFICATION Spec
CONSTANTS
  v1 = v1
  None = None
  NoOne = NoOne
  MaxRounds = 8
  Voters = {v1}
  Jobs = {j1, j2}
  Editors = {e1}
  Tasks <- MCTasks
  Edits <- MCEdits
  Structures <- MCStructures
  OldPapers <- MCOldPapers
  MayOverrun = FALSE
INVARIANTS LatestIsOnePaper GateSoundWhenUnedited
PROPERTY StructureReachesReaders
