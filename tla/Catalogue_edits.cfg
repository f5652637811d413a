\* One importer with three uploads, one editor, the resource script and one reader.
SPECIFICATION FairSpec
CONSTANTS
  VIds <- MCVIds
  CIds <- MCCIds
  Names = {"n1", "n2", "n3"}
  OldIds = {"o1", "o2", "o3"}
  Works = {"w1", "w2"}
  Images = {"u"}
  None = None
  Importers = {imp}
  Editors = {ed}
  Readers = {rd}
  Watched = 1
  Batches <- MCBatches
  Seeds <- MCSeeds
  MaxCommits = 2
INVARIANTS WhitelistBuildable CacheFollowsCommits
PROPERTY PagesCatchUp
CHECK_DEADLOCK FALSE
