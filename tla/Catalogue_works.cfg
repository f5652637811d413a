\* As Catalogue_edits.cfg: a work that is answered with its id must exist.
SPECIFICATION Spec
CONSTANTS
  VIds <- MCVIds
  CIds <- MCCIds
  Names = {"n1", "n2", "n3"}
  OldIds = {"o1", "o2", "o3"}
  Works = {"w1", "w2"}
  Images = {"u"}
  None = None
  Importers = {imp}
  Editors = {ed}
  Readers = {rd}
  Watched = 1
  Batches <- MCBatches
  Seeds <- MCSeeds
  MaxCommits = 2
INVARIANTS AcknowledgedWorksExist
CHECK_DEADLOCK FALSE
