\* Two jobs of one run (a retry beside the first attempt) over two collections,
\* batches of two; the first document cannot be mapped, the second is present.
SPECIFICATION Spec
CONSTANTS
  raw = raw
  rank = rank
  Collections <- MCCollections
  Size <- MCSize
  Unmappable <- MCUnmappable
  Refused <- MCNone
  Present <- MCPresent
  BatchSize = 2
  Runs = {r1}
  Jobs = {w1, w2}
  NoRun = NoRun
  Clients = {TRUE, FALSE}
INVARIANTS  CompletedCovers
 
CHECK_DEADLOCK FALSE
