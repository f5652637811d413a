\* One voter with a gated table, a paper table and structured answers, two
\* requests by any route that may crash, a clock that may tick, a lock that
\* outlives every handler.
SPECIFICATION FairSpec
CONSTANTS
  Voters = {v1}
  Requests = {r1, r2}
  NoRequest = NoRequest
  NoJob = NoJob
  Gated = {character}
  Answering = {v1}
  Paper = paper
  bot = bot
  human = human
  FillTimes <- MCFillTimes
  NoFill = NoFill
  LegacyTables <- MCLegacyTables
  MaxClock = 1
  MayOverrun = FALSE
INVARIANTS AttemptsSerial FirstFillKept TallyReadsLastCommit GatedBallotsAreEntitled
PROPERTIES BoxSpec LockEventuallyFree
CHECK_DEADLOCK FALSE
