\* Two callers, one from an address with a budget of one query; two spellings of
\* one query and a query about nobody; a lock that may run out under its holder.
SPECIFICATION SearchSpec
CONSTANTS
  a = a
  b = b
  old = old
  m = m
  c1 = c1
  c2 = c2
  here = here
  nobody = nobody
  respelling = respelling
  spelling = spelling
  neither = neither
  pick = pick
  pair = pair
  Categories <- MCCategories
  Characters = "character"
  QueryNames = {"A", "B", "M", "Z"}
  Tokens = {a, b, old, m}
  Canonical <- MCCanonical
  Named <- MCNamed
  MaxAtoms = 6
  MaxDepth = 4
  Callers = {c1, c2}
  Asks <- MCAsks
  Typed <- MCTyped
  NoQuery = NoQuery
  Address <- MCAddress
  NoAddress = NoAddress
  Everyone = Everyone
  Limit <- MCLimit
  v1 = v1
  v2 = v2
  Voters = {v1, v2, v3}
  Early <- MCEarly
  Late <- MCLate
  Content <- MCContent
  Nothing = Nothing
  NoOne = NoOne
  MaxPolls = 1
  MaxClock = 1
  MaxCast = 1
  MayOverrun = TRUE
  SharedSeconds = FALSE
INVARIANTS AnswersTheQuestion FilteredIsNotOlder 
PROPERTY EveryCallerEnds
CHECK_DEADLOCK FALSE
