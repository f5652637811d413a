\* Two reloads beside a request, an edit and an outage.
SPECIFICATION ConfigSpec
CONSTANTS
  a = a
  Values = {a}
  Default = dflt
  LocalFile <- MCLocalFile
  Requests = {q1}
  Reloads = {r1, r2}
  Engines = {1, 2, 3, 4}
  MaxEdits = 1
  MaxOutages = 1
  MaxStarts = 1
INVARIANTS EngineFollowsSettings
 
CHECK_DEADLOCK FALSE
