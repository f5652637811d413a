\* One imported account and one id that may be registered, two addresses and two
\* openids, two requests of any kind, bans; deleted accounts stay deleted.
SPECIFICATION Spec
CONSTANTS
  old = old
  fresh = fresh
  m1 = m1
  m2 = m2
  q1 = q1
  q2 = q2
  Accounts = {old, fresh}
  Subjects = {m1, m2, q1, q2}
  Provider <- MCProvider
  Eligible = {"email"}
  Sso = {q1, q2}
  NoSubject = NoSubject
  Secrets = {p1}
  NoSecret = NoSecret
  Requests = {r1, r2}
  Import = Import
  Imported <- OneImported
  NoJob = NoJob
  NoCopy = NoCopy
  RestoreDeleted = FALSE
INVARIANTS HasIdentity VoteTokenProven
PROPERTIES NoHandover LoginKeepsIdentities
SYMMETRY Symmetry
CHECK_DEADLOCK FALSE
