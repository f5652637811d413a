\* Four voters, chunks of two winners, two batches, two users of the site.
SPECIFICATION ImportSpec
CONSTANTS
  Dump <- MCDump
  Skipped <- MCSkipped
  None = "None"
  ChunkSize = 2
  Limits <- WholeDump
  Batches = {"b1", "b2"}
  Residents = {r, s}
  NoUser = NoUser
  MaxVisits = 3
INVARIANTS GroupsStayTogether FinishedAccounts
PROPERTY ResidentsStay
CHECK_DEADLOCK FALSE
