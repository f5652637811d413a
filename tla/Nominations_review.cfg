\* Two requests of one voter whose lock may run out, four urls, two reviews.
SPECIFICATION Spec
CONSTANTS
  Requests <- MCRequests
  VoterOf <- MCVoterOf
  NoRequest = "none"
  Urls <- MCUrls
  Title <- MCTitle
  WorkOf <- MCWorkOf
  Udid <- MCUdid
  Allowed <- MCAllowed
  Date <- MCDate
  Batches <- MCBatches
  MaxItems = 2
  None = None
  MaxReviews = 2
INVARIANTS OneNominationPerWork AnswersAreTrue CountsVoters
CHECK_DEADLOCK FALSE
