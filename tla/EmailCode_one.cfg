\* Two sends to one address, one login client that calls consume() again and
\* again, two allowed mismatches, one call that dies half-way.
SPECIFICATION FairSpec
CONSTANTS
  Sends = {s1, s2}
  NoSend = NoSend
  Consumers = {c1}
  MaxWrong = 2
  MaxCrashes = 1
  SlowMail = FALSE
 
PROPERTIES BurnedIsDead  ResendPossible
CHECK_DEADLOCK FALSE
