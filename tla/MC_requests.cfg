\* Texts of seven characters hold the shortest address with two characters to
\* spare, and one more than the longest that is accepted here.  Fixed sizes of
\* authenticator data are small, so that every byte meets every damage.
\* One processor, so that readers and hashes wait for each other too, and three
\* workers, so that two wait for the third.
SPECIFICATION RequestsSpec
CONSTANTS
  Characters = {"lower", "period", "plus", "at", "other"}
  MaxLength = 7
  maxEmailAddressLength = 6
  maxPasskeyNameLength = 6
  HashSize = 1
  AAGUIDSize = 1
  CoordinateSize = 1
  ModulusSize = 2
  MaxCredentialIdLength = 2
  CredProtect <- Name
  IsOnCurve <- Curve
  Sent <- SomeAuthenticators
  Damaged <- Bytes
  MaxDamage = 2
  None = None
  Workers = {w1, w2, w3}
  Plans <- HandlerPlans
  NumCPU = 1
INVARIANTS
  AcceptsExactlyAddresses ReadsWhatWasWritten NothingIsOverlooked KeysStayUsable
  PutBackClean
PROPERTIES EveryoneIsAnswered
\* Nothing can be typed into a full field, and damage is bounded.
CHECK_DEADLOCK FALSE
