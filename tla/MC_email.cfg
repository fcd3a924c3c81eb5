SPECIFICATION Spec
CONSTANTS
  Requests = {r1, r2}
  EmailAddresses = {e1, e2, e3, e4}
  WebauthnCredentials = {c1}
  Null = Null
  e1 = e1
  e2 = e2
  e3 = e3
  e4 = e4
  c1 = c1
  c2 = c2
  c3 = c3
  Handlers <- EmailHandlers
  InitialAccounts <- EmailAccounts
  MaxIssued <- EmailBounds
  maxPasskeyCountLimit = 2
  OwnPasskeysOnly = TRUE
SYMMETRY Symmetry
INVARIANTS CodesFollowAddress NoSharedIdentifiers VerificationPairing ReadsStayTrue
PROPERTIES CommitsWhatWasChecked
CONSTRAINT SignupWithOneChange
