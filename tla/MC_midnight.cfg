\* A day has four ticks: creation before, at and after a midnight is told apart.
SPECIFICATION Spec
CONSTANTS
  Users = {u1, u2}
  SignupSessions = {s1}
  Schemas = {a, b}
  Null = Null
  Day = 4
  MaxAge = 12
INVARIANTS TypeOK SchemaMatches AccountsExpire SignupsExpire
PROPERTIES Expiry
