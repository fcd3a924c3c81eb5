\* The README's claim on the instance of MC_midnight.cfg.
SPECIFICATION Spec
CONSTANTS
  Users = {u1, u2}
  SignupSessions = {s1}
  Schemas = {a, b}
  Null = Null
  Day = 4
  MaxAge = 12
INVARIANTS DeletedAtMidnight
