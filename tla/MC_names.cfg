\* Names up to two characters over the limit.
SPECIFICATION Spec
CONSTANTS
  Characters = {"lower", "space", "quote", "unprintable"}
  MaxLength = 5
  maxEmailAddressLength = 3
  maxPasskeyNameLength = 3
INVARIANTS AcceptsOnlyPasskeyNames
\* Nothing can be typed into a full field.
CHECK_DEADLOCK FALSE
