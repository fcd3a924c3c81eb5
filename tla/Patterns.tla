----------------------------- MODULE Patterns -----------------------------
(***************************************************************************)
(* The checks of what users type: email addresses (email_address.go) and   *)
(* names of passkeys (passkey.go).  The state is the text of a form field, *)
(* and a step types one more character.  A character is its class, as far  *)
(* as the two functions tell characters apart.                             *)
(***************************************************************************)
EXTENDS Naturals, Sequences, SequencesExt

CONSTANTS
  Characters,             \* the classes that are typed
  MaxLength,              \* bound: on the text
  maxEmailAddressLength,  \* 100 in email_address.go
  maxPasskeyNameLength    \* 50 in passkey.go

\* "lower" stands for a-z, 0-9, - and _, which are allowed in both parts of
\* an address; "other" is printable ASCII that addresses do not allow.
Classes ==
  {"lower", "period", "plus", "at", "other", "space", "quote", "unprintable"}

ASSUME PatternsAssumption ==
  /\ Characters \subseteq Classes
  /\ {MaxLength, maxEmailAddressLength, maxPasskeyNameLength} \subseteq Nat

VARIABLE text

Positions(char) == {i \in DOMAIN text : text[i] = char}

-----------------------------------------------------------------------------
(* email_address.go *)

verifyEmailAddressLocalPart(part) ==
  part # <<>> /\ ToSet(part) \subseteq {"lower", "period", "plus"}

\* mutant: a period at the end is overlooked
NoLeadingPeriod(part) == Head(part) # "period"

NoPeriodAround(part) == Head(part) # "period" /\ Last(part) # "period"

verifyEmailAddressDomainPart(part) ==
  /\ part # <<>>
  /\ ToSet(part) \subseteq {"lower", "period"}
  /\ "period" \in ToSet(part)
  /\ NoPeriodAround(part)

WithCharacter(parts, char, separator) ==
  IF char = separator THEN Append(parts, <<>>)
  ELSE [parts EXCEPT ![Len(parts)] = Append(@, char)]

\* strings.Split: what is between the separators, of which there may be none.
Split(email, separator) ==
  LET parts[i \in 0..Len(email)] ==
        IF i = 0 THEN <<(<<>>)>>
        ELSE WithCharacter(parts[i - 1], email[i], separator)
  IN parts[Len(email)]

verifyAccountIdentifierEmailAddressPattern(email) ==
  LET parts == Split(email, "at")
  IN /\ Len(email) <= maxEmailAddressLength
     /\ Len(parts) = 2
     /\ verifyEmailAddressLocalPart(parts[1])
     /\ verifyEmailAddressDomainPart(parts[2])

-----------------------------------------------------------------------------
(* passkey.go *)

\* len(passkeyName) < 1 && len(passkeyName) > 50
WrongLength(name) == Len(name) < 1 /\ Len(name) > maxPasskeyNameLength

\* Reading the first byte of an empty name panics.
verifyPasskeyNamePattern(name) ==
  IF WrongLength(name) \/ ToSet(name) \cap {"unprintable", "quote"} # {}
  THEN "rejects"
  ELSE IF name = <<>> THEN "panics"
  ELSE IF "space" \in {Head(name), Last(name)} THEN "rejects" ELSE "accepts"

-----------------------------------------------------------------------------

Init == text = <<>>

Type(char) == Len(text) < MaxLength /\ text' = Append(text, char)

Next == \E char \in Characters : Type(char)

Spec == Init /\ [][Next]_text

-----------------------------------------------------------------------------

\* An address is accepted exactly when it has a single "@", after at least
\* one character, and when after it the periods, of which there is one, are
\* not at either end; it is in lower case and not too long (routes.go:1229).
AcceptsExactlyAddresses ==
  verifyAccountIdentifierEmailAddressPattern(text) <=>
    \E at \in 2..Len(text) :
      /\ Len(text) <= maxEmailAddressLength
      /\ Positions("at") = {at}
      /\ ToSet(text) \subseteq {"lower", "period", "plus", "at"}
      /\ \A i \in Positions("plus") : i < at
      /\ \E i \in Positions("period") : i > at
      /\ {at + 1, Len(text)} \cap (Positions("period") \cup {Len(text) + 1}) = {}

\* routes.go:1429, "The name must contain only standard characters (excluding
\* double quotes) and must be 50 characters or fewer."
AcceptsOnlyPasskeyNames ==
  verifyPasskeyNamePattern(text) = "accepts" =>
    /\ ToSet(text) \cap {"unprintable", "quote"} = {}
    /\ Len(text) \in 1..maxPasskeyNameLength

=============================================================================
