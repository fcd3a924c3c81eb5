-------------------------- MODULE AccountsSessions --------------------------
(***************************************************************************)
(* Accounts implements Sessions: the rows a browser can tell, from the     *)
(* tables in full.                                                         *)
(***************************************************************************)
EXTENDS Accounts

\* Every id there can be.
IdsIssued == DOMAIN InitialAccounts \union UNION {1..MaxIssued[c] : c \in Counters}

KeyOf(table, id) == <<table, id>>

Seen(table, s, of, about, verified, filled) ==
  [key |-> KeyOf(table, s.id), of |-> of, about |-> about,
   verified |-> verified, filled |-> filled]

OfUser(s) == KeyOf("user", s.user_id)

OfAuthSession(s) == KeyOf("auth_session", s.auth_session_id)

SessionTable(action) ==
  CASE action = "email_address_update" -> "email_address_update_session"
    [] action = "passkey_registration" -> "passkey_registration_session"
    [] action = "passkey_deletion" -> "passkey_deletion_session"
    [] action = "account_deletion" -> "account_deletion_session"

-----------------------------------------------------------------------------
(* A row of each table as Sessions has it. *)

SeenUser(u) == Seen("user", u, Null, Null, FALSE, FALSE)

SeenPasskey(p) == Seen("passkey", p, OfUser(p), Null, FALSE, FALSE)

SeenAuthSession(a) == Seen("auth_session", a, OfUser(a), Null, FALSE, FALSE)

SeenSignup(s) ==
  Seen("signup_session", s, Null, Null, s.email_address_verified,
       s.passkey_webauthn_credential_id # Null)

SeenAttempt(t) == Seen("passkey_signin_attempt", t, Null, Null, FALSE, FALSE)

SeenEmailCode(c) ==
  Seen("email_code_signin_session", c, OfUser(c), Null, FALSE, FALSE)

SeenVerification(v) ==
  Seen("identity_verification_session", v, OfAuthSession(v),
       KeyOf(SessionTable(v.verifying_action), v.verifying_action_id), FALSE,
       v.email_code # Null)

SeenUpdate(s) ==
  Seen("email_address_update_session", s, OfAuthSession(s), Null,
       s.identity_verified, s.new_email_address # Null)

SeenRegistration(s) ==
  Seen("passkey_registration_session", s, OfAuthSession(s), Null,
       s.identity_verified, s.passkey_webauthn_credential_id # Null)

SeenPasskeyDeletion(s) ==
  Seen("passkey_deletion_session", s, OfAuthSession(s),
       KeyOf("passkey", s.passkey_id), s.identity_verified, FALSE)

SeenAccountDeletion(s) ==
  Seen("account_deletion_session", s, OfAuthSession(s), Null,
       s.identity_verified, FALSE)

SeenRows ==
  {SeenUser(u) : u \in user}
    \union {SeenPasskey(p) : p \in passkey}
    \union {SeenAuthSession(a) : a \in auth_session}
    \union {SeenSignup(s) : s \in signup_session}
    \union {SeenAttempt(t) : t \in passkey_signin_attempt}
    \union {SeenEmailCode(c) : c \in email_code_signin_session}
    \union {SeenVerification(v) : v \in identity_verification_session}
    \union {SeenUpdate(s) : s \in email_address_update_session}
    \union {SeenRegistration(s) : s \in passkey_registration_session}
    \union {SeenPasskeyDeletion(s) : s \in passkey_deletion_session}
    \union {SeenAccountDeletion(s) : s \in account_deletion_session}

VARIABLE seen  \* SeenRows, before and after each step

SeenInit == Init /\ seen = SeenRows

SeenNext == Next /\ seen' = SeenRows'

SeenSpec == SeenInit /\ [][SeenNext]_<<vars, seen>>

SeenBy == INSTANCE Sessions
  WITH rows <- seen, RowIds <- IdsIssued, None <- Null

\* Rows refer to each other by their keys.
ASSUME NullIsNoKey == Null \notin SeenBy!Tables \X Nat

\* Each commit of the server is one step of Sessions, whatever was in flight
\* when it was checked: what the pages and the scripts are checked against in
\* Browser.tla is what the server does.  (TLC tests the first disjunct, a step
\* that commits nothing, faster than the second.)
ActsAsSeen == [][seen' = seen \/ SeenBy!SessionsNext]_seen
=============================================================================
