------------------------------- MODULE Tables -------------------------------
(***************************************************************************)
(* The SQLite database of the server and the requests that work on it.     *)
(*                                                                         *)
(* A table is the set of its rows.  A row keeps the columns the handlers   *)
(* decide on; secrets, hashes, challenges, public keys and names are left  *)
(* out.  A code sent by email is represented by the address it was sent    *)
(* to: whoever presents the right code reads that mailbox.                 *)
(*                                                                         *)
(* The server opens one write connection (server.go:80) and every          *)
(* transaction holds it from BEGIN to COMMIT, so a transaction is one      *)
(* step.  Reads use other connections and happen before it: a handler is   *)
(* a step that reads and checks (its ...Action in actions.go) and keeps    *)
(* what it read in request[r], and a later step that commits.  Any number  *)
(* of steps of other requests come between the two.                        *)
(***************************************************************************)
EXTENDS Integers, Sequences, FiniteSets

CONSTANTS
  Requests,             \* HTTP requests the server works on at a time
  EmailAddresses,
  WebauthnCredentials,  \* credential ids of authenticators
  Null,                 \* SQL NULL
  Handlers,             \* names of the handlers that clients call
  InitialAccounts,      \* accounts already signed up: a sequence of
                        \* [email_address, webauthn_credential_id or Null]
  MaxIssued,            \* bound: ids drawn from each counter
  maxPasskeyCountLimit

Counters == {"user", "passkey", "auth_session", "signup_session",
             "signin", "verifying_action"}

VerifyingActions == {"email_address_update", "passkey_registration",
                     "passkey_deletion", "account_deletion"}

ASSUME MaxIssuedAssumption == MaxIssued \in [Counters -> Nat]

ASSUME LimitAssumption == maxPasskeyCountLimit \in Nat \ {0}

ASSUME NullAssumption ==
  Null \notin EmailAddresses \union WebauthnCredentials

\* Sign-up gives accounts distinct addresses and distinct credentials.
ASSUME InitialAccountsAssumption ==
  /\ InitialAccounts \in Seq([email_address : EmailAddresses,
                              webauthn_credential_id :
                                WebauthnCredentials \union {Null}])
  /\ \A i, j \in DOMAIN InitialAccounts : i # j =>
       /\ InitialAccounts[i].email_address # InitialAccounts[j].email_address
       /\ \/ InitialAccounts[i].webauthn_credential_id
               # InitialAccounts[j].webauthn_credential_id
          \/ InitialAccounts[i].webauthn_credential_id = Null

VARIABLES
  user, passkey, auth_session, signup_session,
  passkey_signin_attempt, email_code_signin_session,
  identity_verification_session,
  email_address_update_session, passkey_registration_session,
  passkey_deletion_session, account_deletion_session,
  issued,    \* how many ids each counter has given out; ids are never reused
  request    \* what each request read before its transaction

accountTables == <<user, passkey, auth_session>>
signinTables == <<passkey_signin_attempt, email_code_signin_session>>
actionTables == <<email_address_update_session, passkey_registration_session,
                  passkey_deletion_session, account_deletion_session>>
database == <<user, passkey, auth_session, signup_session,
              passkey_signin_attempt, email_code_signin_session,
              identity_verification_session, email_address_update_session,
              passkey_registration_session, passkey_deletion_session,
              account_deletion_session>>
vars == <<user, passkey, auth_session, signup_session,
          passkey_signin_attempt, email_code_signin_session,
          identity_verification_session, email_address_update_session,
          passkey_registration_session, passkey_deletion_session,
          account_deletion_session, issued, request>>

-----------------------------------------------------------------------------
(* Rows. *)

UserRow == [id : Nat, email_address : EmailAddresses]

PasskeyRow == [id : Nat, user_id : Nat,
               webauthn_credential_id : WebauthnCredentials]

AuthSessionRow == [id : Nat, user_id : Nat]

SignupSessionRow ==
  [id : Nat, target_user_id : Nat, email_address : EmailAddresses,
   email_address_verified : BOOLEAN,
   passkey_webauthn_credential_id : WebauthnCredentials \union {Null}]

PasskeySigninAttemptRow == [id : Nat]

EmailCodeSigninSessionRow ==
  [id : Nat, user_id : Nat, email_code : EmailAddresses]

IdentityVerificationSessionRow ==
  [id : Nat, auth_session_id : Nat, verifying_action : VerifyingActions,
   verifying_action_id : Nat, email_code : EmailAddresses \union {Null}]

EmailAddressUpdateSessionRow ==
  [id : Nat, auth_session_id : Nat, identity_verified : BOOLEAN,
   new_email_address : EmailAddresses \union {Null}]

PasskeyRegistrationSessionRow ==
  [id : Nat, auth_session_id : Nat, identity_verified : BOOLEAN,
   passkey_webauthn_credential_id : WebauthnCredentials \union {Null}]

PasskeyDeletionSessionRow ==
  [id : Nat, auth_session_id : Nat, identity_verified : BOOLEAN,
   passkey_id : Nat]

AccountDeletionSessionRow ==
  [id : Nat, auth_session_id : Nat, identity_verified : BOOLEAN]

-----------------------------------------------------------------------------
(* Requests. *)

Idle == [handler |-> "none", id |-> 0, other |-> 0, value |-> Null]

RequestState ==
  [handler : Handlers \union {"none"}, id : Nat, other : Nat,
   value : EmailAddresses \union WebauthnCredentials
             \union VerifyingActions \union {Null}]

\* The checks of handler h passed: the rows it goes on with are id and other,
\* and value is what it verified or was given.
Receive(r, h, id, other, value) ==
  /\ request[r] = Idle
  /\ h \in Handlers
  /\ request' = [request EXCEPT ![r] = [handler |-> h, id |-> id,
                                        other |-> other, value |-> value]]
  /\ UNCHANGED <<user, passkey, auth_session, signup_session,
                 passkey_signin_attempt, email_code_signin_session,
                 identity_verification_session, email_address_update_session,
                 passkey_registration_session, passkey_deletion_session,
                 account_deletion_session, issued>>

\* The transaction of the handler ends and the response is sent.
Respond(r) == request' = [request EXCEPT ![r] = Idle]

RepeatedId(c) == issued[c]  \* mutant: the last id again

\* Ids are random strings: a new one is unlike every other.
NewId(c) == issued[c] + 1

Issue(C) ==
  /\ \A c \in C : issued[c] < MaxIssued[c]
  /\ issued' = [c \in Counters |-> IF c \in C THEN issued[c] + 1
                                   ELSE issued[c]]

-----------------------------------------------------------------------------
(* Queries used by several handlers. *)

checkUserEmailAddressAvailability(e) ==
  \A u \in user : u.email_address # e

checkPasskeyWebauthnCredentialIdAvailability(c) ==
  \A p \in passkey : p.webauthn_credential_id # c

getUserPasskeyCount(userId) ==
  Cardinality({p \in passkey : p.user_id = userId})

\* The UNIQUE constraints of user.email_address and of
\* passkey.webauthn_credential_id, which every INSERT and UPDATE must satisfy.
EmailAddressNotConstrained(id, e) == TRUE  \* mutant: the column is not UNIQUE

\* Address e on the row of user id conflicts with no other row.
EmailAddressUnique(id, e) ==
  \A u \in user : u.id # id => u.email_address # e

WebauthnCredentialIdUnique(c) ==
  \A p \in passkey : p.webauthn_credential_id # c

-----------------------------------------------------------------------------
(* What the four verifying actions share. *)

\* The row that the create...Session transaction of a verifying action adds,
\* with the identity verification it waits for.
NewIdentityVerificationSession(action, id, authSessionId) ==
  [id |-> id, auth_session_id |-> authSessionId, verifying_action |-> action,
   verifying_action_id |-> id, email_code |-> Null]

\* DELETE FROM identity_verification_session
\* WHERE verifying_action = action AND verifying_action_id = id
DeleteVerificationsOf(action, id) ==
  identity_verification_session' =
    {v \in identity_verification_session :
       ~(v.verifying_action = action /\ v.verifying_action_id = id)}

HasRow(rows, id) == \E s \in rows : s.id = id

WithoutRow(rows, id) == {s \in rows : s.id # id}

\* The user of the auth session of row s of a verifying action.
OwnedBy(s, u) == \E a \in auth_session : a.id = s.auth_session_id
                                         /\ a.user_id = u.id

-----------------------------------------------------------------------------
(* Deletions.  ON DELETE CASCADE of schema.sql: deleting users, auth       *)
(* sessions and passkeys deletes every row that references them.           *)

SessionsOf(U) == {s.id : s \in {t \in auth_session : t.user_id \in U}}

PasskeysOf(U) == {p.id : p \in {k \in passkey : k.user_id \in U}}

KeptSessions(rows, A) == rows  \* mutant: REFERENCES without ON DELETE CASCADE

Without(rows, A) == {s \in rows : s.auth_session_id \notin A}

\* Delete the users U, the auth sessions A and the passkeys P.  signup_session
\* and passkey_signin_attempt reference nothing.
CascadeDelete(U, A, P) ==
  LET sessions == A \union SessionsOf(U)
      passkeys == P \union PasskeysOf(U)
  IN /\ user' = {u \in user : u.id \notin U}
     /\ passkey' = {p \in passkey : p.id \notin passkeys}
     /\ auth_session' = {s \in auth_session : s.id \notin sessions}
     /\ email_code_signin_session' =
          {s \in email_code_signin_session : s.user_id \notin U}
     /\ identity_verification_session' =
          Without(identity_verification_session, sessions)
     /\ email_address_update_session' =
          Without(email_address_update_session, sessions)
     /\ passkey_registration_session' =
          Without(passkey_registration_session, sessions)
     /\ passkey_deletion_session' =
          {s \in Without(passkey_deletion_session, sessions) :
             s.passkey_id \notin passkeys}
     /\ account_deletion_session' =
          Without(account_deletion_session, sessions)
=============================================================================
