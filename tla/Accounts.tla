------------------------------ MODULE Accounts ------------------------------
(***************************************************************************)
(* The whole server over its database: sign-up, sign-in, the four          *)
(* verifying actions and the nightly clean-up, all at once, and the        *)
(* properties that make it correct.                                        *)
(*                                                                         *)
(* Left out: rate limits (RateLimit.tla) and the expiry of sessions only   *)
(* make checks fail, so their absence adds behaviours and hides none that  *)
(* the safety properties below could miss.                                 *)
(***************************************************************************)
EXTENDS Signup, Signin, IdentityVerification

\* The tables after the accounts of InitialAccounts signed up, each with the
\* auth session its sign-up returned; the id of account i is i everywhere.
Init ==
  LET accounts == DOMAIN InitialAccounts
      n == Len(InitialAccounts)
      email_address(i) == InitialAccounts[i].email_address
      credential(i) == InitialAccounts[i].webauthn_credential_id
  IN /\ user = {[id |-> i, email_address |-> email_address(i)] :
                  i \in accounts}
     /\ passkey = {[id |-> i, user_id |-> i,
                    webauthn_credential_id |-> credential(i)] :
                     i \in {j \in accounts : credential(j) # Null}}
     /\ auth_session = {[id |-> i, user_id |-> i] : i \in accounts}
     /\ issued = [c \in Counters |->
                    IF c \in {"user", "passkey", "auth_session",
                              "signup_session"} THEN n ELSE 0]
     /\ request = [r \in Requests |-> Idle]
     /\ signup_session = {}
     /\ passkey_signin_attempt = {}
     /\ email_code_signin_session = {}
     /\ identity_verification_session = {}
     /\ email_address_update_session = {}
     /\ passkey_registration_session = {}
     /\ passkey_deletion_session = {}
     /\ account_deletion_session = {}

\* A request ends without a commit: its transaction found a row missing or
\* violated a constraint, or SQLite reported an error, and was rolled back;
\* or the process stopped.  The database keeps what was committed before.
Rollback(r) ==
  /\ request[r] # Idle
  /\ Respond(r)
  /\ UNCHANGED <<database, issued>>

\* At midnight: every user older than a day, and every sign-up session and
\* passkey sign-in attempt older than an hour.  Times are not modelled here, so
\* any rows may be old enough.
cleanDatabase ==
  /\ "cleanDatabase" \in Handlers
  /\ \E oldUsers \in SUBSET user, oldSignups \in SUBSET signup_session,
        oldAttempts \in SUBSET passkey_signin_attempt :
       /\ CascadeDelete({u.id : u \in oldUsers}, {}, {})
       /\ signup_session' = signup_session \ oldSignups
       /\ passkey_signin_attempt' = passkey_signin_attempt \ oldAttempts
  /\ UNCHANGED <<issued, request>>

Next ==
  \/ \E r \in Requests :
       \/ SignupStep(r)
       \/ SigninStep(r)
       \/ EmailAddressUpdateStep(r)
       \/ PasskeyRegistrationStep(r)
       \/ PasskeyDeletionStep(r)
       \/ AccountDeletionStep(r)
       \/ IdentityVerificationStep(r)
       \/ Rollback(r)
  \/ cleanDatabase

Spec == Init /\ [][Next]_vars

-----------------------------------------------------------------------------
(* Type and shape of the tables. *)

\* The rows of a table have its columns; ids are its primary keys, and none is
\* beyond the n its counter has given out.
TableOK(rows, Row, n) ==
  /\ rows \subseteq Row
  /\ \A s \in rows : s.id \in 1..n
  /\ \A s, t \in rows : s.id = t.id => s = t

TablesOK ==
  /\ TableOK(user, UserRow, issued["user"])
  /\ TableOK(passkey, PasskeyRow, issued["passkey"])
  /\ TableOK(auth_session, AuthSessionRow, issued["auth_session"])
  /\ TableOK(signup_session, SignupSessionRow, issued["signup_session"])
  /\ TableOK(passkey_signin_attempt, PasskeySigninAttemptRow, issued["signin"])
  /\ TableOK(email_code_signin_session, EmailCodeSigninSessionRow,
             issued["signin"])
  /\ TableOK(identity_verification_session, IdentityVerificationSessionRow,
             issued["verifying_action"])
  /\ TableOK(email_address_update_session, EmailAddressUpdateSessionRow,
             issued["verifying_action"])
  /\ TableOK(passkey_registration_session, PasskeyRegistrationSessionRow,
             issued["verifying_action"])
  /\ TableOK(passkey_deletion_session, PasskeyDeletionSessionRow,
             issued["verifying_action"])
  /\ TableOK(account_deletion_session, AccountDeletionSessionRow,
             issued["verifying_action"])
  /\ \A s \in signup_session : s.target_user_id \in 1..issued["user"]

\* What a request carries to its transaction fits the column it is for.
RequestsOK ==
  /\ request \in [Requests -> RequestState]
  /\ \A r \in Requests :
       /\ request[r].handler \in {"startSignup", "startEmailCodeSignin",
                                  "setNewEmailAddress"} =>
            request[r].value \in EmailAddresses
       /\ request[r].handler \in {"setSignupCredential",
                                  "setPasskeyRegistrationCredential"} =>
            request[r].value \in WebauthnCredentials

\* Every row has its columns, every table its primary key, and the user id of
\* a pending sign-up was drawn like that of every account.
TypeOK ==
  /\ issued \in [Counters -> Nat]
  /\ TablesOK
  /\ RequestsOK

\* No row outlives the account, auth session or passkey it references,
\* whatever was in flight when that was deleted (schema.sql, REFERENCES).
ReferentialIntegrity ==
  /\ \A s \in passkey \union auth_session \union email_code_signin_session :
       HasRow(user, s.user_id)
  /\ \A s \in identity_verification_session
                \union email_address_update_session
                \union passkey_registration_session
                \union passkey_deletion_session
                \union account_deletion_session :
       HasRow(auth_session, s.auth_session_id)
  /\ \A s \in passkey_deletion_session : HasRow(passkey, s.passkey_id)

-----------------------------------------------------------------------------
(* Safety. *)

\* Two accounts never share an address and two passkeys never a credential,
\* although handlers look for a conflict before their transaction only.
NoSharedIdentifiers ==
  /\ \A u, v \in user : u.email_address = v.email_address => u = v
  /\ \A p, q \in passkey :
       p.webauthn_credential_id = q.webauthn_credential_id => p = q

\* A code that signs a user in or verifies the user's identity was sent to the
\* address the account has now: changing the address revokes the codes sent to
\* the old one (completeEmailAddressUpdate).
CodesFollowAddress ==
  /\ \A c \in email_code_signin_session, u \in user :
       c.user_id = u.id => c.email_code = u.email_address
  /\ \A v \in identity_verification_session, u \in user :
       OwnedBy(v, u) => v.email_code \in {Null, u.email_address}

\* The identity verifications of session id of a verifying action.
VerificationsOf(action, id) ==
  {v \in identity_verification_session :
     v.verifying_action = action /\ v.verifying_action_id = id}

Paired(rows, action) ==
  \A s \in rows :
    IF s.identity_verified
    THEN VerificationsOf(action, s.id) = {}
    ELSE \E v \in VerificationsOf(action, s.id) :
           /\ VerificationsOf(action, s.id) = {v}
           /\ v.auth_session_id = s.auth_session_id

\* A session of a verifying action waits for exactly one identity
\* verification, of the same auth session, until it is verified, and for none
\* after.  An identity verification always has its session, so that it can be
\* completed and cancelled; only a passkey deletion can lose its session, when
\* another one deletes the passkey (ON DELETE CASCADE).
VerificationPairing ==
  /\ Paired(email_address_update_session, "email_address_update")
  /\ Paired(passkey_registration_session, "passkey_registration")
  /\ Paired(passkey_deletion_session, "passkey_deletion")
  /\ Paired(account_deletion_session, "account_deletion")
  /\ \A v \in identity_verification_session :
       \/ v.verifying_action = "email_address_update"
          /\ HasRow(email_address_update_session, v.verifying_action_id)
       \/ v.verifying_action = "passkey_registration"
          /\ HasRow(passkey_registration_session, v.verifying_action_id)
       \/ v.verifying_action = "account_deletion"
          /\ HasRow(account_deletion_session, v.verifying_action_id)
       \/ v.verifying_action = "passkey_deletion"

\* No account has more passkeys than the limit, however many registrations
\* complete at a time.
PasskeyLimit ==
  \A u \in user : getUserPasskeyCount(u.id) <= maxPasskeyCountLimit

\* The user id of a pending sign-up is nobody's yet and promised to no other
\* sign-up: completing it creates one account, once, and never brings a deleted
\* account back.
SignupTargetsUnused ==
  /\ \A s \in signup_session : ~HasRow(user, s.target_user_id)
  /\ \A s, t \in signup_session :
       s.target_user_id = t.target_user_id => s = t

\* What request q read of its session is still so, unless the session is gone.
StillTrue(q) ==
  /\ \A s \in signup_session : s.id = q.id =>
       /\ q.handler \in {"setSignupCredential", "completeSignup",
                         "setSignupPasskeyName"} => s.email_address_verified
       /\ q.handler = "completeSignup" => s.email_address = q.value
       /\ q.handler = "setSignupPasskeyName" =>
            s.passkey_webauthn_credential_id = q.value
  /\ \A s \in email_address_update_session : s.id = q.id =>
       /\ q.handler \in {"cancelEmailAddressUpdate", "setNewEmailAddress",
                         "verifyNewEmailAddress"} => s.identity_verified
       /\ q.handler = "verifyNewEmailAddress" => s.new_email_address = q.value
  /\ \A s \in passkey_registration_session : s.id = q.id =>
       /\ q.handler \in {"cancelPasskeyRegistration",
                         "setPasskeyRegistrationCredential",
                         "setPasskeyRegistrationName"} => s.identity_verified
       /\ q.handler = "setPasskeyRegistrationName" =>
            s.passkey_webauthn_credential_id = q.value
  /\ q.handler \in {"cancelPasskeyDeletion", "confirmPasskeyDeletion"} =>
       \A s \in passkey_deletion_session : s.id = q.id => s.identity_verified
  /\ q.handler \in {"cancelAccountDeletion", "confirmAccountDeletion"} =>
       \A s \in account_deletion_session : s.id = q.id => s.identity_verified
  /\ q.handler = "cancelIdentityVerification" =>
       \A v \in identity_verification_session : v.id = q.id =>
         v.verifying_action = q.value /\ v.verifying_action_id = q.other

\* What a handler checked before its transaction, and the transaction does not
\* ask again, cannot have become false meanwhile: what a session has proved or
\* been given is never taken back, and no new session takes its id.
ReadsStayTrue == \A r \in Requests : StillTrue(request[r])

-----------------------------------------------------------------------------
(* What a step may never do. *)

Ids(rows) == {s.id : s \in rows}

\* Session s, verified, of a live auth session of user u, ends in this step.
UsesUp(s, rows, u) ==
  /\ s.identity_verified
  /\ OwnedBy(s, u)
  /\ s \notin rows'

\* The parts of ChangesAreVerified, each of one step.
AddressChangesVerified ==
  \A u \in user, v \in user' :
    v.id = u.id /\ v.email_address # u.email_address =>
      \E s \in email_address_update_session :
        /\ UsesUp(s, email_address_update_session, u)
        /\ s.new_email_address = v.email_address

RegistrationsVerified ==
  \A u \in user, p \in passkey' :
    p.user_id = u.id /\ p.id \notin Ids(passkey) =>
      \E s \in passkey_registration_session :
        /\ UsesUp(s, passkey_registration_session, u)
        /\ s.passkey_webauthn_credential_id = p.webauthn_credential_id

AccountDeletionsVerified ==
  \A u \in user : u.id \notin Ids(user)' =>
    \E s \in account_deletion_session :
      UsesUp(s, account_deletion_session, u)

\* Passkey p is deleted and its account stays.
Removed(p) == p.id \notin Ids(passkey)' /\ p.user_id \in Ids(user)'

PasskeyDeletionsVerified ==
  \A u \in user, p \in passkey : p.user_id = u.id /\ Removed(p) =>
    \E s \in passkey_deletion_session :
      /\ UsesUp(s, passkey_deletion_session, u)
      /\ s.passkey_id = p.id

\* A request changes an account that exists only by using up a session of that
\* verifying action, verified, started by an auth session of that account that
\* still exists: a request that was in flight when its user signed out changes
\* nothing.  For passkey deletions this rests on clients that ask to delete
\* passkeys of their own account only (OwnPasskeysOnly): neither
\* startPasskeyDeletionAction nor completePasskeyDeletion compares the
\* passkey's user with the auth session's.
ChangesAreVerified ==
  [][ request' # request =>
        /\ AddressChangesVerified
        /\ RegistrationsVerified
        /\ AccountDeletionsVerified
        /\ PasskeyDeletionsVerified
    ]_vars

\* A passkey goes only when its own account deletes it, whatever clients ask
\* for: the email about it says "your passkey" and "your account"
\* (emails.go:121).  The server does not see to it.
DeletesOwnPasskeys ==
  [][request' # request => PasskeyDeletionsVerified]_vars

\* The address or the credential a request commits is the one it checked: the
\* address whose code it was given, the credential it found available.  What
\* another request stored in the session meanwhile is not committed instead.
CommitsWhatWasChecked ==
  [][ \A r \in Requests : request[r] # Idle /\ request'[r] = Idle =>
      /\ request[r].handler \in {"verifyNewEmailAddress", "completeSignup"} =>
           \A u \in user' \ user : u.email_address = request[r].value
      /\ request[r].handler \in {"setPasskeyRegistrationName",
                                 "setSignupPasskeyName"} =>
           \A p \in passkey' \ passkey :
             p.webauthn_credential_id = request[r].value
    ]_vars

\* Signing in works once: every new auth session uses up the sign-up session,
\* sign-in attempt or email code session it comes from.
SessionsComeFromSignin ==
  [][ auth_session' \ auth_session # {} =>
      /\ \E a \in auth_session' : auth_session' \ auth_session = {a}
      /\ \/ passkey_signin_attempt \ passkey_signin_attempt' # {}
         \/ email_code_signin_session \ email_code_signin_session' # {}
         \/ signup_session \ signup_session' # {}
    ]_vars

-----------------------------------------------------------------------------
(* The promise. *)

Verified(rows) == {s \in rows : s.identity_verified}

\* Session s of a verifying action, as a grant.
GrantOf(s, action) ==
  [action |-> action, id |-> s.id, session |-> s.auth_session_id,
   passkey |-> IF action = "passkey_deletion" THEN s.passkey_id ELSE 0]

GrantsFrom(rows, action) == {GrantOf(s, action) : s \in Verified(rows)}

\* The verified sessions of the verifying actions.
Grants ==
  GrantsFrom(email_address_update_session, "email_address_update")
    \union GrantsFrom(passkey_registration_session, "passkey_registration")
    \union GrantsFrom(passkey_deletion_session, "passkey_deletion")
    \union GrantsFrom(account_deletion_session, "account_deletion")

Promise == INSTANCE AccountsPromise
  WITH accounts <- user, keys <- passkey, sessions <- auth_session,
       grants <- Grants

\* The server keeps the promise: whatever requests are in flight, each commit
\* is one step of AccountsPromise, and every change of an account that a
\* request makes uses up a grant that was given to that account for it.  Like
\* ChangesAreVerified it rests on OwnPasskeysOnly.
KeepsPromise == Promise!PromiseSpec
=============================================================================
