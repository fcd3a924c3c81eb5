------------------------------ MODULE Answers ------------------------------
(***************************************************************************)
(* What the handlers of actions.go answer to the script of a page: the     *)
(* error code of the first check that fails, or the tokens of the sessions *)
(* the commit has made.  A handler is one step here: what comes between    *)
(* its checks and its commit is the subject of Accounts.tla.               *)
(***************************************************************************)
EXTENDS Pages

\* Starting a verifying action.
Starts ==
  [start_email_address_update |-> "email_address_update_session",
   start_passkey_registration |-> "passkey_registration_session",
   start_passkey_deletion |-> "passkey_deletion_session",
   start_account_deletion |-> "account_deletion_session"]

(* The actions actionRoute dispatches, by the token they are called with. *)

SignupActions ==
  {"cancel_signup", "send_signup_email_address_verification_code",
   "verify_signup_email_address_verification_code",
   "complete_signup_without_passkey_registration",
   "set_signup_passkey_webauthn_credential", "set_signup_passkey_name"}

EmailCodeSigninActions ==
  {"cancel_email_code_signin", "verify_email_code_signin_email_code"}

IdentityVerificationActions ==
  {"cancel_identity_verification",
   "verify_identity_verification_passkey_webauthn_signature",
   "issue_identity_verification_email_code",
   "revoke_identity_verification_email_code",
   "verify_identity_verification_email_code"}

EmailAddressUpdateActions ==
  {"cancel_email_address_update",
   "set_email_address_update_new_email_address",
   "send_email_address_update_new_email_address_verification_code",
   "verify_email_address_update_new_email_address_verification_code"}

PasskeyRegistrationActions ==
  {"cancel_passkey_registration",
   "set_passkey_registration_passkey_webauthn_credential",
   "set_passkey_registration_passkey_name"}

PasskeyDeletionActions ==
  {"cancel_passkey_deletion", "confirm_passkey_deletion"}

AccountDeletionActions ==
  {"cancel_account_deletion", "confirm_account_deletion"}

Actions ==
  DOMAIN Starts
  \union {"start_signup", "start_email_code_signin", "sign_out",
          "sign_out_all_devices", "verify_passkey_signin_webauthn_signature"}
  \union SignupActions \union EmailCodeSigninActions
  \union IdentityVerificationActions \union EmailAddressUpdateActions
  \union PasskeyRegistrationActions \union PasskeyDeletionActions
  \union AccountDeletionActions

\* The session whose token an action is called with, if any.
ActsOn ==
  [a \in Actions |->
     CASE a \in SignupActions -> "signup_session"
       [] a = "verify_passkey_signin_webauthn_signature" ->
            "passkey_signin_attempt"
       [] a \in EmailCodeSigninActions -> "email_code_signin_session"
       [] a \in IdentityVerificationActions -> "identity_verification_session"
       [] a \in EmailAddressUpdateActions -> "email_address_update_session"
       [] a \in PasskeyRegistrationActions -> "passkey_registration_session"
       [] a \in PasskeyDeletionActions -> "passkey_deletion_session"
       [] a \in AccountDeletionActions -> "account_deletion_session"
       [] OTHER -> "none"]

\* Actions that are called with the token of an auth session.
ActionsOfUsers ==
  {a \in Actions : ActsOn[a] \in VerifyingTables
                     \union {"identity_verification_session"}}
  \union DOMAIN Starts \union {"sign_out", "sign_out_all_devices"}

-----------------------------------------------------------------------------
(* The checks of the row.  Each is about how far the flow has come. *)

\* errorCodeEmailAddressAlreadyVerified, ...NotVerified, ...CredentialSet
SignupRefuses(action, s) ==
  \/ /\ s.verified
     /\ action \in {"send_signup_email_address_verification_code",
                    "verify_signup_email_address_verification_code"}
  \/ /\ ~s.verified
     /\ action \in {"complete_signup_without_passkey_registration",
                    "set_signup_passkey_webauthn_credential",
                    "set_signup_passkey_name"}
  \/ /\ s.filled
     /\ action \in {"complete_signup_without_passkey_registration",
                    "set_signup_passkey_webauthn_credential"}
  \/ ~s.filled /\ action = "set_signup_passkey_name"

\* errorCodeIdentityNotVerified, errorCodeNewEmailAddress(Already|Not)Set
EmailAddressUpdateRefuses(action, s) ==
  \/ ~s.verified
  \/ s.filled /\ action = "set_email_address_update_new_email_address"
  \/ /\ ~s.filled
     /\ action \in
          {"send_email_address_update_new_email_address_verification_code",
           "verify_email_address_update_new_email_address_verification_code"}

PasskeyRegistrationRefuses(action, s) ==
  \/ ~s.verified
  \/ /\ s.filled
     /\ action = "set_passkey_registration_passkey_webauthn_credential"
  \/ ~s.filled /\ action = "set_passkey_registration_passkey_name"

EmailCodeNotIssued(action, s) ==
  /\ ~s.filled
  /\ action \in {"revoke_identity_verification_email_code",
                 "verify_identity_verification_email_code"}

Refuses(action, s) ==
  \/ s.key[1] = "signup_session" /\ SignupRefuses(action, s)
  \/ s.key[1] = "email_address_update_session"
     /\ EmailAddressUpdateRefuses(action, s)
  \/ s.key[1] = "passkey_registration_session"
     /\ PasskeyRegistrationRefuses(action, s)
  \/ s.key[1] \in {"passkey_deletion_session", "account_deletion_session"}
     /\ ~s.verified

AtPasskeyLimit(action, auth) ==
  /\ action \in {"start_passkey_registration",
                 "set_passkey_registration_passkey_name"}
  /\ Cardinality(PasskeysOf(RowAt(auth).of)) >= maxPasskeyCountLimit

\* The error code of the action called with the tokens auth and session, from
\* the rows that are there; "none" when the request goes on to its input.
Refusal(action, auth, session) ==
  IF action \in ActionsOfUsers /\ ~Live(auth)
  THEN "invalid_auth_session_token"
  ELSE IF ActsOn[action] # "none" /\ ~Live(session)
  THEN "invalid_session_token"
  ELSE IF /\ action \in ActionsOfUsers /\ ActsOn[action] # "none"
          /\ RowAt(session).of # auth
  THEN "session_mismatch"
  ELSE IF ActsOn[action] # "none" /\ EmailCodeNotIssued(action, RowAt(session))
  THEN "email_code_not_issued"
  ELSE IF ActsOn[action] # "none" /\ Refuses(action, RowAt(session))
  THEN "not_now"
  ELSE IF AtPasskeyLimit(action, auth) THEN "passkey_limit_reached"
  ELSE "none"

-----------------------------------------------------------------------------
(* What an accepted action does.  The answer holds new tokens, and for     *)
(* identity verifications the action they are about.                       *)

Answer(t, action, code, tokens, about) ==
  /\ tabs' = [tabs EXCEPT ![t].phase = "waiting",
                          ![t].reply = [action |-> action, code |-> code,
                                        tokens |-> tokens, about |-> about]]
  /\ UNCHANGED cookies

\* Handlers that send an email after their commit.  When it cannot be sent they
\* answer unexpected_error, without the tokens, and the commit stays.
EmailsAfterCommit ==
  {"start_signup", "start_email_code_signin",
   "verify_passkey_signin_webauthn_signature",
   "verify_email_code_signin_email_code",
   "issue_identity_verification_email_code",
   "set_email_address_update_new_email_address",
   "verify_email_address_update_new_email_address_verification_code",
   "set_passkey_registration_passkey_name", "confirm_passkey_deletion"}

\* The handler has committed.  Scripts are told the same by "email_failed" as by
\* "failed".
Done(t, action, tokens) ==
  \/ Answer(t, action, "ok", tokens, "none")
  \/ /\ action \in EmailsAfterCommit
     /\ Answer(t, action, "email_failed", {}, "none")

StartsFlow(t, action) ==
  \/ /\ action = "start_signup"
     /\ NewKeys("user") # {}    \* bound: an id is left for the account
     /\ \E key \in FreshKeys("signup_session") :
          createSession(key) /\ Done(t, action, {key})
  \/ /\ action = "start_email_code_signin"
     /\ \E key \in FreshKeys("email_code_signin_session"),
           user \in RowsIn("user") :
          createEmailCodeSigninSession(key, user) /\ Done(t, action, {key})
  \/ /\ action \in DOMAIN Starts
     /\ \E key \in FreshKeys(Starts[action]),
           v \in FreshKeys("identity_verification_session"),
           about \in IF action = "start_passkey_deletion"
                     THEN tabs[t].passkeys \cap Keys(rows) ELSE {None} :
          /\ createVerifyingSession(key, v, RowAt(tabs[t].auth), about)
          /\ Done(t, action, {key, v})

CancelsFlow(t, action, s) ==
  /\ action \in {"cancel_signup", "cancel_email_code_signin",
                 "cancel_email_address_update", "cancel_passkey_registration",
                 "cancel_passkey_deletion", "cancel_account_deletion"}
  /\ deleteSession(s)
  /\ Done(t, action, {})

\* s: the sign-up session.
Signup(t, action, s) ==
  \/ /\ action = "verify_signup_email_address_verification_code"
     /\ setVerified(s)
     /\ Done(t, action, {})
  \/ /\ action = "set_signup_passkey_webauthn_credential"
     /\ fill(s)
     /\ Done(t, action, {})
  \/ /\ action \in {"complete_signup_without_passkey_registration",
                    "set_signup_passkey_name"}
     /\ \E user \in FreshKeys("user"), auth \in FreshKeys("auth_session"),
           passkey \in FreshKeys("passkey") :
          /\ completeSignup(s, user, auth,
               IF action = "set_signup_passkey_name" THEN {passkey} ELSE {})
          /\ Done(t, action, {auth})
  \/ /\ action = "send_signup_email_address_verification_code"
     /\ UNCHANGED rows
     /\ Done(t, action, {})

\* s: the attempt, which any passkey completes, or the email code session.
Signin(t, action, s) ==
  /\ \E user \in RowsIn("user"), auth \in FreshKeys("auth_session") :
       /\ \/ action = "verify_passkey_signin_webauthn_signature"
             /\ PasskeysOf(user.key) # {}
          \/ action = "verify_email_code_signin_email_code"
             /\ s.of = user.key
       /\ completeSignin(s, user, auth)
       /\ Done(t, action, {auth})

SignOut(t, action) ==
  /\ LET auth == RowAt(tabs[t].auth)
     IN \/ action = "sign_out" /\ deleteSession(auth)
        \/ /\ action = "sign_out_all_devices"
           /\ Delete({a \in RowsIn("auth_session") : a.of = auth.of})
  /\ Done(t, action, {})

\* v: the identity verification session, of one of the user's auth sessions.
IdentityVerification(t, action, v) ==
  \/ /\ action = "issue_identity_verification_email_code"
     /\ setEmailCode(v, TRUE)
     /\ Done(t, action, {})
  \/ /\ action = "revoke_identity_verification_email_code"
     /\ setEmailCode(v, FALSE)
     /\ Done(t, action, {})
  \/ /\ \/ action = "verify_identity_verification_email_code"
        \/ action = "verify_identity_verification_passkey_webauthn_signature"
           /\ PasskeysOf(UserOf(v)) # {}
     /\ completeIdentityVerification(v)
     /\ Answer(t, action, "ok", {}, v.about[1])
  \/ /\ action = "cancel_identity_verification"
     /\ \E s \in rows : s.key = v.about /\ deleteSession(s)
     /\ Answer(t, action, "ok", {}, v.about[1])

\* s: the session of the verifying action.
VerifyingAction(t, action, s) ==
  /\ \/ action \in {"set_email_address_update_new_email_address",
                    "set_passkey_registration_passkey_webauthn_credential"}
        /\ fill(s)
     \/ action =
          "send_email_address_update_new_email_address_verification_code"
        /\ UNCHANGED rows
     \/ action =
          "verify_email_address_update_new_email_address_verification_code"
        /\ completeEmailAddressUpdate(s)
     \/ action = "set_passkey_registration_passkey_name"
        /\ \E passkey \in FreshKeys("passkey") :
             completePasskeyRegistration(s, passkey)
     \/ action = "confirm_passkey_deletion" /\ completePasskeyDeletion(s)
     \/ action = "confirm_account_deletion" /\ completeAccountDeletion(s)
  /\ Done(t, action, {})

\* The input is right, no limit is reached and nothing conflicts.
Accepts(t, action) ==
  /\ Refusal(action, tabs[t].auth, tabs[t].session) = "none"
  /\ \/ StartsFlow(t, action)
     \/ SignOut(t, action)
     \/ \E s \in rows :
          /\ s.key = tabs[t].session
          /\ s.key[1] = ActsOn[action]
          /\ \/ CancelsFlow(t, action, s)
             \/ Signup(t, action, s)
             \/ Signin(t, action, s)
             \/ IdentityVerification(t, action, s)
             \/ VerifyingAction(t, action, s)

\* The rows say no.
Rejects(t, action) ==
  LET code == Refusal(action, tabs[t].auth, tabs[t].session)
  IN /\ code # "none"
     /\ Answer(t, action, code, {}, "none")
     /\ UNCHANGED rows

\* A wrong code, a rate limit, an error before the commit: the script asks to
\* try again.
Fails(t, action) ==
  /\ Answer(t, action, "failed", {}, "none")
  /\ UNCHANGED rows

\* The address or the credential is taken by another account meanwhile.
Taken(t, action) ==
  /\ action \in
       {"start_signup", "complete_signup_without_passkey_registration",
        "set_signup_passkey_name",
        "set_email_address_update_new_email_address",
        "verify_email_address_update_new_email_address_verification_code"}
  /\ Refusal(action, tabs[t].auth, tabs[t].session) = "none"
  /\ Answer(t, action, "email_address_already_used", {}, "none")
  /\ UNCHANGED rows
=============================================================================
