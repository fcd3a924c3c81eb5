------------------------------- MODULE Signup -------------------------------
(***************************************************************************)
(* Creating an account (signup.go and its handlers in actions.go): the     *)
(* client gives an address, presents the code sent there, then completes   *)
(* the sign-up, with a passkey or without.                                 *)
(***************************************************************************)
EXTENDS Tables

signupLeaves ==
  <<signinTables, identity_verification_session, actionTables>>

startSignupAction(r) ==
  \E e \in EmailAddresses :
    /\ checkUserEmailAddressAvailability(e)
    /\ Receive(r, "startSignup", 0, 0, e)

\* The user id of the account to be is drawn here.
createSignupSession(r) ==
  /\ request[r].handler = "startSignup"
  /\ Issue({"signup_session", "user"})
  /\ signup_session' = signup_session \union
       {[id |-> NewId("signup_session"), target_user_id |-> NewId("user"),
         email_address |-> request[r].value,
         email_address_verified |-> FALSE,
         passkey_webauthn_credential_id |-> Null]}
  /\ Respond(r)
  /\ UNCHANGED <<accountTables, signupLeaves>>

cancelSignupAction(r) ==
  \E s \in signup_session : Receive(r, "cancelSignup", s.id, 0, Null)

deleteSignupSession(r) ==
  /\ request[r].handler = "cancelSignup"
  /\ HasRow(signup_session, request[r].id)
  /\ signup_session' = WithoutRow(signup_session, request[r].id)
  /\ Respond(r)
  /\ UNCHANGED <<accountTables, signupLeaves, issued>>

\* The code sent to the address is correct.
verifySignupEmailAddressVerificationCodeAction(r) ==
  \E s \in signup_session :
    /\ ~s.email_address_verified
    /\ Receive(r, "verifySignup", s.id, 0, Null)

setSignupSessionAsEmailAddressVerified(r) ==
  /\ request[r].handler = "verifySignup"
  /\ \E s \in signup_session :
       /\ s.id = request[r].id
       /\ ~s.email_address_verified
       /\ signup_session' = (signup_session \ {s}) \union
            {[s EXCEPT !.email_address_verified = TRUE]}
  /\ Respond(r)
  /\ UNCHANGED <<accountTables, signupLeaves, issued>>

setSignupPasskeyWebauthnCredentialAction(r) ==
  \E s \in signup_session, c \in WebauthnCredentials :
    /\ s.email_address_verified
    /\ s.passkey_webauthn_credential_id = Null
    /\ checkPasskeyWebauthnCredentialIdAvailability(c)
    /\ Receive(r, "setSignupCredential", s.id, 0, c)

\* mutant: the UPDATE without AND passkey_webauthn_credential_id IS NULL
ReplacesSignupCredential(s) == TRUE

\* WHERE ... AND passkey_webauthn_credential_id IS NULL
SetsSignupCredential(s) == s.passkey_webauthn_credential_id = Null

setSignupSessionPasskeyWebauthnCredential(r) ==
  /\ request[r].handler = "setSignupCredential"
  /\ \E s \in signup_session :
       /\ s.id = request[r].id
       /\ SetsSignupCredential(s)
       /\ signup_session' = (signup_session \ {s}) \union
            {[s EXCEPT !.passkey_webauthn_credential_id = request[r].value]}
  /\ Respond(r)
  /\ UNCHANGED <<accountTables, signupLeaves, issued>>

completeSignupWithoutPasskeyRegistrationAction(r) ==
  \E s \in signup_session :
    /\ s.email_address_verified
    /\ s.passkey_webauthn_credential_id = Null
    /\ checkUserEmailAddressAvailability(s.email_address)
    /\ Receive(r, "completeSignup", s.id, 0, s.email_address)

\* A valid name completes the sign-up: value is the credential read.
setSignupPasskeyNameAction(r) ==
  \E s \in signup_session :
    /\ s.email_address_verified
    /\ s.passkey_webauthn_credential_id # Null
    /\ checkUserEmailAddressAvailability(s.email_address)
    /\ checkPasskeyWebauthnCredentialIdAvailability(
         s.passkey_webauthn_credential_id)
    /\ Receive(r, "setSignupPasskeyName", s.id, 0,
               s.passkey_webauthn_credential_id)

-----------------------------------------------------------------------------

\* mutant: the sign-up session survives its completion
SignupSessionKept(s) == UNCHANGED signup_session

\* DELETE FROM signup_session WHERE id = ?
SignupSessionUsed(s) == signup_session' = WithoutRow(signup_session, s.id)

\* What both completions insert: the user and a first auth session.
SignUp(s) ==
  /\ s.email_address_verified
  /\ ~HasRow(user, s.target_user_id)
  /\ EmailAddressUnique(s.target_user_id, s.email_address)
  /\ user' = user \union {[id |-> s.target_user_id,
                           email_address |-> s.email_address]}
  /\ auth_session' = auth_session \union
       {[id |-> NewId("auth_session"), user_id |-> s.target_user_id]}
  /\ SignupSessionUsed(s)

\* mutant: the statement does not ask again for a session without a credential
completeSignupWithAnyCredential(r) ==
  /\ request[r].handler = "completeSignup"
  /\ Issue({"auth_session"})
  /\ \E s \in signup_session : s.id = request[r].id /\ SignUp(s)
  /\ Respond(r)
  /\ UNCHANGED <<passkey, signupLeaves>>

completeSignupWithoutPasskeyRegistration(r) ==
  /\ request[r].handler = "completeSignup"
  /\ Issue({"auth_session"})
  /\ \E s \in signup_session :
       /\ s.id = request[r].id
       /\ s.passkey_webauthn_credential_id = Null
       /\ SignUp(s)
  /\ Respond(r)
  /\ UNCHANGED <<passkey, signupLeaves>>

completeSignupWithPasskeyRegistration(r) ==
  /\ request[r].handler = "setSignupPasskeyName"
  /\ Issue({"auth_session", "passkey"})
  /\ \E s \in signup_session :
       /\ s.id = request[r].id
       /\ s.passkey_webauthn_credential_id # Null
       /\ SignUp(s)
       /\ WebauthnCredentialIdUnique(s.passkey_webauthn_credential_id)
       /\ passkey' = passkey \union
            {[id |-> NewId("passkey"), user_id |-> s.target_user_id,
              webauthn_credential_id |-> s.passkey_webauthn_credential_id]}
  /\ Respond(r)
  /\ UNCHANGED signupLeaves

SignupStep(r) ==
  \/ startSignupAction(r)
  \/ createSignupSession(r)
  \/ cancelSignupAction(r)
  \/ deleteSignupSession(r)
  \/ verifySignupEmailAddressVerificationCodeAction(r)
  \/ setSignupSessionAsEmailAddressVerified(r)
  \/ setSignupPasskeyWebauthnCredentialAction(r)
  \/ setSignupSessionPasskeyWebauthnCredential(r)
  \/ completeSignupWithoutPasskeyRegistrationAction(r)
  \/ setSignupPasskeyNameAction(r)
  \/ completeSignupWithoutPasskeyRegistration(r)
  \/ completeSignupWithPasskeyRegistration(r)
=============================================================================
