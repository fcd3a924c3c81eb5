------------------------------- MODULE Signin -------------------------------
(***************************************************************************)
(* Signing in with a passkey or an email code, and signing out             *)
(* (passkey_signin.go, email_code_signin.go, auth_session.go and their     *)
(* handlers in actions.go).                                                *)
(***************************************************************************)
EXTENDS Tables

\* startPasskeySigninAction reads nothing: it is its transaction.
createPasskeySigninAttempt(r) ==
  /\ request[r] = Idle
  /\ "startPasskeySignin" \in Handlers
  /\ Issue({"signin"})
  /\ passkey_signin_attempt' =
       passkey_signin_attempt \union {[id |-> NewId("signin")]}
  /\ UNCHANGED <<accountTables, signup_session, email_code_signin_session,
                 identity_verification_session, actionTables, request>>

cancelPasskeySigninAction(r) ==
  \E t \in passkey_signin_attempt :
    Receive(r, "cancelPasskeySignin", t.id, 0, Null)

deletePasskeySigninAttempt(r) ==
  /\ request[r].handler = "cancelPasskeySignin"
  /\ HasRow(passkey_signin_attempt, request[r].id)
  /\ passkey_signin_attempt' =
       WithoutRow(passkey_signin_attempt, request[r].id)
  /\ Respond(r)
  /\ UNCHANGED <<accountTables, signup_session, email_code_signin_session,
                 identity_verification_session, actionTables, issued>>

\* The assertion is signed by a registered passkey: other is its user.
verifyPasskeySigninWebauthnSignatureAction(r) ==
  \E t \in passkey_signin_attempt, p \in passkey :
    Receive(r, "verifyPasskeySignin", t.id, p.user_id, Null)

\* mutant: the transaction does not count the rows its DELETE removed
UnusedOrUsedAttempt(id) == TRUE

\* DELETE ... then Changes() < 1 is not found
UnusedAttempt(id) == HasRow(passkey_signin_attempt, id)

completePasskeySignin(r) ==
  /\ request[r].handler = "verifyPasskeySignin"
  /\ UnusedAttempt(request[r].id)
  /\ HasRow(user, request[r].other)
  /\ Issue({"auth_session"})
  /\ passkey_signin_attempt' =
       WithoutRow(passkey_signin_attempt, request[r].id)
  /\ auth_session' = auth_session \union
       {[id |-> NewId("auth_session"), user_id |-> request[r].other]}
  /\ Respond(r)
  /\ UNCHANGED <<user, passkey, signup_session, email_code_signin_session,
                 identity_verification_session, actionTables>>

-----------------------------------------------------------------------------

startEmailCodeSigninAction(r) ==
  \E u \in user :
    Receive(r, "startEmailCodeSignin", 0, 0, u.email_address)

\* INSERT ... SELECT ... FROM user WHERE user.email_address = ?: the account
\* that has the address now.  The code is sent to the address.
createEmailCodeSigninSessionFromUserEmailAddress(r) ==
  /\ request[r].handler = "startEmailCodeSignin"
  /\ Issue({"signin"})
  /\ \E u \in user :
       /\ u.email_address = request[r].value
       /\ email_code_signin_session' = email_code_signin_session \union
            {[id |-> NewId("signin"), user_id |-> u.id,
              email_code |-> request[r].value]}
  /\ Respond(r)
  /\ UNCHANGED <<accountTables, signup_session, passkey_signin_attempt,
                 identity_verification_session, actionTables>>

cancelEmailCodeSigninAction(r) ==
  \E c \in email_code_signin_session :
    Receive(r, "cancelEmailCodeSignin", c.id, 0, Null)

deleteEmailCodeSigninSession(r) ==
  /\ request[r].handler = "cancelEmailCodeSignin"
  /\ HasRow(email_code_signin_session, request[r].id)
  /\ email_code_signin_session' =
       WithoutRow(email_code_signin_session, request[r].id)
  /\ Respond(r)
  /\ UNCHANGED <<accountTables, signup_session, passkey_signin_attempt,
                 identity_verification_session, actionTables, issued>>

\* The code is correct.
verifyEmailCodeSigninEmailCodeAction(r) ==
  \E c \in email_code_signin_session :
    Receive(r, "verifyEmailCodeSignin", c.id, 0, Null)

completeEmailCodeSigninSession(r) ==
  /\ request[r].handler = "verifyEmailCodeSignin"
  /\ Issue({"auth_session"})
  /\ \E c \in email_code_signin_session :
       /\ c.id = request[r].id
       /\ auth_session' = auth_session \union
            {[id |-> NewId("auth_session"), user_id |-> c.user_id]}
       /\ email_code_signin_session' =
            WithoutRow(email_code_signin_session, c.id)
  /\ Respond(r)
  /\ UNCHANGED <<user, passkey, signup_session, passkey_signin_attempt,
                 identity_verification_session, actionTables>>

-----------------------------------------------------------------------------

signOutAction(r) ==
  \E a \in auth_session : Receive(r, "signOut", a.id, 0, Null)

deleteAuthSession(r) ==
  /\ request[r].handler = "signOut"
  /\ HasRow(auth_session, request[r].id)
  /\ CascadeDelete({}, {request[r].id}, {})
  /\ Respond(r)
  /\ UNCHANGED <<signup_session, passkey_signin_attempt, issued>>

signOutAllDevicesAction(r) ==
  \E a \in auth_session : Receive(r, "signOutAllDevices", 0, a.user_id, Null)

deleteUserAuthSessions(r) ==
  /\ request[r].handler = "signOutAllDevices"
  /\ CascadeDelete({}, SessionsOf({request[r].other}), {})
  /\ Respond(r)
  /\ UNCHANGED <<signup_session, passkey_signin_attempt, issued>>

SigninStep(r) ==
  \/ createPasskeySigninAttempt(r)
  \/ cancelPasskeySigninAction(r)
  \/ deletePasskeySigninAttempt(r)
  \/ verifyPasskeySigninWebauthnSignatureAction(r)
  \/ completePasskeySignin(r)
  \/ startEmailCodeSigninAction(r)
  \/ createEmailCodeSigninSessionFromUserEmailAddress(r)
  \/ cancelEmailCodeSigninAction(r)
  \/ deleteEmailCodeSigninSession(r)
  \/ verifyEmailCodeSigninEmailCodeAction(r)
  \/ completeEmailCodeSigninSession(r)
  \/ signOutAction(r)
  \/ deleteAuthSession(r)
  \/ signOutAllDevicesAction(r)
  \/ deleteUserAuthSessions(r)
=============================================================================
