------------------------ MODULE PasskeyRegistration ------------------------
(***************************************************************************)
(* Adding a passkey to an account (passkey_registration.go and its         *)
(* handlers in actions.go): the client starts a session, proves its        *)
(* identity, sets the credential of its authenticator and names it.        *)
(***************************************************************************)
EXTENDS Tables

passkeyRegistrationLeaves ==
  <<user, auth_session, signup_session, passkey_signin_attempt,
    email_code_signin_session, email_address_update_session,
    passkey_deletion_session, account_deletion_session>>

startPasskeyRegistrationAction(r) ==
  \E a \in auth_session :
    /\ getUserPasskeyCount(a.user_id) < maxPasskeyCountLimit
    /\ Receive(r, "startPasskeyRegistration", a.id, 0, Null)

createPasskeyRegistrationSession(r) ==
  LET id == NewId("verifying_action")
      authSessionId == request[r].id
  IN /\ request[r].handler = "startPasskeyRegistration"
     /\ HasRow(auth_session, authSessionId)
     /\ Issue({"verifying_action"})
     /\ passkey_registration_session' = passkey_registration_session \union
          {[id |-> id, auth_session_id |-> authSessionId,
            identity_verified |-> FALSE,
            passkey_webauthn_credential_id |-> Null]}
     /\ identity_verification_session' = identity_verification_session \union
          {NewIdentityVerificationSession("passkey_registration", id,
                                          authSessionId)}
     /\ Respond(r)
     /\ UNCHANGED <<passkeyRegistrationLeaves, passkey>>

VerifiedPasskeyRegistrationSessions ==
  {s \in passkey_registration_session :
     s.identity_verified /\ HasRow(auth_session, s.auth_session_id)}

cancelPasskeyRegistrationAction(r) ==
  \E s \in VerifiedPasskeyRegistrationSessions :
    Receive(r, "cancelPasskeyRegistration", s.id, 0, Null)

deletePasskeyRegistrationSession(id) ==
  /\ HasRow(passkey_registration_session, id)
  /\ passkey_registration_session' =
       WithoutRow(passkey_registration_session, id)
  /\ DeleteVerificationsOf("passkey_registration", id)
  /\ UNCHANGED <<passkeyRegistrationLeaves, passkey, issued>>

setPasskeyRegistrationPasskeyWebauthnCredentialAction(r) ==
  \E s \in VerifiedPasskeyRegistrationSessions, c \in WebauthnCredentials :
    /\ s.passkey_webauthn_credential_id = Null
    /\ checkPasskeyWebauthnCredentialIdAvailability(c)
    /\ Receive(r, "setPasskeyRegistrationCredential", s.id, 0, c)

\* The credential, its key and its authenticator are set together and only
\* once: WHERE id = ? AND passkey_webauthn_credential_id IS NULL ...
setPasskeyRegistrationSessionPasskeyWebauthnCredential(r) ==
  /\ request[r].handler = "setPasskeyRegistrationCredential"
  /\ \E s \in passkey_registration_session :
       /\ s.id = request[r].id
       /\ s.passkey_webauthn_credential_id = Null
       /\ passkey_registration_session' =
            (passkey_registration_session \ {s}) \union
              {[s EXCEPT !.passkey_webauthn_credential_id = request[r].value]}
  /\ Respond(r)
  /\ UNCHANGED <<passkeyRegistrationLeaves, passkey,
                 identity_verification_session, issued>>

\* A valid name completes the registration: value is the credential read.
setPasskeyRegistrationPasskeyNameAction(r) ==
  \E s \in VerifiedPasskeyRegistrationSessions, a \in auth_session :
    /\ s.auth_session_id = a.id
    /\ s.passkey_webauthn_credential_id # Null
    /\ getUserPasskeyCount(a.user_id) < maxPasskeyCountLimit
    /\ checkPasskeyWebauthnCredentialIdAvailability(
         s.passkey_webauthn_credential_id)
    /\ Receive(r, "setPasskeyRegistrationName", s.id, 0,
               s.passkey_webauthn_credential_id)

\* mutant: the count is checked by the handler only
AnyPasskeyCount(userId) == TRUE

\* SELECT count(*) FROM passkey ... inside the transaction
BelowPasskeyCountLimit(userId) ==
  getUserPasskeyCount(userId) < maxPasskeyCountLimit

completePasskeyRegistration(r) ==
  /\ request[r].handler = "setPasskeyRegistrationName"
  /\ \E s \in passkey_registration_session, a \in auth_session :
       /\ s.id = request[r].id
       /\ a.id = s.auth_session_id
       /\ BelowPasskeyCountLimit(a.user_id)
       /\ s.passkey_webauthn_credential_id # Null
       /\ s.identity_verified
       /\ WebauthnCredentialIdUnique(s.passkey_webauthn_credential_id)
       /\ Issue({"passkey"})
       /\ passkey' = passkey \union
            {[id |-> NewId("passkey"), user_id |-> a.user_id,
              webauthn_credential_id |-> s.passkey_webauthn_credential_id]}
       /\ passkey_registration_session' =
            WithoutRow(passkey_registration_session, s.id)
  /\ Respond(r)
  /\ UNCHANGED <<passkeyRegistrationLeaves, identity_verification_session>>

PasskeyRegistrationStep(r) ==
  \/ startPasskeyRegistrationAction(r)
  \/ createPasskeyRegistrationSession(r)
  \/ cancelPasskeyRegistrationAction(r)
  \/ /\ request[r].handler = "cancelPasskeyRegistration"
     /\ deletePasskeyRegistrationSession(request[r].id)
     /\ Respond(r)
  \/ setPasskeyRegistrationPasskeyWebauthnCredentialAction(r)
  \/ setPasskeyRegistrationSessionPasskeyWebauthnCredential(r)
  \/ setPasskeyRegistrationPasskeyNameAction(r)
  \/ completePasskeyRegistration(r)
=============================================================================
