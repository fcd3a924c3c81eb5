------------------------- MODULE EmailAddressUpdate -------------------------
(***************************************************************************)
(* Changing the email address of an account (email_address_update.go and   *)
(* its handlers in actions.go): the client starts a session, proves its    *)
(* identity, sets the new address, receives a code there and presents it.  *)
(***************************************************************************)
EXTENDS Tables

emailAddressUpdateLeaves ==
  <<passkey, auth_session, signup_session, passkey_signin_attempt,
    passkey_registration_session, passkey_deletion_session,
    account_deletion_session>>

startEmailAddressUpdateAction(r) ==
  \E a \in auth_session :
    Receive(r, "startEmailAddressUpdate", a.id, 0, Null)

createEmailAddressUpdateSession(r) ==
  LET id == NewId("verifying_action")
      authSessionId == request[r].id
  IN /\ request[r].handler = "startEmailAddressUpdate"
     /\ HasRow(auth_session, authSessionId)
     /\ Issue({"verifying_action"})
     /\ email_address_update_session' = email_address_update_session \union
          {[id |-> id, auth_session_id |-> authSessionId,
            identity_verified |-> FALSE, new_email_address |-> Null]}
     /\ identity_verification_session' = identity_verification_session \union
          {NewIdentityVerificationSession("email_address_update", id,
                                          authSessionId)}
     /\ Respond(r)
     /\ UNCHANGED <<emailAddressUpdateLeaves, user, email_code_signin_session>>

\* Every handler below reads a session that belongs to the caller's auth
\* session and whose identity verification is complete.
VerifiedEmailAddressUpdateSessions ==
  {s \in email_address_update_session :
     s.identity_verified /\ HasRow(auth_session, s.auth_session_id)}

cancelEmailAddressUpdateAction(r) ==
  \E s \in VerifiedEmailAddressUpdateSessions :
    Receive(r, "cancelEmailAddressUpdate", s.id, 0, Null)

deleteEmailAddressUpdateSession(id) ==
  /\ HasRow(email_address_update_session, id)
  /\ email_address_update_session' =
       WithoutRow(email_address_update_session, id)
  /\ DeleteVerificationsOf("email_address_update", id)
  /\ UNCHANGED <<emailAddressUpdateLeaves, user, email_code_signin_session, issued>>

setEmailAddressUpdateNewEmailAddressAction(r) ==
  \E s \in VerifiedEmailAddressUpdateSessions, e \in EmailAddresses :
    /\ s.new_email_address = Null
    /\ checkUserEmailAddressAvailability(e)
    /\ Receive(r, "setNewEmailAddress", s.id, 0, e)

\* mutant: the UPDATE without AND new_email_address IS NULL
ReplacesNewEmailAddress(s) == TRUE

\* WHERE ... AND new_email_address IS NULL
SetsNewEmailAddress(s) == s.new_email_address = Null

setEmailAddressUpdateSessionNewEmailAddress(r) ==
  /\ request[r].handler = "setNewEmailAddress"
  /\ \E s \in email_address_update_session :
       /\ s.id = request[r].id
       /\ SetsNewEmailAddress(s)
       /\ email_address_update_session' =
            (email_address_update_session \ {s}) \union
              {[s EXCEPT !.new_email_address = request[r].value]}
  /\ Respond(r)
  /\ UNCHANGED <<emailAddressUpdateLeaves, user, email_code_signin_session,
                 identity_verification_session, issued>>

\* The code sent to the new address is correct: value is that address.
verifyEmailAddressUpdateNewEmailAddressVerificationCodeAction(r) ==
  \E s \in VerifiedEmailAddressUpdateSessions :
    /\ s.new_email_address # Null
    /\ checkUserEmailAddressAvailability(s.new_email_address)
    /\ Receive(r, "verifyNewEmailAddress", s.id, 0, s.new_email_address)

\* mutant: the email codes of the user's identity verifications stay
KeepEmailCodes(u) == UNCHANGED identity_verification_session

\* UPDATE identity_verification_session SET email_code_hash = NULL ...
\* for the identity verifications of user u.
RevokeEmailCodes(u) ==
  identity_verification_session' =
    {IF OwnedBy(v, u) THEN [v EXCEPT !.email_code = Null] ELSE v :
       v \in identity_verification_session}

completeEmailAddressUpdate(r) ==
  /\ request[r].handler = "verifyNewEmailAddress"
  /\ \E s \in email_address_update_session, u \in user :
       /\ s.id = request[r].id
       /\ OwnedBy(s, u)
       /\ s.new_email_address # Null
       /\ s.identity_verified
       /\ EmailAddressUnique(u.id, s.new_email_address)
       /\ user' = (user \ {u}) \union
                    {[u EXCEPT !.email_address = s.new_email_address]}
       /\ email_address_update_session' =
            WithoutRow(email_address_update_session, s.id)
       /\ RevokeEmailCodes(u)
       /\ email_code_signin_session' =
            {c \in email_code_signin_session : c.user_id # u.id}
  /\ Respond(r)
  /\ UNCHANGED <<emailAddressUpdateLeaves, issued>>

EmailAddressUpdateStep(r) ==
  \/ startEmailAddressUpdateAction(r)
  \/ createEmailAddressUpdateSession(r)
  \/ cancelEmailAddressUpdateAction(r)
  \/ request[r].handler = "cancelEmailAddressUpdate"
     /\ deleteEmailAddressUpdateSession(request[r].id)
     /\ Respond(r)
  \/ setEmailAddressUpdateNewEmailAddressAction(r)
  \/ setEmailAddressUpdateSessionNewEmailAddress(r)
  \/ verifyEmailAddressUpdateNewEmailAddressVerificationCodeAction(r)
  \/ completeEmailAddressUpdate(r)
=============================================================================
