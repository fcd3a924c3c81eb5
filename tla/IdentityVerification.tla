------------------------ MODULE IdentityVerification ------------------------
(***************************************************************************)
(* Proving one's identity again before a verifying action                  *)
(* (identity_verification.go and its handlers in actions.go).  Each        *)
(* verifying action starts with a row of identity_verification_session;    *)
(* a passkey of the user, or a code sent to the user's address, completes  *)
(* it: the action's session is marked verified and the row deleted.        *)
(***************************************************************************)
EXTENDS EmailAddressUpdate, PasskeyRegistration, PasskeyDeletion,
        AccountDeletion

\* Every handler reads a row that belongs to the caller's auth session.
PresentedVerifications ==
  {v \in identity_verification_session :
     HasRow(auth_session, v.auth_session_id)}

\* value and other: the verifying action and the id of its session.
cancelIdentityVerificationAction(r) ==
  \E v \in PresentedVerifications :
    Receive(r, "cancelIdentityVerification", v.id, v.verifying_action_id,
            v.verifying_action)

\* The switch over verifyingAction of the handler.
cancelVerifyingAction(r) ==
  /\ request[r].handler = "cancelIdentityVerification"
  /\ LET action == request[r].value
         id == request[r].other
     IN \/ action = "email_address_update"
           /\ deleteEmailAddressUpdateSession(id)
        \/ action = "passkey_registration"
           /\ deletePasskeyRegistrationSession(id)
        \/ action = "passkey_deletion"
           /\ deletePasskeyDeletionSession(id)
        \/ action = "account_deletion"
           /\ deleteAccountDeletionSession(id)
  /\ Respond(r)

issueIdentityVerificationEmailCodeAction(r) ==
  \E v \in PresentedVerifications :
    Receive(r, "issueIdentityVerificationEmailCode", v.id, 0, Null)

\* The address is read in the transaction that stores the code.
issueIdentityVerificationSessionEmailCode(r) ==
  /\ request[r].handler = "issueIdentityVerificationEmailCode"
  /\ \E v \in identity_verification_session, u \in user :
       /\ v.id = request[r].id
       /\ OwnedBy(v, u)
       /\ identity_verification_session' =
            (identity_verification_session \ {v}) \union
              {[v EXCEPT !.email_code = u.email_address]}
  /\ Respond(r)
  /\ UNCHANGED <<accountTables, signup_session, signinTables, actionTables,
                 issued>>

revokeIdentityVerificationEmailCodeAction(r) ==
  \E v \in PresentedVerifications :
    /\ v.email_code # Null
    /\ Receive(r, "revokeIdentityVerificationEmailCode", v.id, 0, Null)

revokeIdentityVerificationSessionEmailCode(r) ==
  /\ request[r].handler = "revokeIdentityVerificationEmailCode"
  /\ \E v \in identity_verification_session :
       /\ v.id = request[r].id
       /\ identity_verification_session' =
            (identity_verification_session \ {v}) \union
              {[v EXCEPT !.email_code = Null]}
  /\ Respond(r)
  /\ UNCHANGED <<accountTables, signup_session, signinTables, actionTables,
                 issued>>

verifyIdentityVerificationEmailCodeAction(r) ==
  \E v \in PresentedVerifications :
    /\ v.email_code # Null
    /\ Receive(r, "verifyIdentityVerification", v.id, 0, v.verifying_action)

verifyIdentityVerificationPasskeyWebauthnSignatureAction(r) ==
  \E v \in PresentedVerifications, a \in auth_session, p \in passkey :
    /\ a.id = v.auth_session_id
    /\ p.user_id = a.user_id
    /\ Receive(r, "verifyIdentityVerification", v.id, 0, v.verifying_action)

-----------------------------------------------------------------------------

\* UPDATE ... SET identity_verified = 1 on the session with that id.
MarkVerified(rows, id) ==
  {IF s.id = id THEN [s EXCEPT !.identity_verified = TRUE] ELSE s : s \in rows}

\* mutant: the transaction does not delete the identity verification
VerificationKept(v) == UNCHANGED identity_verification_session

\* DELETE FROM identity_verification_session WHERE id = ?
VerificationUsed(v) ==
  identity_verification_session' =
    WithoutRow(identity_verification_session, v.id)

completeIdentityVerificationForEmailAddressUpdate(v) ==
  /\ HasRow(email_address_update_session, v.verifying_action_id)
  /\ email_address_update_session' =
       MarkVerified(email_address_update_session, v.verifying_action_id)
  /\ UNCHANGED <<passkey_registration_session, passkey_deletion_session,
                 account_deletion_session>>

completeIdentityVerificationForPasskeyRegistration(v) ==
  /\ HasRow(passkey_registration_session, v.verifying_action_id)
  /\ passkey_registration_session' =
       MarkVerified(passkey_registration_session, v.verifying_action_id)
  /\ UNCHANGED <<email_address_update_session, passkey_deletion_session,
                 account_deletion_session>>

completeIdentityVerificationForPasskeyDeletion(v) ==
  /\ HasRow(passkey_deletion_session, v.verifying_action_id)
  /\ passkey_deletion_session' =
       MarkVerified(passkey_deletion_session, v.verifying_action_id)
  /\ UNCHANGED <<email_address_update_session, passkey_registration_session,
                 account_deletion_session>>

completeIdentityVerificationForAccountDeletion(v) ==
  /\ HasRow(account_deletion_session, v.verifying_action_id)
  /\ account_deletion_session' =
       MarkVerified(account_deletion_session, v.verifying_action_id)
  /\ UNCHANGED <<email_address_update_session, passkey_registration_session,
                 passkey_deletion_session>>

\* Neither the code nor the passkey is looked at again.
completeIdentityVerification(r) ==
  /\ request[r].handler = "verifyIdentityVerification"
  /\ \E v \in identity_verification_session :
       /\ v.id = request[r].id
       /\ v.verifying_action = request[r].value
       /\ \/ v.verifying_action = "email_address_update"
             /\ completeIdentityVerificationForEmailAddressUpdate(v)
          \/ v.verifying_action = "passkey_registration"
             /\ completeIdentityVerificationForPasskeyRegistration(v)
          \/ v.verifying_action = "passkey_deletion"
             /\ completeIdentityVerificationForPasskeyDeletion(v)
          \/ v.verifying_action = "account_deletion"
             /\ completeIdentityVerificationForAccountDeletion(v)
       /\ VerificationUsed(v)
  /\ Respond(r)
  /\ UNCHANGED <<accountTables, signup_session, signinTables, issued>>

IdentityVerificationStep(r) ==
  \/ cancelIdentityVerificationAction(r)
  \/ cancelVerifyingAction(r)
  \/ issueIdentityVerificationEmailCodeAction(r)
  \/ issueIdentityVerificationSessionEmailCode(r)
  \/ revokeIdentityVerificationEmailCodeAction(r)
  \/ revokeIdentityVerificationSessionEmailCode(r)
  \/ verifyIdentityVerificationEmailCodeAction(r)
  \/ verifyIdentityVerificationPasskeyWebauthnSignatureAction(r)
  \/ completeIdentityVerification(r)
=============================================================================
