--------------------------- MODULE AccountDeletion ---------------------------
(***************************************************************************)
(* Deleting an account (account_deletion.go and its handlers in            *)
(* actions.go): the client proves its identity and confirms.               *)
(***************************************************************************)
EXTENDS Tables

startAccountDeletionAction(r) ==
  \E a \in auth_session :
    Receive(r, "startAccountDeletion", a.id, 0, Null)

createAccountDeletionSession(r) ==
  LET id == NewId("verifying_action")
      authSessionId == request[r].id
  IN /\ request[r].handler = "startAccountDeletion"
     /\ HasRow(auth_session, authSessionId)
     /\ Issue({"verifying_action"})
     /\ account_deletion_session' = account_deletion_session \union
          {[id |-> id, auth_session_id |-> authSessionId,
            identity_verified |-> FALSE]}
     /\ identity_verification_session' = identity_verification_session \union
          {NewIdentityVerificationSession("account_deletion", id,
                                          authSessionId)}
     /\ Respond(r)
     /\ UNCHANGED <<accountTables, signup_session, signinTables,
                    email_address_update_session,
                    passkey_registration_session, passkey_deletion_session>>

VerifiedAccountDeletionSessions ==
  {s \in account_deletion_session :
     s.identity_verified /\ HasRow(auth_session, s.auth_session_id)}

cancelAccountDeletionAction(r) ==
  \E s \in VerifiedAccountDeletionSessions :
    Receive(r, "cancelAccountDeletion", s.id, 0, Null)

deleteAccountDeletionSession(id) ==
  /\ HasRow(account_deletion_session, id)
  /\ account_deletion_session' = WithoutRow(account_deletion_session, id)
  /\ DeleteVerificationsOf("account_deletion", id)
  /\ UNCHANGED <<accountTables, signup_session, signinTables,
                 email_address_update_session, passkey_registration_session,
                 passkey_deletion_session, issued>>

confirmAccountDeletionAction(r) ==
  \E s \in VerifiedAccountDeletionSessions :
    Receive(r, "confirmAccountDeletion", s.id, 0, Null)

completeAccountDeletion(r) ==
  /\ request[r].handler = "confirmAccountDeletion"
  /\ \E s \in account_deletion_session, u \in user :
       /\ s.id = request[r].id
       /\ OwnedBy(s, u)
       /\ s.identity_verified
       /\ CascadeDelete({u.id}, {}, {})
  /\ Respond(r)
  /\ UNCHANGED <<signup_session, passkey_signin_attempt, issued>>

AccountDeletionStep(r) ==
  \/ startAccountDeletionAction(r)
  \/ createAccountDeletionSession(r)
  \/ cancelAccountDeletionAction(r)
  \/ /\ request[r].handler = "cancelAccountDeletion"
     /\ deleteAccountDeletionSession(request[r].id)
     /\ Respond(r)
  \/ confirmAccountDeletionAction(r)
  \/ completeAccountDeletion(r)
=============================================================================
