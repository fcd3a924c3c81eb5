--------------------------- MODULE PasskeyDeletion ---------------------------
(***************************************************************************)
(* Removing a passkey (passkey_deletion.go and its handlers in             *)
(* actions.go): the client names the passkey, proves its identity and      *)
(* confirms.                                                               *)
(***************************************************************************)
EXTENDS Tables

\* What clients ask for.  TRUE: a passkey they are offered, as the buttons of
\* the account page do; FALSE: any passkey whose id they know.
CONSTANT OwnPasskeysOnly

ASSUME OwnPasskeysOnlyAssumption == OwnPasskeysOnly \in BOOLEAN

\* The account page lists the passkeys of its user (getUserPasskeys).
AskedPasskeys(a) ==
  {p \in passkey : OwnPasskeysOnly => p.user_id = a.user_id}

\* Read by the handler: the auth session, then the passkey by its id.  It does
\* not ask whether the passkey is of the auth session's user.
startPasskeyDeletionAction(r) ==
  \E a \in auth_session : \E p \in AskedPasskeys(a) :
    Receive(r, "startPasskeyDeletion", a.id, p.id, Null)

createPasskeyDeletionSession(r) ==
  LET id == NewId("verifying_action")
      authSessionId == request[r].id
      passkeyId == request[r].other
  IN /\ request[r].handler = "startPasskeyDeletion"
     /\ HasRow(auth_session, authSessionId)
     /\ HasRow(passkey, passkeyId)
     /\ Issue({"verifying_action"})
     /\ passkey_deletion_session' = passkey_deletion_session \union
          {[id |-> id, auth_session_id |-> authSessionId,
            identity_verified |-> FALSE, passkey_id |-> passkeyId]}
     /\ identity_verification_session' = identity_verification_session \union
          {NewIdentityVerificationSession("passkey_deletion", id,
                                          authSessionId)}
     /\ Respond(r)
     /\ UNCHANGED <<accountTables, signup_session, signinTables,
                    email_address_update_session,
                    passkey_registration_session, account_deletion_session>>

VerifiedPasskeyDeletionSessions ==
  {s \in passkey_deletion_session :
     s.identity_verified /\ HasRow(auth_session, s.auth_session_id)}

cancelPasskeyDeletionAction(r) ==
  \E s \in VerifiedPasskeyDeletionSessions :
    Receive(r, "cancelPasskeyDeletion", s.id, 0, Null)

deletePasskeyDeletionSession(id) ==
  /\ HasRow(passkey_deletion_session, id)
  /\ passkey_deletion_session' = WithoutRow(passkey_deletion_session, id)
  /\ DeleteVerificationsOf("passkey_deletion", id)
  /\ UNCHANGED <<accountTables, signup_session, signinTables,
                 email_address_update_session, passkey_registration_session,
                 account_deletion_session, issued>>

\* mutant: the handler confirms before the identity is verified
AllPasskeyDeletionSessions == passkey_deletion_session

\* identity_verified is read here only: the transaction does not ask again.
ConfirmablePasskeyDeletionSessions == VerifiedPasskeyDeletionSessions

confirmPasskeyDeletionAction(r) ==
  \E s \in ConfirmablePasskeyDeletionSessions :
    Receive(r, "confirmPasskeyDeletion", s.id, 0, Null)

\* The passkey takes every session that would delete it along (CASCADE).
completePasskeyDeletion(r) ==
  /\ request[r].handler = "confirmPasskeyDeletion"
  /\ \E s \in passkey_deletion_session :
       /\ s.id = request[r].id
       /\ HasRow(passkey, s.passkey_id)
       /\ CascadeDelete({}, {}, {s.passkey_id})
  /\ Respond(r)
  /\ UNCHANGED <<signup_session, passkey_signin_attempt, issued>>

PasskeyDeletionStep(r) ==
  \/ startPasskeyDeletionAction(r)
  \/ createPasskeyDeletionSession(r)
  \/ cancelPasskeyDeletionAction(r)
  \/ /\ request[r].handler = "cancelPasskeyDeletion"
     /\ deletePasskeyDeletionSession(request[r].id)
     /\ Respond(r)
  \/ confirmPasskeyDeletionAction(r)
  \/ completePasskeyDeletion(r)
=============================================================================
