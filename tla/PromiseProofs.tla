--------------------------- MODULE PromiseProofs ---------------------------
(***************************************************************************)
(* What a step of Accounts may do, for every value of its constants: its   *)
(* action properties, and that it implements AccountsPromise.              *)
(***************************************************************************)
EXTENDS AccountsProofs

(* SessionsComeFromSignin. *)

\* A new auth session is the only one of its step, which uses up where it
\* comes from.
LEMMA NextSignin ==
  ASSUME TypeOK, [Next]_vars, auth_session' \ auth_session # {}
  PROVE  /\ \E a \in auth_session' : auth_session' \ auth_session = {a}
         /\ \/ passkey_signin_attempt \ passkey_signin_attempt' # {}
            \/ email_code_signin_session \ email_code_signin_session' # {}
            \/ signup_session \ signup_session' # {}
<1>1. ASSUME NEW a, auth_session' = auth_session \union {a}
      PROVE  \E b \in auth_session' : auth_session' \ auth_session = {b}
  BY <1>1
<1>2. ASSUME NEW r \in Requests, CompletesSignup(r)
      PROVE  /\ \E a \in auth_session' : auth_session' \ auth_session = {a}
             /\ signup_session \ signup_session' # {}
  <2>1. PICK s \in signup_session : SignUp(s)
    BY <1>2 DEF CompletesSignup, completeSignupWithoutPasskeyRegistration,
                completeSignupWithPasskeyRegistration
  <2> QED
    BY <1>1, <2>1 DEF SignUp, SignupSessionUsed, WithoutRow
<1>3. ASSUME NEW r \in Requests, completePasskeySignin(r)
      PROVE  /\ \E a \in auth_session' : auth_session' \ auth_session = {a}
             /\ passkey_signin_attempt \ passkey_signin_attempt' # {}
  BY <1>1, <1>3
  DEF completePasskeySignin, UnusedAttempt, HasRow, WithoutRow
<1>4. ASSUME NEW r \in Requests, completeEmailCodeSigninSession(r)
      PROVE  /\ \E a \in auth_session' : auth_session' \ auth_session = {a}
             /\ email_code_signin_session \ email_code_signin_session' # {}
  BY <1>1, <1>4 DEF completeEmailCodeSigninSession, WithoutRow
<1> QED
  BY <1>2, <1>3, <1>4, AuthSessionSteps

\* Signing in works once: every new auth session uses up the sign-up session,
\* sign-in attempt or email code session it comes from, however many requests
\* present it at a time.
THEOREM SigninsWorkOnce == Spec => SessionsComeFromSignin
<1>1. Init => TypeOK
  BY InitTypeOK
<1>2. TypeOK /\ [Next]_vars => TypeOK'
  BY NextTypeOK
<1>3. TypeOK /\ [Next]_vars =>
        [ auth_session' \ auth_session # {} =>
            /\ \E a \in auth_session' : auth_session' \ auth_session = {a}
            /\ \/ passkey_signin_attempt \ passkey_signin_attempt' # {}
               \/ email_code_signin_session \ email_code_signin_session' # {}
               \/ signup_session \ signup_session' # {}
        ]_vars
  BY NextSignin
<1> QED
  BY <1>1, <1>2, <1>3, PTL DEF Spec, SessionsComeFromSignin

-----------------------------------------------------------------------------
(* ReadsStayTrue. *)

\* A sign-up session after a step: a new one, or one that kept its address,
\* what it has proved and the credential it was given.
LEMMA SignupAfter ==
  ASSUME TypeOK, [Next]_vars, NEW t \in signup_session'
  PROVE  \/ t.id = issued["signup_session"] + 1
         \/ \E s \in signup_session :
              /\ s.id = t.id
              /\ s.email_address = t.email_address
              /\ s.email_address_verified => t.email_address_verified
              /\ s.passkey_webauthn_credential_id # Null =>
                   t.passkey_webauthn_credential_id
                     = s.passkey_webauthn_credential_id
<1>1. ASSUME NEW r \in Requests, createSignupSession(r), t \notin signup_session
      PROVE  t.id = NewId("signup_session")
  BY <1>1 DEF createSignupSession
<1>2. ASSUME NEW r \in Requests, setSignupSessionAsEmailAddressVerified(r),
             t \notin signup_session
      PROVE  \E s \in signup_session :
               t = [s EXCEPT !.email_address_verified = TRUE]
  BY <1>2 DEF setSignupSessionAsEmailAddressVerified
<1>3. ASSUME NEW r \in Requests, setSignupSessionPasskeyWebauthnCredential(r),
             t \notin signup_session
      PROVE  \E s \in signup_session :
               /\ s.passkey_webauthn_credential_id = Null
               /\ t = [s EXCEPT !.passkey_webauthn_credential_id =
                                   request[r].value]
  BY <1>3 DEF setSignupSessionPasskeyWebauthnCredential, SetsSignupCredential
<1> QED
  BY <1>1, <1>2, <1>3, SignupSteps, Columns DEF SignupSessionRow, NewId

\* Sessions of verifying actions are only deleted.
ActionSessionsShrink ==
  /\ email_address_update_session' \subseteq email_address_update_session
  /\ passkey_registration_session' \subseteq passkey_registration_session
  /\ passkey_deletion_session' \subseteq passkey_deletion_session
  /\ account_deletion_session' \subseteq account_deletion_session

\* Sessions of verifying actions appear when one starts and are updated by
\* their own handlers and when their identity verification completes.
LEMMA ActionTableSteps ==
  ASSUME TypeOK, [Next]_vars
  PROVE  \/ ActionSessionsShrink
         \/ \E r \in Requests :
              \/ Starts(r)
              \/ setEmailAddressUpdateSessionNewEmailAddress(r)
              \/ setPasskeyRegistrationSessionPasskeyWebauthnCredential(r)
              \/ completeIdentityVerification(r)
<1> USE DEF ActionSessionsShrink
<1>1. ASSUME NEW r \in Requests, SignupCommits(r)
      PROVE  ActionSessionsShrink
  BY <1>1 DEF SignupCommits, createSignupSession,
       deleteSignupSession, setSignupSessionAsEmailAddressVerified,
       setSignupSessionPasskeyWebauthnCredential,
       completeSignupWithoutPasskeyRegistration,
       completeSignupWithPasskeyRegistration, signupLeaves, actionTables
<1>2. ASSUME NEW U, NEW A, NEW P, CascadeDelete(U, A, P)
      PROVE  ActionSessionsShrink
  BY <1>2 DEF CascadeDelete, Without
<1>3. ASSUME NEW r \in Requests, SigninCommits(r)
      PROVE  ActionSessionsShrink
  BY <1>2, <1>3 DEF SigninCommits, createPasskeySigninAttempt,
       deletePasskeySigninAttempt, completePasskeySignin,
       createEmailCodeSigninSessionFromUserEmailAddress,
       deleteEmailCodeSigninSession, completeEmailCodeSigninSession,
       deleteAuthSession, deleteUserAuthSessions, actionTables
<1>4. ASSUME NEW r \in Requests, ActionCommits(r)
      PROVE  \/ ActionSessionsShrink
             \/ Starts(r)
             \/ setEmailAddressUpdateSessionNewEmailAddress(r)
             \/ setPasskeyRegistrationSessionPasskeyWebauthnCredential(r)
  BY <1>2, <1>4 DEF ActionCommits, Starts, completeEmailAddressUpdate,
       completePasskeyRegistration, completePasskeyDeletion,
       completeAccountDeletion, emailAddressUpdateLeaves,
       passkeyRegistrationLeaves, WithoutRow
<1>5. ASSUME NEW r \in Requests, CancelCommits(r) \/ VerificationCommits(r)
      PROVE  ActionSessionsShrink \/ completeIdentityVerification(r)
  BY <1>5, CancelShrinks DEF VerificationCommits,
       issueIdentityVerificationSessionEmailCode,
       revokeIdentityVerificationSessionEmailCode, actionTables
<1>6. CASE cleanDatabase
  BY <1>2, <1>6 DEF cleanDatabase
<1> HIDE DEF ActionSessionsShrink
<1>7. ASSUME NEW r \in Requests, Reads(r) \/ Rollback(r)
      PROVE  ActionSessionsShrink
  BY <1>7 DEF Reads, Receive, Rollback, database, ActionSessionsShrink
<1>8. CASE UNCHANGED vars
  BY <1>8 DEF vars, ActionSessionsShrink
<1> QED
  BY <1>1, <1>3, <1>4, <1>5, <1>6, <1>7, <1>8, NextSteps DEF Commits

\* What completeIdentityVerification does to the session of its verification.
LEMMA MarkedRow ==
  ASSUME NEW rows, NEW id, NEW t \in MarkVerified(rows, id)
  PROVE  \E s \in rows : t = s \/ t = [s EXCEPT !.identity_verified = TRUE]
BY DEF MarkVerified

\* A session of an address update after a step: a new one, or one that kept
\* what it has proved and the address it was given.
LEMMA UpdateAfter ==
  ASSUME TypeOK, [Next]_vars, NEW t \in email_address_update_session'
  PROVE  \/ t.id = issued["verifying_action"] + 1
         \/ \E s \in email_address_update_session :
              /\ s.id = t.id
              /\ s.auth_session_id = t.auth_session_id
              /\ s.identity_verified => t.identity_verified
              /\ s.new_email_address # Null =>
                   t.new_email_address = s.new_email_address
<1>1. ASSUME NEW r \in Requests, Starts(r),
             t \notin email_address_update_session
      PROVE  t.id = NewId("verifying_action")
  BY <1>1 DEF Starts, createEmailAddressUpdateSession,
       createPasskeyRegistrationSession, createPasskeyDeletionSession,
       createAccountDeletionSession, passkeyRegistrationLeaves
<1>2. ASSUME NEW r \in Requests, setEmailAddressUpdateSessionNewEmailAddress(r),
             t \notin email_address_update_session
      PROVE  \E s \in email_address_update_session :
               /\ s.new_email_address = Null
               /\ t = [s EXCEPT !.new_email_address = request[r].value]
  BY <1>2 DEF setEmailAddressUpdateSessionNewEmailAddress, SetsNewEmailAddress
<1>3. ASSUME NEW r \in Requests, completeIdentityVerification(r)
      PROVE  \E s \in email_address_update_session :
               t = s \/ t = [s EXCEPT !.identity_verified = TRUE]
  BY <1>3, MarkedRow
  DEF completeIdentityVerification,
      completeIdentityVerificationForEmailAddressUpdate,
      completeIdentityVerificationForPasskeyRegistration,
      completeIdentityVerificationForPasskeyDeletion,
      completeIdentityVerificationForAccountDeletion
<1>4. ASSUME NEW r \in Requests,
             setPasskeyRegistrationSessionPasskeyWebauthnCredential(r)
      PROVE  t \in email_address_update_session
  BY <1>4 DEF setPasskeyRegistrationSessionPasskeyWebauthnCredential,
              passkeyRegistrationLeaves
<1>5. \/ t \in email_address_update_session
      \/ t.id = NewId("verifying_action")
      \/ \E s \in email_address_update_session :
           \/ /\ s.new_email_address = Null
              /\ \E e : t = [s EXCEPT !.new_email_address = e]
           \/ t = [s EXCEPT !.identity_verified = TRUE]
  BY <1>1, <1>2, <1>3, <1>4, ActionTableSteps DEF ActionSessionsShrink
<1> QED
  BY <1>5, Columns DEF EmailAddressUpdateSessionRow, NewId

\* Of a passkey registration, with the credential it was given.
LEMMA RegistrationAfter ==
  ASSUME TypeOK, [Next]_vars, NEW t \in passkey_registration_session'
  PROVE  \/ t.id = issued["verifying_action"] + 1
         \/ \E s \in passkey_registration_session :
              /\ s.id = t.id
              /\ s.auth_session_id = t.auth_session_id
              /\ s.identity_verified => t.identity_verified
              /\ s.passkey_webauthn_credential_id # Null =>
                   t.passkey_webauthn_credential_id
                     = s.passkey_webauthn_credential_id
<1>1. ASSUME NEW r \in Requests, Starts(r),
             t \notin passkey_registration_session
      PROVE  t.id = NewId("verifying_action")
  BY <1>1 DEF Starts, createEmailAddressUpdateSession,
       createPasskeyRegistrationSession, createPasskeyDeletionSession,
       createAccountDeletionSession, emailAddressUpdateLeaves
<1>2. ASSUME NEW r \in Requests,
             setPasskeyRegistrationSessionPasskeyWebauthnCredential(r),
             t \notin passkey_registration_session
      PROVE  \E s \in passkey_registration_session :
               /\ s.passkey_webauthn_credential_id = Null
               /\ t = [s EXCEPT !.passkey_webauthn_credential_id =
                                   request[r].value]
  BY <1>2 DEF setPasskeyRegistrationSessionPasskeyWebauthnCredential
<1>3. ASSUME NEW r \in Requests, completeIdentityVerification(r)
      PROVE  \E s \in passkey_registration_session :
               t = s \/ t = [s EXCEPT !.identity_verified = TRUE]
  BY <1>3, MarkedRow
  DEF completeIdentityVerification,
      completeIdentityVerificationForEmailAddressUpdate,
      completeIdentityVerificationForPasskeyRegistration,
      completeIdentityVerificationForPasskeyDeletion,
      completeIdentityVerificationForAccountDeletion
<1>4. ASSUME NEW r \in Requests, setEmailAddressUpdateSessionNewEmailAddress(r)
      PROVE  t \in passkey_registration_session
  BY <1>4 DEF setEmailAddressUpdateSessionNewEmailAddress,
              emailAddressUpdateLeaves
<1>5. \/ t \in passkey_registration_session
      \/ t.id = NewId("verifying_action")
      \/ \E s \in passkey_registration_session :
           \/ /\ s.passkey_webauthn_credential_id = Null
              /\ \E c : t = [s EXCEPT !.passkey_webauthn_credential_id = c]
           \/ t = [s EXCEPT !.identity_verified = TRUE]
  BY <1>1, <1>2, <1>3, <1>4, ActionTableSteps DEF ActionSessionsShrink
<1> QED
  BY <1>5, Columns DEF PasskeyRegistrationSessionRow, NewId

\* Of a passkey deletion, with the passkey.
LEMMA DeletionAfter ==
  ASSUME TypeOK, [Next]_vars, NEW t \in passkey_deletion_session'
  PROVE  \/ t.id = issued["verifying_action"] + 1
         \/ \E s \in passkey_deletion_session :
              /\ s.id = t.id
              /\ s.auth_session_id = t.auth_session_id
              /\ s.identity_verified => t.identity_verified
              /\ s.passkey_id = t.passkey_id
<1>1. ASSUME NEW r \in Requests, Starts(r), t \notin passkey_deletion_session
      PROVE  t.id = NewId("verifying_action")
  BY <1>1 DEF Starts, createEmailAddressUpdateSession,
       createPasskeyRegistrationSession, createPasskeyDeletionSession,
       createAccountDeletionSession, emailAddressUpdateLeaves,
       passkeyRegistrationLeaves
<1>2. ASSUME NEW r \in Requests, completeIdentityVerification(r)
      PROVE  \E s \in passkey_deletion_session :
               t = s \/ t = [s EXCEPT !.identity_verified = TRUE]
  BY <1>2, MarkedRow
  DEF completeIdentityVerification,
      completeIdentityVerificationForEmailAddressUpdate,
      completeIdentityVerificationForPasskeyRegistration,
      completeIdentityVerificationForPasskeyDeletion,
      completeIdentityVerificationForAccountDeletion
<1>3. ASSUME NEW r \in Requests,
             \/ setEmailAddressUpdateSessionNewEmailAddress(r)
             \/ setPasskeyRegistrationSessionPasskeyWebauthnCredential(r)
      PROVE  t \in passkey_deletion_session
  BY <1>3 DEF setEmailAddressUpdateSessionNewEmailAddress,
              setPasskeyRegistrationSessionPasskeyWebauthnCredential,
              emailAddressUpdateLeaves, passkeyRegistrationLeaves
<1>4. \/ t.id = NewId("verifying_action")
      \/ \E s \in passkey_deletion_session :
           t = s \/ t = [s EXCEPT !.identity_verified = TRUE]
  BY <1>1, <1>2, <1>3, ActionTableSteps DEF ActionSessionsShrink
<1> QED
  BY <1>4, Columns DEF PasskeyDeletionSessionRow, NewId

\* Of an account deletion.
LEMMA AccountDeletionAfter ==
  ASSUME TypeOK, [Next]_vars, NEW t \in account_deletion_session'
  PROVE  \/ t.id = issued["verifying_action"] + 1
         \/ \E s \in account_deletion_session :
              /\ s.id = t.id
              /\ s.auth_session_id = t.auth_session_id
              /\ s.identity_verified => t.identity_verified
<1>1. ASSUME NEW r \in Requests, Starts(r), t \notin account_deletion_session
      PROVE  t.id = NewId("verifying_action")
  BY <1>1 DEF Starts, createEmailAddressUpdateSession,
       createPasskeyRegistrationSession, createPasskeyDeletionSession,
       createAccountDeletionSession, emailAddressUpdateLeaves,
       passkeyRegistrationLeaves
<1>2. ASSUME NEW r \in Requests, completeIdentityVerification(r)
      PROVE  \E s \in account_deletion_session :
               t = s \/ t = [s EXCEPT !.identity_verified = TRUE]
  BY <1>2, MarkedRow
  DEF completeIdentityVerification,
      completeIdentityVerificationForEmailAddressUpdate,
      completeIdentityVerificationForPasskeyRegistration,
      completeIdentityVerificationForPasskeyDeletion,
      completeIdentityVerificationForAccountDeletion
<1>3. ASSUME NEW r \in Requests,
             \/ setEmailAddressUpdateSessionNewEmailAddress(r)
             \/ setPasskeyRegistrationSessionPasskeyWebauthnCredential(r)
      PROVE  t \in account_deletion_session
  BY <1>3 DEF setEmailAddressUpdateSessionNewEmailAddress,
              setPasskeyRegistrationSessionPasskeyWebauthnCredential,
              emailAddressUpdateLeaves, passkeyRegistrationLeaves
<1>4. \/ t.id = NewId("verifying_action")
      \/ \E s \in account_deletion_session :
           t = s \/ t = [s EXCEPT !.identity_verified = TRUE]
  BY <1>1, <1>2, <1>3, ActionTableSteps DEF ActionSessionsShrink
<1> QED
  BY <1>4, Columns DEF AccountDeletionSessionRow, NewId

\* Of an identity verification, with what it is for.
LEMMA VerificationAfter ==
  ASSUME TypeOK, [Next]_vars, NEW t \in identity_verification_session'
  PROVE  \/ t.id = issued["verifying_action"] + 1
         \/ \E v \in identity_verification_session :
              /\ v.id = t.id
              /\ v.verifying_action = t.verifying_action
              /\ v.verifying_action_id = t.verifying_action_id
<1>1. ASSUME NEW r \in Requests, Starts(r),
             t \notin identity_verification_session
      PROVE  t.id = NewId("verifying_action")
  BY <1>1 DEF Starts, createEmailAddressUpdateSession,
       createPasskeyRegistrationSession, createPasskeyDeletionSession,
       createAccountDeletionSession, NewIdentityVerificationSession
<1>2. ASSUME NEW r \in Requests,
             \/ issueIdentityVerificationSessionEmailCode(r)
             \/ revokeIdentityVerificationSessionEmailCode(r)
             \/ completeEmailAddressUpdate(r)
      PROVE  \E v \in identity_verification_session :
               t = v \/ \E code : t = [v EXCEPT !.email_code = code]
  BY <1>2 DEF issueIdentityVerificationSessionEmailCode,
       revokeIdentityVerificationSessionEmailCode, completeEmailAddressUpdate,
       RevokeEmailCodes
<1>3. \/ t.id = NewId("verifying_action")
      \/ \E v \in identity_verification_session :
           t = v \/ \E code : t = [v EXCEPT !.email_code = code]
  BY <1>1, <1>2, VerificationSteps
<1> QED
  BY <1>3, Columns DEF IdentityVerificationSessionRow, NewId

\* The inductive form of ReadsStayTrue: the session has been there, and the
\* column read has been set, so that neither can appear again.
Settled(q) ==
  /\ q.handler \in {"setSignupCredential", "completeSignup",
                    "setSignupPasskeyName"} =>
       q.id <= issued["signup_session"]
  /\ q.handler \in {"cancelEmailAddressUpdate", "setNewEmailAddress",
                    "verifyNewEmailAddress", "cancelPasskeyRegistration",
                    "setPasskeyRegistrationCredential",
                    "setPasskeyRegistrationName", "cancelPasskeyDeletion",
                    "confirmPasskeyDeletion", "cancelAccountDeletion",
                    "confirmAccountDeletion", "cancelIdentityVerification"} =>
       q.id <= issued["verifying_action"]
  /\ q.handler \in {"setSignupPasskeyName", "verifyNewEmailAddress",
                    "setPasskeyRegistrationName"} => q.value # Null

\* Of every request in flight.
ReadsInv == \A r \in Requests : Settled(request[r]) /\ StillTrue(request[r])

\* A handler has read, and checked what StillTrue says.
ReadsFit(r) ==
  \E q : /\ request' = [request EXCEPT ![r] = q]
         /\ UNCHANGED <<database, issued>>
         /\ Settled(q)
         /\ StillTrue(q)

\* Reading it is enough.
LEMMA ReceiveFits ==
  ASSUME NEW r, NEW h, NEW id, NEW other, NEW value,
         Receive(r, h, id, other, value),
         LET q == [handler |-> h, id |-> id, other |-> other, value |-> value]
         IN Settled(q) /\ StillTrue(q)
  PROVE  ReadsFit(r)
BY DEF Receive, ReadsFit, database

\* The handlers that StillTrue says nothing about.
LEMMA OtherReceiveFits ==
  ASSUME NEW r, NEW h, NEW id, NEW other, NEW value,
         Receive(r, h, id, other, value),
         h \notin {"setSignupCredential", "completeSignup",
                   "setSignupPasskeyName",
                   "cancelEmailAddressUpdate", "setNewEmailAddress",
                   "verifyNewEmailAddress", "cancelPasskeyRegistration",
                   "setPasskeyRegistrationCredential",
                   "setPasskeyRegistrationName", "cancelPasskeyDeletion",
                   "confirmPasskeyDeletion", "cancelAccountDeletion",
                   "confirmAccountDeletion", "cancelIdentityVerification"}
  PROVE  ReadsFit(r)
<1> DEFINE q == [handler |-> h, id |-> id, other |-> other, value |-> value]
<1>1. q.handler = h
  OBVIOUS
<1> HIDE DEF q
<1>2. Settled(q) /\ StillTrue(q)
  BY <1>1 DEF Settled, StillTrue
<1> QED
  BY <1>2, ReceiveFits DEF q

\* The rows handlers read have ids that are drawn, and are the only ones with
\* their ids.
LEMMA Keys ==
  ASSUME TypeOK
  PROVE  /\ \A s \in signup_session :
              /\ s.id <= issued["signup_session"]
              /\ \A t \in signup_session : t.id = s.id => t = s
         /\ \A s \in email_address_update_session :
              /\ s.id <= issued["verifying_action"]
              /\ \A t \in email_address_update_session : t.id = s.id => t = s
         /\ \A s \in passkey_registration_session :
              /\ s.id <= issued["verifying_action"]
              /\ \A t \in passkey_registration_session : t.id = s.id => t = s
         /\ \A s \in passkey_deletion_session :
              /\ s.id <= issued["verifying_action"]
              /\ \A t \in passkey_deletion_session : t.id = s.id => t = s
         /\ \A s \in account_deletion_session :
              /\ s.id <= issued["verifying_action"]
              /\ \A t \in account_deletion_session : t.id = s.id => t = s
         /\ \A s \in identity_verification_session :
              /\ s.id <= issued["verifying_action"]
              /\ \A t \in identity_verification_session : t.id = s.id => t = s
BY DEF TypeOK, TablesOK, TableOK, Counters

\* What the handlers of sign-up have read holds.
LEMMA SignupFits ==
  ASSUME TypeOK, NEW r \in Requests, SignupStep(r)
  PROVE  ReadsFit(r) \/ SignupCommits(r)
<1>1. CASE \/ startSignupAction(r)
           \/ cancelSignupAction(r)
           \/ verifySignupEmailAddressVerificationCodeAction(r)
  BY <1>1, OtherReceiveFits DEF startSignupAction, cancelSignupAction,
     verifySignupEmailAddressVerificationCodeAction
<1>2. ASSUME NEW s \in signup_session, NEW h, NEW value,
             s.email_address_verified,
             \/ h = "setSignupCredential"
             \/ h = "completeSignup" /\ value = s.email_address
             \/ /\ h = "setSignupPasskeyName"
                /\ value = s.passkey_webauthn_credential_id
                /\ value # Null,
             Receive(r, h, s.id, 0, value)
      PROVE  ReadsFit(r)
  <2> DEFINE q == [handler |-> h, id |-> s.id, other |-> 0, value |-> value]
  <2>1. q.handler = h /\ q.id = s.id /\ q.value = value
    OBVIOUS
  <2> HIDE DEF q
  <2>2. Settled(q) /\ StillTrue(q)
    BY <1>2, <2>1, Keys DEF Settled, StillTrue
  <2> QED
    BY <1>2, <2>2, ReceiveFits DEF q
<1>3. CASE setSignupPasskeyWebauthnCredentialAction(r)
  BY <1>2, <1>3 DEF setSignupPasskeyWebauthnCredentialAction
<1>4. CASE completeSignupWithoutPasskeyRegistrationAction(r)
  BY <1>2, <1>4 DEF completeSignupWithoutPasskeyRegistrationAction
<1>5. CASE setSignupPasskeyNameAction(r)
  BY <1>2, <1>5 DEF setSignupPasskeyNameAction
<1> QED
  BY <1>1, <1>3, <1>4, <1>5 DEF SignupStep, SignupCommits

\* Of sign-in and sign-out.
LEMMA SigninFits ==
  ASSUME NEW r \in Requests, SigninStep(r)
  PROVE  ReadsFit(r) \/ SigninCommits(r)
BY OtherReceiveFits
DEF SigninStep, SigninCommits, cancelPasskeySigninAction,
    verifyPasskeySigninWebauthnSignatureAction, startEmailCodeSigninAction,
    cancelEmailCodeSigninAction, verifyEmailCodeSigninEmailCodeAction,
    signOutAction, signOutAllDevicesAction

\* Of an address update.
LEMMA EmailAddressUpdateFits ==
  ASSUME TypeOK, NEW r \in Requests, EmailAddressUpdateStep(r)
  PROVE  ReadsFit(r) \/ ActionCommits(r) \/ CancelCommits(r)
<1>1. CASE startEmailAddressUpdateAction(r)
  BY <1>1, OtherReceiveFits DEF startEmailAddressUpdateAction
<1>2. ASSUME NEW s \in email_address_update_session, NEW h, NEW value,
             s.identity_verified,
             \/ h \in {"cancelEmailAddressUpdate", "setNewEmailAddress"}
             \/ /\ h = "verifyNewEmailAddress"
                /\ value = s.new_email_address
                /\ value # Null,
             Receive(r, h, s.id, 0, value)
      PROVE  ReadsFit(r)
  <2> DEFINE q == [handler |-> h, id |-> s.id, other |-> 0, value |-> value]
  <2>1. q.handler = h /\ q.id = s.id /\ q.value = value
    OBVIOUS
  <2> HIDE DEF q
  <2>2. Settled(q) /\ StillTrue(q)
    BY <1>2, <2>1, Keys DEF Settled, StillTrue
  <2> QED
    BY <1>2, <2>2, ReceiveFits DEF q
<1>3. CASE cancelEmailAddressUpdateAction(r)
  BY <1>2, <1>3 DEF cancelEmailAddressUpdateAction,
     VerifiedEmailAddressUpdateSessions
<1>4. CASE setEmailAddressUpdateNewEmailAddressAction(r)
  BY <1>2, <1>4 DEF setEmailAddressUpdateNewEmailAddressAction,
     VerifiedEmailAddressUpdateSessions
<1>5. CASE verifyEmailAddressUpdateNewEmailAddressVerificationCodeAction(r)
  BY <1>2, <1>5
  DEF verifyEmailAddressUpdateNewEmailAddressVerificationCodeAction,
      VerifiedEmailAddressUpdateSessions
<1> QED
  BY <1>1, <1>3, <1>4, <1>5
  DEF EmailAddressUpdateStep, ActionCommits, CancelCommits

\* Of a passkey registration.
LEMMA PasskeyRegistrationFits ==
  ASSUME TypeOK, NEW r \in Requests, PasskeyRegistrationStep(r)
  PROVE  ReadsFit(r) \/ ActionCommits(r) \/ CancelCommits(r)
<1>1. CASE startPasskeyRegistrationAction(r)
  BY <1>1, OtherReceiveFits DEF startPasskeyRegistrationAction
<1>2. ASSUME NEW s \in passkey_registration_session, NEW h, NEW value,
             s.identity_verified,
             \/ h \in {"cancelPasskeyRegistration",
                       "setPasskeyRegistrationCredential"}
             \/ /\ h = "setPasskeyRegistrationName"
                /\ value = s.passkey_webauthn_credential_id
                /\ value # Null,
             Receive(r, h, s.id, 0, value)
      PROVE  ReadsFit(r)
  <2> DEFINE q == [handler |-> h, id |-> s.id, other |-> 0, value |-> value]
  <2>1. q.handler = h /\ q.id = s.id /\ q.value = value
    OBVIOUS
  <2> HIDE DEF q
  <2>2. Settled(q) /\ StillTrue(q)
    BY <1>2, <2>1, Keys DEF Settled, StillTrue
  <2> QED
    BY <1>2, <2>2, ReceiveFits DEF q
<1>3. CASE cancelPasskeyRegistrationAction(r)
  BY <1>2, <1>3 DEF cancelPasskeyRegistrationAction,
     VerifiedPasskeyRegistrationSessions
<1>4. CASE setPasskeyRegistrationPasskeyWebauthnCredentialAction(r)
  BY <1>2, <1>4 DEF setPasskeyRegistrationPasskeyWebauthnCredentialAction,
     VerifiedPasskeyRegistrationSessions
<1>5. CASE setPasskeyRegistrationPasskeyNameAction(r)
  BY <1>2, <1>5 DEF setPasskeyRegistrationPasskeyNameAction,
     VerifiedPasskeyRegistrationSessions
<1> QED
  BY <1>1, <1>3, <1>4, <1>5
  DEF PasskeyRegistrationStep, ActionCommits, CancelCommits

\* Of a passkey deletion.
LEMMA PasskeyDeletionFits ==
  ASSUME TypeOK, NEW r \in Requests, PasskeyDeletionStep(r)
  PROVE  ReadsFit(r) \/ ActionCommits(r) \/ CancelCommits(r)
<1>1. CASE startPasskeyDeletionAction(r)
  BY <1>1, OtherReceiveFits DEF startPasskeyDeletionAction
<1>2. ASSUME NEW s \in passkey_deletion_session, s.identity_verified,
             NEW h \in {"cancelPasskeyDeletion", "confirmPasskeyDeletion"},
             Receive(r, h, s.id, 0, Null)
      PROVE  ReadsFit(r)
  <2> DEFINE q == [handler |-> h, id |-> s.id, other |-> 0, value |-> Null]
  <2>1. q.handler = h /\ q.id = s.id
    OBVIOUS
  <2> HIDE DEF q
  <2>2. Settled(q) /\ StillTrue(q)
    BY <1>2, <2>1, Keys DEF Settled, StillTrue
  <2> QED
    BY <1>2, <2>2, ReceiveFits DEF q
<1>3. CASE cancelPasskeyDeletionAction(r)
  BY <1>2, <1>3 DEF cancelPasskeyDeletionAction,
     VerifiedPasskeyDeletionSessions
<1>4. CASE confirmPasskeyDeletionAction(r)
  BY <1>2, <1>4 DEF confirmPasskeyDeletionAction,
     ConfirmablePasskeyDeletionSessions, VerifiedPasskeyDeletionSessions
<1> QED
  BY <1>1, <1>3, <1>4
  DEF PasskeyDeletionStep, ActionCommits, CancelCommits

\* Of an account deletion.
LEMMA AccountDeletionFits ==
  ASSUME TypeOK, NEW r \in Requests, AccountDeletionStep(r)
  PROVE  ReadsFit(r) \/ ActionCommits(r) \/ CancelCommits(r)
<1>1. CASE startAccountDeletionAction(r)
  BY <1>1, OtherReceiveFits DEF startAccountDeletionAction
<1>2. ASSUME NEW s \in account_deletion_session, s.identity_verified,
             NEW h \in {"cancelAccountDeletion", "confirmAccountDeletion"},
             Receive(r, h, s.id, 0, Null)
      PROVE  ReadsFit(r)
  <2> DEFINE q == [handler |-> h, id |-> s.id, other |-> 0, value |-> Null]
  <2>1. q.handler = h /\ q.id = s.id
    OBVIOUS
  <2> HIDE DEF q
  <2>2. Settled(q) /\ StillTrue(q)
    BY <1>2, <2>1, Keys DEF Settled, StillTrue
  <2> QED
    BY <1>2, <2>2, ReceiveFits DEF q
<1>3. CASE cancelAccountDeletionAction(r)
  BY <1>2, <1>3 DEF cancelAccountDeletionAction,
     VerifiedAccountDeletionSessions
<1>4. CASE confirmAccountDeletionAction(r)
  BY <1>2, <1>4 DEF confirmAccountDeletionAction,
     VerifiedAccountDeletionSessions
<1> QED
  BY <1>1, <1>3, <1>4
  DEF AccountDeletionStep, ActionCommits, CancelCommits

\* Of an identity verification.
LEMMA IdentityVerificationFits ==
  ASSUME TypeOK, NEW r \in Requests, IdentityVerificationStep(r)
  PROVE  ReadsFit(r) \/ CancelCommits(r) \/ VerificationCommits(r)
<1>1. CASE \/ issueIdentityVerificationEmailCodeAction(r)
           \/ revokeIdentityVerificationEmailCodeAction(r)
           \/ verifyIdentityVerificationEmailCodeAction(r)
           \/ verifyIdentityVerificationPasskeyWebauthnSignatureAction(r)
  BY <1>1, OtherReceiveFits DEF issueIdentityVerificationEmailCodeAction,
     revokeIdentityVerificationEmailCodeAction,
     verifyIdentityVerificationEmailCodeAction,
     verifyIdentityVerificationPasskeyWebauthnSignatureAction
<1>2. CASE cancelIdentityVerificationAction(r)
  <2>1. PICK v \in identity_verification_session :
          Receive(r, "cancelIdentityVerification", v.id,
                  v.verifying_action_id, v.verifying_action)
    BY <1>2 DEF cancelIdentityVerificationAction, PresentedVerifications
  <2> DEFINE q == [handler |-> "cancelIdentityVerification", id |-> v.id,
                   other |-> v.verifying_action_id,
                   value |-> v.verifying_action]
  <2>2. /\ q.handler = "cancelIdentityVerification"
        /\ q.id = v.id
        /\ q.other = v.verifying_action_id
        /\ q.value = v.verifying_action
    OBVIOUS
  <2> HIDE DEF q
  <2>3. Settled(q) /\ StillTrue(q)
    BY <2>2, Keys DEF Settled, StillTrue
  <2> QED
    BY <2>1, <2>3, ReceiveFits DEF q
<1> QED
  BY <1>1, <1>2 DEF IdentityVerificationStep, cancelVerifyingAction,
     CancelCommits, VerificationCommits

\* Every step is a read of what holds, or changes the requests to idle only.
LEMMA RequestSteps ==
  ASSUME TypeOK, [Next]_vars
  PROVE  \/ \E r \in Requests : ReadsFit(r) \/ Respond(r)
         \/ UNCHANGED request
<1>1. ASSUME NEW r \in Requests,
             \/ SignupStep(r) \/ SigninStep(r) \/ EmailAddressUpdateStep(r)
             \/ PasskeyRegistrationStep(r) \/ PasskeyDeletionStep(r)
             \/ AccountDeletionStep(r) \/ IdentityVerificationStep(r)
      PROVE  ReadsFit(r) \/ Commits(r)
  BY <1>1, SignupFits, SigninFits, EmailAddressUpdateFits,
     PasskeyRegistrationFits, PasskeyDeletionFits, AccountDeletionFits,
     IdentityVerificationFits DEF Commits
<1>2. CASE UNCHANGED vars
  BY <1>2 DEF vars
<1>3. CASE Next
  BY <1>1, <1>3, CommitsRespond DEF Next, Rollback, cleanDatabase
<1> QED
  BY <1>2, <1>3

\* A step draws ids from some of the counters.
LEMMA IssuedSteps ==
  ASSUME TypeOK, [Next]_vars
  PROVE  UNCHANGED issued \/ \E C \in SUBSET Counters : Issue(C)
<1>1. ASSUME NEW r \in Requests, Commits(r)
      PROVE  UNCHANGED issued \/ \E C \in SUBSET Counters : Issue(C)
  <2>1. ASSUME SignupCommits(r)
        PROVE  UNCHANGED issued \/ \E C \in SUBSET Counters : Issue(C)
    BY <2>1 DEF SignupCommits, createSignupSession, deleteSignupSession,
       setSignupSessionAsEmailAddressVerified,
       setSignupSessionPasskeyWebauthnCredential,
       completeSignupWithoutPasskeyRegistration,
       completeSignupWithPasskeyRegistration, Counters
  <2>2. ASSUME SigninCommits(r)
        PROVE  UNCHANGED issued \/ \E C \in SUBSET Counters : Issue(C)
    BY <2>2 DEF SigninCommits, createPasskeySigninAttempt,
       deletePasskeySigninAttempt, completePasskeySignin,
       createEmailCodeSigninSessionFromUserEmailAddress,
       deleteEmailCodeSigninSession, completeEmailCodeSigninSession,
       deleteAuthSession, deleteUserAuthSessions, Counters
  <2>3. ASSUME ActionCommits(r)
        PROVE  UNCHANGED issued \/ \E C \in SUBSET Counters : Issue(C)
    BY <2>3 DEF ActionCommits, createEmailAddressUpdateSession,
       setEmailAddressUpdateSessionNewEmailAddress, completeEmailAddressUpdate,
       createPasskeyRegistrationSession,
       setPasskeyRegistrationSessionPasskeyWebauthnCredential,
       completePasskeyRegistration, createPasskeyDeletionSession,
       completePasskeyDeletion, createAccountDeletionSession,
       completeAccountDeletion, Counters
  <2>4. ASSUME CancelCommits(r) \/ VerificationCommits(r)
        PROVE  UNCHANGED issued
    BY <2>4, CancelShrinks DEF VerificationCommits,
       issueIdentityVerificationSessionEmailCode,
       revokeIdentityVerificationSessionEmailCode, completeIdentityVerification
  <2> QED
    BY <1>1, <2>1, <2>2, <2>3, <2>4 DEF Commits
<1>2. ASSUME NEW r \in Requests, Reads(r) \/ Rollback(r)
      PROVE  UNCHANGED issued
  BY <1>2 DEF Reads, Receive, Rollback
<1>3. cleanDatabase \/ UNCHANGED vars => UNCHANGED issued
  BY DEF cleanDatabase, vars
<1> QED
  BY <1>1, <1>2, <1>3, NextSteps

\* Counters only grow.
LEMMA IssuedGrows ==
  ASSUME TypeOK, [Next]_vars, NEW c \in Counters
  PROVE  issued[c] <= issued'[c]
<1>1. UNCHANGED issued => issued[c] <= issued'[c]
  BY DEF TypeOK
<1> QED
  BY <1>1, IssuedSteps, IssueOK

\* A session that request q read keeps what q read of it.
LEMMA SettledKept ==
  ASSUME TypeOK, [Next]_vars, NEW q, q.id \in Nat, Settled(q), StillTrue(q)
  PROVE  Settled(q)' /\ StillTrue(q)'
<1>1. /\ "signup_session" \in Counters
      /\ "verifying_action" \in Counters
      /\ issued["signup_session"] \in Nat
      /\ issued["verifying_action"] \in Nat
  BY DEF TypeOK, Counters
<1>2. /\ issued'["signup_session"] \in Nat
      /\ issued'["verifying_action"] \in Nat
  BY NextTypeOK DEF TypeOK, Counters
<1>3. Settled(q)'
  BY <1>1, <1>2, IssuedGrows DEF Settled
<1>4. ASSUME NEW t \in signup_session', t.id = q.id
      PROVE  /\ q.handler \in {"setSignupCredential", "completeSignup",
                               "setSignupPasskeyName"} =>
                  t.email_address_verified
             /\ q.handler = "completeSignup" => t.email_address = q.value
             /\ q.handler = "setSignupPasskeyName" =>
                  t.passkey_webauthn_credential_id = q.value
  BY <1>1, <1>4, SignupAfter DEF Settled, StillTrue
<1>5. ASSUME NEW t \in email_address_update_session', t.id = q.id
      PROVE  /\ q.handler \in {"cancelEmailAddressUpdate",
                               "setNewEmailAddress", "verifyNewEmailAddress"} =>
                  t.identity_verified
             /\ q.handler = "verifyNewEmailAddress" =>
                  t.new_email_address = q.value
  BY <1>1, <1>5, UpdateAfter DEF Settled, StillTrue
<1>6. ASSUME NEW t \in passkey_registration_session', t.id = q.id
      PROVE  /\ q.handler \in {"cancelPasskeyRegistration",
                               "setPasskeyRegistrationCredential",
                               "setPasskeyRegistrationName"} =>
                  t.identity_verified
             /\ q.handler = "setPasskeyRegistrationName" =>
                  t.passkey_webauthn_credential_id = q.value
  BY <1>1, <1>6, RegistrationAfter DEF Settled, StillTrue
<1>7. ASSUME NEW t \in passkey_deletion_session', t.id = q.id,
             q.handler \in {"cancelPasskeyDeletion", "confirmPasskeyDeletion"}
      PROVE  t.identity_verified
  BY <1>1, <1>7, DeletionAfter DEF Settled, StillTrue
<1>8. ASSUME NEW t \in account_deletion_session', t.id = q.id,
             q.handler \in {"cancelAccountDeletion", "confirmAccountDeletion"}
      PROVE  t.identity_verified
  BY <1>1, <1>8, AccountDeletionAfter DEF Settled, StillTrue
<1>9. ASSUME NEW t \in identity_verification_session', t.id = q.id,
             q.handler = "cancelIdentityVerification"
      PROVE  t.verifying_action = q.value /\ t.verifying_action_id = q.other
  BY <1>1, <1>9, VerificationAfter DEF Settled, StillTrue
<1>10. StillTrue(q)'
  BY <1>4, <1>5, <1>6, <1>7, <1>8, <1>9 DEF StillTrue
<1> QED
  BY <1>3, <1>10

\* The idle request has read nothing.
LEMMA IdleSettled == Settled(Idle) /\ StillTrue(Idle)
BY DEF Settled, StillTrue, Idle

\* What a request knows after a step held before it.
LEMMA RequestAfter ==
  ASSUME TypeOK, ReadsInv, [Next]_vars, NEW r \in Requests,
         NEW q, q = request'[r]
  PROVE  Settled(q) /\ StillTrue(q)
<1>1. request \in [Requests -> RequestState]
  BY DEF TypeOK, RequestsOK
<1>2. CASE q = request[r]
  BY <1>2 DEF ReadsInv
<1>3. ASSUME NEW p \in Requests, ReadsFit(p)
      PROVE  Settled(q) /\ StillTrue(q)
  <2>1. PICK o : /\ request' = [request EXCEPT ![p] = o]
                 /\ Settled(o)
                 /\ StillTrue(o)
    BY <1>3 DEF ReadsFit
  <2>2. q = request[r] \/ q = o
    BY <1>1, <2>1
  <2> QED
    BY <1>2, <2>1, <2>2
<1>4. ASSUME NEW p \in Requests, Respond(p)
      PROVE  Settled(q) /\ StillTrue(q)
  <2>1. q = request[r] \/ q = Idle
    BY <1>1, <1>4 DEF Respond
  <2> QED
    BY <1>2, <2>1, IdleSettled
<1> QED
  BY <1>2, <1>3, <1>4, RequestSteps

\* ReadsInv is inductive.
LEMMA NextReads ==
  ASSUME TypeOK, ReadsInv, [Next]_vars
  PROVE  ReadsInv'
<1>1. ASSUME NEW r \in Requests
      PROVE  Settled(request[r])' /\ StillTrue(request[r])'
  <2>1. PICK q : q = request'[r]
    OBVIOUS
  <2>2. q.id \in Nat
    BY <2>1, NextTypeOK DEF TypeOK, RequestsOK, RequestState
  <2>3. Settled(q)' /\ StillTrue(q)'
    BY <2>1, <2>2, RequestAfter, SettledKept
  <2> QED
    BY <2>1, <2>3 DEF Settled, StillTrue
<1> QED
  BY <1>1 DEF ReadsInv

\* What a handler checked before its transaction cannot have become false
\* meanwhile.
THEOREM ReadsStay == Spec => []ReadsStayTrue
<1>1. Init => TypeOK /\ ReadsInv
  BY InitTypeOK, IdleSettled DEF Init, ReadsInv
<1>2. TypeOK /\ ReadsInv /\ [Next]_vars => (TypeOK /\ ReadsInv)'
  BY NextTypeOK, NextReads
<1>3. ReadsInv => ReadsStayTrue
  BY DEF ReadsInv, ReadsStayTrue
<1> QED
  BY <1>1, <1>2, <1>3, PTL DEF Spec

-----------------------------------------------------------------------------
(* CommitsWhatWasChecked. *)

\* The request that ends is the one whose transaction it is.
LEMMA EndsItself ==
  ASSUME TypeOK, NEW r \in Requests, NEW p \in Requests,
         request[r] # Idle, request'[r] = Idle, Respond(p)
  PROVE  p = r
BY DEF TypeOK, RequestsOK, Respond

\* The accounts that a request adds or changes get the address it checked,
LEMMA UserChecked ==
  ASSUME TypeOK, ReadsStayTrue, [Next]_vars, NEW r \in Requests,
         request[r] # Idle, request'[r] = Idle,
         request[r].handler \in {"verifyNewEmailAddress", "completeSignup"},
         NEW u \in user' \ user
  PROVE  u.email_address = request[r].value
<1>1. PICK p \in Requests : CompletesSignup(p) \/ completeEmailAddressUpdate(p)
  BY UserSteps
<1>2. p = r
  BY <1>1, EndsItself
  DEF CompletesSignup, completeSignupWithoutPasskeyRegistration,
      completeSignupWithPasskeyRegistration, completeEmailAddressUpdate
<1>3. CASE CompletesSignup(r)
  <2>1. PICK s \in signup_session :
          /\ s.id = request[r].id
          /\ SignUp(s)
          /\ request[r].handler = "completeSignup"
    BY <1>3 DEF CompletesSignup, completeSignupWithoutPasskeyRegistration,
                completeSignupWithPasskeyRegistration
  <2>2. u.email_address = s.email_address
    BY <2>1 DEF SignUp
  <2> QED
    BY <2>1, <2>2 DEF ReadsStayTrue, StillTrue
<1>4. CASE completeEmailAddressUpdate(r)
  <2>1. PICK s \in email_address_update_session, v \in user :
          /\ request[r].handler = "verifyNewEmailAddress"
          /\ s.id = request[r].id
          /\ u = [v EXCEPT !.email_address = s.new_email_address]
    BY <1>4 DEF completeEmailAddressUpdate
  <2>2. u.email_address = s.new_email_address
    BY <2>1, Columns DEF UserRow
  <2> QED
    BY <2>1, <2>2 DEF ReadsStayTrue, StillTrue
<1> QED
  BY <1>1, <1>2, <1>3, <1>4

\* and the passkeys the credential.
LEMMA PasskeyChecked ==
  ASSUME TypeOK, ReadsStayTrue, [Next]_vars, NEW r \in Requests,
         request[r] # Idle, request'[r] = Idle,
         request[r].handler \in {"setPasskeyRegistrationName",
                                 "setSignupPasskeyName"},
         NEW k \in passkey' \ passkey
  PROVE  k.webauthn_credential_id = request[r].value
<1>1. PICK p \in Requests : \/ completeSignupWithPasskeyRegistration(p)
                            \/ completePasskeyRegistration(p)
  BY PasskeySteps
<1>2. p = r
  BY <1>1, EndsItself
  DEF completeSignupWithPasskeyRegistration, completePasskeyRegistration
<1>3. CASE completeSignupWithPasskeyRegistration(r)
  BY <1>3 DEF completeSignupWithPasskeyRegistration, ReadsStayTrue, StillTrue
<1>4. CASE completePasskeyRegistration(r)
  BY <1>4 DEF completePasskeyRegistration, ReadsStayTrue, StillTrue
<1> QED
  BY <1>1, <1>2, <1>3, <1>4

\* The address or the credential a request commits is the one it checked,
\* whatever another request stored in the session meanwhile.
THEOREM CheckedIsCommitted == Spec => CommitsWhatWasChecked
<1>1. Init => TypeOK
  BY InitTypeOK
<1>2. TypeOK /\ [Next]_vars => TypeOK'
  BY NextTypeOK
<1>3. TypeOK /\ ReadsStayTrue /\ [Next]_vars =>
        [ \A r \in Requests : request[r] # Idle /\ request'[r] = Idle =>
            /\ request[r].handler \in {"verifyNewEmailAddress",
                                       "completeSignup"} =>
                 \A u \in user' \ user : u.email_address = request[r].value
            /\ request[r].handler \in {"setPasskeyRegistrationName",
                                       "setSignupPasskeyName"} =>
                 \A p \in passkey' \ passkey :
                   p.webauthn_credential_id = request[r].value
        ]_vars
  BY UserChecked, PasskeyChecked
<1> QED
  BY <1>1, <1>2, <1>3, ReadsStay, PTL DEF Spec, CommitsWhatWasChecked

-----------------------------------------------------------------------------
(* ChangesAreVerified. *)

\* Nobody owns nothing.
LEMMA NoOwners == SessionsOf({}) = {} /\ PasskeysOf({}) = {}
BY DEF SessionsOf, PasskeysOf

\* Accounts and passkeys are deleted by the two verifying actions for that, by
\* the clean-up, and by an update of the account's address for a moment.
LEMMA RemovalSteps ==
  ASSUME TypeOK, [Next]_vars
  PROVE  \/ user \subseteq user' /\ passkey \subseteq passkey'
         \/ cleanDatabase
         \/ \E r \in Requests :
              \/ completeAccountDeletion(r)
              \/ completePasskeyDeletion(r)
              \/ completeEmailAddressUpdate(r)
<1>1. ASSUME NEW A, CascadeDelete({}, A, {})
      PROVE  UNCHANGED <<user, passkey>>
  BY <1>1, NoOwners DEF CascadeDelete
<1>2. ASSUME NEW r \in Requests, SignupCommits(r)
      PROVE  user \subseteq user' /\ passkey \subseteq passkey'
  BY <1>2 DEF SignupCommits, createSignupSession,
       deleteSignupSession, setSignupSessionAsEmailAddressVerified,
       setSignupSessionPasskeyWebauthnCredential,
       completeSignupWithoutPasskeyRegistration,
       completeSignupWithPasskeyRegistration, SignUp, accountTables
<1>3. ASSUME NEW r \in Requests, SigninCommits(r)
      PROVE  user \subseteq user' /\ passkey \subseteq passkey'
  BY <1>1, <1>3 DEF SigninCommits, createPasskeySigninAttempt,
       deletePasskeySigninAttempt, completePasskeySignin,
       createEmailCodeSigninSessionFromUserEmailAddress,
       deleteEmailCodeSigninSession, completeEmailCodeSigninSession,
       deleteAuthSession, deleteUserAuthSessions, accountTables
<1>4. ASSUME NEW r \in Requests, ActionCommits(r)
      PROVE  \/ user \subseteq user' /\ passkey \subseteq passkey'
             \/ completeAccountDeletion(r)
             \/ completePasskeyDeletion(r)
             \/ completeEmailAddressUpdate(r)
  BY <1>4 DEF ActionCommits, createEmailAddressUpdateSession,
       setEmailAddressUpdateSessionNewEmailAddress,
       createPasskeyRegistrationSession,
       setPasskeyRegistrationSessionPasskeyWebauthnCredential,
       completePasskeyRegistration, createPasskeyDeletionSession,
       createAccountDeletionSession, accountTables, emailAddressUpdateLeaves,
       passkeyRegistrationLeaves
<1>5. ASSUME NEW r \in Requests, CancelCommits(r) \/ VerificationCommits(r)
      PROVE  UNCHANGED <<user, passkey>>
  BY <1>5, CancelShrinks DEF VerificationCommits,
       issueIdentityVerificationSessionEmailCode,
       revokeIdentityVerificationSessionEmailCode,
       completeIdentityVerification, accountTables
<1> QED
  BY <1>2, <1>3, <1>4, <1>5, NextSteps
  DEF Commits, Reads, Receive, Rollback, vars, database

\* The ids of accounts and passkeys are keys.
LEMMA AccountKeys ==
  ASSUME TypeOK
  PROVE  /\ \A u, v \in user : u.id = v.id => u = v
         /\ \A p, k \in passkey : p.id = k.id => p = k
         /\ \A a, b \in auth_session : a.id = b.id => a = b
         /\ \A p \in passkey : p.id \in Nat \ {0}
BY DEF TypeOK, TablesOK, TableOK, Counters

\* A new address was verified in an update session of the account.
LEMMA AddressChange ==
  ASSUME TypeOK, [Next]_vars, NEW u \in user, NEW v \in user',
         v.id = u.id, v.email_address # u.email_address
  PROVE  \E s \in email_address_update_session :
           /\ UsesUp(s, email_address_update_session, u)
           /\ s.new_email_address = v.email_address
<1>1. v \notin user
  BY AccountKeys
<1>2. ASSUME NEW r \in Requests, CompletesSignup(r)
      PROVE  FALSE
  <2>1. PICK s \in signup_session : SignUp(s)
    BY <1>2 DEF CompletesSignup, completeSignupWithoutPasskeyRegistration,
                completeSignupWithPasskeyRegistration
  <2> QED
    BY <1>1, <2>1 DEF SignUp, HasRow
<1>3. PICK r \in Requests : completeEmailAddressUpdate(r)
  BY <1>1, <1>2, UserSteps
<1>4. PICK s \in email_address_update_session, w \in user :
        /\ OwnedBy(s, w)
        /\ s.identity_verified
        /\ v = [w EXCEPT !.email_address = s.new_email_address]
        /\ email_address_update_session' =
             WithoutRow(email_address_update_session, s.id)
  BY <1>1, <1>3 DEF completeEmailAddressUpdate
<1>5. v.id = w.id /\ v.email_address = s.new_email_address
  BY <1>4, Columns DEF UserRow
<1>6. w = u
  BY <1>5, AccountKeys
<1> QED
  BY <1>4, <1>5, <1>6 DEF UsesUp, WithoutRow

\* A new passkey of an account was registered in a session of the account.
LEMMA PasskeyChange ==
  ASSUME TypeOK, [Next]_vars, NEW u \in user, NEW p \in passkey',
         p.user_id = u.id, p.id \notin Ids(passkey)
  PROVE  \E s \in passkey_registration_session :
           /\ UsesUp(s, passkey_registration_session, u)
           /\ s.passkey_webauthn_credential_id = p.webauthn_credential_id
<1>1. p \notin passkey
  BY DEF Ids
<1>2. ASSUME NEW r \in Requests, completeSignupWithPasskeyRegistration(r)
      PROVE  FALSE
  BY <1>1, <1>2 DEF completeSignupWithPasskeyRegistration, SignUp, HasRow
<1>3. PICK r \in Requests : completePasskeyRegistration(r)
  BY <1>1, <1>2, PasskeySteps
<1> QED
  BY <1>1, <1>3
  DEF completePasskeyRegistration, UsesUp, WithoutRow, OwnedBy

\* A request deletes an account by its account deletion,
LEMMA AccountRemoval ==
  ASSUME TypeOK, [Next]_vars, ~cleanDatabase,
         NEW u \in user, u.id \notin Ids(user)'
  PROVE  \E s \in account_deletion_session :
           UsesUp(s, account_deletion_session, u)
<1>1. ~(user \subseteq user')
  BY DEF Ids
<1>2. ASSUME NEW r \in Requests, completeEmailAddressUpdate(r)
      PROVE  FALSE
  <2>1. PICK s \in email_address_update_session, w \in user :
          user' = (user \ {w}) \union
                    {[w EXCEPT !.email_address = s.new_email_address]}
    BY <1>2 DEF completeEmailAddressUpdate
  <2>2. [w EXCEPT !.email_address = s.new_email_address].id = w.id
    BY Columns DEF UserRow
  <2> QED
    BY <2>1, <2>2 DEF Ids
<1>3. ASSUME NEW r \in Requests, completePasskeyDeletion(r)
      PROVE  FALSE
  BY <1>1, <1>3, NoOwners DEF completePasskeyDeletion, CascadeDelete
<1>4. PICK r \in Requests : completeAccountDeletion(r)
  BY <1>1, <1>2, <1>3, RemovalSteps
<1>5. PICK s \in account_deletion_session, w \in user :
        /\ OwnedBy(s, w)
        /\ s.identity_verified
        /\ CascadeDelete({w.id}, {}, {})
  BY <1>4 DEF completeAccountDeletion
<1>6. w = u
  BY <1>5, AccountKeys DEF CascadeDelete, Ids
<1> QED
  BY <1>5, <1>6 DEF UsesUp, OwnedBy, CascadeDelete, Without, SessionsOf

\* and a passkey of an account that stays by the passkey's deletion, verified
\* for some account.
LEMMA PasskeyRemoval ==
  ASSUME TypeOK, ReferentialIntegrity, ReadsStayTrue, [Next]_vars,
         ~cleanDatabase, NEW p \in passkey, Removed(p)
  PROVE  \E s \in passkey_deletion_session, u \in user :
           /\ UsesUp(s, passkey_deletion_session, u)
           /\ s.passkey_id = p.id
<1> USE DEF Removed
<1>1. ~(passkey \subseteq passkey')
  BY DEF Ids
<1>2. ASSUME NEW r \in Requests, completeEmailAddressUpdate(r)
      PROVE  FALSE
  BY <1>1, <1>2 DEF completeEmailAddressUpdate, emailAddressUpdateLeaves
<1>3. ASSUME NEW r \in Requests, completeAccountDeletion(r)
      PROVE  FALSE
  <2>1. PICK w \in user : CascadeDelete({w.id}, {}, {})
    BY <1>3 DEF completeAccountDeletion
  <2>2. p.user_id = w.id
    BY <2>1, AccountKeys DEF CascadeDelete, PasskeysOf, Ids
  <2> QED
    BY <2>1, <2>2 DEF CascadeDelete, Ids
<1>4. PICK r \in Requests : completePasskeyDeletion(r)
  BY <1>1, <1>2, <1>3, RemovalSteps
<1>5. PICK s \in passkey_deletion_session :
        /\ request[r].handler = "confirmPasskeyDeletion"
        /\ s.id = request[r].id
        /\ CascadeDelete({}, {}, {s.passkey_id})
  BY <1>4 DEF completePasskeyDeletion
<1>6. s.identity_verified
  BY <1>5 DEF ReadsStayTrue, StillTrue
<1>7. s.passkey_id = p.id /\ s \notin passkey_deletion_session'
  BY <1>5, NoOwners DEF CascadeDelete, Ids
<1>8. PICK a \in auth_session, u \in user :
        a.id = s.auth_session_id /\ a.user_id = u.id
  BY DEF ReferentialIntegrity, HasRow
<1> QED
  BY <1>6, <1>7, <1>8 DEF UsesUp, OwnedBy

\* An auth session keeps its user: one after a step is an old one, or has the
\* next id.
LEMMA AuthSessionAfter ==
  ASSUME TypeOK, [Next]_vars, NEW t \in auth_session', t \notin auth_session
  PROVE  t.id = issued["auth_session"] + 1
<1>1. ASSUME NEW r \in Requests, CompletesSignup(r)
      PROVE  t.id = NewId("auth_session")
  <2>1. PICK s \in signup_session : SignUp(s)
    BY <1>1 DEF CompletesSignup, completeSignupWithoutPasskeyRegistration,
                completeSignupWithPasskeyRegistration
  <2> QED
    BY <2>1 DEF SignUp
<1>2. ASSUME NEW r \in Requests,
             completePasskeySignin(r) \/ completeEmailCodeSigninSession(r)
      PROVE  t.id = NewId("auth_session")
  BY <1>2 DEF completePasskeySignin, completeEmailCodeSigninSession
<1> QED
  BY <1>1, <1>2, AuthSessionSteps DEF NewId

\* A passkey keeps its user.
LEMMA PasskeyAfter ==
  ASSUME TypeOK, [Next]_vars, NEW t \in passkey', t \notin passkey
  PROVE  t.id = issued["passkey"] + 1
<1>1. ASSUME NEW r \in Requests, completeSignupWithPasskeyRegistration(r)
      PROVE  t.id = NewId("passkey")
  BY <1>1 DEF completeSignupWithPasskeyRegistration
<1>2. ASSUME NEW r \in Requests, completePasskeyRegistration(r)
      PROVE  t.id = NewId("passkey")
  BY <1>2 DEF completePasskeyRegistration
<1> QED
  BY <1>1, <1>2, PasskeySteps DEF NewId

\* Passkey k is of the user of auth session a, as far as both exist.
SameUser(a, k) ==
  \A s \in auth_session, p \in passkey :
    s.id = a /\ p.id = k => s.user_id = p.user_id

\* What request q to start a passkey deletion has read.
AsksForOwn(q) ==
  q.handler = "startPasskeyDeletion" =>
    /\ q.id <= issued["auth_session"]
    /\ q.other <= issued["passkey"]
    /\ SameUser(q.id, q.other)

\* Nobody deletes a passkey of another account.
DeletionsOwn ==
  /\ \A s \in passkey_deletion_session :
       SameUser(s.auth_session_id, s.passkey_id)
  /\ \A r \in Requests : AsksForOwn(request[r])

\* With clients that ask for their own passkeys only, that passkey's owner.
LEMMA OwnPasskeyRemoval ==
  ASSUME TypeOK, ReferentialIntegrity, ReadsStayTrue, DeletionsOwn,
         [Next]_vars, ~cleanDatabase,
         NEW u \in user, NEW p \in passkey, p.user_id = u.id, Removed(p)
  PROVE  \E s \in passkey_deletion_session :
           /\ UsesUp(s, passkey_deletion_session, u)
           /\ s.passkey_id = p.id
<1>1. PICK s \in passkey_deletion_session, w \in user :
        /\ UsesUp(s, passkey_deletion_session, w)
        /\ s.passkey_id = p.id
  BY PasskeyRemoval
<1>2. w = u
  BY <1>1, AccountKeys DEF UsesUp, OwnedBy, DeletionsOwn, SameUser
<1> QED
  BY <1>1, <1>2

\* Sessions and passkeys that have been given out keep their users.
LEMMA SameUserKept ==
  ASSUME TypeOK, [Next]_vars, NEW a \in Nat, NEW k \in Nat,
         a <= issued["auth_session"], k <= issued["passkey"], SameUser(a, k)
  PROVE  SameUser(a, k)'
<1>1. issued["auth_session"] \in Nat /\ issued["passkey"] \in Nat
  BY DEF TypeOK, Counters
<1>2. ASSUME NEW s \in auth_session', NEW p \in passkey', s.id = a, p.id = k
      PROVE  s.user_id = p.user_id
  <2>1. s \in auth_session
    BY <1>1, <1>2, AuthSessionAfter
  <2>2. p \in passkey
    BY <1>1, <1>2, PasskeyAfter
  <2> QED
    BY <1>2, <2>1, <2>2 DEF SameUser
<1> QED
  BY <1>2 DEF SameUser

\* What a handler reads is of the user who asks.
LEMMA ReadsAskForOwn ==
  ASSUME OwnPasskeysOnly, TypeOK, NEW h, NEW id, NEW other, NEW value,
         Carries(h, id, other, value)
  PROVE  AsksForOwn([handler |-> h, id |-> id, other |-> other,
                     value |-> value])
<1> DEFINE q == [handler |-> h, id |-> id, other |-> other, value |-> value]
<1>1. q.handler = h /\ q.id = id /\ q.other = other
  OBVIOUS
<1> HIDE DEF q
<1>2. ASSUME h = "startPasskeyDeletion"
      PROVE  /\ id <= issued["auth_session"]
             /\ other <= issued["passkey"]
             /\ SameUser(id, other)
  <2>1. PICK a \in auth_session, p \in passkey :
          /\ p.user_id = a.user_id
          /\ id = a.id
          /\ other = p.id
    BY <1>2 DEF Carries, AskedPasskeys
  <2>2. /\ a.id <= issued["auth_session"]
        /\ p.id <= issued["passkey"]
    BY DEF TypeOK, TablesOK, TableOK, Counters
  <2>3. SameUser(id, other)
    BY <2>1, AccountKeys DEF SameUser
  <2> QED
    BY <2>1, <2>2, <2>3
<1>3. AsksForOwn(q)
  BY <1>1, <1>2 DEF AsksForOwn
<1> QED
  BY <1>3 DEF q

\* What a request has read after a step held before it.
LEMMA AskedBefore ==
  ASSUME OwnPasskeysOnly, TypeOK, DeletionsOwn, [Next]_vars,
         NEW r \in Requests, NEW q, q = request'[r]
  PROVE  AsksForOwn(q)
<1>1. request \in [Requests -> RequestState]
  BY DEF TypeOK, RequestsOK
<1>2. CASE q = request[r]
  BY <1>2 DEF DeletionsOwn
<1>3. ASSUME NEW p \in Requests, Respond(p)
      PROVE  AsksForOwn(q)
  <2>1. q = request[r] \/ q = Idle
    BY <1>1, <1>3 DEF Respond
  <2> QED
    BY <1>2, <2>1 DEF AsksForOwn, Idle
<1>4. ASSUME NEW p \in Requests, Reads(p)
      PROVE  AsksForOwn(q)
  <2>1. PICK h, id, other, value :
          Carries(h, id, other, value) /\ Receive(p, h, id, other, value)
    BY <1>4 DEF Reads
  <2>2. \/ q = request[r]
        \/ q = [handler |-> h, id |-> id, other |-> other, value |-> value]
    BY <1>1, <2>1 DEF Receive
  <2> QED
    BY <1>2, <2>1, <2>2, ReadsAskForOwn
<1>5. CASE UNCHANGED request
  BY <1>2, <1>5
<1> QED
  BY <1>3, <1>4, <1>5, NextSteps, CommitsRespond
  DEF Rollback, cleanDatabase, vars

\* It holds after it, too.
LEMMA AskKept ==
  ASSUME TypeOK, [Next]_vars, NEW q, q.id \in Nat, q.other \in Nat,
         AsksForOwn(q)
  PROVE  AsksForOwn(q)'
<1>1. ASSUME q.handler = "startPasskeyDeletion"
      PROVE  /\ q.id <= issued'["auth_session"]
             /\ q.other <= issued'["passkey"]
             /\ SameUser(q.id, q.other)'
  <2>1. /\ q.id <= issued["auth_session"]
        /\ q.other <= issued["passkey"]
        /\ SameUser(q.id, q.other)
    BY <1>1 DEF AsksForOwn
  <2>2. /\ issued["auth_session"] \in Nat /\ issued'["auth_session"] \in Nat
        /\ issued["passkey"] \in Nat /\ issued'["passkey"] \in Nat
    BY NextTypeOK DEF TypeOK, Counters
  <2>3. /\ issued["auth_session"] <= issued'["auth_session"]
        /\ issued["passkey"] <= issued'["passkey"]
    BY IssuedGrows DEF Counters
  <2>4. SameUser(q.id, q.other)'
    BY <2>1, SameUserKept
  <2> QED
    BY <2>1, <2>2, <2>3, <2>4
<1> QED
  BY <1>1 DEF AsksForOwn

\* A new session to delete a passkey is for the passkey its request read.
LEMMA DeletionSessionAfter ==
  ASSUME TypeOK, [Next]_vars, NEW t \in passkey_deletion_session'
  PROVE  \/ \E s \in passkey_deletion_session :
              /\ s.auth_session_id = t.auth_session_id
              /\ s.passkey_id = t.passkey_id
         \/ \E r \in Requests :
              /\ request[r].handler = "startPasskeyDeletion"
              /\ request[r].id = t.auth_session_id
              /\ request[r].other = t.passkey_id
<1>1. ASSUME NEW r \in Requests, Starts(r), t \notin passkey_deletion_session
      PROVE  /\ request[r].handler = "startPasskeyDeletion"
             /\ request[r].id = t.auth_session_id
             /\ request[r].other = t.passkey_id
  BY <1>1 DEF Starts, createEmailAddressUpdateSession,
       createPasskeyRegistrationSession, createPasskeyDeletionSession,
       createAccountDeletionSession, emailAddressUpdateLeaves,
       passkeyRegistrationLeaves
<1>2. ASSUME NEW r \in Requests, completeIdentityVerification(r)
      PROVE  \E s \in passkey_deletion_session :
               t = s \/ t = [s EXCEPT !.identity_verified = TRUE]
  BY <1>2, MarkedRow
  DEF completeIdentityVerification,
      completeIdentityVerificationForEmailAddressUpdate,
      completeIdentityVerificationForPasskeyRegistration,
      completeIdentityVerificationForPasskeyDeletion,
      completeIdentityVerificationForAccountDeletion
<1>3. ASSUME NEW r \in Requests,
             \/ setEmailAddressUpdateSessionNewEmailAddress(r)
             \/ setPasskeyRegistrationSessionPasskeyWebauthnCredential(r)
      PROVE  t \in passkey_deletion_session
  BY <1>3 DEF setEmailAddressUpdateSessionNewEmailAddress,
              setPasskeyRegistrationSessionPasskeyWebauthnCredential,
              emailAddressUpdateLeaves, passkeyRegistrationLeaves
<1> QED
  BY <1>1, <1>2, <1>3, ActionTableSteps, Columns
  DEF ActionSessionsShrink, PasskeyDeletionSessionRow

\* DeletionsOwn is inductive.
LEMMA NextDeletionsOwn ==
  ASSUME OwnPasskeysOnly, TypeOK, ReferentialIntegrity, DeletionsOwn,
         [Next]_vars
  PROVE  DeletionsOwn'
<1>1. ASSUME NEW r \in Requests
      PROVE  AsksForOwn(request[r])'
  <2>1. PICK q : q = request'[r]
    OBVIOUS
  <2>2. q.id \in Nat /\ q.other \in Nat
    BY <2>1, NextTypeOK DEF TypeOK, RequestsOK, RequestState
  <2>3. AsksForOwn(q)'
    BY <2>1, <2>2, AskedBefore, AskKept
  <2> QED
    BY <2>1, <2>3 DEF AsksForOwn, SameUser
<1>2. ASSUME NEW t \in passkey_deletion_session'
      PROVE  SameUser(t.auth_session_id, t.passkey_id)'
  <2>1. PICK a, k : a = t.auth_session_id /\ k = t.passkey_id
    OBVIOUS
  <2>2. a \in Nat /\ k \in Nat
    BY <2>1, NextTypeOK DEF TypeOK, TablesOK, TableOK,
       PasskeyDeletionSessionRow
  <2>3. SameUser(a, k) /\ a <= issued["auth_session"] /\ k <= issued["passkey"]
    <3>1. CASE \E s \in passkey_deletion_session :
                 s.auth_session_id = a /\ s.passkey_id = k
      <4>1. SameUser(a, k)
        BY <3>1 DEF DeletionsOwn
      <4>2. PICK s \in auth_session, p \in passkey : s.id = a /\ p.id = k
        BY <3>1 DEF ReferentialIntegrity, HasRow
      <4> QED
        BY <4>1, <4>2 DEF TypeOK, TablesOK, TableOK, Counters
    <3>2. ASSUME NEW r \in Requests,
                 request[r].handler = "startPasskeyDeletion",
                 request[r].id = a, request[r].other = k
          PROVE  /\ SameUser(a, k)
                 /\ a <= issued["auth_session"]
                 /\ k <= issued["passkey"]
      BY <3>2 DEF DeletionsOwn, AsksForOwn
    <3> QED
      BY <2>1, <3>1, <3>2, DeletionSessionAfter
  <2>4. SameUser(a, k)'
    BY <2>2, <2>3, SameUserKept
  <2> QED
    BY <2>1, <2>4 DEF SameUser
<1> QED
  BY <1>1, <1>2 DEF DeletionsOwn

\* Clients that are offered passkeys of their own account delete no others.
THEOREM OwnDeletions ==
  ASSUME OwnPasskeysOnly
  PROVE  Spec => []DeletionsOwn
<1>1. Init => TypeOK /\ ReferentialIntegrity /\ DeletionsOwn
  <2>1. Init => DeletionsOwn
    BY DEF Init, DeletionsOwn, AsksForOwn, Idle
  <2> QED
    BY <2>1, InitTypeOK, InitRI
<1>2. TypeOK /\ ReferentialIntegrity /\ DeletionsOwn /\ [Next]_vars =>
        (TypeOK /\ ReferentialIntegrity /\ DeletionsOwn)'
  BY NextTypeOK, NextRI, NextDeletionsOwn
<1> QED
  BY <1>1, <1>2, PTL DEF Spec

\* Whatever clients ask for: a request changes the address of an account that
\* exists, registers a passkey to it or deletes it only by using up a session
\* of that verifying action, verified, started by an auth session of that
\* account that still exists, and deletes a passkey only by using up such a
\* session of some account.
THEOREM ChangesVerifiedForSome ==
  Spec => [][ request' # request =>
                /\ AddressChangesVerified
                /\ RegistrationsVerified
                /\ AccountDeletionsVerified
                /\ \A p \in passkey : Removed(p) =>
                     \E s \in passkey_deletion_session, u \in user :
                       /\ UsesUp(s, passkey_deletion_session, u)
                       /\ s.passkey_id = p.id
            ]_vars
<1>1. Init => TypeOK /\ ReferentialIntegrity
  BY InitTypeOK, InitRI
<1>2. TypeOK /\ ReferentialIntegrity /\ [Next]_vars =>
        (TypeOK /\ ReferentialIntegrity)'
  BY NextTypeOK, NextRI
<1>3. TypeOK /\ ReferentialIntegrity /\ ReadsStayTrue /\ [Next]_vars =>
        [ request' # request =>
            /\ AddressChangesVerified
            /\ RegistrationsVerified
            /\ AccountDeletionsVerified
            /\ \A p \in passkey : Removed(p) =>
                 \E s \in passkey_deletion_session, u \in user :
                   /\ UsesUp(s, passkey_deletion_session, u)
                   /\ s.passkey_id = p.id
        ]_vars
  <2>1. request' # request => ~cleanDatabase
    BY DEF cleanDatabase
  <2> QED
    BY <2>1, AddressChange, PasskeyChange, AccountRemoval, PasskeyRemoval
    DEF AddressChangesVerified, RegistrationsVerified, AccountDeletionsVerified
<1> QED
  BY <1>1, <1>2, <1>3, ReadsStay, PTL DEF Spec

\* For clients that ask to delete passkeys of their own account only, that
\* session is always of the account that changes.
THEOREM ChangesVerified ==
  ASSUME OwnPasskeysOnly
  PROVE  Spec => ChangesAreVerified
<1>1. Init => TypeOK /\ ReferentialIntegrity
  BY InitTypeOK, InitRI
<1>2. TypeOK /\ ReferentialIntegrity /\ [Next]_vars =>
        (TypeOK /\ ReferentialIntegrity)'
  BY NextTypeOK, NextRI
<1>3. TypeOK /\ ReferentialIntegrity /\ ReadsStayTrue /\ DeletionsOwn
        /\ [Next]_vars =>
        [ request' # request =>
            /\ AddressChangesVerified
            /\ RegistrationsVerified
            /\ AccountDeletionsVerified
            /\ PasskeyDeletionsVerified
        ]_vars
  <2>1. request' # request => ~cleanDatabase
    BY DEF cleanDatabase
  <2> QED
    BY <2>1, AddressChange, PasskeyChange, AccountRemoval, OwnPasskeyRemoval
    DEF AddressChangesVerified, RegistrationsVerified,
        AccountDeletionsVerified, PasskeyDeletionsVerified
<1> QED
  BY <1>1, <1>2, <1>3, ReadsStay, OwnDeletions, PTL
  DEF Spec, ChangesAreVerified

-----------------------------------------------------------------------------
(* Grants. *)

\* id is the key of rows.
Keyed(rows) == \A s, t \in rows : s.id = t.id => s = t

\* A grant says which session it is of.
LEMMA GrantFields ==
  ASSUME NEW s, NEW action
  PROVE  /\ GrantOf(s, action).action = action
         /\ GrantOf(s, action).id = s.id
         /\ GrantOf(s, action).session = s.auth_session_id
         /\ action = "passkey_deletion" =>
              GrantOf(s, action).passkey = s.passkey_id
         /\ action # "passkey_deletion" => GrantOf(s, action).passkey = 0
BY DEF GrantOf

\* A session that ends takes its grant along,
LEMMA GrantRemoved ==
  ASSUME NEW rows, Keyed(rows), NEW s \in rows, NEW action
  PROVE  GrantsFrom(WithoutRow(rows, s.id), action)
           = GrantsFrom(rows, action) \ {GrantOf(s, action)}
<1>1. \A t \in rows : t.id # s.id => GrantOf(t, action) # GrantOf(s, action)
  BY GrantFields
<1>2. \A t \in rows : t.id = s.id => t = s
  BY DEF Keyed
<1> QED
  BY <1>1, <1>2 DEF GrantsFrom, Verified, WithoutRow

\* one that is not verified has none,
LEMMA NoGrant ==
  ASSUME NEW rows, NEW t, ~t.identity_verified, NEW action
  PROVE  GrantsFrom(rows \union {t}, action) = GrantsFrom(rows, action)
<1>1. Verified(rows \union {t}) = Verified(rows)
  BY DEF Verified
<1> QED
  BY <1>1 DEF GrantsFrom

\* and what else a session keeps does not matter to it.
LEMMA GrantKept ==
  ASSUME NEW rows, NEW s \in rows, NEW t, NEW action,
         t.identity_verified = s.identity_verified,
         GrantOf(t, action) = GrantOf(s, action)
  PROVE  GrantsFrom((rows \ {s}) \union {t}, action)
           = GrantsFrom(rows, action)
BY DEF GrantsFrom, Verified

\* Marking a session verified gives its grant.
LEMMA GrantGiven ==
  ASSUME NEW rows, Keyed(rows), NEW s \in rows,
         NEW action \in VerifyingActions,
         \/ rows \subseteq EmailAddressUpdateSessionRow
            /\ action # "passkey_deletion"
         \/ rows \subseteq PasskeyRegistrationSessionRow
            /\ action # "passkey_deletion"
         \/ rows \subseteq PasskeyDeletionSessionRow
         \/ rows \subseteq AccountDeletionSessionRow
            /\ action # "passkey_deletion"
  PROVE  GrantsFrom(MarkVerified(rows, s.id), action)
           = GrantsFrom(rows, action) \union {GrantOf(s, action)}
<1> DEFINE t == [s EXCEPT !.identity_verified = TRUE]
<1>1. t.identity_verified /\ GrantOf(t, action) = GrantOf(s, action)
  BY DEF GrantOf, EmailAddressUpdateSessionRow, PasskeyRegistrationSessionRow,
         PasskeyDeletionSessionRow, AccountDeletionSessionRow
<1>2. MarkVerified(rows, s.id) = {q \in rows : q # s} \union {t}
  BY DEF MarkVerified, Keyed
<1> HIDE DEF t
<1>3. Verified(MarkVerified(rows, s.id))
        = {q \in Verified(rows) : q # s} \union {t}
  BY <1>1, <1>2 DEF Verified
<1>4. s \in Verified(rows) => GrantOf(s, action) \in GrantsFrom(rows, action)
  BY DEF GrantsFrom
<1> QED
  BY <1>1, <1>3 DEF GrantsFrom

\* Each table has its key.
LEMMA ActionKeys ==
  ASSUME TypeOK
  PROVE  /\ Keyed(email_address_update_session)
         /\ Keyed(passkey_registration_session)
         /\ Keyed(passkey_deletion_session)
         /\ Keyed(account_deletion_session)
BY Keys DEF Keyed

\* The grants of one table are for its verifying action.
LEMMA GrantsApart ==
  ASSUME NEW rows, NEW action, NEW g \in GrantsFrom(rows, action)
  PROVE  \E s \in rows : /\ s.identity_verified
                         /\ g = GrantOf(s, action)
                         /\ g.action = action
BY GrantFields DEF GrantsFrom, Verified

\* A grant is held by an auth session, and one to delete a passkey names it.
LEMMA GrantsHeld ==
  ASSUME ReferentialIntegrity, NEW g \in Grants
  PROVE  /\ HasRow(auth_session, g.session)
         /\ g.passkey = 0 \/ HasRow(passkey, g.passkey)
<1>1. ASSUME NEW rows, NEW action, g \in GrantsFrom(rows, action),
             \A s \in rows : HasRow(auth_session, s.auth_session_id),
             action = "passkey_deletion" =>
               \A s \in rows : HasRow(passkey, s.passkey_id)
      PROVE  /\ HasRow(auth_session, g.session)
             /\ g.passkey = 0 \/ HasRow(passkey, g.passkey)
  BY <1>1, GrantsApart, GrantFields
<1> QED
  BY <1>1, ParentsRI DEF Grants

\* What leaves the sessions of verifying actions alone leaves the grants alone.
LEMMA SameGrants ==
  ASSUME UNCHANGED actionTables
  PROVE  Grants' = Grants
BY DEF actionTables, Grants

\* A verifying action starts without a grant.
LEMMA StartsKeepGrants ==
  ASSUME NEW r, Starts(r)
  PROVE  Grants' = Grants
<1> USE DEF Grants
<1>1. CASE createEmailAddressUpdateSession(r)
  <2> DEFINE row == [id |-> NewId("verifying_action"),
                     auth_session_id |-> request[r].id,
                     identity_verified |-> FALSE, new_email_address |-> Null]
  <2>1. ~row.identity_verified
    OBVIOUS
  <2>2. email_address_update_session'
          = email_address_update_session \union {row}
    BY <1>1 DEF createEmailAddressUpdateSession
  <2> HIDE DEF row
  <2> QED
    BY <1>1, <2>1, <2>2, NoGrant
    DEF createEmailAddressUpdateSession, emailAddressUpdateLeaves
<1>2. CASE createPasskeyRegistrationSession(r)
  <2> DEFINE row == [id |-> NewId("verifying_action"),
                     auth_session_id |-> request[r].id,
                     identity_verified |-> FALSE,
                     passkey_webauthn_credential_id |-> Null]
  <2>1. ~row.identity_verified
    OBVIOUS
  <2>2. passkey_registration_session'
          = passkey_registration_session \union {row}
    BY <1>2 DEF createPasskeyRegistrationSession
  <2> HIDE DEF row
  <2> QED
    BY <1>2, <2>1, <2>2, NoGrant
    DEF createPasskeyRegistrationSession, passkeyRegistrationLeaves
<1>3. CASE createPasskeyDeletionSession(r)
  <2> DEFINE row == [id |-> NewId("verifying_action"),
                     auth_session_id |-> request[r].id,
                     identity_verified |-> FALSE,
                     passkey_id |-> request[r].other]
  <2>1. ~row.identity_verified
    OBVIOUS
  <2>2. passkey_deletion_session' = passkey_deletion_session \union {row}
    BY <1>3 DEF createPasskeyDeletionSession
  <2> HIDE DEF row
  <2> QED
    BY <1>3, <2>1, <2>2, NoGrant DEF createPasskeyDeletionSession
<1>4. CASE createAccountDeletionSession(r)
  <2> DEFINE row == [id |-> NewId("verifying_action"),
                     auth_session_id |-> request[r].id,
                     identity_verified |-> FALSE]
  <2>1. ~row.identity_verified
    OBVIOUS
  <2>2. account_deletion_session' = account_deletion_session \union {row}
    BY <1>4 DEF createAccountDeletionSession
  <2> HIDE DEF row
  <2> QED
    BY <1>4, <2>1, <2>2, NoGrant DEF createAccountDeletionSession
<1> QED
  BY <1>1, <1>2, <1>3, <1>4 DEF Starts

\* The new address and the new credential are not part of a grant.
LEMMA GivesKeepGrants ==
  ASSUME TypeOK, NEW r,
         \/ setEmailAddressUpdateSessionNewEmailAddress(r)
         \/ setPasskeyRegistrationSessionPasskeyWebauthnCredential(r)
  PROVE  Grants' = Grants
<1>1. CASE setEmailAddressUpdateSessionNewEmailAddress(r)
  <2>1. PICK s \in email_address_update_session :
          email_address_update_session' =
            (email_address_update_session \ {s}) \union
              {[s EXCEPT !.new_email_address = request[r].value]}
    BY <1>1 DEF setEmailAddressUpdateSessionNewEmailAddress
  <2> DEFINE t == [s EXCEPT !.new_email_address = request[r].value]
  <2>2. t.identity_verified = s.identity_verified
        /\ GrantOf(t, "email_address_update")
             = GrantOf(s, "email_address_update")
    BY Columns DEF GrantOf, EmailAddressUpdateSessionRow
  <2>3. email_address_update_session'
          = (email_address_update_session \ {s}) \union {t}
    BY <2>1
  <2> HIDE DEF t
  <2>4. GrantsFrom(email_address_update_session', "email_address_update")
          = GrantsFrom(email_address_update_session, "email_address_update")
    BY <2>2, <2>3, GrantKept
  <2> QED
    BY <1>1, <2>4
    DEF setEmailAddressUpdateSessionNewEmailAddress, emailAddressUpdateLeaves,
        Grants
<1>2. CASE setPasskeyRegistrationSessionPasskeyWebauthnCredential(r)
  <2>1. PICK s \in passkey_registration_session :
          passkey_registration_session' =
            (passkey_registration_session \ {s}) \union
              {[s EXCEPT !.passkey_webauthn_credential_id = request[r].value]}
    BY <1>2 DEF setPasskeyRegistrationSessionPasskeyWebauthnCredential
  <2> DEFINE t == [s EXCEPT !.passkey_webauthn_credential_id =
                              request[r].value]
  <2>2. t.identity_verified = s.identity_verified
        /\ GrantOf(t, "passkey_registration")
             = GrantOf(s, "passkey_registration")
    BY Columns DEF GrantOf, PasskeyRegistrationSessionRow
  <2>3. passkey_registration_session'
          = (passkey_registration_session \ {s}) \union {t}
    BY <2>1
  <2> HIDE DEF t
  <2>4. GrantsFrom(passkey_registration_session', "passkey_registration")
          = GrantsFrom(passkey_registration_session, "passkey_registration")
    BY <2>2, <2>3, GrantKept
  <2> QED
    BY <1>2, <2>4
    DEF setPasskeyRegistrationSessionPasskeyWebauthnCredential,
        passkeyRegistrationLeaves, Grants
<1> QED
  BY <1>1, <1>2

\* Completing an identity verification gives the grant of its session.
LEMMA VerificationGrants ==
  ASSUME TypeOK, ReferentialIntegrity, NEW r, completeIdentityVerification(r)
  PROVE  \E g : /\ Grants' = Grants \union {g}
                /\ HasRow(auth_session, g.session)
<1>1. PICK v \in identity_verification_session :
        \/ completeIdentityVerificationForEmailAddressUpdate(v)
        \/ completeIdentityVerificationForPasskeyRegistration(v)
        \/ completeIdentityVerificationForPasskeyDeletion(v)
        \/ completeIdentityVerificationForAccountDeletion(v)
  BY DEF completeIdentityVerification
<1> USE GrantFields, ActionKeys, Columns, ParentsRI
<1>2. CASE completeIdentityVerificationForEmailAddressUpdate(v)
  <2>1. PICK s \in email_address_update_session :
          s.id = v.verifying_action_id
    BY <1>2 DEF completeIdentityVerificationForEmailAddressUpdate, HasRow
  <2>2. GrantsFrom(MarkVerified(email_address_update_session, s.id),
                   "email_address_update")
          = GrantsFrom(email_address_update_session, "email_address_update")
              \union {GrantOf(s, "email_address_update")}
    BY GrantGiven DEF VerifyingActions
  <2>3. Grants' = Grants \union {GrantOf(s, "email_address_update")}
    BY <1>2, <2>1, <2>2
    DEF completeIdentityVerificationForEmailAddressUpdate, Grants
  <2> QED
    BY <2>3
<1>3. CASE completeIdentityVerificationForPasskeyRegistration(v)
  <2>1. PICK s \in passkey_registration_session :
          s.id = v.verifying_action_id
    BY <1>3 DEF completeIdentityVerificationForPasskeyRegistration, HasRow
  <2>2. GrantsFrom(MarkVerified(passkey_registration_session, s.id),
                   "passkey_registration")
          = GrantsFrom(passkey_registration_session, "passkey_registration")
              \union {GrantOf(s, "passkey_registration")}
    BY GrantGiven DEF VerifyingActions
  <2>3. Grants' = Grants \union {GrantOf(s, "passkey_registration")}
    BY <1>3, <2>1, <2>2
    DEF completeIdentityVerificationForPasskeyRegistration, Grants
  <2> QED
    BY <2>3
<1>4. CASE completeIdentityVerificationForPasskeyDeletion(v)
  <2>1. PICK s \in passkey_deletion_session : s.id = v.verifying_action_id
    BY <1>4 DEF completeIdentityVerificationForPasskeyDeletion, HasRow
  <2>2. GrantsFrom(MarkVerified(passkey_deletion_session, s.id),
                   "passkey_deletion")
          = GrantsFrom(passkey_deletion_session, "passkey_deletion")
              \union {GrantOf(s, "passkey_deletion")}
    BY GrantGiven DEF VerifyingActions
  <2>3. Grants' = Grants \union {GrantOf(s, "passkey_deletion")}
    BY <1>4, <2>1, <2>2
    DEF completeIdentityVerificationForPasskeyDeletion, Grants
  <2> QED
    BY <2>3
<1>5. CASE completeIdentityVerificationForAccountDeletion(v)
  <2>1. PICK s \in account_deletion_session : s.id = v.verifying_action_id
    BY <1>5 DEF completeIdentityVerificationForAccountDeletion, HasRow
  <2>2. GrantsFrom(MarkVerified(account_deletion_session, s.id),
                   "account_deletion")
          = GrantsFrom(account_deletion_session, "account_deletion")
              \union {GrantOf(s, "account_deletion")}
    BY GrantGiven DEF VerifyingActions
  <2>3. Grants' = Grants \union {GrantOf(s, "account_deletion")}
    BY <1>5, <2>1, <2>2
    DEF completeIdentityVerificationForAccountDeletion, Grants
  <2> QED
    BY <2>3
<1> QED
  BY <1>1, <1>2, <1>3, <1>4, <1>5

\* A session without which one table goes on: its grant goes, when it had one.
LEMMA SessionEnds ==
  ASSUME TypeOK
  PROVE  /\ \A s \in email_address_update_session :
              /\ email_address_update_session'
                   = WithoutRow(email_address_update_session, s.id)
              /\ UNCHANGED <<passkey_registration_session,
                             passkey_deletion_session,
                             account_deletion_session>>
              => Grants' = Grants \ {GrantOf(s, "email_address_update")}
         /\ \A s \in passkey_registration_session :
              /\ passkey_registration_session'
                   = WithoutRow(passkey_registration_session, s.id)
              /\ UNCHANGED <<email_address_update_session,
                             passkey_deletion_session,
                             account_deletion_session>>
              => Grants' = Grants \ {GrantOf(s, "passkey_registration")}
         /\ \A s \in passkey_deletion_session :
              /\ passkey_deletion_session'
                   = WithoutRow(passkey_deletion_session, s.id)
              /\ UNCHANGED <<email_address_update_session,
                             passkey_registration_session,
                             account_deletion_session>>
              => Grants' = Grants \ {GrantOf(s, "passkey_deletion")}
         /\ \A s \in account_deletion_session :
              /\ account_deletion_session'
                   = WithoutRow(account_deletion_session, s.id)
              /\ UNCHANGED <<email_address_update_session,
                             passkey_registration_session,
                             passkey_deletion_session>>
              => Grants' = Grants \ {GrantOf(s, "account_deletion")}
<1>1. ASSUME NEW rows, NEW action, NEW s, NEW other, other # action
      PROVE  GrantOf(s, action) \notin GrantsFrom(rows, other)
  BY <1>1, GrantFields, GrantsApart
<1> QED
  BY <1>1, GrantRemoved, ActionKeys DEF Grants

-----------------------------------------------------------------------------
(* KeepsPromise. *)

\* Deleting users, auth sessions and passkeys takes the grants that belong to
\* them.
LEMMA CascadeGrants ==
  ASSUME NEW U, NEW A, NEW P, CascadeDelete(U, A, P),
         0 \notin P \union PasskeysOf(U)
  PROVE  Grants' = {g \in Grants : /\ g.session \notin A \union SessionsOf(U)
                                   /\ g.passkey \notin P \union PasskeysOf(U)}
<1> DEFINE sessions == A \union SessionsOf(U)
           passkeys == P \union PasskeysOf(U)
           kept(rows, action) ==
             {g \in GrantsFrom(rows, action) : /\ g.session \notin sessions
                                               /\ g.passkey \notin passkeys}
<1>1. /\ email_address_update_session'
           = Without(email_address_update_session, sessions)
      /\ passkey_registration_session'
           = Without(passkey_registration_session, sessions)
      /\ passkey_deletion_session'
           = {s \in Without(passkey_deletion_session, sessions) :
                s.passkey_id \notin passkeys}
      /\ account_deletion_session'
           = Without(account_deletion_session, sessions)
  BY DEF CascadeDelete
<1>2. /\ 0 \notin passkeys
      /\ \A g : /\ g \in Grants
                /\ g.session \notin sessions
                /\ g.passkey \notin passkeys
                <=> \/ g \in kept(email_address_update_session,
                                  "email_address_update")
                    \/ g \in kept(passkey_registration_session,
                                  "passkey_registration")
                    \/ g \in kept(passkey_deletion_session,
                                  "passkey_deletion")
                    \/ g \in kept(account_deletion_session,
                                  "account_deletion")
  BY DEF Grants
<1> HIDE DEF sessions, passkeys
<1>3. ASSUME NEW rows, NEW action, action # "passkey_deletion"
      PROVE  GrantsFrom(Without(rows, sessions), action) = kept(rows, action)
  BY <1>2, <1>3, GrantFields DEF GrantsFrom, Without, Verified
<1>4. ASSUME NEW rows, NEW action, action = "passkey_deletion"
      PROVE  GrantsFrom({s \in Without(rows, sessions) :
                           s.passkey_id \notin passkeys}, action)
               = kept(rows, action)
  BY <1>4, GrantFields DEF GrantsFrom, Without, Verified
<1> HIDE DEF kept
<1>5. Grants' = kept(email_address_update_session, "email_address_update")
                  \union kept(passkey_registration_session,
                              "passkey_registration")
                  \union kept(passkey_deletion_session, "passkey_deletion")
                  \union kept(account_deletion_session, "account_deletion")
  BY <1>1, <1>3, <1>4 DEF Grants
<1>6. Grants' = {g \in Grants : /\ g.session \notin sessions
                                /\ g.passkey \notin passkeys}
  BY <1>2, <1>5
<1> QED
  BY <1>6 DEF sessions, passkeys

\* Deleting accounts D with everything they own is what the promise says of it.
LEMMA RemovesAccounts ==
  ASSUME TypeOK, ReferentialIntegrity, NEW D \in SUBSET user,
         CascadeDelete({u.id : u \in D}, {}, {})
  PROVE  Promise!Remove(D)
<1> DEFINE U == {u.id : u \in D}
<1>1. user' = user \ D
  BY AccountKeys DEF CascadeDelete
<1>2. /\ passkey' = {p \in passkey : p.id \notin PasskeysOf(U)}
      /\ auth_session' = {a \in auth_session : a.id \notin SessionsOf(U)}
  BY DEF CascadeDelete
<1>3. U = Promise!IdsIn(D)
  BY DEF Promise!IdsIn
<1>4. 0 \notin PasskeysOf(U)
  BY AccountKeys DEF PasskeysOf
<1> HIDE DEF U
<1>5. Grants' = {g \in Grants : /\ g.session \notin SessionsOf(U)
                                /\ g.passkey \notin PasskeysOf(U)}
  <2>1. CascadeDelete(U, {}, {})
    BY DEF U
  <2>2. Grants' = {g \in Grants : /\ g.session \notin {} \union SessionsOf(U)
                                  /\ g.passkey \notin {} \union PasskeysOf(U)}
    BY <1>4, <2>1, CascadeGrants
  <2> QED
    BY <2>2
<1>6. \A p \in passkey : p.id \in PasskeysOf(U) <=> p.user_id \in U
  BY AccountKeys DEF PasskeysOf
<1>7. \A a \in auth_session : a.id \in SessionsOf(U) <=> a.user_id \in U
  BY AccountKeys DEF SessionsOf
<1>8. /\ passkey' = {p \in passkey : p.user_id \notin U}
      /\ auth_session' = {a \in auth_session : a.user_id \notin U}
  BY <1>2, <1>6, <1>7
<1>9. ASSUME NEW g \in Grants
      PROVE  /\ g.session \notin SessionsOf(U)
                  <=> g.session \in Promise!IdsIn(auth_session')
             /\ g.passkey \notin PasskeysOf(U)
                  <=> g.passkey \in {0} \union Promise!IdsIn(passkey')
  <2>1. HasRow(auth_session, g.session)
        /\ (g.passkey = 0 \/ HasRow(passkey, g.passkey))
    BY GrantsHeld
  <2>2. g.session \notin SessionsOf(U)
          <=> g.session \in Promise!IdsIn(auth_session')
    BY <1>2, <2>1 DEF HasRow, Promise!IdsIn
  <2>3. g.passkey \notin PasskeysOf(U)
          <=> g.passkey \in {0} \union Promise!IdsIn(passkey')
    BY <1>2, <1>4, <2>1 DEF HasRow, Promise!IdsIn
  <2> QED
    BY <2>2, <2>3
<1>10. Grants' = {g \in Grants :
                    /\ g.session \in Promise!IdsIn(auth_session')
                    /\ g.passkey \in {0} \union Promise!IdsIn(passkey')}
  BY <1>5, <1>9
<1> QED
  BY <1>1, <1>3, <1>8, <1>10 DEF Promise!Remove, Promise!IdsIn

\* A step that the promise does not see.
Unseen == UNCHANGED <<user, passkey, auth_session, Grants>>

\* Sign-up.
LEMMA SignUpKept ==
  ASSUME TypeOK, NEW r \in Requests, CompletesSignup(r)
  PROVE  Promise!SignUp
<1>1. PICK s \in signup_session :
        /\ SignUp(s)
        /\ \/ UNCHANGED passkey
           \/ /\ WebauthnCredentialIdUnique(s.passkey_webauthn_credential_id)
              /\ passkey' = passkey \union
                   {[id |-> NewId("passkey"), user_id |-> s.target_user_id,
                     webauthn_credential_id |->
                       s.passkey_webauthn_credential_id]}
  BY DEF CompletesSignup, completeSignupWithoutPasskeyRegistration,
         completeSignupWithPasskeyRegistration
<1> DEFINE u == [id |-> s.target_user_id, email_address |-> s.email_address]
           a == [id |-> NewId("auth_session"), user_id |-> s.target_user_id]
           k == [id |-> NewId("passkey"), user_id |-> s.target_user_id,
                 webauthn_credential_id |-> s.passkey_webauthn_credential_id]
<1>2. /\ NewId("auth_session") \notin Promise!IdsIn(auth_session)
      /\ NewId("passkey") \notin Promise!IdsIn(passkey)
  BY DEF TypeOK, TablesOK, TableOK, Counters, NewId, Promise!IdsIn
<1>3. /\ u.id \notin Promise!IdsIn(user)
      /\ Promise!FreeAddress(u.email_address)
      /\ user' = user \union {u}
      /\ a.id \notin Promise!IdsIn(auth_session)
      /\ a.user_id = u.id
      /\ auth_session' = auth_session \union {a}
  BY <1>1, <1>2 DEF SignUp, HasRow, EmailAddressUnique, Promise!IdsIn,
                    Promise!FreeAddress
<1>4. \/ passkey' = passkey
      \/ /\ k.id \notin Promise!IdsIn(passkey)
         /\ k.user_id = u.id
         /\ Promise!FreeCredential(k.webauthn_credential_id)
         /\ passkey' = passkey \union {k}
  BY <1>1, <1>2 DEF WebauthnCredentialIdUnique, Promise!FreeCredential
<1>5. Grants' = Grants
  BY SameGrants DEF CompletesSignup, completeSignupWithoutPasskeyRegistration,
                    completeSignupWithPasskeyRegistration, signupLeaves
<1> HIDE DEF u, a, k
<1> QED
  BY <1>3, <1>4, <1>5 DEF Promise!SignUp

\* The transactions of sign-up.
LEMMA SignupCommitsKept ==
  ASSUME TypeOK, NEW r \in Requests, SignupCommits(r)
  PROVE  Unseen \/ Promise!PromiseNext
<1>1. CASE CompletesSignup(r)
  BY <1>1, SignUpKept DEF Promise!PromiseNext
<1>2. CASE \/ createSignupSession(r)
           \/ deleteSignupSession(r)
           \/ setSignupSessionAsEmailAddressVerified(r)
           \/ setSignupSessionPasskeyWebauthnCredential(r)
  BY <1>2, SameGrants DEF createSignupSession, deleteSignupSession,
     setSignupSessionAsEmailAddressVerified,
     setSignupSessionPasskeyWebauthnCredential, accountTables, signupLeaves,
     Unseen
<1> QED
  BY <1>1, <1>2 DEF SignupCommits, CompletesSignup

\* Sign-in opens an auth session of an account that exists.
LEMMA SignInKept ==
  ASSUME TypeOK, ReferentialIntegrity, NEW r \in Requests,
         completePasskeySignin(r) \/ completeEmailCodeSigninSession(r)
  PROVE  Promise!SignIn
<1>1. PICK id : /\ HasRow(user, id)
                /\ auth_session' = auth_session \union
                     {[id |-> NewId("auth_session"), user_id |-> id]}
  BY DEF completePasskeySignin, completeEmailCodeSigninSession,
         ReferentialIntegrity
<1> DEFINE a == [id |-> NewId("auth_session"), user_id |-> id]
<1>2. NewId("auth_session") \notin Promise!IdsIn(auth_session)
  BY DEF TypeOK, TablesOK, TableOK, Counters, NewId, Promise!IdsIn
<1>3. /\ a.id \notin Promise!IdsIn(auth_session)
      /\ a.user_id \in Promise!IdsIn(user)
      /\ auth_session' = auth_session \union {a}
  BY <1>1, <1>2 DEF HasRow, Promise!IdsIn
<1>4. /\ UNCHANGED <<user, passkey>>
      /\ Grants' = Grants
  BY SameGrants DEF completePasskeySignin, completeEmailCodeSigninSession
<1> HIDE DEF a
<1> QED
  BY <1>3, <1>4 DEF Promise!SignIn

\* Signing out ends auth sessions, and the grants they hold.
LEMMA SignOutKept ==
  ASSUME TypeOK, ReferentialIntegrity, NEW A, CascadeDelete({}, A, {})
  PROVE  Promise!SignOut
<1>1. /\ UNCHANGED <<user, passkey>>
      /\ auth_session' = {a \in auth_session : a.id \notin A}
  BY NoOwners DEF CascadeDelete
<1>2. Grants' = {g \in Grants : g.session \notin A}
  <2>1. Grants' = {g \in Grants :
                     /\ g.session \notin A \union SessionsOf({})
                     /\ g.passkey \notin {} \union PasskeysOf({})}
    BY NoOwners, CascadeGrants
  <2> QED
    BY <2>1, NoOwners
<1>3. ASSUME NEW g \in Grants
      PROVE  g.session \in A <=>
               g.session \in Promise!IdsIn(auth_session \ auth_session')
  BY <1>1, GrantsHeld DEF HasRow, Promise!IdsIn
<1> QED
  BY <1>1, <1>2, <1>3 DEF Promise!SignOut, Promise!GrantsOf

\* The transactions of sign-in and sign-out.
LEMMA SigninCommitsKept ==
  ASSUME TypeOK, ReferentialIntegrity, NEW r \in Requests, SigninCommits(r)
  PROVE  Unseen \/ Promise!PromiseNext
<1>1. CASE completePasskeySignin(r) \/ completeEmailCodeSigninSession(r)
  BY <1>1, SignInKept DEF Promise!PromiseNext
<1>2. CASE deleteAuthSession(r) \/ deleteUserAuthSessions(r)
  BY <1>2, SignOutKept DEF deleteAuthSession, deleteUserAuthSessions,
     Promise!PromiseNext
<1>3. CASE \/ createPasskeySigninAttempt(r)
           \/ deletePasskeySigninAttempt(r)
           \/ createEmailCodeSigninSessionFromUserEmailAddress(r)
           \/ deleteEmailCodeSigninSession(r)
  BY <1>3, SameGrants DEF createPasskeySigninAttempt,
     deletePasskeySigninAttempt,
     createEmailCodeSigninSessionFromUserEmailAddress,
     deleteEmailCodeSigninSession, accountTables, Unseen
<1> QED
  BY <1>1, <1>2, <1>3 DEF SigninCommits

\* A grant that is dropped, or was never given.
LEMMA CancelCommitsKept ==
  ASSUME TypeOK, NEW r, CancelCommits(r)
  PROVE  Unseen \/ Promise!PromiseNext
<1>1. UNCHANGED <<user, passkey, auth_session>>
  BY CancelShrinks DEF accountTables
<1>2. \E g : Grants' = Grants \ {g}
  <2>1. PICK id : \/ deleteEmailAddressUpdateSession(id)
                  \/ deletePasskeyRegistrationSession(id)
                  \/ deletePasskeyDeletionSession(id)
                  \/ deleteAccountDeletionSession(id)
    BY DEF CancelCommits
  <2>2. CASE deleteEmailAddressUpdateSession(id)
    BY <2>2, SessionEnds DEF deleteEmailAddressUpdateSession, HasRow,
       emailAddressUpdateLeaves
  <2>3. CASE deletePasskeyRegistrationSession(id)
    BY <2>3, SessionEnds DEF deletePasskeyRegistrationSession, HasRow,
       passkeyRegistrationLeaves
  <2>4. CASE deletePasskeyDeletionSession(id)
    BY <2>4, SessionEnds DEF deletePasskeyDeletionSession, HasRow
  <2>5. CASE deleteAccountDeletionSession(id)
    BY <2>5, SessionEnds DEF deleteAccountDeletionSession, HasRow
  <2> QED
    BY <2>1, <2>2, <2>3, <2>4, <2>5
<1>3. PICK g : Grants' = Grants \ {g}
  BY <1>2
<1>4. CASE g \in Grants
  BY <1>1, <1>3, <1>4 DEF Promise!Cancel, Promise!PromiseNext
<1>5. CASE g \notin Grants
  BY <1>1, <1>3, <1>5 DEF Unseen
<1> QED
  BY <1>4, <1>5

\* The transactions of an identity verification.
LEMMA VerificationCommitsKept ==
  ASSUME TypeOK, ReferentialIntegrity, NEW r, VerificationCommits(r)
  PROVE  Unseen \/ Promise!PromiseNext
<1>1. CASE completeIdentityVerification(r)
  <2>1. UNCHANGED <<user, passkey, auth_session>>
    BY <1>1 DEF completeIdentityVerification, accountTables
  <2>2. PICK g : Grants' = Grants \union {g} /\ HasRow(auth_session, g.session)
    BY <1>1, VerificationGrants
  <2> QED
    BY <2>1, <2>2 DEF Promise!Grant, Promise!PromiseNext, Promise!IdsIn, HasRow
<1>2. CASE \/ issueIdentityVerificationSessionEmailCode(r)
           \/ revokeIdentityVerificationSessionEmailCode(r)
  BY <1>2, SameGrants DEF issueIdentityVerificationSessionEmailCode,
     revokeIdentityVerificationSessionEmailCode, accountTables, Unseen
<1> QED
  BY <1>1, <1>2 DEF VerificationCommits

\* A verified session of a verifying action is a grant.
LEMMA VerifiedGranted ==
  /\ \A s \in email_address_update_session :
       s.identity_verified => GrantOf(s, "email_address_update") \in Grants
  /\ \A s \in passkey_registration_session :
       s.identity_verified => GrantOf(s, "passkey_registration") \in Grants
  /\ \A s \in passkey_deletion_session :
       s.identity_verified => GrantOf(s, "passkey_deletion") \in Grants
  /\ \A s \in account_deletion_session :
       s.identity_verified => GrantOf(s, "account_deletion") \in Grants
BY DEF Grants, GrantsFrom, Verified

\* It was given to the owner of the session.
LEMMA OwnerGranted ==
  ASSUME NEW s, NEW action, NEW u, OwnedBy(s, u)
  PROVE  Promise!GrantedTo(GrantOf(s, action), action, u)
BY GrantFields DEF OwnedBy, Promise!GrantedTo

\* An address update uses up its grant.  When the account had the address
\* already that is all it does.
LEMMA ChangeAddressKept ==
  ASSUME TypeOK, NEW r \in Requests, completeEmailAddressUpdate(r)
  PROVE  Promise!ChangeAddress \/ Promise!Cancel
<1>1. PICK s \in email_address_update_session, u \in user :
        /\ OwnedBy(s, u)
        /\ s.identity_verified
        /\ EmailAddressUnique(u.id, s.new_email_address)
        /\ user' = (user \ {u}) \union
                     {[u EXCEPT !.email_address = s.new_email_address]}
        /\ email_address_update_session' =
             WithoutRow(email_address_update_session, s.id)
  BY DEF completeEmailAddressUpdate
<1> DEFINE g == GrantOf(s, "email_address_update")
           v == [u EXCEPT !.email_address = s.new_email_address]
<1>2. /\ g \in Grants
      /\ Promise!GrantedTo(g, "email_address_update", u)
      /\ Grants' = Grants \ {g}
      /\ UNCHANGED <<passkey, auth_session>>
  BY <1>1, VerifiedGranted, OwnerGranted, SessionEnds
  DEF completeEmailAddressUpdate, emailAddressUpdateLeaves
<1>3. /\ v.email_address = s.new_email_address
      /\ v = [u EXCEPT !.email_address = v.email_address]
      /\ user' = (user \ {u}) \union {v}
  BY <1>1, Columns DEF UserRow
<1>4. CASE u.email_address = s.new_email_address
  <2>1. v = u
    BY <1>4, Columns DEF UserRow
  <2>2. user' = user
    BY <1>3, <2>1
  <2> HIDE DEF g
  <2> QED
    BY <1>2, <2>2 DEF Promise!Cancel
<1>5. CASE u.email_address # s.new_email_address
  <2>1. Promise!FreeAddress(v.email_address)
    BY <1>1, <1>3, <1>5, AccountKeys
    DEF EmailAddressUnique, Promise!FreeAddress
  <2> HIDE DEF g, v
  <2>2. v \in user'
    BY <1>3
  <2> QED
    BY <1>2, <1>3, <2>1, <2>2 DEF Promise!ChangeAddress
<1> QED
  BY <1>4, <1>5

\* A passkey registration uses up its grant.
LEMMA AddPasskeyKept ==
  ASSUME TypeOK, ReferentialIntegrity, NEW r \in Requests,
         completePasskeyRegistration(r)
  PROVE  Promise!AddPasskey
<1>1. PICK s \in passkey_registration_session, a \in auth_session :
        /\ a.id = s.auth_session_id
        /\ BelowPasskeyCountLimit(a.user_id)
        /\ s.identity_verified
        /\ WebauthnCredentialIdUnique(s.passkey_webauthn_credential_id)
        /\ passkey' = passkey \union
             {[id |-> NewId("passkey"), user_id |-> a.user_id,
               webauthn_credential_id |-> s.passkey_webauthn_credential_id]}
        /\ passkey_registration_session' =
             WithoutRow(passkey_registration_session, s.id)
  BY DEF completePasskeyRegistration
<1>2. PICK u \in user : u.id = a.user_id
  BY DEF ReferentialIntegrity, HasRow
<1> DEFINE g == GrantOf(s, "passkey_registration")
           k == [id |-> NewId("passkey"), user_id |-> a.user_id,
                 webauthn_credential_id |-> s.passkey_webauthn_credential_id]
<1>3. /\ g \in Grants
      /\ Promise!GrantedTo(g, "passkey_registration", u)
      /\ Grants' = Grants \ {g}
      /\ UNCHANGED <<user, auth_session>>
  BY <1>1, <1>2, VerifiedGranted, OwnerGranted, SessionEnds
  DEF completePasskeyRegistration, passkeyRegistrationLeaves, OwnedBy
<1>4. NewId("passkey") \notin Promise!IdsIn(passkey)
  BY DEF TypeOK, TablesOK, TableOK, Counters, NewId, Promise!IdsIn
<1>5. /\ k.id \notin Promise!IdsIn(passkey)
      /\ k.user_id = u.id
      /\ Promise!FreeCredential(k.webauthn_credential_id)
      /\ passkey' = passkey \union {k}
  BY <1>1, <1>2, <1>4 DEF WebauthnCredentialIdUnique, Promise!FreeCredential
<1>6. Promise!Cardinality(Promise!KeysOf(u.id)) < maxPasskeyCountLimit
  <2>1. Promise!Cardinality(Promise!KeysOf(u.id))
          = Cardinality(Promise!KeysOf(u.id))
    BY DEF Promise!Cardinality, Cardinality
  <2>2. Promise!KeysOf(u.id) = {p \in passkey : p.user_id = u.id}
    BY DEF Promise!KeysOf
  <2> QED
    BY <1>1, <1>2, <2>1, <2>2 DEF BelowPasskeyCountLimit, getUserPasskeyCount
<1> HIDE DEF g, k
<1>7. k \in passkey'
  BY <1>5
<1> QED
  BY <1>3, <1>5, <1>6, <1>7 DEF Promise!AddPasskey

\* A passkey deletion uses up its grant, verified when it was confirmed, and
\* takes every other grant to delete the passkey along.
LEMMA RemovePasskeyKept ==
  ASSUME TypeOK, ReferentialIntegrity, ReadsStayTrue, DeletionsOwn,
         NEW r \in Requests, completePasskeyDeletion(r)
  PROVE  Promise!RemovePasskey
<1>1. PICK s \in passkey_deletion_session :
        /\ request[r].handler = "confirmPasskeyDeletion"
        /\ s.id = request[r].id
        /\ HasRow(passkey, s.passkey_id)
        /\ CascadeDelete({}, {}, {s.passkey_id})
  BY DEF completePasskeyDeletion
<1>2. PICK k \in passkey : k.id = s.passkey_id
  BY <1>1 DEF HasRow
<1> DEFINE g == GrantOf(s, "passkey_deletion")
<1>3. g \in Grants
  BY <1>1, VerifiedGranted DEF ReadsStayTrue, StillTrue
<1>4. g.passkey = k.id
  BY <1>2, GrantFields
<1>5. /\ UNCHANGED <<user, auth_session>>
      /\ passkey' = passkey \ {k}
  BY <1>1, <1>2, NoOwners, AccountKeys DEF CascadeDelete
<1>6. Grants' = {h \in Grants : h.passkey # k.id}
  <2>1. 0 \notin {s.passkey_id} \union PasskeysOf({})
    BY <1>2, NoOwners, AccountKeys
  <2>2. Grants' = {h \in Grants :
                     /\ h.session \notin {} \union SessionsOf({})
                     /\ h.passkey \notin {s.passkey_id} \union PasskeysOf({})}
    BY <1>1, <2>1, CascadeGrants
  <2> QED
    BY <1>2, <2>2, NoOwners
<1>7. PICK u \in user : k.user_id = u.id
  BY DEF ReferentialIntegrity, HasRow
<1>8. OwnedBy(s, u)
  BY <1>2, <1>7 DEF ReferentialIntegrity, HasRow, DeletionsOwn, SameUser,
                    OwnedBy
<1>9. Promise!GrantedTo(g, "passkey_deletion", u)
  BY <1>8, OwnerGranted
<1>10. k \in Promise!KeysOf(u.id)
  BY <1>7 DEF Promise!KeysOf
<1> HIDE DEF g
<1> QED
  BY <1>3, <1>4, <1>5, <1>6, <1>9, <1>10 DEF Promise!RemovePasskey

\* An account deletion uses up its grant.
LEMMA DeleteAccountKept ==
  ASSUME TypeOK, ReferentialIntegrity, NEW r \in Requests,
         completeAccountDeletion(r)
  PROVE  Promise!DeleteAccount
<1>1. PICK s \in account_deletion_session, u \in user :
        /\ OwnedBy(s, u)
        /\ s.identity_verified
        /\ CascadeDelete({u.id}, {}, {})
  BY DEF completeAccountDeletion
<1>2. {w.id : w \in {u}} = {u.id}
  OBVIOUS
<1>3. Promise!Remove({u})
  BY <1>1, <1>2, RemovesAccounts
<1> QED
  BY <1>1, <1>3, VerifiedGranted, OwnerGranted DEF Promise!DeleteAccount

\* The transactions of verifying actions.
LEMMA ActionCommitsKept ==
  ASSUME TypeOK, ReferentialIntegrity, ReadsStayTrue, DeletionsOwn,
         NEW r \in Requests, ActionCommits(r)
  PROVE  Unseen \/ Promise!PromiseNext
<1>1. CASE \/ completeEmailAddressUpdate(r) \/ completePasskeyRegistration(r)
           \/ completePasskeyDeletion(r) \/ completeAccountDeletion(r)
  BY <1>1, ChangeAddressKept, AddPasskeyKept, RemovePasskeyKept,
     DeleteAccountKept DEF Promise!PromiseNext
<1>2. CASE Starts(r)
  BY <1>2, StartsKeepGrants DEF Starts, createEmailAddressUpdateSession,
     createPasskeyRegistrationSession, createPasskeyDeletionSession,
     createAccountDeletionSession, emailAddressUpdateLeaves,
     passkeyRegistrationLeaves, accountTables, Unseen
<1>3. CASE \/ setEmailAddressUpdateSessionNewEmailAddress(r)
           \/ setPasskeyRegistrationSessionPasskeyWebauthnCredential(r)
  BY <1>3, GivesKeepGrants DEF setEmailAddressUpdateSessionNewEmailAddress,
     setPasskeyRegistrationSessionPasskeyWebauthnCredential,
     emailAddressUpdateLeaves, passkeyRegistrationLeaves, Unseen
<1> QED
  BY <1>1, <1>2, <1>3 DEF ActionCommits, Starts

\* Every step is one of the promise, or unseen by it.
LEMMA NextKept ==
  ASSUME TypeOK, ReferentialIntegrity, ReadsStayTrue, DeletionsOwn,
         [Next]_vars
  PROVE  Unseen \/ Promise!PromiseNext
<1>1. ASSUME NEW r \in Requests, Commits(r)
      PROVE  Unseen \/ Promise!PromiseNext
  BY <1>1, SignupCommitsKept, SigninCommitsKept, ActionCommitsKept,
     CancelCommitsKept, VerificationCommitsKept
  DEF Commits
<1>2. CASE cleanDatabase
  <2>1. PICK D \in SUBSET user : CascadeDelete({u.id : u \in D}, {}, {})
    BY <1>2 DEF cleanDatabase
  <2>2. Promise!Remove(D)
    BY <2>1, RemovesAccounts
  <2>3. user \ user' = D
    BY <2>2 DEF Promise!Remove
  <2> QED
    BY <2>2, <2>3 DEF Promise!CleanUp, Promise!PromiseNext
<1>3. CASE UNCHANGED database
  BY <1>3, SameGrants DEF database, actionTables, Unseen
<1> QED
  BY <1>1, <1>2, <1>3, NextSteps DEF Reads, Receive, Rollback, vars, database

\* The server implements AccountsPromise for clients that ask to delete
\* passkeys of their own account only: with any number of requests in flight,
\* each commit is one step of it or unseen by it.
THEOREM PromiseKept ==
  ASSUME OwnPasskeysOnly
  PROVE  Spec => KeepsPromise
<1>1. Init => TypeOK /\ ReferentialIntegrity
  BY InitTypeOK, InitRI
<1>2. TypeOK /\ ReferentialIntegrity /\ [Next]_vars =>
        (TypeOK /\ ReferentialIntegrity)'
  BY NextTypeOK, NextRI
<1>3. Init => Promise!PromiseInit
  BY DEF Init, Promise!PromiseInit, Grants, GrantsFrom, Verified
<1>4. TypeOK /\ ReferentialIntegrity /\ ReadsStayTrue /\ DeletionsOwn
        /\ [Next]_vars => [Promise!PromiseNext]_(Promise!promise)
  BY NextKept DEF Unseen, Promise!promise
<1> QED
  BY <1>1, <1>2, <1>3, <1>4, ReadsStay, OwnDeletions, PTL
  DEF Spec, KeepsPromise, Promise!PromiseSpec
=============================================================================
