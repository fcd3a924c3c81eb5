--------------------------- MODULE AccountsProofs ---------------------------
(***************************************************************************)
(* The safety invariants of Accounts, for any number of requests,          *)
(* addresses, credentials, initial accounts and ids, and any set of        *)
(* handlers.                                                               *)
(*                                                                         *)
(* A step of Next reads (Reads: only request changes), commits (Commits),  *)
(* is rolled back, or is the clean-up.  NextSteps states this once; every  *)
(* invariant is then a matter of the commits.  TypeOK and                  *)
(* ReferentialIntegrity are inductive together; each of the others is      *)
(* inductive given these, by what Next may do to the tables it is about.   *)
(***************************************************************************)
EXTENDS Accounts, FiniteSetTheorems, TLAPS

(* The steps. *)

\* What request r may carry to the transaction of handler h.
Carries(h, id, other, value) ==
  /\ id \in Nat
  /\ other \in Nat
  /\ value \in EmailAddresses \union WebauthnCredentials
                 \union VerifyingActions \union {Null}
  /\ h \in {"startSignup", "startEmailCodeSignin", "setNewEmailAddress"} =>
       value \in EmailAddresses
  /\ h \in {"setSignupCredential", "setPasskeyRegistrationCredential"} =>
       value \in WebauthnCredentials
  /\ h = "startPasskeyDeletion" =>
       \E a \in auth_session : \E p \in AskedPasskeys(a) :
         id = a.id /\ other = p.id

Reads(r) ==
  \E h, id, other, value :
    Carries(h, id, other, value) /\ Receive(r, h, id, other, value)

SignupCommits(r) ==
  \/ createSignupSession(r)
  \/ deleteSignupSession(r)
  \/ setSignupSessionAsEmailAddressVerified(r)
  \/ setSignupSessionPasskeyWebauthnCredential(r)
  \/ completeSignupWithoutPasskeyRegistration(r)
  \/ completeSignupWithPasskeyRegistration(r)

SigninCommits(r) ==
  \/ createPasskeySigninAttempt(r)
  \/ deletePasskeySigninAttempt(r)
  \/ completePasskeySignin(r)
  \/ createEmailCodeSigninSessionFromUserEmailAddress(r)
  \/ deleteEmailCodeSigninSession(r)
  \/ completeEmailCodeSigninSession(r)
  \/ deleteAuthSession(r)
  \/ deleteUserAuthSessions(r)

ActionCommits(r) ==
  \/ createEmailAddressUpdateSession(r)
  \/ setEmailAddressUpdateSessionNewEmailAddress(r)
  \/ completeEmailAddressUpdate(r)
  \/ createPasskeyRegistrationSession(r)
  \/ setPasskeyRegistrationSessionPasskeyWebauthnCredential(r)
  \/ completePasskeyRegistration(r)
  \/ createPasskeyDeletionSession(r)
  \/ completePasskeyDeletion(r)
  \/ createAccountDeletionSession(r)
  \/ completeAccountDeletion(r)

\* A cancel handler of a verifying action, or of its identity verification.
CancelCommits(r) ==
  /\ \E id : \/ deleteEmailAddressUpdateSession(id)
             \/ deletePasskeyRegistrationSession(id)
             \/ deletePasskeyDeletionSession(id)
             \/ deleteAccountDeletionSession(id)
  /\ Respond(r)

VerificationCommits(r) ==
  \/ issueIdentityVerificationSessionEmailCode(r)
  \/ revokeIdentityVerificationSessionEmailCode(r)
  \/ completeIdentityVerification(r)

Commits(r) ==
  \/ SignupCommits(r)
  \/ SigninCommits(r)
  \/ ActionCommits(r)
  \/ CancelCommits(r)
  \/ VerificationCommits(r)

\* A step of sign-up reads, or is one of its transactions.
LEMMA SignupReads ==
  ASSUME TypeOK, NEW r \in Requests, SignupStep(r)
  PROVE  Reads(r) \/ SignupCommits(r)
<1> USE DEF TypeOK, TablesOK, TableOK, SignupSessionRow
<1>1. CASE startSignupAction(r)
  BY <1>1 DEF startSignupAction, Reads, Carries
<1>2. CASE cancelSignupAction(r)
  BY <1>2 DEF cancelSignupAction, Reads, Carries
<1>3. CASE verifySignupEmailAddressVerificationCodeAction(r)
  BY <1>3 DEF verifySignupEmailAddressVerificationCodeAction, Reads, Carries
<1>4. CASE setSignupPasskeyWebauthnCredentialAction(r)
  BY <1>4 DEF setSignupPasskeyWebauthnCredentialAction, Reads, Carries
<1>5. CASE completeSignupWithoutPasskeyRegistrationAction(r)
  BY <1>5 DEF completeSignupWithoutPasskeyRegistrationAction, Reads, Carries
<1>6. CASE setSignupPasskeyNameAction(r)
  BY <1>6 DEF setSignupPasskeyNameAction, Reads, Carries
<1> QED
  BY <1>1, <1>2, <1>3, <1>4, <1>5, <1>6 DEF SignupStep, SignupCommits

\* A step of sign-in or sign-out reads, or is one of its transactions.
LEMMA SigninReads ==
  ASSUME TypeOK, NEW r \in Requests, SigninStep(r)
  PROVE  Reads(r) \/ SigninCommits(r)
<1> USE DEF TypeOK, TablesOK, TableOK,
  UserRow, AuthSessionRow, PasskeyRow, PasskeySigninAttemptRow,
  EmailCodeSigninSessionRow
<1>1. CASE cancelPasskeySigninAction(r)
  BY <1>1 DEF cancelPasskeySigninAction, Reads, Carries
<1>2. CASE verifyPasskeySigninWebauthnSignatureAction(r)
  BY <1>2 DEF verifyPasskeySigninWebauthnSignatureAction, Reads, Carries
<1>3. CASE startEmailCodeSigninAction(r)
  BY <1>3 DEF startEmailCodeSigninAction, Reads, Carries
<1>4. CASE cancelEmailCodeSigninAction(r)
  BY <1>4 DEF cancelEmailCodeSigninAction, Reads, Carries
<1>5. CASE verifyEmailCodeSigninEmailCodeAction(r)
  BY <1>5 DEF verifyEmailCodeSigninEmailCodeAction, Reads, Carries
<1>6. CASE signOutAction(r)
  BY <1>6 DEF signOutAction, Reads, Carries
<1>7. CASE signOutAllDevicesAction(r)
  BY <1>7 DEF signOutAllDevicesAction, Reads, Carries
<1> QED
  BY <1>1, <1>2, <1>3, <1>4, <1>5, <1>6, <1>7
  DEF SigninStep, SigninCommits

\* A step of address update reads, or is one of its transactions.
LEMMA EmailAddressUpdateReads ==
  ASSUME TypeOK, NEW r \in Requests, EmailAddressUpdateStep(r)
  PROVE  Reads(r) \/ ActionCommits(r) \/ CancelCommits(r)
<1> USE DEF TypeOK, TablesOK, TableOK,
  AuthSessionRow, EmailAddressUpdateSessionRow,
  VerifiedEmailAddressUpdateSessions
<1>1. CASE startEmailAddressUpdateAction(r)
  BY <1>1 DEF startEmailAddressUpdateAction, Reads, Carries
<1>2. CASE cancelEmailAddressUpdateAction(r)
  BY <1>2 DEF cancelEmailAddressUpdateAction, Reads, Carries
<1>3. CASE setEmailAddressUpdateNewEmailAddressAction(r)
  BY <1>3 DEF setEmailAddressUpdateNewEmailAddressAction, Reads, Carries
<1>4. CASE verifyEmailAddressUpdateNewEmailAddressVerificationCodeAction(r)
  BY <1>4
  DEF verifyEmailAddressUpdateNewEmailAddressVerificationCodeAction, Reads, Carries
<1> QED
  BY <1>1, <1>2, <1>3, <1>4
  DEF EmailAddressUpdateStep, ActionCommits, CancelCommits

\* A step of passkey registration reads, or is one of its transactions.
LEMMA PasskeyRegistrationReads ==
  ASSUME TypeOK, NEW r \in Requests, PasskeyRegistrationStep(r)
  PROVE  Reads(r) \/ ActionCommits(r) \/ CancelCommits(r)
<1> USE DEF TypeOK, TablesOK, TableOK,
  AuthSessionRow, PasskeyRegistrationSessionRow,
  VerifiedPasskeyRegistrationSessions
<1>1. CASE startPasskeyRegistrationAction(r)
  BY <1>1 DEF startPasskeyRegistrationAction, Reads, Carries
<1>2. CASE cancelPasskeyRegistrationAction(r)
  BY <1>2 DEF cancelPasskeyRegistrationAction, Reads, Carries
<1>3. CASE setPasskeyRegistrationPasskeyWebauthnCredentialAction(r)
  BY <1>3
  DEF setPasskeyRegistrationPasskeyWebauthnCredentialAction, Reads, Carries
<1>4. CASE setPasskeyRegistrationPasskeyNameAction(r)
  BY <1>4 DEF setPasskeyRegistrationPasskeyNameAction, Reads, Carries
<1> QED
  BY <1>1, <1>2, <1>3, <1>4
  DEF PasskeyRegistrationStep, ActionCommits, CancelCommits

\* A step of passkey deletion reads, or is one of its transactions.
LEMMA PasskeyDeletionReads ==
  ASSUME TypeOK, NEW r \in Requests, PasskeyDeletionStep(r)
  PROVE  Reads(r) \/ ActionCommits(r) \/ CancelCommits(r)
<1> USE DEF TypeOK, TablesOK, TableOK,
  AuthSessionRow, PasskeyRow, PasskeyDeletionSessionRow,
  VerifiedPasskeyDeletionSessions, ConfirmablePasskeyDeletionSessions
<1>1. CASE startPasskeyDeletionAction(r)
  BY <1>1 DEF startPasskeyDeletionAction, AskedPasskeys, Reads, Carries
<1>2. CASE cancelPasskeyDeletionAction(r)
  BY <1>2 DEF cancelPasskeyDeletionAction, Reads, Carries
<1>3. CASE confirmPasskeyDeletionAction(r)
  BY <1>3 DEF confirmPasskeyDeletionAction, Reads, Carries
<1> QED
  BY <1>1, <1>2, <1>3
  DEF PasskeyDeletionStep, ActionCommits, CancelCommits

\* A step of account deletion reads, or is one of its transactions.
LEMMA AccountDeletionReads ==
  ASSUME TypeOK, NEW r \in Requests, AccountDeletionStep(r)
  PROVE  Reads(r) \/ ActionCommits(r) \/ CancelCommits(r)
<1> USE DEF TypeOK, TablesOK, TableOK,
  AuthSessionRow, AccountDeletionSessionRow,
  VerifiedAccountDeletionSessions
<1>1. CASE startAccountDeletionAction(r)
  BY <1>1 DEF startAccountDeletionAction, Reads, Carries
<1>2. CASE cancelAccountDeletionAction(r)
  BY <1>2 DEF cancelAccountDeletionAction, Reads, Carries
<1>3. CASE confirmAccountDeletionAction(r)
  BY <1>3 DEF confirmAccountDeletionAction, Reads, Carries
<1> QED
  BY <1>1, <1>2, <1>3
  DEF AccountDeletionStep, ActionCommits, CancelCommits

\* A step of identity verification reads, or is one of its transactions.
LEMMA IdentityVerificationReads ==
  ASSUME TypeOK, NEW r \in Requests, IdentityVerificationStep(r)
  PROVE  Reads(r) \/ CancelCommits(r) \/ VerificationCommits(r)
<1> USE DEF TypeOK, TablesOK, TableOK,
  IdentityVerificationSessionRow, PresentedVerifications
<1>1. CASE cancelIdentityVerificationAction(r)
  BY <1>1 DEF cancelIdentityVerificationAction, Reads, Carries
<1>2. CASE issueIdentityVerificationEmailCodeAction(r)
  BY <1>2 DEF issueIdentityVerificationEmailCodeAction, Reads, Carries
<1>3. CASE revokeIdentityVerificationEmailCodeAction(r)
  BY <1>3 DEF revokeIdentityVerificationEmailCodeAction, Reads, Carries
<1>4. CASE verifyIdentityVerificationEmailCodeAction(r)
  BY <1>4 DEF verifyIdentityVerificationEmailCodeAction, Reads, Carries
<1>5. CASE verifyIdentityVerificationPasskeyWebauthnSignatureAction(r)
  BY <1>5
  DEF verifyIdentityVerificationPasskeyWebauthnSignatureAction, Reads, Carries
<1> QED
  BY <1>1, <1>2, <1>3, <1>4, <1>5
  DEF IdentityVerificationStep, cancelVerifyingAction, CancelCommits,
      VerificationCommits

\* Every step of the server is one of these.
LEMMA NextSteps ==
  ASSUME TypeOK, Next
  PROVE  \/ \E r \in Requests : Reads(r) \/ Commits(r) \/ Rollback(r)
         \/ cleanDatabase
<1>1. ASSUME NEW r \in Requests,
             \/ SignupStep(r) \/ SigninStep(r) \/ EmailAddressUpdateStep(r)
             \/ PasskeyRegistrationStep(r) \/ PasskeyDeletionStep(r)
             \/ AccountDeletionStep(r) \/ IdentityVerificationStep(r)
      PROVE  Reads(r) \/ Commits(r)
  BY <1>1, SignupReads, SigninReads, EmailAddressUpdateReads,
     PasskeyRegistrationReads, PasskeyDeletionReads, AccountDeletionReads,
     IdentityVerificationReads DEF Commits
<1> QED
  BY <1>1 DEF Next

\* A transaction draws the ids of the rows it inserts.
LEMMA IssueOK ==
  ASSUME TypeOK, NEW C \in SUBSET Counters, Issue(C)
  PROVE  /\ issued' \in [Counters -> Nat]
         /\ \A c \in Counters : issued[c] <= issued'[c]
         /\ \A c \in C : issued'[c] = issued[c] + 1
         /\ \A c \in Counters \ C : issued'[c] = issued[c]
BY DEF TypeOK, Issue

\* Deleting rows, and issuing ids, keeps a table well-formed.
LEMMA TableKept ==
  ASSUME NEW rows, NEW Row, NEW n \in Nat, NEW m \in Nat, n <= m,
         TableOK(rows, Row, n), NEW kept, kept \subseteq rows
  PROVE  TableOK(kept, Row, m)
BY DEF TableOK

\* So does a row with the next id,
LEMMA TableAdd ==
  ASSUME NEW rows, NEW Row, NEW n \in Nat, TableOK(rows, Row, n),
         NEW row \in Row, row.id = n + 1
  PROVE  TableOK(rows \union {row}, Row, n + 1)
BY DEF TableOK

\* and a row that takes the place of one with the same id.
LEMMA TableReplace ==
  ASSUME NEW rows, NEW Row, NEW n \in Nat, TableOK(rows, Row, n),
         NEW s \in rows, NEW t \in Row, t.id = s.id
  PROVE  TableOK((rows \ {s}) \union {t}, Row, n)
BY DEF TableOK

\* Answering leaves the request idle.
LEMMA RespondOK ==
  ASSUME TypeOK, NEW r \in Requests, Respond(r)
  PROVE  RequestsOK'
<1>1. Idle \in RequestState
  BY DEF RequestState, Idle
<1> QED
  BY <1>1 DEF TypeOK, RequestsOK, Respond, Idle

\* The columns of a row, and the numbers it is counted by.
LEMMA Columns ==
  ASSUME TypeOK
  PROVE  /\ user \subseteq UserRow
         /\ passkey \subseteq PasskeyRow
         /\ auth_session \subseteq AuthSessionRow
         /\ signup_session \subseteq SignupSessionRow
         /\ email_code_signin_session \subseteq EmailCodeSigninSessionRow
         /\ identity_verification_session
              \subseteq IdentityVerificationSessionRow
         /\ email_address_update_session \subseteq EmailAddressUpdateSessionRow
         /\ passkey_registration_session
              \subseteq PasskeyRegistrationSessionRow
         /\ passkey_deletion_session \subseteq PasskeyDeletionSessionRow
         /\ account_deletion_session \subseteq AccountDeletionSessionRow
BY DEF TypeOK, TablesOK, TableOK

\* A handler that has read its rows stores values of their types.
LEMMA ReadsOK ==
  ASSUME TypeOK, NEW r \in Requests, Reads(r)
  PROVE  TypeOK'
<1>1. PICK h, id, other, value :
        Carries(h, id, other, value) /\ Receive(r, h, id, other, value)
  BY DEF Reads
<1>2. [handler |-> h, id |-> id, other |-> other, value |-> value]
        \in RequestState
  BY <1>1 DEF RequestState, Receive, Carries
<1>3. RequestsOK'
  BY <1>1, <1>2 DEF TypeOK, RequestsOK, Receive, Carries
<1>4. issued' \in [Counters -> Nat] /\ TablesOK'
  BY <1>1 DEF TypeOK, TablesOK, Receive
<1> QED
  BY <1>3, <1>4 DEF TypeOK

\* A table that gains no row and changes none keeps its type.
LEMMA ShrinkOK ==
  ASSUME TypeOK, issued' \in [Counters -> Nat],
         \A c \in Counters : issued[c] <= issued'[c]
  PROVE  /\ user' \subseteq user => TableOK(user, UserRow, issued["user"])'
         /\ passkey' \subseteq passkey =>
              TableOK(passkey, PasskeyRow, issued["passkey"])'
         /\ auth_session' \subseteq auth_session =>
              TableOK(auth_session, AuthSessionRow, issued["auth_session"])'
         /\ signup_session' \subseteq signup_session =>
              TableOK(signup_session, SignupSessionRow,
                      issued["signup_session"])'
         /\ passkey_signin_attempt' \subseteq passkey_signin_attempt =>
              TableOK(passkey_signin_attempt, PasskeySigninAttemptRow,
                      issued["signin"])'
         /\ email_code_signin_session' \subseteq email_code_signin_session =>
              TableOK(email_code_signin_session, EmailCodeSigninSessionRow,
                      issued["signin"])'
         /\ identity_verification_session' \subseteq identity_verification_session =>
              TableOK(identity_verification_session, IdentityVerificationSessionRow,
                      issued["verifying_action"])'
         /\ email_address_update_session' \subseteq email_address_update_session =>
              TableOK(email_address_update_session, EmailAddressUpdateSessionRow,
                      issued["verifying_action"])'
         /\ passkey_registration_session' \subseteq passkey_registration_session =>
              TableOK(passkey_registration_session, PasskeyRegistrationSessionRow,
                      issued["verifying_action"])'
         /\ passkey_deletion_session' \subseteq passkey_deletion_session =>
              TableOK(passkey_deletion_session, PasskeyDeletionSessionRow,
                      issued["verifying_action"])'
         /\ account_deletion_session' \subseteq account_deletion_session =>
              TableOK(account_deletion_session, AccountDeletionSessionRow,
                      issued["verifying_action"])'
BY TableKept DEF TypeOK, TablesOK, Counters

\* An UPDATE of a sign-up session leaves its user id alone.
LEMMA SignupSessionReplaced ==
  ASSUME TypeOK, NEW s \in signup_session, NEW t \in SignupSessionRow,
         t.id = s.id, t.target_user_id = s.target_user_id,
         signup_session' = (signup_session \ {s}) \union {t},
         UNCHANGED <<accountTables, signupLeaves, issued>>
  PROVE  issued' \in [Counters -> Nat] /\ TablesOK'
<1>1. TableOK(signup_session, SignupSessionRow, issued["signup_session"])'
  BY TableReplace DEF TypeOK, TablesOK, Counters
<1>2. \A x \in signup_session' : x.target_user_id \in 1..issued'["user"]
  BY DEF TypeOK, TablesOK
<1> QED
  BY <1>1, <1>2 DEF TypeOK, TablesOK, accountTables, signupLeaves,
                    signinTables, actionTables

\* The account and the auth session that a sign-up adds.
LEMMA SignUpOK ==
  ASSUME TypeOK, NEW s \in signup_session, SignUp(s),
         issued' \in [Counters -> Nat],
         issued'["user"] = issued["user"],
         issued'["signup_session"] = issued["signup_session"],
         issued'["auth_session"] = issued["auth_session"] + 1
  PROVE  /\ TableOK(user, UserRow, issued["user"])'
         /\ TableOK(auth_session, AuthSessionRow, issued["auth_session"])'
         /\ TableOK(signup_session, SignupSessionRow,
                    issued["signup_session"])'
         /\ \A t \in signup_session' : t.target_user_id \in 1..issued'["user"]
<1> DEFINE account == [id |-> s.target_user_id,
                       email_address |-> s.email_address]
           session == [id |-> NewId("auth_session"),
                       user_id |-> s.target_user_id]
<1>1. /\ account \in UserRow
      /\ account.id \in 1..issued["user"]
      /\ ~HasRow(user, account.id)
  BY Columns DEF SignupSessionRow, UserRow, TypeOK, TablesOK, SignUp
<1>2. session \in AuthSessionRow /\ session.id = issued["auth_session"] + 1
  BY Columns DEF SignupSessionRow, AuthSessionRow, NewId, TypeOK, Counters
<1>3. /\ user' = user \union {account}
      /\ auth_session' = auth_session \union {session}
      /\ signup_session' \subseteq signup_session
  BY DEF SignUp, SignupSessionUsed, WithoutRow
<1> HIDE DEF account, session
<1>4. TableOK(user, UserRow, issued["user"])'
  <2>1. TableOK(user, UserRow, issued["user"])
    BY DEF TypeOK, TablesOK
  <2> QED
    BY <1>1, <1>3, <2>1 DEF TableOK, HasRow
<1>5. TableOK(auth_session, AuthSessionRow, issued["auth_session"])'
  BY <1>2, <1>3, TableAdd DEF TypeOK, TablesOK, Counters
<1>6. TableOK(signup_session, SignupSessionRow, issued["signup_session"])'
  BY <1>3, TableKept DEF TypeOK, TablesOK, Counters
<1> QED
  BY <1>3, <1>4, <1>5, <1>6 DEF TypeOK, TablesOK

\* The part of TypeOK that a commit of a request can disturb.
LEMMA SignupCommitsOK ==
  ASSUME TypeOK, NEW r \in Requests, SignupCommits(r)
  PROVE  issued' \in [Counters -> Nat] /\ TablesOK'
<1> USE DEF signupLeaves, accountTables, signinTables, actionTables
<1>1. CASE createSignupSession(r)
  <2> DEFINE row == [id |-> NewId("signup_session"),
                     target_user_id |-> NewId("user"),
                     email_address |-> request[r].value,
                     email_address_verified |-> FALSE,
                     passkey_webauthn_credential_id |-> Null]
  <2>1. /\ row \in SignupSessionRow
        /\ row.id = issued["signup_session"] + 1
        /\ row.target_user_id = issued["user"] + 1
    BY <1>1, IssueOK DEF createSignupSession, SignupSessionRow, TypeOK,
                         RequestsOK, Counters, NewId
  <2>2. signup_session' = signup_session \union {row}
    BY <1>1 DEF createSignupSession
  <2>3. /\ issued' \in [Counters -> Nat]
        /\ \A c \in Counters : issued[c] <= issued'[c]
        /\ issued'["signup_session"] = issued["signup_session"] + 1
        /\ issued'["user"] = issued["user"] + 1
    BY <1>1, IssueOK DEF createSignupSession, Counters
  <2> HIDE DEF row
  <2>4. TableOK(signup_session, SignupSessionRow, issued["signup_session"])'
    BY <2>1, <2>2, <2>3, TableAdd DEF TypeOK, TablesOK, Counters
  <2>5. \A s \in signup_session' : s.target_user_id \in 1..issued'["user"]
    BY <2>1, <2>2, <2>3 DEF TypeOK, TablesOK, Counters
  <2> QED
    BY <1>1, <2>3, <2>4, <2>5, ShrinkOK DEF createSignupSession, TablesOK
<1>2. CASE deleteSignupSession(r)
  BY <1>2, ShrinkOK
  DEF deleteSignupSession, WithoutRow, TypeOK, TablesOK, Counters
<1>3. CASE setSignupSessionAsEmailAddressVerified(r)
  <2>1. PICK s \in signup_session :
          signup_session' = (signup_session \ {s}) \union
                              {[s EXCEPT !.email_address_verified = TRUE]}
    BY <1>3 DEF setSignupSessionAsEmailAddressVerified
  <2> DEFINE t == [s EXCEPT !.email_address_verified = TRUE]
  <2>2. /\ t \in SignupSessionRow
        /\ t.id = s.id
        /\ t.target_user_id = s.target_user_id
    BY Columns DEF SignupSessionRow
  <2> QED
    BY <1>3, <2>1, <2>2, SignupSessionReplaced
    DEF setSignupSessionAsEmailAddressVerified
<1>4. CASE setSignupSessionPasskeyWebauthnCredential(r)
  <2>1. PICK s \in signup_session :
          signup_session' = (signup_session \ {s}) \union
            {[s EXCEPT !.passkey_webauthn_credential_id = request[r].value]}
    BY <1>4 DEF setSignupSessionPasskeyWebauthnCredential
  <2> DEFINE t == [s EXCEPT !.passkey_webauthn_credential_id = request[r].value]
  <2>2. /\ t \in SignupSessionRow
        /\ t.id = s.id
        /\ t.target_user_id = s.target_user_id
    BY <1>4, Columns
    DEF setSignupSessionPasskeyWebauthnCredential, SignupSessionRow,
        TypeOK, RequestsOK
  <2> QED
    BY <1>4, <2>1, <2>2, SignupSessionReplaced
    DEF setSignupSessionPasskeyWebauthnCredential
<1>5. CASE completeSignupWithoutPasskeyRegistration(r)
  <2>1. PICK s \in signup_session : SignUp(s)
    BY <1>5 DEF completeSignupWithoutPasskeyRegistration
  <2>2. Issue({"auth_session"})
    BY <1>5 DEF completeSignupWithoutPasskeyRegistration
  <2> QED
    BY <1>5, <2>1, <2>2, IssueOK, SignUpOK, ShrinkOK
    DEF completeSignupWithoutPasskeyRegistration, TablesOK, Counters
<1>6. CASE completeSignupWithPasskeyRegistration(r)
  <2>1. PICK s \in signup_session :
          /\ SignUp(s)
          /\ s.passkey_webauthn_credential_id # Null
          /\ passkey' = passkey \union
               {[id |-> NewId("passkey"), user_id |-> s.target_user_id,
                 webauthn_credential_id |-> s.passkey_webauthn_credential_id]}
    BY <1>6 DEF completeSignupWithPasskeyRegistration
  <2> DEFINE row ==
        [id |-> NewId("passkey"), user_id |-> s.target_user_id,
         webauthn_credential_id |-> s.passkey_webauthn_credential_id]
  <2>2. Issue({"auth_session", "passkey"})
    BY <1>6 DEF completeSignupWithPasskeyRegistration
  <2>3. row \in PasskeyRow /\ row.id = issued["passkey"] + 1
    BY <2>1, Columns DEF SignupSessionRow, PasskeyRow, NewId, TypeOK, Counters
  <2> HIDE DEF row
  <2>4. TableOK(passkey, PasskeyRow, issued["passkey"])'
    BY <2>1, <2>2, <2>3, IssueOK, TableAdd DEF TypeOK, TablesOK, Counters, row
  <2> QED
    BY <1>6, <2>1, <2>2, <2>4, IssueOK, SignUpOK, ShrinkOK
    DEF completeSignupWithPasskeyRegistration, TablesOK, Counters
<1> QED
  BY <1>1, <1>2, <1>3, <1>4, <1>5, <1>6 DEF SignupCommits

\* CASCADE deletes rows and changes none.
LEMMA CascadeOK ==
  ASSUME TypeOK, NEW U, NEW A, NEW P, CascadeDelete(U, A, P),
         signup_session' \subseteq signup_session,
         passkey_signin_attempt' \subseteq passkey_signin_attempt,
         issued' = issued
  PROVE  issued' \in [Counters -> Nat] /\ TablesOK'
<1>1. /\ user' \subseteq user
      /\ passkey' \subseteq passkey
      /\ auth_session' \subseteq auth_session
      /\ email_code_signin_session' \subseteq email_code_signin_session
      /\ identity_verification_session'
           \subseteq identity_verification_session
      /\ email_address_update_session' \subseteq email_address_update_session
      /\ passkey_registration_session' \subseteq passkey_registration_session
      /\ passkey_deletion_session' \subseteq passkey_deletion_session
      /\ account_deletion_session' \subseteq account_deletion_session
  BY DEF CascadeDelete, Without
<1>2. /\ issued' \in [Counters -> Nat]
      /\ \A c \in Counters : issued[c] <= issued'[c]
      /\ \A s \in signup_session' : s.target_user_id \in 1..issued'["user"]
  BY DEF TypeOK, TablesOK
<1> QED
  BY <1>1, <1>2, ShrinkOK DEF TablesOK

\* Transactions of sign-in and sign-out keep the tables well-formed.
LEMMA SigninCommitsOK ==
  ASSUME TypeOK, NEW r \in Requests, SigninCommits(r)
  PROVE  issued' \in [Counters -> Nat] /\ TablesOK'
<1> USE DEF accountTables, signinTables, actionTables, Counters
<1> DEFINE session(u) == [id |-> NewId("auth_session"), user_id |-> u]
<1>1. \A u \in Nat : /\ session(u) \in AuthSessionRow
                     /\ session(u).id = issued["auth_session"] + 1
  BY DEF AuthSessionRow, NewId, TypeOK
<1>2. ASSUME NEW u \in Nat, auth_session' = auth_session \union {session(u)},
             Issue({"auth_session"})
      PROVE  TableOK(auth_session, AuthSessionRow, issued["auth_session"])'
  <2> HIDE DEF session
  <2> QED
    BY <1>1, <1>2, IssueOK, TableAdd DEF TypeOK, TablesOK
<1>3. CASE createPasskeySigninAttempt(r)
  <2> DEFINE row == [id |-> NewId("signin")]
  <2>1. row \in PasskeySigninAttemptRow /\ row.id = issued["signin"] + 1
    BY DEF PasskeySigninAttemptRow, NewId, TypeOK
  <2>2. /\ passkey_signin_attempt' = passkey_signin_attempt \union {row}
        /\ Issue({"signin"})
    BY <1>3 DEF createPasskeySigninAttempt
  <2> HIDE DEF row
  <2>3. TableOK(passkey_signin_attempt, PasskeySigninAttemptRow,
                issued["signin"])'
    BY <2>1, <2>2, IssueOK, TableAdd DEF TypeOK, TablesOK
  <2> QED
    BY <1>3, <2>2, <2>3, IssueOK, ShrinkOK
    DEF createPasskeySigninAttempt, TypeOK, TablesOK
<1>4. CASE deletePasskeySigninAttempt(r)
  BY <1>4, ShrinkOK DEF deletePasskeySigninAttempt, WithoutRow, TypeOK, TablesOK
<1>5. CASE completePasskeySignin(r)
  <2>1. /\ request[r].other \in Nat
        /\ auth_session' = auth_session \union {session(request[r].other)}
        /\ Issue({"auth_session"})
        /\ passkey_signin_attempt' \subseteq passkey_signin_attempt
    BY <1>5 DEF completePasskeySignin, WithoutRow, TypeOK, RequestsOK,
                RequestState
  <2>2. TableOK(auth_session, AuthSessionRow, issued["auth_session"])'
    BY <1>2, <2>1
  <2> HIDE DEF session
  <2> QED
    BY <1>5, <2>1, <2>2, IssueOK, ShrinkOK
    DEF completePasskeySignin, TypeOK, TablesOK
<1>6. CASE createEmailCodeSigninSessionFromUserEmailAddress(r)
  <2>1. PICK u \in user :
          email_code_signin_session' = email_code_signin_session \union
            {[id |-> NewId("signin"), user_id |-> u.id,
              email_code |-> request[r].value]}
    BY <1>6 DEF createEmailCodeSigninSessionFromUserEmailAddress
  <2> DEFINE row == [id |-> NewId("signin"), user_id |-> u.id,
                     email_code |-> request[r].value]
  <2>2. row \in EmailCodeSigninSessionRow /\ row.id = issued["signin"] + 1
    BY <1>6, Columns
    DEF createEmailCodeSigninSessionFromUserEmailAddress, UserRow,
        EmailCodeSigninSessionRow, NewId, TypeOK, RequestsOK
  <2>3. Issue({"signin"})
    BY <1>6 DEF createEmailCodeSigninSessionFromUserEmailAddress
  <2> HIDE DEF row
  <2>4. TableOK(email_code_signin_session, EmailCodeSigninSessionRow,
                issued["signin"])'
    BY <2>1, <2>2, <2>3, IssueOK, TableAdd DEF TypeOK, TablesOK, row
  <2> QED
    BY <1>6, <2>3, <2>4, IssueOK, ShrinkOK
    DEF createEmailCodeSigninSessionFromUserEmailAddress, TypeOK, TablesOK
<1>7. CASE deleteEmailCodeSigninSession(r)
  BY <1>7, ShrinkOK
  DEF deleteEmailCodeSigninSession, WithoutRow, TypeOK, TablesOK
<1>8. CASE completeEmailCodeSigninSession(r)
  <2>1. PICK c \in email_code_signin_session :
          /\ auth_session' = auth_session \union {session(c.user_id)}
          /\ email_code_signin_session' \subseteq email_code_signin_session
    BY <1>8 DEF completeEmailCodeSigninSession, WithoutRow
  <2>2. c.user_id \in Nat /\ Issue({"auth_session"})
    BY <1>8, Columns
    DEF completeEmailCodeSigninSession, EmailCodeSigninSessionRow
  <2>3. TableOK(auth_session, AuthSessionRow, issued["auth_session"])'
    BY <1>2, <2>1, <2>2
  <2>4. UNCHANGED <<user, passkey, signup_session, passkey_signin_attempt,
                    identity_verification_session, actionTables>>
    BY <1>8 DEF completeEmailCodeSigninSession
  <2> HIDE DEF session
  <2> QED
    BY <2>1, <2>2, <2>3, <2>4, IssueOK, ShrinkOK
    DEF completeEmailCodeSigninSession, TypeOK, TablesOK
<1>9. CASE deleteAuthSession(r)
  BY <1>9, CascadeOK DEF deleteAuthSession
<1>10. CASE deleteUserAuthSessions(r)
  BY <1>10, CascadeOK DEF deleteUserAuthSessions
<1> QED
  BY <1>3, <1>4, <1>5, <1>6, <1>7, <1>8, <1>9, <1>10 DEF SigninCommits

\* A verifying action starts with its identity verification, under one id.
LEMMA NewVerificationOK ==
  ASSUME TypeOK, Issue({"verifying_action"}), NEW a \in Nat,
         NEW action \in VerifyingActions,
         identity_verification_session' = identity_verification_session \union
           {NewIdentityVerificationSession(action, NewId("verifying_action"),
                                           a)}
  PROVE  /\ issued' \in [Counters -> Nat]
         /\ \A c \in Counters : issued[c] <= issued'[c]
         /\ issued'["verifying_action"] = issued["verifying_action"] + 1
         /\ NewId("verifying_action") = issued["verifying_action"] + 1
         /\ NewId("verifying_action") \in Nat
         /\ TableOK(identity_verification_session,
                    IdentityVerificationSessionRow,
                    issued["verifying_action"])'
<1> DEFINE row ==
      NewIdentityVerificationSession(action, NewId("verifying_action"), a)
<1>1. /\ row \in IdentityVerificationSessionRow
      /\ row.id = issued["verifying_action"] + 1
      /\ NewId("verifying_action") \in Nat
  BY DEF NewIdentityVerificationSession, IdentityVerificationSessionRow,
         NewId, TypeOK, Counters
<1> HIDE DEF row
<1>2. TableOK(identity_verification_session, IdentityVerificationSessionRow,
              issued["verifying_action"])'
  BY <1>1, IssueOK, TableAdd DEF TypeOK, TablesOK, Counters, row
<1> QED
  BY <1>1, <1>2, IssueOK DEF Counters, NewId

\* Revoking codes changes no id.
LEMMA RevokeOK ==
  ASSUME TypeOK, NEW u \in user, RevokeEmailCodes(u), issued' = issued
  PROVE  TableOK(identity_verification_session, IdentityVerificationSessionRow,
                 issued["verifying_action"])'
<1> DEFINE f(v) == IF OwnedBy(v, u) THEN [v EXCEPT !.email_code = Null] ELSE v
<1>1. ASSUME NEW v \in identity_verification_session
      PROVE  f(v) \in IdentityVerificationSessionRow /\ f(v).id = v.id
  BY <1>1, Columns DEF IdentityVerificationSessionRow
<1>2. identity_verification_session' =
        {f(v) : v \in identity_verification_session}
  BY DEF RevokeEmailCodes
<1>3. TableOK(identity_verification_session, IdentityVerificationSessionRow,
              issued["verifying_action"])
  BY DEF TypeOK, TablesOK
<1> HIDE DEF f
<1> QED
  BY <1>1, <1>2, <1>3 DEF TableOK

\* The four transactions that start a verifying action.
LEMMA StartsOK ==
  ASSUME TypeOK, NEW r \in Requests,
         \/ createEmailAddressUpdateSession(r)
         \/ createPasskeyRegistrationSession(r)
         \/ createPasskeyDeletionSession(r)
         \/ createAccountDeletionSession(r)
  PROVE  issued' \in [Counters -> Nat] /\ TablesOK'
<1> USE DEF accountTables, signinTables, actionTables, Counters,
            VerifyingActions
<1>1. request[r].id \in Nat /\ request[r].other \in Nat
  BY DEF TypeOK, RequestsOK, RequestState
<1>2. CASE createEmailAddressUpdateSession(r)
  <2> DEFINE row == [id |-> NewId("verifying_action"),
                     auth_session_id |-> request[r].id,
                     identity_verified |-> FALSE, new_email_address |-> Null]
  <2>1. /\ Issue({"verifying_action"})
        /\ email_address_update_session' = email_address_update_session \union {row}
        /\ identity_verification_session' = identity_verification_session
             \union {NewIdentityVerificationSession("email_address_update",
                       NewId("verifying_action"), request[r].id)}
    BY <1>2 DEF createEmailAddressUpdateSession
  <2>2. /\ row \in EmailAddressUpdateSessionRow
        /\ row.id = issued["verifying_action"] + 1
    BY <1>1, <2>1, NewVerificationOK DEF EmailAddressUpdateSessionRow
  <2> HIDE DEF row
  <2>3. TableOK(email_address_update_session, EmailAddressUpdateSessionRow,
                issued["verifying_action"])'
    BY <1>1, <2>1, <2>2, NewVerificationOK, TableAdd DEF TypeOK, TablesOK
  <2>4. /\ issued' \in [Counters -> Nat]
        /\ \A c \in Counters : issued[c] <= issued'[c]
        /\ TableOK(identity_verification_session,
                   IdentityVerificationSessionRow,
                   issued["verifying_action"])'
    BY <1>1, <2>1, NewVerificationOK
  <2>5. issued'["user"] = issued["user"]
    BY <2>1, IssueOK
  <2> QED
    BY <1>2, <2>3, <2>4, <2>5, ShrinkOK
    DEF createEmailAddressUpdateSession, emailAddressUpdateLeaves, TypeOK, TablesOK
<1>3. CASE createPasskeyRegistrationSession(r)
  <2> DEFINE row == [id |-> NewId("verifying_action"),
                     auth_session_id |-> request[r].id,
                     identity_verified |-> FALSE,
                     passkey_webauthn_credential_id |-> Null]
  <2>1. /\ Issue({"verifying_action"})
        /\ passkey_registration_session' = passkey_registration_session \union {row}
        /\ identity_verification_session' = identity_verification_session
             \union {NewIdentityVerificationSession("passkey_registration",
                       NewId("verifying_action"), request[r].id)}
    BY <1>3 DEF createPasskeyRegistrationSession
  <2>2. /\ row \in PasskeyRegistrationSessionRow
        /\ row.id = issued["verifying_action"] + 1
    BY <1>1, <2>1, NewVerificationOK DEF PasskeyRegistrationSessionRow
  <2> HIDE DEF row
  <2>3. TableOK(passkey_registration_session, PasskeyRegistrationSessionRow,
                issued["verifying_action"])'
    BY <1>1, <2>1, <2>2, NewVerificationOK, TableAdd DEF TypeOK, TablesOK
  <2>4. /\ issued' \in [Counters -> Nat]
        /\ \A c \in Counters : issued[c] <= issued'[c]
        /\ TableOK(identity_verification_session,
                   IdentityVerificationSessionRow,
                   issued["verifying_action"])'
    BY <1>1, <2>1, NewVerificationOK
  <2>5. issued'["user"] = issued["user"]
    BY <2>1, IssueOK
  <2> QED
    BY <1>3, <2>3, <2>4, <2>5, ShrinkOK
    DEF createPasskeyRegistrationSession, passkeyRegistrationLeaves, TypeOK, TablesOK
<1>4. CASE createPasskeyDeletionSession(r)
  <2> DEFINE row == [id |-> NewId("verifying_action"),
                     auth_session_id |-> request[r].id,
                     identity_verified |-> FALSE, passkey_id |-> request[r].other]
  <2>1. /\ Issue({"verifying_action"})
        /\ passkey_deletion_session' = passkey_deletion_session \union {row}
        /\ identity_verification_session' = identity_verification_session
             \union {NewIdentityVerificationSession("passkey_deletion",
                       NewId("verifying_action"), request[r].id)}
    BY <1>4 DEF createPasskeyDeletionSession
  <2>2. /\ row \in PasskeyDeletionSessionRow
        /\ row.id = issued["verifying_action"] + 1
    BY <1>1, <2>1, NewVerificationOK DEF PasskeyDeletionSessionRow
  <2> HIDE DEF row
  <2>3. TableOK(passkey_deletion_session, PasskeyDeletionSessionRow,
                issued["verifying_action"])'
    BY <1>1, <2>1, <2>2, NewVerificationOK, TableAdd DEF TypeOK, TablesOK
  <2>4. /\ issued' \in [Counters -> Nat]
        /\ \A c \in Counters : issued[c] <= issued'[c]
        /\ TableOK(identity_verification_session,
                   IdentityVerificationSessionRow,
                   issued["verifying_action"])'
    BY <1>1, <2>1, NewVerificationOK
  <2>5. issued'["user"] = issued["user"]
    BY <2>1, IssueOK
  <2> QED
    BY <1>4, <2>3, <2>4, <2>5, ShrinkOK
    DEF createPasskeyDeletionSession, TypeOK, TablesOK
<1>5. CASE createAccountDeletionSession(r)
  <2> DEFINE row == [id |-> NewId("verifying_action"),
                     auth_session_id |-> request[r].id,
                     identity_verified |-> FALSE]
  <2>1. /\ Issue({"verifying_action"})
        /\ account_deletion_session' = account_deletion_session \union {row}
        /\ identity_verification_session' = identity_verification_session
             \union {NewIdentityVerificationSession("account_deletion",
                       NewId("verifying_action"), request[r].id)}
    BY <1>5 DEF createAccountDeletionSession
  <2>2. /\ row \in AccountDeletionSessionRow
        /\ row.id = issued["verifying_action"] + 1
    BY <1>1, <2>1, NewVerificationOK DEF AccountDeletionSessionRow
  <2> HIDE DEF row
  <2>3. TableOK(account_deletion_session, AccountDeletionSessionRow,
                issued["verifying_action"])'
    BY <1>1, <2>1, <2>2, NewVerificationOK, TableAdd DEF TypeOK, TablesOK
  <2>4. /\ issued' \in [Counters -> Nat]
        /\ \A c \in Counters : issued[c] <= issued'[c]
        /\ TableOK(identity_verification_session,
                   IdentityVerificationSessionRow,
                   issued["verifying_action"])'
    BY <1>1, <2>1, NewVerificationOK
  <2>5. issued'["user"] = issued["user"]
    BY <2>1, IssueOK
  <2> QED
    BY <1>5, <2>3, <2>4, <2>5, ShrinkOK
    DEF createAccountDeletionSession, TypeOK, TablesOK
<1> QED
  BY <1>2, <1>3, <1>4, <1>5

\* Transactions of verifying actions keep the tables well-formed.
LEMMA ActionCommitsOK ==
  ASSUME TypeOK, NEW r \in Requests, ActionCommits(r)
  PROVE  issued' \in [Counters -> Nat] /\ TablesOK'
<1> USE DEF accountTables, signinTables, actionTables, Counters
<1>1. CASE \/ createEmailAddressUpdateSession(r)
           \/ createPasskeyRegistrationSession(r)
           \/ createPasskeyDeletionSession(r)
           \/ createAccountDeletionSession(r)
  BY <1>1, StartsOK
<1>2. CASE setEmailAddressUpdateSessionNewEmailAddress(r)
  <2>1. PICK s \in email_address_update_session :
          email_address_update_session' =
            (email_address_update_session \ {s}) \union
              {[s EXCEPT !.new_email_address = request[r].value]}
    BY <1>2 DEF setEmailAddressUpdateSessionNewEmailAddress
  <2> DEFINE t == [s EXCEPT !.new_email_address = request[r].value]
  <2>2. t \in EmailAddressUpdateSessionRow /\ t.id = s.id
    BY <1>2, Columns
    DEF setEmailAddressUpdateSessionNewEmailAddress, TypeOK, RequestsOK,
        EmailAddressUpdateSessionRow
  <2> HIDE DEF t
  <2>3. TableOK(email_address_update_session, EmailAddressUpdateSessionRow,
                issued["verifying_action"])'
    BY <1>2, <2>1, <2>2, TableReplace
    DEF setEmailAddressUpdateSessionNewEmailAddress, TypeOK, TablesOK, t
  <2> QED
    BY <1>2, <2>3, ShrinkOK
    DEF setEmailAddressUpdateSessionNewEmailAddress, emailAddressUpdateLeaves,
        TypeOK, TablesOK
<1>3. CASE completeEmailAddressUpdate(r)
  <2>1. PICK s \in email_address_update_session, u \in user :
          /\ s.new_email_address # Null
          /\ user' = (user \ {u}) \union
                       {[u EXCEPT !.email_address = s.new_email_address]}
          /\ RevokeEmailCodes(u)
    BY <1>3 DEF completeEmailAddressUpdate
  <2> DEFINE t == [u EXCEPT !.email_address = s.new_email_address]
  <2>2. t \in UserRow /\ t.id = u.id
    BY <2>1, Columns DEF UserRow, EmailAddressUpdateSessionRow
  <2>3. issued' = issued
    BY <1>3 DEF completeEmailAddressUpdate
  <2> HIDE DEF t
  <2>4. TableOK(user, UserRow, issued["user"])'
    BY <2>1, <2>2, <2>3, TableReplace DEF TypeOK, TablesOK, t
  <2>5. TableOK(identity_verification_session, IdentityVerificationSessionRow,
                issued["verifying_action"])'
    BY <2>1, <2>3, RevokeOK
  <2>6. /\ email_address_update_session' \subseteq email_address_update_session
        /\ email_code_signin_session' \subseteq email_code_signin_session
    BY <1>3 DEF completeEmailAddressUpdate, WithoutRow
  <2>7. UNCHANGED emailAddressUpdateLeaves
    BY <1>3 DEF completeEmailAddressUpdate
  <2> QED
    BY <2>3, <2>4, <2>5, <2>6, <2>7, ShrinkOK
    DEF emailAddressUpdateLeaves, TypeOK, TablesOK
<1>4. CASE setPasskeyRegistrationSessionPasskeyWebauthnCredential(r)
  <2>1. PICK s \in passkey_registration_session :
          passkey_registration_session' =
            (passkey_registration_session \ {s}) \union
              {[s EXCEPT !.passkey_webauthn_credential_id = request[r].value]}
    BY <1>4 DEF setPasskeyRegistrationSessionPasskeyWebauthnCredential
  <2> DEFINE t == [s EXCEPT !.passkey_webauthn_credential_id = request[r].value]
  <2>2. t \in PasskeyRegistrationSessionRow /\ t.id = s.id
    BY <1>4, Columns
    DEF setPasskeyRegistrationSessionPasskeyWebauthnCredential, TypeOK,
        RequestsOK, PasskeyRegistrationSessionRow
  <2> HIDE DEF t
  <2>3. TableOK(passkey_registration_session, PasskeyRegistrationSessionRow,
                issued["verifying_action"])'
    BY <1>4, <2>1, <2>2, TableReplace
    DEF setPasskeyRegistrationSessionPasskeyWebauthnCredential, TypeOK,
        TablesOK, t
  <2> QED
    BY <1>4, <2>3, ShrinkOK
    DEF setPasskeyRegistrationSessionPasskeyWebauthnCredential,
        passkeyRegistrationLeaves, TypeOK, TablesOK
<1>5. CASE completePasskeyRegistration(r)
  <2>1. PICK s \in passkey_registration_session, a \in auth_session :
          /\ s.passkey_webauthn_credential_id # Null
          /\ passkey' = passkey \union
               {[id |-> NewId("passkey"), user_id |-> a.user_id,
                 webauthn_credential_id |-> s.passkey_webauthn_credential_id]}
          /\ passkey_registration_session' \subseteq
               passkey_registration_session
    BY <1>5 DEF completePasskeyRegistration, WithoutRow
  <2> DEFINE row ==
        [id |-> NewId("passkey"), user_id |-> a.user_id,
         webauthn_credential_id |-> s.passkey_webauthn_credential_id]
  <2>2. row \in PasskeyRow /\ row.id = issued["passkey"] + 1
    BY <2>1, Columns
    DEF PasskeyRow, PasskeyRegistrationSessionRow, AuthSessionRow, NewId, TypeOK
  <2>3. Issue({"passkey"})
    BY <1>5 DEF completePasskeyRegistration
  <2> HIDE DEF row
  <2>4. TableOK(passkey, PasskeyRow, issued["passkey"])'
    BY <2>1, <2>2, <2>3, IssueOK, TableAdd DEF TypeOK, TablesOK, row
  <2>5. UNCHANGED <<passkeyRegistrationLeaves, identity_verification_session>>
    BY <1>5 DEF completePasskeyRegistration
  <2> QED
    BY <2>1, <2>3, <2>4, <2>5, IssueOK, ShrinkOK
    DEF passkeyRegistrationLeaves, TypeOK, TablesOK
<1>6. CASE completePasskeyDeletion(r)
  BY <1>6, CascadeOK DEF completePasskeyDeletion
<1>7. CASE completeAccountDeletion(r)
  BY <1>7, CascadeOK DEF completeAccountDeletion
<1> QED
  BY <1>1, <1>2, <1>3, <1>4, <1>5, <1>6, <1>7 DEF ActionCommits

\* A cancellation only deletes, from the sessions of verifying actions.
LEMMA CancelShrinks ==
  ASSUME NEW r, CancelCommits(r)
  PROVE  /\ UNCHANGED <<accountTables, signup_session, signinTables, issued>>
         /\ identity_verification_session'
              \subseteq identity_verification_session
         /\ email_address_update_session' \subseteq email_address_update_session
         /\ passkey_registration_session' \subseteq passkey_registration_session
         /\ passkey_deletion_session' \subseteq passkey_deletion_session
         /\ account_deletion_session' \subseteq account_deletion_session
BY DEF CancelCommits, deleteEmailAddressUpdateSession,
       deletePasskeyRegistrationSession, deletePasskeyDeletionSession,
       deleteAccountDeletionSession, DeleteVerificationsOf, WithoutRow,
       emailAddressUpdateLeaves, passkeyRegistrationLeaves, accountTables,
       signinTables

\* Cancelling keeps the tables well-formed.
LEMMA CancelCommitsOK ==
  ASSUME TypeOK, NEW r \in Requests, CancelCommits(r)
  PROVE  issued' \in [Counters -> Nat] /\ TablesOK'
BY CancelShrinks, ShrinkOK DEF accountTables, signinTables, TypeOK, TablesOK

\* Marking a session of a verifying action verified changes no id.
LEMMA MarkVerifiedOK ==
  ASSUME NEW rows, NEW n \in Nat, NEW id,
         NEW Row \in {EmailAddressUpdateSessionRow,
                      PasskeyRegistrationSessionRow,
                      PasskeyDeletionSessionRow, AccountDeletionSessionRow},
         TableOK(rows, Row, n)
  PROVE  TableOK(MarkVerified(rows, id), Row, n)
<1> DEFINE f(s) == IF s.id = id THEN [s EXCEPT !.identity_verified = TRUE]
                   ELSE s
<1>1. ASSUME NEW s \in rows
      PROVE  f(s) \in Row /\ f(s).id = s.id
  <2>1. s \in Row
    BY <1>1 DEF TableOK
  <2>2. CASE Row = EmailAddressUpdateSessionRow
    BY <2>1, <2>2 DEF EmailAddressUpdateSessionRow
  <2>3. CASE Row = PasskeyRegistrationSessionRow
    BY <2>1, <2>3 DEF PasskeyRegistrationSessionRow
  <2>4. CASE Row = PasskeyDeletionSessionRow
    BY <2>1, <2>4 DEF PasskeyDeletionSessionRow
  <2>5. CASE Row = AccountDeletionSessionRow
    BY <2>1, <2>5 DEF AccountDeletionSessionRow
  <2> QED
    BY <2>2, <2>3, <2>4, <2>5
<1>2. MarkVerified(rows, id) = {f(s) : s \in rows}
  BY DEF MarkVerified
<1> HIDE DEF f
<1> QED
  BY <1>1, <1>2 DEF TableOK

\* Transactions of identity verification keep the tables well-formed.
LEMMA VerificationCommitsOK ==
  ASSUME TypeOK, NEW r \in Requests, VerificationCommits(r)
  PROVE  issued' \in [Counters -> Nat] /\ TablesOK'
<1> USE DEF accountTables, signinTables, actionTables, Counters
<1>1. ASSUME NEW v \in identity_verification_session,
             NEW code \in EmailAddresses \union {Null},
             identity_verification_session' =
               (identity_verification_session \ {v}) \union
                 {[v EXCEPT !.email_code = code]},
             UNCHANGED <<accountTables, signup_session, signinTables,
                         actionTables, issued>>
      PROVE  issued' \in [Counters -> Nat] /\ TablesOK'
  <2> DEFINE t == [v EXCEPT !.email_code = code]
  <2>1. t \in IdentityVerificationSessionRow /\ t.id = v.id
    BY Columns DEF IdentityVerificationSessionRow
  <2> HIDE DEF t
  <2>2. TableOK(identity_verification_session, IdentityVerificationSessionRow,
                issued["verifying_action"])'
    BY <1>1, <2>1, TableReplace DEF TypeOK, TablesOK, t
  <2> QED
    BY <1>1, <2>2 DEF TypeOK, TablesOK
<1>2. CASE issueIdentityVerificationSessionEmailCode(r)
  <2>1. \A u \in user : u.email_address \in EmailAddresses
    BY Columns DEF UserRow
  <2> QED
    BY <1>1, <1>2, <2>1 DEF issueIdentityVerificationSessionEmailCode
<1>3. CASE revokeIdentityVerificationSessionEmailCode(r)
  BY <1>1, <1>3 DEF revokeIdentityVerificationSessionEmailCode
<1>4. CASE completeIdentityVerification(r)
  <2>1. PICK v \in identity_verification_session :
          /\ \/ completeIdentityVerificationForEmailAddressUpdate(v)
             \/ completeIdentityVerificationForPasskeyRegistration(v)
             \/ completeIdentityVerificationForPasskeyDeletion(v)
             \/ completeIdentityVerificationForAccountDeletion(v)
          /\ identity_verification_session' \subseteq
               identity_verification_session
    BY <1>4 DEF completeIdentityVerification, VerificationUsed, WithoutRow
  <2>2. UNCHANGED <<accountTables, signup_session, signinTables, issued>>
    BY <1>4 DEF completeIdentityVerification
  <2>3. CASE completeIdentityVerificationForEmailAddressUpdate(v)
    BY <2>1, <2>2, <2>3, MarkVerifiedOK, ShrinkOK
    DEF completeIdentityVerificationForEmailAddressUpdate, TypeOK, TablesOK
  <2>4. CASE completeIdentityVerificationForPasskeyRegistration(v)
    BY <2>1, <2>2, <2>4, MarkVerifiedOK, ShrinkOK
    DEF completeIdentityVerificationForPasskeyRegistration, TypeOK, TablesOK
  <2>5. CASE completeIdentityVerificationForPasskeyDeletion(v)
    BY <2>1, <2>2, <2>5, MarkVerifiedOK, ShrinkOK
    DEF completeIdentityVerificationForPasskeyDeletion, TypeOK, TablesOK
  <2>6. CASE completeIdentityVerificationForAccountDeletion(v)
    BY <2>1, <2>2, <2>6, MarkVerifiedOK, ShrinkOK
    DEF completeIdentityVerificationForAccountDeletion, TypeOK, TablesOK
  <2> QED
    BY <2>1, <2>3, <2>4, <2>5, <2>6
<1> QED
  BY <1>2, <1>3, <1>4 DEF VerificationCommits

\* The clean-up keeps the tables well-formed.
LEMMA CleanDatabaseOK ==
  ASSUME TypeOK, cleanDatabase
  PROVE  issued' \in [Counters -> Nat] /\ TablesOK'
<1>1. PICK oldUsers : CascadeDelete({u.id : u \in oldUsers}, {}, {})
  BY DEF cleanDatabase
<1> QED
  BY <1>1, CascadeOK DEF cleanDatabase

-----------------------------------------------------------------------------

(* TypeOK. *)

\* The initial tables are well-formed.
LEMMA InitTypeOK == Init => TypeOK
<1> SUFFICES ASSUME Init PROVE TypeOK
  OBVIOUS
<1> DEFINE n == Len(InitialAccounts)
<1>1. /\ n \in Nat
      /\ DOMAIN InitialAccounts = 1..n
      /\ \A i \in 1..n :
           /\ InitialAccounts[i].email_address \in EmailAddresses
           /\ InitialAccounts[i].webauthn_credential_id
                \in WebauthnCredentials \union {Null}
  <2> DEFINE R == [email_address : EmailAddresses,
                   webauthn_credential_id : WebauthnCredentials \union {Null}]
  <2>1. InitialAccounts \in Seq(R)
    BY InitialAccountsAssumption
  <2> HIDE DEF R
  <2>2. n \in Nat /\ DOMAIN InitialAccounts = 1..n
        /\ \A i \in 1..n : InitialAccounts[i] \in R
    BY <2>1
  <2> QED
    BY <2>2 DEF R
<1>2. /\ issued \in [Counters -> Nat]
      /\ issued["user"] = n
      /\ issued["passkey"] = n
      /\ issued["auth_session"] = n
  BY <1>1 DEF Init, Counters
<1> HIDE DEF n
<1>3. TableOK(user, UserRow, issued["user"])
  BY <1>1, <1>2 DEF Init, TableOK, UserRow
<1>4. TableOK(passkey, PasskeyRow, issued["passkey"])
  BY <1>1, <1>2 DEF Init, TableOK, PasskeyRow
<1>5. TableOK(auth_session, AuthSessionRow, issued["auth_session"])
  BY <1>1, <1>2 DEF Init, TableOK, AuthSessionRow
<1>6. RequestsOK
  BY DEF Init, RequestsOK, RequestState, Idle
<1>7. TablesOK
  BY <1>3, <1>4, <1>5 DEF Init, TablesOK, TableOK
<1> QED
  BY <1>2, <1>6, <1>7 DEF TypeOK

\* A commit ends its request; starting a passkey sign-in never held one.
LEMMA CommitsRespond ==
  ASSUME NEW r \in Requests, Commits(r)
  PROVE  Respond(r) \/ UNCHANGED request
<1>1. CASE SignupCommits(r)
  BY <1>1 DEF SignupCommits, createSignupSession, deleteSignupSession,
       setSignupSessionAsEmailAddressVerified,
       setSignupSessionPasskeyWebauthnCredential,
       completeSignupWithoutPasskeyRegistration,
       completeSignupWithPasskeyRegistration
<1>2. CASE SigninCommits(r)
  BY <1>2 DEF SigninCommits, createPasskeySigninAttempt,
       deletePasskeySigninAttempt, completePasskeySignin,
       createEmailCodeSigninSessionFromUserEmailAddress,
       deleteEmailCodeSigninSession, completeEmailCodeSigninSession,
       deleteAuthSession, deleteUserAuthSessions
<1>3. CASE ActionCommits(r)
  BY <1>3 DEF ActionCommits, createEmailAddressUpdateSession,
       setEmailAddressUpdateSessionNewEmailAddress, completeEmailAddressUpdate,
       createPasskeyRegistrationSession,
       setPasskeyRegistrationSessionPasskeyWebauthnCredential,
       completePasskeyRegistration, createPasskeyDeletionSession,
       completePasskeyDeletion, createAccountDeletionSession,
       completeAccountDeletion
<1>4. CASE CancelCommits(r)
  BY <1>4 DEF CancelCommits
<1>5. CASE VerificationCommits(r)
  BY <1>5 DEF VerificationCommits, issueIdentityVerificationSessionEmailCode,
       revokeIdentityVerificationSessionEmailCode, completeIdentityVerification
<1> QED
  BY <1>1, <1>2, <1>3, <1>4, <1>5 DEF Commits

\* Every step keeps the types.
LEMMA NextTypeOK ==
  ASSUME TypeOK, [Next]_vars
  PROVE  TypeOK'
<1>1. ASSUME NEW r \in Requests, Commits(r)
      PROVE  TypeOK'
  <2>1. RequestsOK'
    BY <1>1, CommitsRespond, RespondOK DEF TypeOK, RequestsOK
  <2>2. issued' \in [Counters -> Nat] /\ TablesOK'
    BY <1>1, SignupCommitsOK, SigninCommitsOK, ActionCommitsOK,
       CancelCommitsOK, VerificationCommitsOK DEF Commits
  <2> QED
    BY <2>1, <2>2 DEF TypeOK
<1>2. ASSUME NEW r \in Requests, Rollback(r)
      PROVE  TypeOK'
  BY <1>2, RespondOK DEF Rollback, database, TypeOK, TablesOK
<1>3. CASE cleanDatabase
  BY <1>3, CleanDatabaseOK DEF cleanDatabase, TypeOK, RequestsOK
<1>4. CASE UNCHANGED vars
  BY <1>4 DEF vars, TypeOK, TablesOK, RequestsOK
<1> QED
  BY <1>1, <1>2, <1>3, <1>4, NextSteps, ReadsOK

\* Every row of every table has its columns, and no id is given out twice,
\* whatever requests are in flight (newItemId and the PRIMARY KEYs of
\* schema.sql).
THEOREM TypeCorrect == Spec => []TypeOK
<1>1. Init => TypeOK
  BY InitTypeOK
<1>2. TypeOK /\ [Next]_vars => TypeOK'
  BY NextTypeOK
<1> QED
  BY <1>1, <1>2, PTL DEF Spec
-----------------------------------------------------------------------------
(* ReferentialIntegrity. *)

\* What a row references stays while its parent does.
LEMMA CascadeRI ==
  ASSUME ReferentialIntegrity, NEW U, NEW A, NEW P, CascadeDelete(U, A, P)
  PROVE  ReferentialIntegrity'
<1>1. ASSUME NEW s \in passkey' \union auth_session'
                         \union email_code_signin_session'
      PROVE  HasRow(user, s.user_id)'
  <2>1. PICK u \in user : u.id = s.user_id
    BY <1>1 DEF CascadeDelete, ReferentialIntegrity, HasRow
  <2>2. s.user_id \notin U
    BY <1>1 DEF CascadeDelete, SessionsOf, PasskeysOf
  <2> QED
    BY <2>1, <2>2 DEF CascadeDelete, HasRow
<1>2. ASSUME NEW s \in identity_verification_session'
                         \union email_address_update_session'
                         \union passkey_registration_session'
                         \union passkey_deletion_session'
                         \union account_deletion_session'
      PROVE  HasRow(auth_session, s.auth_session_id)'
  <2>1. PICK a \in auth_session : a.id = s.auth_session_id
    BY <1>2 DEF CascadeDelete, Without, ReferentialIntegrity, HasRow
  <2>2. s.auth_session_id \notin A \union SessionsOf(U)
    BY <1>2 DEF CascadeDelete, Without
  <2> QED
    BY <2>1, <2>2 DEF CascadeDelete, HasRow
<1>3. ASSUME NEW s \in passkey_deletion_session'
      PROVE  HasRow(passkey, s.passkey_id)'
  <2>1. PICK p \in passkey : p.id = s.passkey_id
    BY <1>3 DEF CascadeDelete, Without, ReferentialIntegrity, HasRow
  <2>2. s.passkey_id \notin P \union PasskeysOf(U)
    BY <1>3 DEF CascadeDelete
  <2> QED
    BY <2>1, <2>2 DEF CascadeDelete, HasRow
<1> QED
  BY <1>1, <1>2, <1>3 DEF ReferentialIntegrity

\* Accounts, passkeys and auth sessions are only added, and what is added
\* references them.
LEMMA GrowthRI ==
  ASSUME ReferentialIntegrity, user \subseteq user', passkey \subseteq passkey',
         auth_session \subseteq auth_session',
         email_code_signin_session' \subseteq email_code_signin_session,
         \A s \in passkey' \union auth_session' :
           s \in passkey \union auth_session \/ HasRow(user, s.user_id)',
         identity_verification_session' \subseteq identity_verification_session,
         email_address_update_session' \subseteq email_address_update_session,
         passkey_registration_session' \subseteq passkey_registration_session,
         passkey_deletion_session' \subseteq passkey_deletion_session,
         account_deletion_session' \subseteq account_deletion_session
  PROVE  ReferentialIntegrity'
<1>1. ASSUME NEW s \in passkey' \union auth_session'
                         \union email_code_signin_session'
      PROVE  HasRow(user, s.user_id)'
  BY <1>1 DEF ReferentialIntegrity, HasRow
<1>2. ASSUME NEW s \in identity_verification_session'
                         \union email_address_update_session'
                         \union passkey_registration_session'
                         \union passkey_deletion_session'
                         \union account_deletion_session'
      PROVE  HasRow(auth_session, s.auth_session_id)'
  BY <1>2 DEF ReferentialIntegrity, HasRow
<1>3. ASSUME NEW s \in passkey_deletion_session'
      PROVE  HasRow(passkey, s.passkey_id)'
  BY <1>3 DEF ReferentialIntegrity, HasRow
<1> QED
  BY <1>1, <1>2, <1>3 DEF ReferentialIntegrity

\* A completed sign-up stores the user its new auth session refers to.
LEMMA SignUpRows ==
  ASSUME NEW s, SignUp(s)
  PROVE  /\ HasRow(user, s.target_user_id)'
         /\ \A t \in auth_session' :
              t \in auth_session \/ t.user_id = s.target_user_id
<1> DEFINE account == [id |-> s.target_user_id,
                       email_address |-> s.email_address]
<1>1. HasRow(user, s.target_user_id)'
  <2>1. account \in user' /\ account.id = s.target_user_id
    BY DEF SignUp
  <2> QED
    BY <2>1 DEF HasRow
<1>2. ASSUME NEW t \in auth_session', t \notin auth_session
      PROVE  t.user_id = s.target_user_id
  BY <1>2 DEF SignUp
<1> QED
  BY <1>1, <1>2

\* Transactions of sign-up keep all references.
LEMMA SignupCommitsRI ==
  ASSUME TypeOK, ReferentialIntegrity, NEW r \in Requests, SignupCommits(r)
  PROVE  ReferentialIntegrity'
<1> USE DEF ReferentialIntegrity, HasRow, accountTables, signinTables,
            actionTables, WithoutRow
<1>1. CASE createSignupSession(r)
  BY <1>1 DEF createSignupSession, signupLeaves
<1>2. CASE deleteSignupSession(r)
  BY <1>2 DEF deleteSignupSession, signupLeaves
<1>3. CASE setSignupSessionAsEmailAddressVerified(r)
  BY <1>3 DEF setSignupSessionAsEmailAddressVerified, signupLeaves
<1>4. CASE setSignupSessionPasskeyWebauthnCredential(r)
  BY <1>4 DEF setSignupSessionPasskeyWebauthnCredential, signupLeaves
<1>5. CASE completeSignupWithoutPasskeyRegistration(r)
  <2>1. PICK s \in signup_session : SignUp(s)
    BY <1>5 DEF completeSignupWithoutPasskeyRegistration
  <2>2. \A t \in passkey' \union auth_session' :
          t \in passkey \union auth_session \/ HasRow(user, t.user_id)'
    BY <1>5, <2>1, SignUpRows DEF completeSignupWithoutPasskeyRegistration
  <2>3. /\ user \subseteq user'
        /\ auth_session \subseteq auth_session'
        /\ passkey \subseteq passkey'
        /\ UNCHANGED signupLeaves
    BY <1>5, <2>1 DEF completeSignupWithoutPasskeyRegistration, SignUp
  <2> HIDE DEF ReferentialIntegrity, HasRow
  <2> QED
    BY <2>2, <2>3, GrowthRI DEF signupLeaves
<1>6. CASE completeSignupWithPasskeyRegistration(r)
  <2>1. PICK s \in signup_session :
          /\ SignUp(s)
          /\ passkey' = passkey \union
               {[id |-> NewId("passkey"), user_id |-> s.target_user_id,
                 webauthn_credential_id |-> s.passkey_webauthn_credential_id]}
    BY <1>6 DEF completeSignupWithPasskeyRegistration
  <2>2. \A t \in passkey' \union auth_session' :
          t \in passkey \union auth_session \/ HasRow(user, t.user_id)'
    BY <1>6, <2>1, SignUpRows DEF completeSignupWithPasskeyRegistration
  <2>3. /\ user \subseteq user'
        /\ auth_session \subseteq auth_session'
        /\ passkey \subseteq passkey'
        /\ UNCHANGED signupLeaves
    BY <1>6, <2>1 DEF completeSignupWithPasskeyRegistration, SignUp
  <2> HIDE DEF ReferentialIntegrity, HasRow
  <2> QED
    BY <2>2, <2>3, GrowthRI DEF signupLeaves
<1> QED
  BY <1>1, <1>2, <1>3, <1>4, <1>5, <1>6 DEF SignupCommits

\* Transactions of sign-in and sign-out keep all references.
LEMMA SigninCommitsRI ==
  ASSUME TypeOK, ReferentialIntegrity, NEW r \in Requests, SigninCommits(r)
  PROVE  ReferentialIntegrity'
<1> USE DEF ReferentialIntegrity, HasRow, accountTables, signinTables,
            actionTables, WithoutRow
<1>1. CASE createPasskeySigninAttempt(r)
  BY <1>1 DEF createPasskeySigninAttempt
<1>2. CASE deletePasskeySigninAttempt(r)
  BY <1>2 DEF deletePasskeySigninAttempt
<1>3. CASE completePasskeySignin(r)
  BY <1>3 DEF completePasskeySignin
<1>4. CASE createEmailCodeSigninSessionFromUserEmailAddress(r)
  BY <1>4 DEF createEmailCodeSigninSessionFromUserEmailAddress
<1>5. CASE deleteEmailCodeSigninSession(r)
  BY <1>5 DEF deleteEmailCodeSigninSession
<1>6. CASE completeEmailCodeSigninSession(r)
  BY <1>6 DEF completeEmailCodeSigninSession
<1>7. CASE deleteAuthSession(r)
  BY <1>7, CascadeRI DEF deleteAuthSession
<1>8. CASE deleteUserAuthSessions(r)
  BY <1>8, CascadeRI DEF deleteUserAuthSessions
<1> QED
  BY <1>1, <1>2, <1>3, <1>4, <1>5, <1>6, <1>7, <1>8 DEF SigninCommits

\* Accounts, passkeys and auth sessions keep their ids and their users, sign-ins
\* are only removed, and every new row of a verifying action or an identity
\* verification is of an auth session that exists.
LEMMA SameParentsRI ==
  ASSUME ReferentialIntegrity,
         UNCHANGED <<passkey, auth_session>>,
         \A id : HasRow(user, id) => HasRow(user, id)',
         email_code_signin_session' \subseteq email_code_signin_session,
         \A s \in identity_verification_session'
                 \union email_address_update_session'
                 \union passkey_registration_session'
                 \union passkey_deletion_session'
                 \union account_deletion_session' :
           HasRow(auth_session, s.auth_session_id),
         \A s \in passkey_deletion_session' : HasRow(passkey, s.passkey_id)
  PROVE  ReferentialIntegrity'
<1>1. ASSUME NEW s \in passkey' \union auth_session'
                         \union email_code_signin_session'
      PROVE  HasRow(user, s.user_id)'
  BY <1>1 DEF ReferentialIntegrity
<1>2. \A s \in identity_verification_session'
              \union email_address_update_session'
              \union passkey_registration_session'
              \union passkey_deletion_session'
              \union account_deletion_session' :
        HasRow(auth_session, s.auth_session_id)'
  BY DEF HasRow
<1>3. \A s \in passkey_deletion_session' : HasRow(passkey, s.passkey_id)'
  BY DEF HasRow
<1> QED
  BY <1>1, <1>2, <1>3 DEF ReferentialIntegrity

\* Those of the rows that are there already, for the lemma above.
LEMMA ParentsRI ==
  ASSUME ReferentialIntegrity
  PROVE  /\ \A s \in identity_verification_session
                   \union email_address_update_session
                   \union passkey_registration_session
                   \union passkey_deletion_session
                   \union account_deletion_session :
              HasRow(auth_session, s.auth_session_id)
         /\ \A s \in passkey_deletion_session : HasRow(passkey, s.passkey_id)
BY DEF ReferentialIntegrity

\* Transactions of verifying actions keep all references.
LEMMA ActionCommitsRI ==
  ASSUME TypeOK, ReferentialIntegrity, NEW r \in Requests, ActionCommits(r)
  PROVE  ReferentialIntegrity'
<1> USE DEF accountTables, signinTables, actionTables, WithoutRow,
            NewIdentityVerificationSession
<1>1. CASE createEmailAddressUpdateSession(r)
  BY <1>1, ParentsRI, SameParentsRI
  DEF createEmailAddressUpdateSession, emailAddressUpdateLeaves
<1>2. CASE createPasskeyRegistrationSession(r)
  BY <1>2, ParentsRI, SameParentsRI
  DEF createPasskeyRegistrationSession, passkeyRegistrationLeaves
<1>3. CASE createPasskeyDeletionSession(r)
  BY <1>3, ParentsRI, SameParentsRI DEF createPasskeyDeletionSession
<1>4. CASE createAccountDeletionSession(r)
  BY <1>4, ParentsRI, SameParentsRI DEF createAccountDeletionSession
<1>5. CASE setEmailAddressUpdateSessionNewEmailAddress(r)
  <2>1. PICK s \in email_address_update_session :
          email_address_update_session' =
            (email_address_update_session \ {s}) \union
              {[s EXCEPT !.new_email_address = request[r].value]}
    BY <1>5 DEF setEmailAddressUpdateSessionNewEmailAddress
  <2> DEFINE t == [s EXCEPT !.new_email_address = request[r].value]
  <2>2. t.auth_session_id = s.auth_session_id
    BY Columns DEF EmailAddressUpdateSessionRow
  <2>3. \A x \in email_address_update_session' :
          HasRow(auth_session, x.auth_session_id)
    BY <2>1, <2>2, ParentsRI
  <2> HIDE DEF t
  <2> QED
    BY <1>5, <2>3, ParentsRI, SameParentsRI
    DEF setEmailAddressUpdateSessionNewEmailAddress, emailAddressUpdateLeaves
<1>6. CASE completeEmailAddressUpdate(r)
  <2>1. PICK s \in email_address_update_session, u \in user :
          /\ user' = (user \ {u}) \union
                       {[u EXCEPT !.email_address = s.new_email_address]}
          /\ RevokeEmailCodes(u)
    BY <1>6 DEF completeEmailAddressUpdate
  <2> DEFINE t == [u EXCEPT !.email_address = s.new_email_address]
  <2>2. t.id = u.id
    BY Columns DEF UserRow
  <2> HIDE DEF t
  <2>3. \A id : HasRow(user, id) => HasRow(user, id)'
    BY <2>1, <2>2 DEF HasRow, t
  <2>4. \A v \in identity_verification_session' :
          \E w \in identity_verification_session :
            w.auth_session_id = v.auth_session_id
    BY <2>1, Columns DEF RevokeEmailCodes, IdentityVerificationSessionRow
  <2> QED
    BY <1>6, <2>3, <2>4, ParentsRI, SameParentsRI
    DEF completeEmailAddressUpdate, emailAddressUpdateLeaves
<1>7. CASE setPasskeyRegistrationSessionPasskeyWebauthnCredential(r)
  <2>1. PICK s \in passkey_registration_session :
          passkey_registration_session' =
            (passkey_registration_session \ {s}) \union
              {[s EXCEPT !.passkey_webauthn_credential_id = request[r].value]}
    BY <1>7 DEF setPasskeyRegistrationSessionPasskeyWebauthnCredential
  <2> DEFINE t == [s EXCEPT !.passkey_webauthn_credential_id = request[r].value]
  <2>2. t.auth_session_id = s.auth_session_id
    BY Columns DEF PasskeyRegistrationSessionRow
  <2>3. \A x \in passkey_registration_session' :
          HasRow(auth_session, x.auth_session_id)
    BY <2>1, <2>2, ParentsRI
  <2> HIDE DEF t
  <2> QED
    BY <1>7, <2>3, ParentsRI, SameParentsRI
    DEF setPasskeyRegistrationSessionPasskeyWebauthnCredential,
        passkeyRegistrationLeaves
<1>8. CASE completePasskeyRegistration(r)
  <2>1. PICK s \in passkey_registration_session, a \in auth_session :
          passkey' = passkey \union
            {[id |-> NewId("passkey"), user_id |-> a.user_id,
              webauthn_credential_id |-> s.passkey_webauthn_credential_id]}
    BY <1>8 DEF completePasskeyRegistration
  <2>2. \A t \in passkey' \union auth_session' :
          t \in passkey \union auth_session \/ HasRow(user, t.user_id)'
    BY <1>8, <2>1
    DEF completePasskeyRegistration, passkeyRegistrationLeaves,
        ReferentialIntegrity, HasRow
  <2> QED
    BY <1>8, <2>1, <2>2, GrowthRI
    DEF completePasskeyRegistration, passkeyRegistrationLeaves
<1>9. CASE completePasskeyDeletion(r)
  BY <1>9, CascadeRI DEF completePasskeyDeletion
<1>10. CASE completeAccountDeletion(r)
  BY <1>10, CascadeRI DEF completeAccountDeletion
<1> QED
  BY <1>1, <1>2, <1>3, <1>4, <1>5, <1>6, <1>7, <1>8, <1>9, <1>10
  DEF ActionCommits

\* Cancelling a session keeps all references.
LEMMA CancelCommitsRI ==
  ASSUME ReferentialIntegrity, NEW r \in Requests, CancelCommits(r)
  PROVE  ReferentialIntegrity'
<1>1. /\ UNCHANGED <<accountTables, signinTables>>
      /\ identity_verification_session' \subseteq identity_verification_session
      /\ email_address_update_session' \subseteq email_address_update_session
      /\ passkey_registration_session' \subseteq passkey_registration_session
      /\ passkey_deletion_session' \subseteq passkey_deletion_session
      /\ account_deletion_session' \subseteq account_deletion_session
  BY CancelShrinks
<1> QED
  BY <1>1, ParentsRI, SameParentsRI DEF accountTables, signinTables

\* Marking a session verified changes none of its references.
LEMMA MarkVerifiedKeeps ==
  ASSUME NEW rows, NEW id, NEW t \in MarkVerified(rows, id),
         NEW Row \in {EmailAddressUpdateSessionRow,
                      PasskeyRegistrationSessionRow,
                      PasskeyDeletionSessionRow, AccountDeletionSessionRow},
         rows \subseteq Row
  PROVE  \E s \in rows :
           /\ s.auth_session_id = t.auth_session_id
           /\ Row = PasskeyDeletionSessionRow => s.passkey_id = t.passkey_id
<1>1. PICK s \in rows :
        t = IF s.id = id THEN [s EXCEPT !.identity_verified = TRUE] ELSE s
  BY DEF MarkVerified
<1>2. CASE Row = EmailAddressUpdateSessionRow
  BY <1>1, <1>2 DEF EmailAddressUpdateSessionRow, PasskeyDeletionSessionRow
<1>3. CASE Row = PasskeyRegistrationSessionRow
  BY <1>1, <1>3 DEF PasskeyRegistrationSessionRow, PasskeyDeletionSessionRow
<1>4. CASE Row = PasskeyDeletionSessionRow
  BY <1>1, <1>4 DEF PasskeyDeletionSessionRow
<1>5. CASE Row = AccountDeletionSessionRow
  BY <1>1, <1>5 DEF AccountDeletionSessionRow, PasskeyDeletionSessionRow
<1> QED
  BY <1>2, <1>3, <1>4, <1>5

\* Transactions of identity verification keep all references.
LEMMA VerificationCommitsRI ==
  ASSUME TypeOK, ReferentialIntegrity, NEW r \in Requests,
         VerificationCommits(r)
  PROVE  ReferentialIntegrity'
<1> USE DEF accountTables, signinTables, actionTables
<1>1. ASSUME NEW v \in identity_verification_session, NEW code,
             identity_verification_session' =
               (identity_verification_session \ {v}) \union
                 {[v EXCEPT !.email_code = code]},
             UNCHANGED <<accountTables, signinTables, actionTables>>
      PROVE  ReferentialIntegrity'
  <2>1. [v EXCEPT !.email_code = code].auth_session_id = v.auth_session_id
    BY Columns DEF IdentityVerificationSessionRow
  <2> QED
    BY <1>1, <2>1, ParentsRI, SameParentsRI
<1>2. CASE issueIdentityVerificationSessionEmailCode(r)
  BY <1>1, <1>2 DEF issueIdentityVerificationSessionEmailCode
<1>3. CASE revokeIdentityVerificationSessionEmailCode(r)
  BY <1>1, <1>3 DEF revokeIdentityVerificationSessionEmailCode
<1>4. CASE completeIdentityVerification(r)
  <2>1. PICK v \in identity_verification_session :
          /\ \/ completeIdentityVerificationForEmailAddressUpdate(v)
             \/ completeIdentityVerificationForPasskeyRegistration(v)
             \/ completeIdentityVerificationForPasskeyDeletion(v)
             \/ completeIdentityVerificationForAccountDeletion(v)
          /\ identity_verification_session' \subseteq
               identity_verification_session
    BY <1>4 DEF completeIdentityVerification, VerificationUsed, WithoutRow
  <2>2. UNCHANGED <<accountTables, signinTables>>
    BY <1>4 DEF completeIdentityVerification
  <2>3. CASE completeIdentityVerificationForEmailAddressUpdate(v)
    BY <2>1, <2>2, <2>3, Columns, MarkVerifiedKeeps, ParentsRI, SameParentsRI
    DEF completeIdentityVerificationForEmailAddressUpdate
  <2>4. CASE completeIdentityVerificationForPasskeyRegistration(v)
    BY <2>1, <2>2, <2>4, Columns, MarkVerifiedKeeps, ParentsRI, SameParentsRI
    DEF completeIdentityVerificationForPasskeyRegistration
  <2>5. CASE completeIdentityVerificationForPasskeyDeletion(v)
    BY <2>1, <2>2, <2>5, Columns, MarkVerifiedKeeps, ParentsRI, SameParentsRI
    DEF completeIdentityVerificationForPasskeyDeletion
  <2>6. CASE completeIdentityVerificationForAccountDeletion(v)
    BY <2>1, <2>2, <2>6, Columns, MarkVerifiedKeeps, ParentsRI, SameParentsRI
    DEF completeIdentityVerificationForAccountDeletion
  <2> QED
    BY <2>1, <2>3, <2>4, <2>5, <2>6
<1> QED
  BY <1>2, <1>3, <1>4 DEF VerificationCommits

\* The initial rows refer to the initial accounts.
LEMMA InitRI == Init => ReferentialIntegrity
<1> SUFFICES ASSUME Init PROVE ReferentialIntegrity
  OBVIOUS
<1>1. ASSUME NEW i \in DOMAIN InitialAccounts
      PROVE  HasRow(user, i)
  <2>1. [id |-> i, email_address |-> InitialAccounts[i].email_address] \in user
    BY DEF Init
  <2> QED
    BY <2>1 DEF HasRow
<1>2. \A s \in passkey \union auth_session :
        s.user_id \in DOMAIN InitialAccounts
  BY DEF Init
<1> QED
  BY <1>1, <1>2 DEF Init, ReferentialIntegrity

\* Every step keeps all references.
LEMMA NextRI ==
  ASSUME TypeOK, ReferentialIntegrity, [Next]_vars
  PROVE  ReferentialIntegrity'
<1>1. ASSUME NEW r \in Requests, Commits(r)
      PROVE  ReferentialIntegrity'
  BY <1>1, SignupCommitsRI, SigninCommitsRI, ActionCommitsRI, CancelCommitsRI,
     VerificationCommitsRI DEF Commits
<1>2. CASE cleanDatabase
  BY <1>2, CascadeRI DEF cleanDatabase
<1>3. CASE UNCHANGED database
  BY <1>3 DEF database, ReferentialIntegrity, HasRow
<1> QED
  BY <1>1, <1>2, <1>3, NextSteps
  DEF Reads, Receive, Rollback, vars, database

\* No row outlives the account, auth session or passkey it references.
\* ON DELETE CASCADE removes what is there; what requests in flight insert
\* later checks its parent in the same transaction.
THEOREM ReferencesHold == Spec => []ReferentialIntegrity
<1>1. Init => TypeOK /\ ReferentialIntegrity
  BY InitTypeOK, InitRI
<1>2. TypeOK /\ ReferentialIntegrity /\ [Next]_vars =>
        TypeOK' /\ ReferentialIntegrity'
  BY NextTypeOK, NextRI
<1> QED
  BY <1>1, <1>2, PTL DEF Spec

-----------------------------------------------------------------------------
(* What a step may do to the accounts, the passkeys and the sign-ups. *)

\* The two ways a sign-up ends in an account.
CompletesSignup(r) ==
  \/ completeSignupWithoutPasskeyRegistration(r)
  \/ completeSignupWithPasskeyRegistration(r)

\* Accounts come from sign-ups and change by completeEmailAddressUpdate only.
LEMMA UserSteps ==
  ASSUME TypeOK, [Next]_vars
  PROVE  \/ user' \subseteq user
         \/ \E r \in Requests :
              CompletesSignup(r) \/ completeEmailAddressUpdate(r)
<1>1. ASSUME NEW r \in Requests, SignupCommits(r)
      PROVE  user' \subseteq user \/ CompletesSignup(r)
  BY <1>1 DEF SignupCommits, CompletesSignup, createSignupSession,
       deleteSignupSession, setSignupSessionAsEmailAddressVerified,
       setSignupSessionPasskeyWebauthnCredential, accountTables
<1>2. ASSUME NEW r \in Requests, SigninCommits(r)
      PROVE  user' \subseteq user
  BY <1>2 DEF SigninCommits, createPasskeySigninAttempt,
       deletePasskeySigninAttempt, completePasskeySignin,
       createEmailCodeSigninSessionFromUserEmailAddress,
       deleteEmailCodeSigninSession, completeEmailCodeSigninSession,
       deleteAuthSession, deleteUserAuthSessions, accountTables, CascadeDelete
<1>3. ASSUME NEW r \in Requests, ActionCommits(r)
      PROVE  user' \subseteq user \/ completeEmailAddressUpdate(r)
  BY <1>3 DEF ActionCommits, createEmailAddressUpdateSession,
       setEmailAddressUpdateSessionNewEmailAddress,
       createPasskeyRegistrationSession,
       setPasskeyRegistrationSessionPasskeyWebauthnCredential,
       completePasskeyRegistration, createPasskeyDeletionSession,
       completePasskeyDeletion, createAccountDeletionSession,
       completeAccountDeletion, accountTables, passkeyRegistrationLeaves,
       CascadeDelete
<1>4. ASSUME NEW r \in Requests, CancelCommits(r) \/ VerificationCommits(r)
      PROVE  user' \subseteq user
  BY <1>4, CancelShrinks DEF VerificationCommits,
       issueIdentityVerificationSessionEmailCode,
       revokeIdentityVerificationSessionEmailCode,
       completeIdentityVerification, accountTables
<1>5. CASE cleanDatabase
  BY <1>5 DEF cleanDatabase, CascadeDelete
<1> QED
  BY <1>1, <1>2, <1>3, <1>4, <1>5, NextSteps
  DEF Commits, Reads, Receive, Rollback, vars, database

\* Passkeys come from sign-ups and registrations and never change.
LEMMA PasskeySteps ==
  ASSUME TypeOK, [Next]_vars
  PROVE  \/ passkey' \subseteq passkey
         \/ \E r \in Requests : \/ completeSignupWithPasskeyRegistration(r)
                                \/ completePasskeyRegistration(r)
<1>1. ASSUME NEW r \in Requests, SignupCommits(r)
      PROVE  \/ passkey' \subseteq passkey
             \/ completeSignupWithPasskeyRegistration(r)
  BY <1>1 DEF SignupCommits, createSignupSession,
       deleteSignupSession, setSignupSessionAsEmailAddressVerified,
       setSignupSessionPasskeyWebauthnCredential,
       completeSignupWithoutPasskeyRegistration, accountTables
<1>2. ASSUME NEW r \in Requests, SigninCommits(r)
      PROVE  passkey' \subseteq passkey
  BY <1>2 DEF SigninCommits, createPasskeySigninAttempt,
       deletePasskeySigninAttempt, completePasskeySignin,
       createEmailCodeSigninSessionFromUserEmailAddress,
       deleteEmailCodeSigninSession, completeEmailCodeSigninSession,
       deleteAuthSession, deleteUserAuthSessions, accountTables, CascadeDelete
<1>3. ASSUME NEW r \in Requests, ActionCommits(r)
      PROVE  passkey' \subseteq passkey \/ completePasskeyRegistration(r)
  BY <1>3 DEF ActionCommits, createEmailAddressUpdateSession,
       setEmailAddressUpdateSessionNewEmailAddress, completeEmailAddressUpdate,
       createPasskeyRegistrationSession,
       setPasskeyRegistrationSessionPasskeyWebauthnCredential,
       createPasskeyDeletionSession,
       completePasskeyDeletion, createAccountDeletionSession,
       completeAccountDeletion, accountTables, emailAddressUpdateLeaves,
       CascadeDelete
<1>4. ASSUME NEW r \in Requests, CancelCommits(r) \/ VerificationCommits(r)
      PROVE  passkey' \subseteq passkey
  BY <1>4, CancelShrinks DEF VerificationCommits,
       issueIdentityVerificationSessionEmailCode,
       revokeIdentityVerificationSessionEmailCode,
       completeIdentityVerification, accountTables
<1>5. CASE cleanDatabase
  BY <1>5 DEF cleanDatabase, CascadeDelete
<1> QED
  BY <1>1, <1>2, <1>3, <1>4, <1>5, NextSteps
  DEF Commits, Reads, Receive, Rollback, vars, database

-----------------------------------------------------------------------------
(* NoSharedIdentifiers. *)

\* The initial accounts share no identifiers.
LEMMA InitIdentifiers == Init => NoSharedIdentifiers
BY InitialAccountsAssumption DEF Init, NoSharedIdentifiers

\* No step makes two rows share an address or a credential.
LEMMA NextIdentifiers ==
  ASSUME TypeOK, NoSharedIdentifiers, [Next]_vars
  PROVE  NoSharedIdentifiers'
<1>1. \A u, v \in user' : u.email_address = v.email_address => u = v
  <2>1. CASE user' \subseteq user
    BY <2>1 DEF NoSharedIdentifiers
  <2>2. ASSUME NEW r \in Requests, CompletesSignup(r)
        PROVE  \A u, v \in user' : u.email_address = v.email_address => u = v
    <3>1. PICK s \in signup_session : SignUp(s)
      BY <2>2 DEF CompletesSignup, completeSignupWithoutPasskeyRegistration,
                  completeSignupWithPasskeyRegistration
    <3>2. \A u \in user : u.email_address # s.email_address
      BY <3>1 DEF SignUp, EmailAddressUnique, HasRow
    <3> QED
      BY <3>1, <3>2 DEF SignUp, NoSharedIdentifiers
  <2>3. ASSUME NEW r \in Requests, completeEmailAddressUpdate(r)
        PROVE  \A u, v \in user' : u.email_address = v.email_address => u = v
    <3>1. PICK s \in email_address_update_session, u \in user :
            /\ EmailAddressUnique(u.id, s.new_email_address)
            /\ user' = (user \ {u}) \union
                         {[u EXCEPT !.email_address = s.new_email_address]}
      BY <2>3 DEF completeEmailAddressUpdate
    <3>2. [u EXCEPT !.email_address = s.new_email_address].email_address
            = s.new_email_address
      BY Columns DEF UserRow
    <3>3. \A v \in user \ {u} : v.email_address # s.new_email_address
      BY <3>1 DEF EmailAddressUnique, TypeOK, TablesOK, TableOK
    <3> QED
      BY <3>1, <3>2, <3>3 DEF NoSharedIdentifiers
  <2> QED
    BY <2>1, <2>2, <2>3, UserSteps
<1>2. \A p, q \in passkey' :
        p.webauthn_credential_id = q.webauthn_credential_id => p = q
  <2>1. CASE passkey' \subseteq passkey
    BY <2>1 DEF NoSharedIdentifiers
  <2>2. ASSUME NEW r \in Requests,
               \/ completeSignupWithPasskeyRegistration(r)
               \/ completePasskeyRegistration(r)
        PROVE  \E p : /\ passkey' = passkey \union {p}
                      /\ WebauthnCredentialIdUnique(p.webauthn_credential_id)
    <3>1. CASE completeSignupWithPasskeyRegistration(r)
      <4>1. PICK s \in signup_session :
              /\ WebauthnCredentialIdUnique(s.passkey_webauthn_credential_id)
              /\ passkey' = passkey \union
                   {[id |-> NewId("passkey"), user_id |-> s.target_user_id,
                     webauthn_credential_id |->
                       s.passkey_webauthn_credential_id]}
        BY <3>1 DEF completeSignupWithPasskeyRegistration
      <4> WITNESS [id |-> NewId("passkey"), user_id |-> s.target_user_id,
                   webauthn_credential_id |->
                     s.passkey_webauthn_credential_id]
      <4> QED
        BY <4>1
    <3>2. CASE completePasskeyRegistration(r)
      <4>1. PICK s \in passkey_registration_session, a \in auth_session :
              /\ WebauthnCredentialIdUnique(s.passkey_webauthn_credential_id)
              /\ passkey' = passkey \union
                   {[id |-> NewId("passkey"), user_id |-> a.user_id,
                     webauthn_credential_id |->
                       s.passkey_webauthn_credential_id]}
        BY <3>2 DEF completePasskeyRegistration
      <4> WITNESS [id |-> NewId("passkey"), user_id |-> a.user_id,
                   webauthn_credential_id |->
                     s.passkey_webauthn_credential_id]
      <4> QED
        BY <4>1
    <3> QED
      BY <2>2, <3>1, <3>2
  <2> QED
    BY <2>1, <2>2, PasskeySteps
    DEF NoSharedIdentifiers, WebauthnCredentialIdUnique
<1> QED
  BY <1>1, <1>2 DEF NoSharedIdentifiers

\* Two accounts never share an address and two passkeys never a credential:
\* the UNIQUE constraints decide between requests that all found the address
\* or the credential available before their transactions.
THEOREM IdentifiersUnique == Spec => []NoSharedIdentifiers
<1>1. Init => TypeOK /\ NoSharedIdentifiers
  BY InitTypeOK, InitIdentifiers
<1>2. TypeOK /\ NoSharedIdentifiers /\ [Next]_vars =>
        TypeOK' /\ NoSharedIdentifiers'
  BY NextTypeOK, NextIdentifiers
<1> QED
  BY <1>1, <1>2, PTL DEF Spec

-----------------------------------------------------------------------------
(* SignupTargetsUnused. *)

\* Sign-up sessions appear with a new user id, which no UPDATE changes, and
\* the completion of one deletes it.
LEMMA SignupSteps ==
  ASSUME TypeOK, [Next]_vars
  PROVE  \/ signup_session' \subseteq signup_session
         \/ \E r \in Requests :
              \/ createSignupSession(r)
              \/ setSignupSessionAsEmailAddressVerified(r)
              \/ setSignupSessionPasskeyWebauthnCredential(r)
<1>1. ASSUME NEW r \in Requests, SignupCommits(r)
      PROVE  \/ signup_session' \subseteq signup_session
             \/ createSignupSession(r)
             \/ setSignupSessionAsEmailAddressVerified(r)
             \/ setSignupSessionPasskeyWebauthnCredential(r)
  BY <1>1 DEF SignupCommits, deleteSignupSession,
       completeSignupWithoutPasskeyRegistration,
       completeSignupWithPasskeyRegistration, SignUp, SignupSessionUsed,
       WithoutRow
<1>2. ASSUME NEW r \in Requests, SigninCommits(r)
      PROVE  UNCHANGED signup_session
  BY <1>2 DEF SigninCommits, createPasskeySigninAttempt,
       deletePasskeySigninAttempt, completePasskeySignin,
       createEmailCodeSigninSessionFromUserEmailAddress,
       deleteEmailCodeSigninSession, completeEmailCodeSigninSession,
       deleteAuthSession, deleteUserAuthSessions
<1>3. ASSUME NEW r \in Requests, ActionCommits(r)
      PROVE  UNCHANGED signup_session
  BY <1>3 DEF ActionCommits, createEmailAddressUpdateSession,
       setEmailAddressUpdateSessionNewEmailAddress, completeEmailAddressUpdate,
       createPasskeyRegistrationSession,
       setPasskeyRegistrationSessionPasskeyWebauthnCredential,
       completePasskeyRegistration, createPasskeyDeletionSession,
       completePasskeyDeletion, createAccountDeletionSession,
       completeAccountDeletion, emailAddressUpdateLeaves,
       passkeyRegistrationLeaves
<1>4. ASSUME NEW r \in Requests, CancelCommits(r) \/ VerificationCommits(r)
      PROVE  UNCHANGED signup_session
  BY <1>4, CancelShrinks DEF VerificationCommits,
       issueIdentityVerificationSessionEmailCode,
       revokeIdentityVerificationSessionEmailCode,
       completeIdentityVerification
<1>5. CASE cleanDatabase
  BY <1>5 DEF cleanDatabase
<1> QED
  BY <1>1, <1>2, <1>3, <1>4, <1>5, NextSteps
  DEF Commits, Reads, Receive, Rollback, vars, database

\* No step puts the user id of a pending sign-up to use.
LEMMA NextTargets ==
  ASSUME TypeOK, SignupTargetsUnused, [Next]_vars
  PROVE  SignupTargetsUnused'
<1>1. CASE /\ signup_session' \subseteq signup_session
           /\ user' \subseteq user
  BY <1>1 DEF SignupTargetsUnused, HasRow
<1>2. ASSUME NEW r \in Requests, CompletesSignup(r)
      PROVE  SignupTargetsUnused'
  <2>1. PICK s \in signup_session : SignUp(s)
    BY <1>2 DEF CompletesSignup, completeSignupWithoutPasskeyRegistration,
                completeSignupWithPasskeyRegistration
  <2>2. /\ signup_session' \subseteq signup_session \ {s}
        /\ \A u \in user' : u \in user \/ u.id = s.target_user_id
    BY <2>1 DEF SignUp, SignupSessionUsed, WithoutRow
  <2> QED
    BY <2>2 DEF SignupTargetsUnused, HasRow
<1>3. ASSUME NEW r \in Requests, completeEmailAddressUpdate(r)
      PROVE  SignupTargetsUnused'
  <2>1. PICK s \in email_address_update_session, u \in user :
          user' = (user \ {u}) \union
                    {[u EXCEPT !.email_address = s.new_email_address]}
    BY <1>3 DEF completeEmailAddressUpdate
  <2>2. [u EXCEPT !.email_address = s.new_email_address].id = u.id
    BY Columns DEF UserRow
  <2>3. UNCHANGED signup_session
    BY <1>3 DEF completeEmailAddressUpdate, emailAddressUpdateLeaves
  <2> QED
    BY <2>1, <2>2, <2>3 DEF SignupTargetsUnused, HasRow
<1>4. ASSUME NEW r \in Requests, createSignupSession(r)
      PROVE  SignupTargetsUnused'
  <2> DEFINE row == [id |-> NewId("signup_session"),
                     target_user_id |-> NewId("user"),
                     email_address |-> request[r].value,
                     email_address_verified |-> FALSE,
                     passkey_webauthn_credential_id |-> Null]
  <2>1. /\ signup_session' = signup_session \union {row}
        /\ row.target_user_id = issued["user"] + 1
    BY <1>4 DEF createSignupSession, NewId
  <2> HIDE DEF row
  <2>2. \A s \in signup_session : s.target_user_id # issued["user"] + 1
    BY DEF TypeOK, TablesOK, Counters
  <2>3. \A u \in user : u.id # issued["user"] + 1
    BY DEF TypeOK, TablesOK, TableOK, Counters
  <2>4. UNCHANGED user
    BY <1>4 DEF createSignupSession, accountTables
  <2> QED
    BY <2>1, <2>2, <2>3, <2>4 DEF SignupTargetsUnused, HasRow
<1>5. ASSUME NEW s \in signup_session, NEW t,
             signup_session' = (signup_session \ {s}) \union {t},
             t.target_user_id = s.target_user_id,
             UNCHANGED user
      PROVE  SignupTargetsUnused'
  BY <1>5 DEF SignupTargetsUnused, HasRow
<1>6. ASSUME NEW r \in Requests, setSignupSessionAsEmailAddressVerified(r)
      PROVE  SignupTargetsUnused'
  <2>1. PICK s \in signup_session :
          signup_session' = (signup_session \ {s}) \union
                              {[s EXCEPT !.email_address_verified = TRUE]}
    BY <1>6 DEF setSignupSessionAsEmailAddressVerified
  <2>2. [s EXCEPT !.email_address_verified = TRUE].target_user_id
          = s.target_user_id
    BY Columns DEF SignupSessionRow
  <2> QED
    BY <1>5, <1>6, <2>1, <2>2
    DEF setSignupSessionAsEmailAddressVerified, accountTables
<1>7. ASSUME NEW r \in Requests, setSignupSessionPasskeyWebauthnCredential(r)
      PROVE  SignupTargetsUnused'
  <2>1. PICK s \in signup_session :
          signup_session' = (signup_session \ {s}) \union
            {[s EXCEPT !.passkey_webauthn_credential_id = request[r].value]}
    BY <1>7 DEF setSignupSessionPasskeyWebauthnCredential
  <2>2. [s EXCEPT !.passkey_webauthn_credential_id = request[r].value]
          .target_user_id = s.target_user_id
    BY Columns DEF SignupSessionRow
  <2> QED
    BY <1>5, <1>7, <2>1, <2>2
    DEF setSignupSessionPasskeyWebauthnCredential, accountTables
<1> QED
  BY <1>1, <1>2, <1>3, <1>4, <1>6, <1>7, SignupSteps, UserSteps

\* A pending sign-up creates one account, once: its user id is nobody's, and
\* no other sign-up has it.
THEOREM SignupsCreateNewAccounts == Spec => []SignupTargetsUnused
<1>1. Init => TypeOK /\ SignupTargetsUnused
  BY InitTypeOK DEF Init, SignupTargetsUnused
<1>2. TypeOK /\ SignupTargetsUnused /\ [Next]_vars =>
        TypeOK' /\ SignupTargetsUnused'
  BY NextTypeOK, NextTargets
<1> QED
  BY <1>1, <1>2, PTL DEF Spec

-----------------------------------------------------------------------------
(* PasskeyLimit. *)

\* The inductive form: of any user id, an account's or not.
PasskeyCounts ==
  /\ IsFiniteSet(passkey)
  /\ \A id \in Nat : getUserPasskeyCount(id) <= maxPasskeyCountLimit

\* No initial account has more passkeys than the limit.
LEMMA InitCounts == Init => PasskeyCounts
<1> SUFFICES ASSUME Init PROVE PasskeyCounts
  OBVIOUS
<1> DEFINE n == Len(InitialAccounts)
           row(i) == [id |-> i, user_id |-> i,
                      webauthn_credential_id |->
                        InitialAccounts[i].webauthn_credential_id]
<1>1. n \in Nat /\ DOMAIN InitialAccounts = 1..n
  BY InitialAccountsAssumption
<1>2. passkey \subseteq {row(i) : i \in 1..n}
  BY <1>1 DEF Init
<1>3. IsFiniteSet({row(i) : i \in 1..n})
  <2> DEFINE rows == {row(i) : i \in 1..n}
             f == [i \in 1..n |-> row(i)]
  <2>1. f \in Surjection(1..n, rows)
    BY DEF Surjection
  <2>2. IsFiniteSet(1..n)
    BY <1>1, FS_Interval
  <2> HIDE DEF rows, f
  <2>3. IsFiniteSet(rows)
    BY <2>1, <2>2, FS_Surjection
  <2> QED
    BY <2>3 DEF rows
<1>4. ASSUME NEW id \in Nat
      PROVE  getUserPasskeyCount(id) <= maxPasskeyCountLimit
  <2>1. {p \in passkey : p.user_id = id} \subseteq {row(id)}
    BY <1>2
  <2> DEFINE owned == {p \in passkey : p.user_id = id}
  <2>2. IsFiniteSet({row(id)}) /\ Cardinality({row(id)}) = 1
    BY FS_Singleton
  <2>3. Cardinality(owned) <= 1 /\ Cardinality(owned) \in Nat
    <3> DEFINE one == {row(id)}
    <3>1. owned \subseteq one /\ IsFiniteSet(one) /\ Cardinality(one) = 1
      BY <2>1, <2>2
    <3> HIDE DEF one, owned
    <3> QED
      BY <3>1, FS_Subset, FS_CardinalityType
  <2>4. getUserPasskeyCount(id) = Cardinality(owned)
    BY DEF getUserPasskeyCount
  <2> HIDE DEF owned
  <2> QED
    BY <2>3, <2>4, LimitAssumption
<1> QED
  BY <1>2, <1>3, <1>4, FS_Subset DEF PasskeyCounts

\* Adding a passkey below the limit stays within it.
LEMMA AddCounts ==
  ASSUME PasskeyCounts, NEW p, passkey' = passkey \union {p},
         getUserPasskeyCount(p.user_id) < maxPasskeyCountLimit
  PROVE  PasskeyCounts'
<1>1. IsFiniteSet(passkey')
  BY FS_AddElement DEF PasskeyCounts
<1>2. ASSUME NEW id \in Nat
      PROVE  getUserPasskeyCount(id)' <= maxPasskeyCountLimit
  <2> DEFINE old == {k \in passkey : k.user_id = id}
  <2>1. IsFiniteSet(old) /\ Cardinality(old) \in Nat
    BY FS_Subset, FS_CardinalityType DEF PasskeyCounts
  <2>2. CASE p.user_id = id
    <3>1. {k \in passkey' : k.user_id = id} = old \union {p}
      BY <2>2
    <3>2. Cardinality(old \union {p}) <= Cardinality(old) + 1
      <4> HIDE DEF old
      <4>1. Cardinality(old \union {p}) =
              IF p \in old THEN Cardinality(old) ELSE Cardinality(old) + 1
        BY <2>1, FS_AddElement
      <4> QED
        BY <2>1, <4>1
    <3>3. Cardinality(old) < maxPasskeyCountLimit
      BY <2>2 DEF getUserPasskeyCount
    <3>4. Cardinality(old \union {p}) \in Nat
      <4> HIDE DEF old
      <4> QED
        BY <2>1, FS_AddElement, FS_CardinalityType
    <3> QED
      BY <2>1, <3>1, <3>2, <3>3, <3>4, LimitAssumption DEF getUserPasskeyCount
  <2>3. CASE p.user_id # id
    <3>1. {k \in passkey' : k.user_id = id} = old
      BY <2>3
    <3> QED
      BY <3>1 DEF PasskeyCounts, getUserPasskeyCount
  <2> QED
    BY <2>2, <2>3
<1> QED
  BY <1>1, <1>2 DEF PasskeyCounts

\* Every step keeps the passkeys of every id within the limit.
LEMMA NextCounts ==
  ASSUME TypeOK, ReferentialIntegrity, PasskeyCounts, [Next]_vars
  PROVE  PasskeyCounts'
<1>1. CASE passkey' \subseteq passkey
  <2>1. IsFiniteSet(passkey')
    BY <1>1, FS_Subset DEF PasskeyCounts
  <2>2. ASSUME NEW id \in Nat
        PROVE  getUserPasskeyCount(id)' <= maxPasskeyCountLimit
    <3> DEFINE old == {k \in passkey : k.user_id = id}
               new == {k \in passkey' : k.user_id = id}
    <3>1. new \subseteq old /\ IsFiniteSet(old)
      BY <1>1, FS_Subset DEF PasskeyCounts
    <3>2. /\ Cardinality(new) \in Nat
          /\ Cardinality(old) \in Nat
          /\ Cardinality(new) <= Cardinality(old)
      BY <3>1, FS_Subset, FS_CardinalityType
    <3> QED
      BY <3>2, LimitAssumption DEF PasskeyCounts, getUserPasskeyCount
  <2> QED
    BY <2>1, <2>2 DEF PasskeyCounts
<1>2. ASSUME NEW r \in Requests, completeSignupWithPasskeyRegistration(r)
      PROVE  PasskeyCounts'
  <2>1. PICK s \in signup_session :
          /\ SignUp(s)
          /\ passkey' = passkey \union
               {[id |-> NewId("passkey"), user_id |-> s.target_user_id,
                 webauthn_credential_id |-> s.passkey_webauthn_credential_id]}
    BY <1>2 DEF completeSignupWithPasskeyRegistration
  <2>2. {p \in passkey : p.user_id = s.target_user_id} = {}
    BY <2>1 DEF SignUp, ReferentialIntegrity, HasRow
  <2>3. getUserPasskeyCount(s.target_user_id) < maxPasskeyCountLimit
    BY <2>2, FS_EmptySet, LimitAssumption DEF getUserPasskeyCount
  <2> QED
    BY <2>1, <2>3, AddCounts
<1>3. ASSUME NEW r \in Requests, completePasskeyRegistration(r)
      PROVE  PasskeyCounts'
  <2>1. PICK s \in passkey_registration_session, a \in auth_session :
          /\ BelowPasskeyCountLimit(a.user_id)
          /\ passkey' = passkey \union
               {[id |-> NewId("passkey"), user_id |-> a.user_id,
                 webauthn_credential_id |-> s.passkey_webauthn_credential_id]}
    BY <1>3 DEF completePasskeyRegistration
  <2> QED
    BY <2>1, AddCounts DEF BelowPasskeyCountLimit
<1> QED
  BY <1>1, <1>2, <1>3, PasskeySteps

\* No account has more passkeys than the limit: the transaction that adds one
\* counts them again (completePasskeyRegistration).
THEOREM PasskeysLimited == Spec => []PasskeyLimit
<1>1. Init => TypeOK /\ ReferentialIntegrity /\ PasskeyCounts
  BY InitTypeOK, InitRI, InitCounts
<1>2. TypeOK /\ ReferentialIntegrity /\ PasskeyCounts /\ [Next]_vars =>
        TypeOK' /\ ReferentialIntegrity' /\ PasskeyCounts'
  BY NextTypeOK, NextRI, NextCounts
<1>3. TypeOK /\ PasskeyCounts => PasskeyLimit
  BY Columns DEF PasskeyCounts, PasskeyLimit, UserRow
<1> QED
  BY <1>1, <1>2, <1>3, PTL DEF Spec

-----------------------------------------------------------------------------
(* CodesFollowAddress. *)

\* Auth sessions come from completed sign-ups and sign-ins, with a new id.
LEMMA AuthSessionSteps ==
  ASSUME TypeOK, [Next]_vars
  PROVE  \/ auth_session' \subseteq auth_session
         \/ \E r \in Requests :
              \/ CompletesSignup(r)
              \/ completePasskeySignin(r)
              \/ completeEmailCodeSigninSession(r)
<1>1. ASSUME NEW r \in Requests, SignupCommits(r)
      PROVE  auth_session' \subseteq auth_session \/ CompletesSignup(r)
  BY <1>1 DEF SignupCommits, CompletesSignup, createSignupSession,
       deleteSignupSession, setSignupSessionAsEmailAddressVerified,
       setSignupSessionPasskeyWebauthnCredential, accountTables
<1>2. ASSUME NEW r \in Requests, SigninCommits(r)
      PROVE  \/ auth_session' \subseteq auth_session
             \/ completePasskeySignin(r)
             \/ completeEmailCodeSigninSession(r)
  BY <1>2 DEF SigninCommits, createPasskeySigninAttempt,
       deletePasskeySigninAttempt,
       createEmailCodeSigninSessionFromUserEmailAddress,
       deleteEmailCodeSigninSession,
       deleteAuthSession, deleteUserAuthSessions, accountTables, CascadeDelete
<1>3. ASSUME NEW r \in Requests, ActionCommits(r)
      PROVE  auth_session' \subseteq auth_session
  BY <1>3 DEF ActionCommits, createEmailAddressUpdateSession,
       setEmailAddressUpdateSessionNewEmailAddress, completeEmailAddressUpdate,
       createPasskeyRegistrationSession,
       setPasskeyRegistrationSessionPasskeyWebauthnCredential,
       completePasskeyRegistration, createPasskeyDeletionSession,
       completePasskeyDeletion, createAccountDeletionSession,
       completeAccountDeletion, accountTables, emailAddressUpdateLeaves,
       passkeyRegistrationLeaves, CascadeDelete
<1>4. ASSUME NEW r \in Requests, CancelCommits(r) \/ VerificationCommits(r)
      PROVE  auth_session' \subseteq auth_session
  BY <1>4, CancelShrinks DEF VerificationCommits,
       issueIdentityVerificationSessionEmailCode,
       revokeIdentityVerificationSessionEmailCode,
       completeIdentityVerification, accountTables
<1>5. CASE cleanDatabase
  BY <1>5 DEF cleanDatabase, CascadeDelete
<1> QED
  BY <1>1, <1>2, <1>3, <1>4, <1>5, NextSteps
  DEF Commits, Reads, Receive, Rollback, vars, database

\* A new auth session has a new id.
LEMMA NewAuthSessions ==
  ASSUME TypeOK, [Next]_vars, NEW a \in auth_session', a \notin auth_session
  PROVE  a.id = issued["auth_session"] + 1
<1>1. ASSUME NEW r \in Requests, CompletesSignup(r)
      PROVE  a.id = NewId("auth_session")
  BY <1>1 DEF CompletesSignup, completeSignupWithoutPasskeyRegistration,
       completeSignupWithPasskeyRegistration, SignUp
<1>2. ASSUME NEW r \in Requests,
             completePasskeySignin(r) \/ completeEmailCodeSigninSession(r)
      PROVE  a.id = NewId("auth_session")
  BY <1>2 DEF completePasskeySignin, completeEmailCodeSigninSession
<1> QED
  BY <1>1, <1>2, AuthSessionSteps DEF NewId

\* The auth session a row refers to stays the one it was.
LEMMA OwnedBefore ==
  ASSUME TypeOK, ReferentialIntegrity, [Next]_vars, NEW s, NEW u,
         HasRow(auth_session, s.auth_session_id), OwnedBy(s, u)'
  PROVE  OwnedBy(s, u)
<1>1. PICK a \in auth_session' : a.id = s.auth_session_id /\ a.user_id = u.id
  BY DEF OwnedBy
<1>2. PICK b \in auth_session : b.id = s.auth_session_id
  BY DEF HasRow
<1>3. b.id \in 1..issued["auth_session"] /\ issued["auth_session"] \in Nat
  BY DEF TypeOK, TablesOK, TableOK, Counters
<1>4. a \in auth_session
  BY <1>1, <1>2, <1>3, NewAuthSessions
<1> QED
  BY <1>1, <1>4 DEF OwnedBy

\* A code to sign in is sent to the account that asked for it.
LEMMA SigninCodeSteps ==
  ASSUME TypeOK, [Next]_vars
  PROVE  \/ email_code_signin_session' \subseteq email_code_signin_session
         \/ \E r \in Requests :
              createEmailCodeSigninSessionFromUserEmailAddress(r)
<1>1. ASSUME NEW r \in Requests, SignupCommits(r)
      PROVE  UNCHANGED email_code_signin_session
  BY <1>1 DEF SignupCommits, createSignupSession,
       deleteSignupSession, setSignupSessionAsEmailAddressVerified,
       setSignupSessionPasskeyWebauthnCredential,
       completeSignupWithoutPasskeyRegistration,
       completeSignupWithPasskeyRegistration, signupLeaves, signinTables
<1>2. ASSUME NEW r \in Requests, SigninCommits(r)
      PROVE  \/ email_code_signin_session' \subseteq email_code_signin_session
             \/ createEmailCodeSigninSessionFromUserEmailAddress(r)
  BY <1>2 DEF SigninCommits, createPasskeySigninAttempt,
       deletePasskeySigninAttempt, completePasskeySignin,
       deleteEmailCodeSigninSession, completeEmailCodeSigninSession,
       deleteAuthSession, deleteUserAuthSessions, CascadeDelete, WithoutRow
<1>3. ASSUME NEW r \in Requests, ActionCommits(r)
      PROVE  email_code_signin_session' \subseteq email_code_signin_session
  BY <1>3 DEF ActionCommits, createEmailAddressUpdateSession,
       setEmailAddressUpdateSessionNewEmailAddress, completeEmailAddressUpdate,
       createPasskeyRegistrationSession,
       setPasskeyRegistrationSessionPasskeyWebauthnCredential,
       completePasskeyRegistration, createPasskeyDeletionSession,
       completePasskeyDeletion, createAccountDeletionSession,
       completeAccountDeletion, signinTables, passkeyRegistrationLeaves,
       CascadeDelete
<1>4. ASSUME NEW r \in Requests, CancelCommits(r) \/ VerificationCommits(r)
      PROVE  UNCHANGED email_code_signin_session
  BY <1>4, CancelShrinks DEF VerificationCommits,
       issueIdentityVerificationSessionEmailCode,
       revokeIdentityVerificationSessionEmailCode,
       completeIdentityVerification, signinTables
<1>5. CASE cleanDatabase
  BY <1>5 DEF cleanDatabase, CascadeDelete
<1> QED
  BY <1>1, <1>2, <1>3, <1>4, <1>5, NextSteps
  DEF Commits, Reads, Receive, Rollback, vars, database

\* The start of a verifying action.
Starts(r) ==
  \/ createEmailAddressUpdateSession(r)
  \/ createPasskeyRegistrationSession(r)
  \/ createPasskeyDeletionSession(r)
  \/ createAccountDeletionSession(r)

\* Identity verifications start with verifying actions, and their codes change
\* when one is issued or revoked.
LEMMA VerificationSteps ==
  ASSUME TypeOK, [Next]_vars
  PROVE  \/ identity_verification_session'
              \subseteq identity_verification_session
         \/ \E r \in Requests :
              \/ Starts(r)
              \/ issueIdentityVerificationSessionEmailCode(r)
              \/ revokeIdentityVerificationSessionEmailCode(r)
              \/ completeEmailAddressUpdate(r)
<1>1. ASSUME NEW r \in Requests, SignupCommits(r)
      PROVE  UNCHANGED identity_verification_session
  BY <1>1 DEF SignupCommits, createSignupSession,
       deleteSignupSession, setSignupSessionAsEmailAddressVerified,
       setSignupSessionPasskeyWebauthnCredential,
       completeSignupWithoutPasskeyRegistration,
       completeSignupWithPasskeyRegistration, signupLeaves
<1>2. ASSUME NEW r \in Requests, SigninCommits(r)
      PROVE  identity_verification_session'
               \subseteq identity_verification_session
  BY <1>2 DEF SigninCommits, createPasskeySigninAttempt,
       deletePasskeySigninAttempt, completePasskeySignin,
       createEmailCodeSigninSessionFromUserEmailAddress,
       deleteEmailCodeSigninSession, completeEmailCodeSigninSession,
       deleteAuthSession, deleteUserAuthSessions, CascadeDelete, Without
<1>3. ASSUME NEW r \in Requests, ActionCommits(r)
      PROVE  \/ identity_verification_session'
                  \subseteq identity_verification_session
             \/ Starts(r) \/ completeEmailAddressUpdate(r)
  BY <1>3 DEF ActionCommits, Starts,
       setEmailAddressUpdateSessionNewEmailAddress,
       setPasskeyRegistrationSessionPasskeyWebauthnCredential,
       completePasskeyRegistration, completePasskeyDeletion,
       completeAccountDeletion, CascadeDelete, Without
<1>4. ASSUME NEW r \in Requests, CancelCommits(r) \/ VerificationCommits(r)
      PROVE  \/ identity_verification_session'
                  \subseteq identity_verification_session
             \/ issueIdentityVerificationSessionEmailCode(r)
             \/ revokeIdentityVerificationSessionEmailCode(r)
  BY <1>4, CancelShrinks DEF VerificationCommits,
       completeIdentityVerification, VerificationUsed, WithoutRow
<1>5. CASE cleanDatabase
  BY <1>5 DEF cleanDatabase, CascadeDelete, Without
<1> QED
  BY <1>1, <1>2, <1>3, <1>4, <1>5, NextSteps
  DEF Commits, Reads, Receive, Rollback, vars, database

\* An account after a step: the same, signed up, or with a new address.
LEMMA UserAfter ==
  ASSUME TypeOK, [Next]_vars, NEW u \in user', u \notin user
  PROVE  \/ ~HasRow(user, u.id)
         \/ \E r \in Requests :
              /\ completeEmailAddressUpdate(r)
              /\ \E v \in user :
                   /\ u.id = v.id
                   /\ RevokeEmailCodes(v)
                   /\ \A c \in email_code_signin_session' : c.user_id # v.id
<1>1. ASSUME NEW r \in Requests, CompletesSignup(r)
      PROVE  ~HasRow(user, u.id)
  <2>1. PICK s \in signup_session : SignUp(s)
    BY <1>1 DEF CompletesSignup, completeSignupWithoutPasskeyRegistration,
                completeSignupWithPasskeyRegistration
  <2> QED
    BY <2>1 DEF SignUp
<1>2. ASSUME NEW r \in Requests, completeEmailAddressUpdate(r)
      PROVE  \E v \in user :
               /\ u.id = v.id
               /\ RevokeEmailCodes(v)
               /\ \A c \in email_code_signin_session' : c.user_id # v.id
  <2>1. PICK s \in email_address_update_session, v \in user :
          /\ user' = (user \ {v}) \union
                       {[v EXCEPT !.email_address = s.new_email_address]}
          /\ RevokeEmailCodes(v)
          /\ email_code_signin_session' =
               {c \in email_code_signin_session : c.user_id # v.id}
    BY <1>2 DEF completeEmailAddressUpdate
  <2>2. u.id = v.id
    BY <2>1, Columns DEF UserRow
  <2> QED
    BY <2>1, <2>2
<1> QED
  BY <1>1, <1>2, UserSteps

\* A code to sign in goes to the address of the account it is for.
LEMMA NextSigninCodes ==
  ASSUME TypeOK, ReferentialIntegrity, CodesFollowAddress, [Next]_vars,
         NEW c \in email_code_signin_session', NEW u \in user',
         c.user_id = u.id
  PROVE  c.email_code = u.email_address
<1>1. CASE c \in email_code_signin_session
  <2>1. HasRow(user, u.id)
    BY <1>1 DEF ReferentialIntegrity
  <2>2. u \in user
    BY <2>1, UserAfter
  <2> QED
    BY <1>1, <2>2 DEF CodesFollowAddress
<1>2. ASSUME NEW r \in Requests,
             createEmailCodeSigninSessionFromUserEmailAddress(r),
             c \notin email_code_signin_session
      PROVE  c.email_code = u.email_address
  <2>1. PICK v \in user :
          /\ v.email_address = request[r].value
          /\ email_code_signin_session' = email_code_signin_session \union
               {[id |-> NewId("signin"), user_id |-> v.id,
                 email_code |-> request[r].value]}
    BY <1>2 DEF createEmailCodeSigninSessionFromUserEmailAddress
  <2>2. c.user_id = v.id /\ c.email_code = v.email_address
    BY <1>2, <2>1
  <2>3. u \in user
    BY <1>2 DEF createEmailCodeSigninSessionFromUserEmailAddress, accountTables
  <2> QED
    BY <2>2, <2>3 DEF TypeOK, TablesOK, TableOK
<1> QED
  BY <1>1, <1>2, SigninCodeSteps

\* A code to verify an identity goes to the address of the account the
\* verification is of.
LEMMA NextVerificationCodes ==
  ASSUME TypeOK, ReferentialIntegrity, CodesFollowAddress, [Next]_vars,
         NEW v \in identity_verification_session', NEW u \in user',
         OwnedBy(v, u)'
  PROVE  v.email_code \in {Null, u.email_address}
<1>1. CASE v \in identity_verification_session
  <2>1. OwnedBy(v, u)
    BY <1>1, OwnedBefore DEF ReferentialIntegrity
  <2>2. HasRow(user, u.id)
    BY <2>1 DEF OwnedBy, ReferentialIntegrity
  <2>3. CASE u \in user
    BY <1>1, <2>1, <2>3 DEF CodesFollowAddress
  <2>4. ASSUME NEW w \in user, u.id = w.id, RevokeEmailCodes(w)
        PROVE  v.email_code = Null
    <3>1. OwnedBy(v, w)
      BY <2>1, <2>4 DEF OwnedBy
    <3>2. PICK x \in identity_verification_session :
            v = IF OwnedBy(x, w) THEN [x EXCEPT !.email_code = Null] ELSE x
      BY <2>4 DEF RevokeEmailCodes
    <3>3. OwnedBy(x, w)
      BY <3>1, <3>2
    <3> QED
      BY <3>2, <3>3, Columns DEF IdentityVerificationSessionRow
  <2> QED
    BY <2>2, <2>3, <2>4, UserAfter
<1>2. ASSUME NEW r \in Requests, Starts(r),
             v \notin identity_verification_session
      PROVE  v.email_code = Null
  BY <1>2 DEF Starts, createEmailAddressUpdateSession,
       createPasskeyRegistrationSession, createPasskeyDeletionSession,
       createAccountDeletionSession, NewIdentityVerificationSession
<1>3. ASSUME NEW r \in Requests, issueIdentityVerificationSessionEmailCode(r),
             v \notin identity_verification_session
      PROVE  v.email_code = u.email_address
  <2>1. PICK x \in identity_verification_session, w \in user :
          /\ OwnedBy(x, w)
          /\ v = [x EXCEPT !.email_code = w.email_address]
    BY <1>3 DEF issueIdentityVerificationSessionEmailCode
  <2>2. /\ v.email_code = w.email_address
        /\ v.auth_session_id = x.auth_session_id
    BY <2>1, Columns DEF IdentityVerificationSessionRow
  <2>3. u \in user /\ OwnedBy(x, u)
    BY <1>3, <2>2
    DEF issueIdentityVerificationSessionEmailCode, accountTables, OwnedBy
  <2>4. u = w
    BY <2>1, <2>3 DEF OwnedBy, TypeOK, TablesOK, TableOK
  <2> QED
    BY <2>2, <2>4
<1>4. ASSUME NEW r \in Requests, revokeIdentityVerificationSessionEmailCode(r),
             v \notin identity_verification_session
      PROVE  v.email_code = Null
  <2>1. PICK x \in identity_verification_session :
          v = [x EXCEPT !.email_code = Null]
    BY <1>4 DEF revokeIdentityVerificationSessionEmailCode
  <2> QED
    BY <2>1, Columns DEF IdentityVerificationSessionRow
<1>5. ASSUME NEW r \in Requests, completeEmailAddressUpdate(r),
             v \notin identity_verification_session
      PROVE  v.email_code = Null
  <2>1. PICK w \in user : RevokeEmailCodes(w)
    BY <1>5 DEF completeEmailAddressUpdate
  <2>2. PICK x \in identity_verification_session :
          v = IF OwnedBy(x, w) THEN [x EXCEPT !.email_code = Null] ELSE x
    BY <2>1 DEF RevokeEmailCodes
  <2> QED
    BY <1>5, <2>2, Columns DEF IdentityVerificationSessionRow
<1> QED
  BY <1>1, <1>2, <1>3, <1>4, <1>5, VerificationSteps

\* A code that signs a user in, or verifies the user's identity, was sent to
\* the address the account has now.  Only an account that changes its address
\* could leave a code behind, and completeEmailAddressUpdate revokes those of
\* the account in the same transaction; a code issued later goes to the address
\* read in the transaction that stores it, and a new auth session or account
\* takes over no code, since the references of the rows hold.
THEOREM CodesFollow == Spec => []CodesFollowAddress
<1>1. Init => TypeOK /\ ReferentialIntegrity /\ CodesFollowAddress
  BY InitTypeOK, InitRI DEF Init, CodesFollowAddress
<1>2. TypeOK /\ ReferentialIntegrity /\ CodesFollowAddress /\ [Next]_vars =>
        TypeOK' /\ ReferentialIntegrity' /\ CodesFollowAddress'
  <2> SUFFICES ASSUME TypeOK, ReferentialIntegrity, CodesFollowAddress,
                      [Next]_vars
               PROVE  TypeOK' /\ ReferentialIntegrity' /\ CodesFollowAddress'
    OBVIOUS
  <2>1. CodesFollowAddress'
    BY NextSigninCodes, NextVerificationCodes DEF CodesFollowAddress
  <2> QED
    BY <2>1, NextTypeOK, NextRI
<1> QED
  BY <1>1, <1>2, PTL DEF Spec

-----------------------------------------------------------------------------
(* VerificationPairing. *)

\* Of the verifications vs, those of action: none for a session that is
\* verified, and one of the same auth session for each that is not.
SessionsPaired(rows, vs, action) ==
  \A s \in rows :
    IF s.identity_verified
    THEN \A v \in vs : v.verifying_action = action =>
           v.verifying_action_id # s.id
    ELSE \E v \in vs : /\ v.verifying_action = action
                       /\ v.verifying_action_id = s.id
                       /\ v.auth_session_id = s.auth_session_id

\* Each of them has its session,
VerificationsPaired(rows, vs, action) ==
  \A v \in vs : v.verifying_action = action =>
    HasRow(rows, v.verifying_action_id)

\* unless it was to delete a passkey that is gone.
Pairs(rows, vs, action) ==
  /\ SessionsPaired(rows, vs, action)
  /\ action = "passkey_deletion" \/ VerificationsPaired(rows, vs, action)

\* The inductive form.  An identity verification has the id of its session, so
\* that no two are of the same one.
VerificationIds(vs) ==
  /\ \A v \in vs : v.verifying_action_id = v.id
  /\ \A v, w \in vs : v.id = w.id => v = w

\* The pairing of all four tables.
PairingInv ==
  LET vs == identity_verification_session
  IN /\ VerificationIds(vs)
     /\ Pairs(email_address_update_session, vs, "email_address_update")
     /\ Pairs(passkey_registration_session, vs, "passkey_registration")
     /\ Pairs(passkey_deletion_session, vs, "passkey_deletion")
     /\ Pairs(account_deletion_session, vs, "account_deletion")

\* Verifications v and w are of the same session; their codes may differ.
SameVerification(v, w) ==
  /\ v.verifying_action = w.verifying_action
  /\ v.verifying_action_id = w.verifying_action_id
  /\ v.auth_session_id = w.auth_session_id

\* vs and ws have the same of action.
SameVerifications(vs, ws, action) ==
  /\ \A v \in vs : v.verifying_action = action =>
       \E w \in ws : SameVerification(v, w)
  /\ \A w \in ws : w.verifying_action = action =>
       \E v \in vs : SameVerification(v, w)

\* The sessions kept are those of rows, as far as pairing goes.
SameSessions(rows, kept) ==
  /\ \A t \in kept : \E s \in rows :
       /\ s.id = t.id
       /\ s.auth_session_id = t.auth_session_id
       /\ s.identity_verified = t.identity_verified
  /\ \A s \in rows : HasRow(kept, s.id)

\* Columns that pair nothing may change.
LEMMA SamePairs ==
  ASSUME NEW rows, NEW kept, NEW vs, NEW ws, NEW action,
         Pairs(rows, vs, action), SameSessions(rows, kept),
         SameVerifications(vs, ws, action)
  PROVE  Pairs(kept, ws, action)
<1>1. SessionsPaired(kept, ws, action)
  <2> SUFFICES ASSUME NEW t \in kept
               PROVE  IF t.identity_verified
                      THEN \A v \in ws : v.verifying_action = action =>
                             v.verifying_action_id # t.id
                      ELSE \E v \in ws : /\ v.verifying_action = action
                                         /\ v.verifying_action_id = t.id
                                         /\ v.auth_session_id = t.auth_session_id
    BY DEF SessionsPaired
  <2>1. PICK s \in rows : /\ s.id = t.id
                          /\ s.auth_session_id = t.auth_session_id
                          /\ s.identity_verified = t.identity_verified
    BY DEF SameSessions
  <2> QED
    BY <2>1 DEF Pairs, SessionsPaired, SameVerifications, SameVerification
<1>2. VerificationsPaired(rows, vs, action) =>
        VerificationsPaired(kept, ws, action)
  BY DEF VerificationsPaired, SameSessions, SameVerifications,
         SameVerification, HasRow
<1> QED
  BY <1>1, <1>2 DEF Pairs

\* A table that does not change has the same sessions.
LEMMA SameTable ==
  ASSUME NEW rows
  PROVE  SameSessions(rows, rows)
BY DEF SameSessions, HasRow

\* A verifying action starts with a session and its verification.
LEMMA StartPairs ==
  ASSUME NEW rows, NEW vs, NEW action, Pairs(rows, vs, action),
         NEW s, NEW v, ~s.identity_verified,
         v.verifying_action = action, v.verifying_action_id = s.id,
         v.auth_session_id = s.auth_session_id,
         \A t \in rows : t.id # s.id,
         \A w \in vs : w.verifying_action_id # s.id
  PROVE  Pairs(rows \union {s}, vs \union {v}, action)
BY DEF Pairs, SessionsPaired, VerificationsPaired, HasRow

\* Cancelling deletes both.
LEMMA CancelPairs ==
  ASSUME NEW rows, NEW vs, NEW action, NEW id, Pairs(rows, vs, action)
  PROVE  Pairs(WithoutRow(rows, id),
               {v \in vs : ~(v.verifying_action = action
                             /\ v.verifying_action_id = id)}, action)
BY DEF Pairs, SessionsPaired, VerificationsPaired, HasRow, WithoutRow

\* A session is used up once it is verified, when no verification is left.
LEMMA UsePairs ==
  ASSUME NEW rows, NEW vs, NEW ws, NEW action, Pairs(rows, vs, action),
         NEW s \in rows, s.identity_verified,
         SameVerifications(vs, ws, action)
  PROVE  Pairs(WithoutRow(rows, s.id), ws, action)
<1>1. Pairs(rows, ws, action)
  BY SamePairs, SameTable
<1> QED
  BY <1>1 DEF Pairs, SessionsPaired, VerificationsPaired, HasRow, WithoutRow

\* Completing a verification marks its session and deletes it.
LEMMA VerifyPairs ==
  ASSUME NEW rows, NEW vs, NEW action, Pairs(rows, vs, action),
         VerificationIds(vs), NEW v \in vs, v.verifying_action = action,
         NEW Row \in {EmailAddressUpdateSessionRow,
                      PasskeyRegistrationSessionRow,
                      PasskeyDeletionSessionRow, AccountDeletionSessionRow},
         rows \subseteq Row
  PROVE  Pairs(MarkVerified(rows, v.verifying_action_id),
               WithoutRow(vs, v.id), action)
<1> DEFINE id == v.verifying_action_id
           marked(s) == IF s.id = id THEN [s EXCEPT !.identity_verified = TRUE]
                        ELSE s
           ws == WithoutRow(vs, v.id)
<1>1. ASSUME NEW s \in rows
      PROVE  /\ marked(s).id = s.id
             /\ marked(s).auth_session_id = s.auth_session_id
             /\ s.id = id => marked(s).identity_verified
             /\ s.id # id => marked(s) = s
  <2>1. CASE Row = EmailAddressUpdateSessionRow
    BY <2>1 DEF EmailAddressUpdateSessionRow
  <2>2. CASE Row = PasskeyRegistrationSessionRow
    BY <2>2 DEF PasskeyRegistrationSessionRow
  <2>3. CASE Row = PasskeyDeletionSessionRow
    BY <2>3 DEF PasskeyDeletionSessionRow
  <2>4. CASE Row = AccountDeletionSessionRow
    BY <2>4 DEF AccountDeletionSessionRow
  <2> QED
    BY <2>1, <2>2, <2>3, <2>4
<1>2. MarkVerified(rows, id) = {marked(s) : s \in rows}
  BY DEF MarkVerified
<1>3. \A w \in ws : w \in vs /\ w.verifying_action_id # id
  BY DEF VerificationIds, WithoutRow
<1>4. \A w \in vs : w.verifying_action_id # id => w \in ws
  BY DEF VerificationIds, WithoutRow
<1> HIDE DEF id, marked, ws
<1>5. SessionsPaired(MarkVerified(rows, id), ws, action)
  BY <1>1, <1>2, <1>3, <1>4 DEF Pairs, SessionsPaired
<1>6. VerificationsPaired(rows, vs, action) =>
        VerificationsPaired(MarkVerified(rows, id), ws, action)
  BY <1>1, <1>2, <1>3 DEF VerificationsPaired, HasRow
<1> QED
  BY <1>5, <1>6 DEF Pairs, ws, id

\* Deleting auth sessions deletes both; deleting a passkey deletes sessions of
\* its deletion only.
LEMMA CascadePairs ==
  ASSUME NEW rows, NEW kept, NEW vs, NEW action, NEW A,
         Pairs(rows, vs, action), VerificationIds(vs),
         kept \subseteq Without(rows, A),
         action # "passkey_deletion" => kept = Without(rows, A)
  PROVE  Pairs(kept, Without(vs, A), action)
<1>1. SessionsPaired(kept, Without(vs, A), action)
  BY DEF Pairs, SessionsPaired, Without
<1>2. ASSUME VerificationsPaired(rows, vs, action), kept = Without(rows, A)
      PROVE  VerificationsPaired(kept, Without(vs, A), action)
  <2> SUFFICES ASSUME NEW v \in Without(vs, A), v.verifying_action = action
               PROVE  HasRow(kept, v.verifying_action_id)
    BY DEF VerificationsPaired
  <2>1. v \in vs /\ v.auth_session_id \notin A
    BY DEF Without
  <2>2. PICK s \in rows : s.id = v.verifying_action_id
    BY <1>2, <2>1 DEF VerificationsPaired, HasRow
  <2>3. s.auth_session_id = v.auth_session_id
    BY <2>1, <2>2 DEF Pairs, SessionsPaired, VerificationIds
  <2> QED
    BY <1>2, <2>1, <2>2, <2>3 DEF Without, HasRow
<1> QED
  BY <1>1, <1>2 DEF Pairs

\* Every ON DELETE CASCADE keeps sessions and verifications together.
LEMMA CascadePairing ==
  ASSUME PairingInv, NEW U, NEW A, NEW P, CascadeDelete(U, A, P)
  PROVE  PairingInv'
<1> DEFINE S == A \union SessionsOf(U)
<1>1. /\ identity_verification_session' =
           Without(identity_verification_session, S)
      /\ email_address_update_session' =
           Without(email_address_update_session, S)
      /\ passkey_registration_session' =
           Without(passkey_registration_session, S)
      /\ passkey_deletion_session' \subseteq Without(passkey_deletion_session, S)
      /\ account_deletion_session' = Without(account_deletion_session, S)
  BY DEF CascadeDelete
<1> HIDE DEF S
<1>2. VerificationIds(identity_verification_session')
  BY <1>1 DEF PairingInv, VerificationIds, Without
<1> QED
  BY <1>1, <1>2, CascadePairs DEF PairingInv

\* No table of verifying actions or verifications changes.
LEMMA UnchangedPairing ==
  ASSUME PairingInv, UNCHANGED <<identity_verification_session, actionTables>>
  PROVE  PairingInv'
BY DEF PairingInv, actionTables

\* The start of a verifying action adds a verification with a new id.
LEMMA NewVerification ==
  ASSUME TypeOK, PairingInv, NEW action \in VerifyingActions, NEW a,
         LET v == NewIdentityVerificationSession(action,
                    NewId("verifying_action"), a)
         IN identity_verification_session' =
              identity_verification_session \union {v}
  PROVE  /\ VerificationIds(identity_verification_session')
         /\ \A other \in VerifyingActions \ {action} :
              SameVerifications(identity_verification_session,
                                identity_verification_session', other)
         /\ \A w \in identity_verification_session :
              w.verifying_action_id # NewId("verifying_action")
<1> DEFINE n == NewId("verifying_action")
           v == NewIdentityVerificationSession(action, n, a)
<1>1. \A w \in identity_verification_session : w.id # n
  BY DEF TypeOK, TablesOK, TableOK, Counters, NewId
<1>2. /\ v.id = n
      /\ v.verifying_action_id = n
      /\ v.verifying_action = action
  BY DEF NewIdentityVerificationSession
<1>3. identity_verification_session' = identity_verification_session \union {v}
  OBVIOUS
<1>4. VerificationIds(identity_verification_session)
  BY DEF PairingInv
<1> HIDE DEF n, v
<1>5. \A w \in identity_verification_session : w.verifying_action_id # n
  BY <1>1, <1>4 DEF VerificationIds
<1>6. VerificationIds(identity_verification_session')
  BY <1>1, <1>2, <1>3, <1>4 DEF VerificationIds
<1>7. \A other \in VerifyingActions \ {action} :
        SameVerifications(identity_verification_session,
                          identity_verification_session', other)
  BY <1>2, <1>3 DEF SameVerifications, SameVerification
<1> QED
  BY <1>5, <1>6, <1>7 DEF n

\* Starting a verifying action adds a session with its verification.
LEMMA StartsPairing ==
  ASSUME TypeOK, PairingInv, NEW r \in Requests, Starts(r)
  PROVE  PairingInv'
<1> DEFINE n == NewId("verifying_action")
           v(action) == NewIdentityVerificationSession(action, n, request[r].id)
<1>1. /\ \A s \in email_address_update_session : s.id # n
      /\ \A s \in passkey_registration_session : s.id # n
      /\ \A s \in passkey_deletion_session : s.id # n
      /\ \A s \in account_deletion_session : s.id # n
  BY DEF TypeOK, TablesOK, TableOK, Counters, NewId
<1>2. \A action : /\ v(action).verifying_action = action
                  /\ v(action).verifying_action_id = n
                  /\ v(action).auth_session_id = request[r].id
  BY DEF NewIdentityVerificationSession
<1>3. ASSUME NEW action \in VerifyingActions,
             identity_verification_session' =
               identity_verification_session \union {v(action)}
      PROVE  /\ VerificationIds(identity_verification_session')
             /\ \A other \in VerifyingActions \ {action} :
                  SameVerifications(identity_verification_session,
                                    identity_verification_session', other)
             /\ \A w \in identity_verification_session :
                  w.verifying_action_id # n
  BY <1>3, NewVerification
<1> HIDE DEF n, v
<1> USE DEF VerifyingActions
<1>4. CASE createEmailAddressUpdateSession(r)
  <2> DEFINE s == [id |-> n, auth_session_id |-> request[r].id,
                   identity_verified |-> FALSE, new_email_address |-> Null]
  <2>1. /\ email_address_update_session' =
             email_address_update_session \union {s}
        /\ identity_verification_session' =
             identity_verification_session \union {v("email_address_update")}
        /\ UNCHANGED <<passkey_registration_session, passkey_deletion_session,
                       account_deletion_session>>
    BY <1>4 DEF createEmailAddressUpdateSession, emailAddressUpdateLeaves, n, v
  <2>2. s.id = n /\ s.auth_session_id = request[r].id /\ ~s.identity_verified
    OBVIOUS
  <2> HIDE DEF s
  <2>3. Pairs(email_address_update_session', identity_verification_session',
              "email_address_update")
    BY <1>1, <1>2, <1>3, <2>1, <2>2, StartPairs DEF PairingInv
  <2> QED
    BY <1>3, <2>1, <2>3, SamePairs, SameTable DEF PairingInv
<1>5. CASE createPasskeyRegistrationSession(r)
  <2> DEFINE s == [id |-> n, auth_session_id |-> request[r].id,
                   identity_verified |-> FALSE,
                   passkey_webauthn_credential_id |-> Null]
  <2>1. /\ passkey_registration_session' =
             passkey_registration_session \union {s}
        /\ identity_verification_session' =
             identity_verification_session \union {v("passkey_registration")}
        /\ UNCHANGED <<email_address_update_session, passkey_deletion_session,
                       account_deletion_session>>
    BY <1>5 DEF createPasskeyRegistrationSession, passkeyRegistrationLeaves,
                n, v
  <2>2. s.id = n /\ s.auth_session_id = request[r].id /\ ~s.identity_verified
    OBVIOUS
  <2> HIDE DEF s
  <2>3. Pairs(passkey_registration_session', identity_verification_session',
              "passkey_registration")
    BY <1>1, <1>2, <1>3, <2>1, <2>2, StartPairs DEF PairingInv
  <2> QED
    BY <1>3, <2>1, <2>3, SamePairs, SameTable DEF PairingInv
<1>6. CASE createPasskeyDeletionSession(r)
  <2> DEFINE s == [id |-> n, auth_session_id |-> request[r].id,
                   identity_verified |-> FALSE,
                   passkey_id |-> request[r].other]
  <2>1. /\ passkey_deletion_session' = passkey_deletion_session \union {s}
        /\ identity_verification_session' =
             identity_verification_session \union {v("passkey_deletion")}
        /\ UNCHANGED <<email_address_update_session,
                       passkey_registration_session, account_deletion_session>>
    BY <1>6 DEF createPasskeyDeletionSession, n, v
  <2>2. s.id = n /\ s.auth_session_id = request[r].id /\ ~s.identity_verified
    OBVIOUS
  <2> HIDE DEF s
  <2>3. Pairs(passkey_deletion_session', identity_verification_session',
              "passkey_deletion")
    BY <1>1, <1>2, <1>3, <2>1, <2>2, StartPairs DEF PairingInv
  <2> QED
    BY <1>3, <2>1, <2>3, SamePairs, SameTable DEF PairingInv
<1>7. CASE createAccountDeletionSession(r)
  <2> DEFINE s == [id |-> n, auth_session_id |-> request[r].id,
                   identity_verified |-> FALSE]
  <2>1. /\ account_deletion_session' = account_deletion_session \union {s}
        /\ identity_verification_session' =
             identity_verification_session \union {v("account_deletion")}
        /\ UNCHANGED <<email_address_update_session,
                       passkey_registration_session, passkey_deletion_session>>
    BY <1>7 DEF createAccountDeletionSession, n, v
  <2>2. s.id = n /\ s.auth_session_id = request[r].id /\ ~s.identity_verified
    OBVIOUS
  <2> HIDE DEF s
  <2>3. Pairs(account_deletion_session', identity_verification_session',
              "account_deletion")
    BY <1>1, <1>2, <1>3, <2>1, <2>2, StartPairs DEF PairingInv
  <2> QED
    BY <1>3, <2>1, <2>3, SamePairs, SameTable DEF PairingInv
<1> QED
  BY <1>4, <1>5, <1>6, <1>7 DEF Starts

\* Codes are issued and revoked without a change of what they are for.
LEMMA CodesPairing ==
  ASSUME NEW vs, NEW ws, VerificationIds(vs),
         vs \subseteq IdentityVerificationSessionRow,
         NEW v \in vs, NEW code,
         ws = (vs \ {v}) \union {[v EXCEPT !.email_code = code]}
  PROVE  /\ VerificationIds(ws)
         /\ \A action : SameVerifications(vs, ws, action)
<1> DEFINE w == [v EXCEPT !.email_code = code]
<1>1. SameVerification(v, w) /\ w.id = v.id
  BY DEF IdentityVerificationSessionRow, SameVerification
<1>2. ws = (vs \ {v}) \union {w}
  OBVIOUS
<1> HIDE DEF w
<1>3. VerificationIds(ws)
  BY <1>1, <1>2 DEF VerificationIds, SameVerification
<1>4. \A x : SameVerification(x, x)
  BY DEF SameVerification
<1> QED
  BY <1>1, <1>2, <1>3, <1>4 DEF SameVerifications

\* So does revoking all the codes of a user.
LEMMA RevokePairing ==
  ASSUME TypeOK, PairingInv, NEW u, RevokeEmailCodes(u)
  PROVE  /\ VerificationIds(identity_verification_session')
         /\ \A action : SameVerifications(identity_verification_session,
                                          identity_verification_session',
                                          action)
<1> DEFINE vs == identity_verification_session
           f(v) == IF OwnedBy(v, u) THEN [v EXCEPT !.email_code = Null] ELSE v
<1>1. ASSUME NEW v \in vs
      PROVE  SameVerification(v, f(v)) /\ f(v).id = v.id
  BY <1>1, Columns DEF IdentityVerificationSessionRow, SameVerification
<1>2. identity_verification_session' = {f(v) : v \in vs}
  BY DEF RevokeEmailCodes
<1>3. VerificationIds(vs)
  BY DEF PairingInv
<1> HIDE DEF f
<1> QED
  BY <1>1, <1>2, <1>3
  DEF VerificationIds, SameVerifications, SameVerification

\* A column that pairs nothing is set on session s.
LEMMA SetPairing ==
  ASSUME NEW rows, NEW s \in rows, NEW t, t.id = s.id,
         t.auth_session_id = s.auth_session_id,
         t.identity_verified = s.identity_verified
  PROVE  SameSessions(rows, (rows \ {s}) \union {t})
BY DEF SameSessions, HasRow

\* Transactions of verifying actions keep sessions and verifications together.
LEMMA ActionCommitsPairing ==
  ASSUME TypeOK, PairingInv, NEW r \in Requests, ActionCommits(r)
  PROVE  PairingInv'
<1> DEFINE vs == identity_verification_session
<1>1. \A action : SameVerifications(vs, vs, action)
  BY DEF SameVerifications, SameVerification
<1>2. CASE Starts(r)
  BY <1>2, StartsPairing
<1>3. CASE setEmailAddressUpdateSessionNewEmailAddress(r)
  <2>1. PICK s \in email_address_update_session :
          email_address_update_session' =
            (email_address_update_session \ {s}) \union
              {[s EXCEPT !.new_email_address = request[r].value]}
    BY <1>3 DEF setEmailAddressUpdateSessionNewEmailAddress
  <2> DEFINE t == [s EXCEPT !.new_email_address = request[r].value]
  <2>2. /\ t.id = s.id
        /\ t.auth_session_id = s.auth_session_id
        /\ t.identity_verified = s.identity_verified
    BY Columns DEF EmailAddressUpdateSessionRow
  <2> HIDE DEF t
  <2>3. SameSessions(email_address_update_session,
                     email_address_update_session')
    BY <2>1, <2>2, SetPairing DEF t
  <2>4. UNCHANGED <<vs, passkey_registration_session,
                    passkey_deletion_session, account_deletion_session>>
    BY <1>3 DEF setEmailAddressUpdateSessionNewEmailAddress,
                emailAddressUpdateLeaves
  <2> QED
    BY <1>1, <2>3, <2>4, SamePairs DEF PairingInv
<1>4. CASE completeEmailAddressUpdate(r)
  <2>1. PICK s \in email_address_update_session, u \in user :
          /\ s.identity_verified
          /\ email_address_update_session' =
               WithoutRow(email_address_update_session, s.id)
          /\ RevokeEmailCodes(u)
    BY <1>4 DEF completeEmailAddressUpdate
  <2>2. UNCHANGED <<passkey_registration_session, passkey_deletion_session,
                    account_deletion_session>>
    BY <1>4 DEF completeEmailAddressUpdate, emailAddressUpdateLeaves
  <2>3. /\ VerificationIds(vs')
        /\ \A action : SameVerifications(vs, vs', action)
    BY <2>1, RevokePairing
  <2>4. Pairs(email_address_update_session', vs', "email_address_update")
    BY <2>1, <2>3, UsePairs DEF PairingInv
  <2> QED
    BY <2>2, <2>3, <2>4, SamePairs, SameTable DEF PairingInv
<1>5. CASE setPasskeyRegistrationSessionPasskeyWebauthnCredential(r)
  <2>1. PICK s \in passkey_registration_session :
          passkey_registration_session' =
            (passkey_registration_session \ {s}) \union
              {[s EXCEPT !.passkey_webauthn_credential_id = request[r].value]}
    BY <1>5 DEF setPasskeyRegistrationSessionPasskeyWebauthnCredential
  <2> DEFINE t == [s EXCEPT !.passkey_webauthn_credential_id = request[r].value]
  <2>2. /\ t.id = s.id
        /\ t.auth_session_id = s.auth_session_id
        /\ t.identity_verified = s.identity_verified
    BY Columns DEF PasskeyRegistrationSessionRow
  <2> HIDE DEF t
  <2>3. SameSessions(passkey_registration_session,
                     passkey_registration_session')
    BY <2>1, <2>2, SetPairing DEF t
  <2>4. UNCHANGED <<vs, email_address_update_session,
                    passkey_deletion_session, account_deletion_session>>
    BY <1>5 DEF setPasskeyRegistrationSessionPasskeyWebauthnCredential,
                passkeyRegistrationLeaves
  <2> QED
    BY <1>1, <2>3, <2>4, SamePairs DEF PairingInv
<1>6. CASE completePasskeyRegistration(r)
  <2>1. PICK s \in passkey_registration_session :
          /\ s.identity_verified
          /\ passkey_registration_session' =
               WithoutRow(passkey_registration_session, s.id)
    BY <1>6 DEF completePasskeyRegistration
  <2>2. UNCHANGED <<vs, email_address_update_session,
                    passkey_deletion_session, account_deletion_session>>
    BY <1>6 DEF completePasskeyRegistration, passkeyRegistrationLeaves
  <2>3. Pairs(passkey_registration_session', vs', "passkey_registration")
    BY <1>1, <2>1, <2>2, UsePairs DEF PairingInv
  <2> QED
    BY <2>2, <2>3 DEF PairingInv
<1>7. CASE completePasskeyDeletion(r) \/ completeAccountDeletion(r)
  BY <1>7, CascadePairing DEF completePasskeyDeletion, completeAccountDeletion
<1> QED
  BY <1>2, <1>3, <1>4, <1>5, <1>6, <1>7 DEF ActionCommits, Starts

\* Cancelling deletes a session with its verification.
LEMMA CancelCommitsPairing ==
  ASSUME PairingInv, NEW r, CancelCommits(r)
  PROVE  PairingInv'
<1> DEFINE vs == identity_verification_session
<1>1. ASSUME NEW action, NEW id, DeleteVerificationsOf(action, id)
      PROVE  /\ VerificationIds(vs')
             /\ vs' = {v \in vs : ~(v.verifying_action = action
                                    /\ v.verifying_action_id = id)}
             /\ \A other : other # action =>
                  SameVerifications(vs, vs', other)
  <2>1. vs' = {v \in vs : ~(v.verifying_action = action
                            /\ v.verifying_action_id = id)}
    BY <1>1 DEF DeleteVerificationsOf
  <2> QED
    BY <2>1 DEF PairingInv, VerificationIds, SameVerifications,
                SameVerification
<1>2. PICK id : \/ deleteEmailAddressUpdateSession(id)
                \/ deletePasskeyRegistrationSession(id)
                \/ deletePasskeyDeletionSession(id)
                \/ deleteAccountDeletionSession(id)
  BY DEF CancelCommits
<1>3. CASE deleteEmailAddressUpdateSession(id)
  <2>1. /\ email_address_update_session' =
             WithoutRow(email_address_update_session, id)
        /\ DeleteVerificationsOf("email_address_update", id)
        /\ UNCHANGED <<passkey_registration_session, passkey_deletion_session,
                       account_deletion_session>>
    BY <1>3 DEF deleteEmailAddressUpdateSession, emailAddressUpdateLeaves
  <2>2. Pairs(email_address_update_session', vs', "email_address_update")
    BY <1>1, <2>1, CancelPairs DEF PairingInv
  <2> QED
    BY <1>1, <2>1, <2>2, SamePairs, SameTable DEF PairingInv
<1>4. CASE deletePasskeyRegistrationSession(id)
  <2>1. /\ passkey_registration_session' =
             WithoutRow(passkey_registration_session, id)
        /\ DeleteVerificationsOf("passkey_registration", id)
        /\ UNCHANGED <<email_address_update_session, passkey_deletion_session,
                       account_deletion_session>>
    BY <1>4 DEF deletePasskeyRegistrationSession, passkeyRegistrationLeaves
  <2>2. Pairs(passkey_registration_session', vs', "passkey_registration")
    BY <1>1, <2>1, CancelPairs DEF PairingInv
  <2> QED
    BY <1>1, <2>1, <2>2, SamePairs, SameTable DEF PairingInv
<1>5. CASE deletePasskeyDeletionSession(id)
  <2>1. /\ passkey_deletion_session' = WithoutRow(passkey_deletion_session, id)
        /\ DeleteVerificationsOf("passkey_deletion", id)
        /\ UNCHANGED <<email_address_update_session,
                       passkey_registration_session, account_deletion_session>>
    BY <1>5 DEF deletePasskeyDeletionSession
  <2>2. Pairs(passkey_deletion_session', vs', "passkey_deletion")
    BY <1>1, <2>1, CancelPairs DEF PairingInv
  <2> QED
    BY <1>1, <2>1, <2>2, SamePairs, SameTable DEF PairingInv
<1>6. CASE deleteAccountDeletionSession(id)
  <2>1. /\ account_deletion_session' = WithoutRow(account_deletion_session, id)
        /\ DeleteVerificationsOf("account_deletion", id)
        /\ UNCHANGED <<email_address_update_session,
                       passkey_registration_session, passkey_deletion_session>>
    BY <1>6 DEF deleteAccountDeletionSession
  <2>2. Pairs(account_deletion_session', vs', "account_deletion")
    BY <1>1, <2>1, CancelPairs DEF PairingInv
  <2> QED
    BY <1>1, <2>1, <2>2, SamePairs, SameTable DEF PairingInv
<1> QED
  BY <1>2, <1>3, <1>4, <1>5, <1>6

\* Completing a verification uses it up for its session.
LEMMA VerificationCommitsPairing ==
  ASSUME TypeOK, PairingInv, NEW r \in Requests, VerificationCommits(r)
  PROVE  PairingInv'
<1> DEFINE vs == identity_verification_session
<1>1. VerificationIds(vs) /\ vs \subseteq IdentityVerificationSessionRow
  BY Columns DEF PairingInv
<1>2. ASSUME NEW v \in vs, NEW code,
             vs' = (vs \ {v}) \union {[v EXCEPT !.email_code = code]},
             UNCHANGED actionTables
      PROVE  PairingInv'
  <2>1. VerificationIds(vs') /\ \A action : SameVerifications(vs, vs', action)
    BY <1>1, <1>2, CodesPairing
  <2> QED
    BY <1>2, <2>1, SamePairs, SameTable DEF PairingInv, actionTables
<1>3. CASE issueIdentityVerificationSessionEmailCode(r)
  BY <1>2, <1>3 DEF issueIdentityVerificationSessionEmailCode
<1>4. CASE revokeIdentityVerificationSessionEmailCode(r)
  BY <1>2, <1>4 DEF revokeIdentityVerificationSessionEmailCode
<1>5. CASE completeIdentityVerification(r)
  <2>1. PICK v \in vs :
          /\ \/ v.verifying_action = "email_address_update"
                /\ completeIdentityVerificationForEmailAddressUpdate(v)
             \/ v.verifying_action = "passkey_registration"
                /\ completeIdentityVerificationForPasskeyRegistration(v)
             \/ v.verifying_action = "passkey_deletion"
                /\ completeIdentityVerificationForPasskeyDeletion(v)
             \/ v.verifying_action = "account_deletion"
                /\ completeIdentityVerificationForAccountDeletion(v)
          /\ vs' = WithoutRow(vs, v.id)
    BY <1>5 DEF completeIdentityVerification, VerificationUsed
  <2>2. VerificationIds(vs')
    BY <1>1, <2>1 DEF VerificationIds, WithoutRow
  <2>3. \A action : action # v.verifying_action =>
          SameVerifications(vs, vs', action)
    BY <1>1, <2>1
    DEF SameVerifications, SameVerification, WithoutRow, VerificationIds
  <2>4. CASE /\ v.verifying_action = "email_address_update"
             /\ completeIdentityVerificationForEmailAddressUpdate(v)
    <3>1. Pairs(email_address_update_session', vs', "email_address_update")
      BY <1>1, <2>1, <2>4, Columns, VerifyPairs
      DEF PairingInv, completeIdentityVerificationForEmailAddressUpdate
    <3> QED
      BY <2>2, <2>3, <2>4, <3>1, SamePairs, SameTable
      DEF PairingInv, completeIdentityVerificationForEmailAddressUpdate
  <2>5. CASE /\ v.verifying_action = "passkey_registration"
             /\ completeIdentityVerificationForPasskeyRegistration(v)
    <3>1. Pairs(passkey_registration_session', vs', "passkey_registration")
      BY <1>1, <2>1, <2>5, Columns, VerifyPairs
      DEF PairingInv, completeIdentityVerificationForPasskeyRegistration
    <3> QED
      BY <2>2, <2>3, <2>5, <3>1, SamePairs, SameTable
      DEF PairingInv, completeIdentityVerificationForPasskeyRegistration
  <2>6. CASE /\ v.verifying_action = "passkey_deletion"
             /\ completeIdentityVerificationForPasskeyDeletion(v)
    <3>1. Pairs(passkey_deletion_session', vs', "passkey_deletion")
      BY <1>1, <2>1, <2>6, Columns, VerifyPairs
      DEF PairingInv, completeIdentityVerificationForPasskeyDeletion
    <3> QED
      BY <2>2, <2>3, <2>6, <3>1, SamePairs, SameTable
      DEF PairingInv, completeIdentityVerificationForPasskeyDeletion
  <2>7. CASE /\ v.verifying_action = "account_deletion"
             /\ completeIdentityVerificationForAccountDeletion(v)
    <3>1. Pairs(account_deletion_session', vs', "account_deletion")
      BY <1>1, <2>1, <2>7, Columns, VerifyPairs
      DEF PairingInv, completeIdentityVerificationForAccountDeletion
    <3> QED
      BY <2>2, <2>3, <2>7, <3>1, SamePairs, SameTable
      DEF PairingInv, completeIdentityVerificationForAccountDeletion
  <2> QED
    BY <2>1, <2>4, <2>5, <2>6, <2>7
<1> QED
  BY <1>3, <1>4, <1>5 DEF VerificationCommits

\* Every step keeps sessions and verifications together.
LEMMA NextPairing ==
  ASSUME TypeOK, PairingInv, [Next]_vars
  PROVE  PairingInv'
<1>1. ASSUME NEW r \in Requests, SignupCommits(r)
      PROVE  PairingInv'
  BY <1>1, UnchangedPairing DEF SignupCommits, createSignupSession,
       deleteSignupSession, setSignupSessionAsEmailAddressVerified,
       setSignupSessionPasskeyWebauthnCredential,
       completeSignupWithoutPasskeyRegistration,
       completeSignupWithPasskeyRegistration, signupLeaves
<1>2. ASSUME NEW r \in Requests, SigninCommits(r)
      PROVE  PairingInv'
  <2>1. CASE deleteAuthSession(r) \/ deleteUserAuthSessions(r)
    BY <2>1, CascadePairing DEF deleteAuthSession, deleteUserAuthSessions
  <2>2. CASE ~(deleteAuthSession(r) \/ deleteUserAuthSessions(r))
    BY <1>2, <2>2, UnchangedPairing DEF SigninCommits,
       createPasskeySigninAttempt, deletePasskeySigninAttempt,
       completePasskeySignin, createEmailCodeSigninSessionFromUserEmailAddress,
       deleteEmailCodeSigninSession, completeEmailCodeSigninSession
  <2> QED
    BY <2>1, <2>2
<1>3. CASE cleanDatabase
  BY <1>3, CascadePairing DEF cleanDatabase
<1>4. CASE UNCHANGED database
  BY <1>4, UnchangedPairing DEF database, actionTables
<1> QED
  BY <1>1, <1>2, <1>3, <1>4, ActionCommitsPairing, CancelCommitsPairing,
     VerificationCommitsPairing, NextSteps
  DEF Commits, Reads, Receive, Rollback, vars, database

\* A session and its verifications, from the inductive form.
LEMMA PairsPaired ==
  ASSUME NEW rows, NEW action,
         Pairs(rows, identity_verification_session, action),
         VerificationIds(identity_verification_session)
  PROVE  Paired(rows, action)
<1> SUFFICES ASSUME NEW s \in rows
             PROVE  IF s.identity_verified
                    THEN VerificationsOf(action, s.id) = {}
                    ELSE \E v \in VerificationsOf(action, s.id) :
                           /\ VerificationsOf(action, s.id) = {v}
                           /\ v.auth_session_id = s.auth_session_id
  BY DEF Paired
<1>1. CASE s.identity_verified
  BY <1>1 DEF Pairs, SessionsPaired, VerificationsOf
<1>2. CASE ~s.identity_verified
  <2>1. PICK v \in identity_verification_session :
          /\ v.verifying_action = action
          /\ v.verifying_action_id = s.id
          /\ v.auth_session_id = s.auth_session_id
    BY <1>2 DEF Pairs, SessionsPaired
  <2>2. VerificationsOf(action, s.id) = {v}
    BY <2>1 DEF VerificationsOf, VerificationIds
  <2> QED
    BY <1>2, <2>1, <2>2
<1> QED
  BY <1>1, <1>2

\* A session of a verifying action waits for exactly one identity verification
\* until it is verified and for none after, and every verification has its
\* session, whatever is cancelled, completed or cascaded in between.  It is
\* inductive once a verification has the id of its session, as the transactions
\* that start a verifying action draw one id for both.
THEOREM VerificationsPair == Spec => []VerificationPairing
<1>1. Init => TypeOK /\ PairingInv
  BY InitTypeOK DEF Init, PairingInv, VerificationIds, Pairs, SessionsPaired,
     VerificationsPaired
<1>2. TypeOK /\ PairingInv /\ [Next]_vars => TypeOK' /\ PairingInv'
  BY NextTypeOK, NextPairing
<1>3. TypeOK /\ PairingInv => VerificationPairing
  <2> SUFFICES ASSUME TypeOK, PairingInv PROVE VerificationPairing
    OBVIOUS
  <2>1. /\ Paired(email_address_update_session, "email_address_update")
        /\ Paired(passkey_registration_session, "passkey_registration")
        /\ Paired(passkey_deletion_session, "passkey_deletion")
        /\ Paired(account_deletion_session, "account_deletion")
    BY PairsPaired DEF PairingInv
  <2>2. \A v \in identity_verification_session :
          v.verifying_action \in VerifyingActions
    BY Columns DEF IdentityVerificationSessionRow
  <2> QED
    BY <2>1, <2>2 DEF VerificationPairing, PairingInv, Pairs,
       VerificationsPaired, VerifyingActions
<1> QED
  BY <1>1, <1>2, <1>3, PTL DEF Spec
=============================================================================
