----------------------------- MODULE MCAccounts -----------------------------
(***************************************************************************)
(* Instances of Accounts for TLC.  Each run lets clients call the handlers *)
(* of some flows, so that two requests at a time and a few ids of each     *)
(* kind already meet the interesting cases.                                *)
(***************************************************************************)
EXTENDS Accounts, TLC

CONSTANTS e1, e2, e3, e4, c1, c2, c3

Symmetry == Permutations(Requests)

\* Ids drawn after the initial accounts.
Bounds(accounts, users, passkeys, sessions, signups, signins, actions) ==
  LET n == Len(accounts)
  IN [c \in Counters |->
        CASE c = "user" -> n + users
          [] c = "passkey" -> n + passkeys
          [] c = "auth_session" -> n + sessions
          [] c = "signup_session" -> n + signups
          [] c = "signin" -> signins
          [] c = "verifying_action" -> actions]

Account(e, c) == [email_address |-> e, webauthn_credential_id |-> c]

EmailCodeSignin == {"startEmailCodeSignin", "cancelEmailCodeSignin",
                    "verifyEmailCodeSignin"}
PasskeySignin == {"startPasskeySignin", "cancelPasskeySignin",
                  "verifyPasskeySignin"}
SignOut == {"signOut", "signOutAllDevices"}
EmailCodeVerification == {"issueIdentityVerificationEmailCode",
                          "revokeIdentityVerificationEmailCode",
                          "verifyIdentityVerification"}
EmailUpdate == {"startEmailAddressUpdate", "cancelEmailAddressUpdate",
                "setNewEmailAddress", "verifyNewEmailAddress"}
Registration == {"startPasskeyRegistration", "cancelPasskeyRegistration",
                 "setPasskeyRegistrationCredential",
                 "setPasskeyRegistrationName"}
Deletion == {"startPasskeyDeletion", "cancelPasskeyDeletion",
             "confirmPasskeyDeletion"}
AccountEnd == {"startAccountDeletion", "cancelAccountDeletion",
               "confirmAccountDeletion"}
SignupFlow == {"startSignup", "cancelSignup", "verifySignup",
               "setSignupCredential", "completeSignup",
               "setSignupPasskeyName"}

(* Two accounts change their addresses while codes to sign in and to verify
   identities are on their way; or one does while someone signs up. *)
EmailAccounts == <<Account(e1, Null), Account(e2, Null)>>
EmailBounds == Bounds(EmailAccounts, 1, 1, 1, 1, 1, 2)
EmailHandlers == EmailUpdate \union EmailCodeVerification
                   \union EmailCodeSignin \union SignupFlow
                   \union {"cleanDatabase"}

SignupWithOneChange ==
  \/ issued["signup_session"] = Len(InitialAccounts)
  \/ issued["verifying_action"] <= 1 /\ issued["signin"] = 0

(* An account with one passkey, of at most two, and one without any: sign-ins
   of both kinds, sign-outs and deletions come between the steps of passkey
   registrations and deletions. *)
TwoAccounts == <<Account(e1, c1), Account(e2, Null)>>
AccountBounds == Bounds(TwoAccounts, 0, 2, 2, 0, 1, 2)
AccountHandlers == Registration \union Deletion \union AccountEnd \union SignOut
                     \union {"startPasskeySignin", "cancelPasskeySignin",
                             "verifyPasskeySignin",
                             "startEmailCodeSignin", "verifyEmailCodeSignin",
                             "verifyIdentityVerification",
                             "cancelIdentityVerification"}

(* The same two accounts, where clients may ask to delete any passkey. *)
DeletionBounds == Bounds(TwoAccounts, 0, 0, 1, 0, 1, 1)
DeletionHandlers == Deletion \union EmailCodeVerification \union EmailCodeSignin

(* An account and every handler. *)
WholeAccounts == <<Account(e1, c1)>>
WholeBounds == Bounds(WholeAccounts, 2, 1, 2, 2, 2, 1)
SignedUpHandlers == EmailUpdate \union EmailCodeVerification \union SignOut
                      \union Registration \union Deletion \union AccountEnd
                      \union EmailCodeSignin \union PasskeySignin
                      \union {"cancelIdentityVerification"}
WholeHandlers == SignedUpHandlers \union SignupFlow \union {"cleanDatabase"}
=============================================================================
