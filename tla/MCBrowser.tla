----------------------------- MODULE MCBrowser -----------------------------
(***************************************************************************)
(* Instances of Browser.tla for TLC.                                       *)
(***************************************************************************)
EXTENDS Browser

CONSTANTS t1, t2

TwoIds == 1..2

\* The actions on the sessions of some tables.
On(tables) == {a \in Actions : ActsOn[a] \in tables}

Starting(tables) == {a \in DOMAIN Starts : Starts[a] \in tables}

PasskeySignin == {"verify_passkey_signin_webauthn_signature"}
SigningUp == On({"signup_session"}) \union {"start_signup"}
Verifying(tables) ==
  On(tables \union {"identity_verification_session"})
    \union Starting(tables) \union PasskeySignin

\* Anything may go wrong for a user who signs up, in and out.
Entry ==
  [tabs |-> {t1}, visits |-> Paths,
   presses |-> SigningUp \union On({"email_code_signin_session"})
                 \union PasskeySignin
                 \union {"start_email_code_signin", "sign_out",
                         "sign_out_all_devices"},
   vanishing |-> Tables, mishaps |-> {"lose", "expire", "age", "take"}]

\* The flows of some tables take turns while anything may disappear.
Flows(tables) ==
  [tabs |-> {t1},
   visits |-> {path \in Paths :
                 SessionOf[path] \in tables \union
                   {"none", "identity_verification_session"}},
   presses |-> Verifying(tables), vanishing |-> Tables, mishaps |-> {"take"}]

\* Two tabs sign in and update the email address.
TwoTabs ==
  [tabs |-> {t1, t2}, visits |-> {"/account", "/sign-in"},
   presses |->
     PasskeySignin \union
     {"start_email_address_update",
      "verify_identity_verification_passkey_webauthn_signature",
      "set_email_address_update_new_email_address",
      "verify_email_address_update_new_email_address_verification_code"},
   vanishing |-> {}, mishaps |-> {}]

AnyHabits ==
  {Entry, TwoTabs,
   Flows({"passkey_registration_session", "passkey_deletion_session"}),
   Flows({"email_address_update_session", "account_deletion_session"})}

(* Each of these leads on: nothing is cancelled, revoked, sent again or signed
   out. *)
Forward ==
  [tabs |-> {t1}, visits |-> {},
   presses |->
     Actions \ {"cancel_signup", "cancel_email_code_signin",
                "cancel_identity_verification", "cancel_email_address_update",
                "cancel_passkey_registration", "cancel_passkey_deletion",
                "cancel_account_deletion", "sign_out", "sign_out_all_devices",
                "revoke_identity_verification_email_code",
                "send_signup_email_address_verification_code",
                "send_email_address_update_new_email_address_verification_code"},
   vanishing |-> {}, mishaps |-> {"reload"}]

ForwardHabit == {Forward}

\* One flow of an account.
UpdateHabit == {Flows({"email_address_update_session"})}
=============================================================================
