---------------------------- MODULE MCRequests ----------------------------
(***************************************************************************)
(* What requests bring, and what they wait for: instances of Patterns,     *)
(* WebAuthn and Resources for TLC.  None depends on another, so that in a  *)
(* behaviour one of them moves at a time: a form is filled in, or          *)
(* authenticator data is damaged, or workers work.                         *)
(***************************************************************************)
EXTENDS Patterns, WebAuthn, Resources

Hash == <<77>>
AAGUID == <<88>>
Name == <<112>>

\* As rare as on the curve: y is determined by x up to a sign.
Curve(x, y) == y[1] \in {(x[1] + 1) % 256, (x[1] + 9) % 256}

\* Bytes that are lengths, types of keys and flags as well as others: 69 has
\* the flag of a credential, 133 of an extension, 197 both.
Bytes == {1, 2, 69, 133, 197, 255}

Credentials ==
  [ aaguid : {AAGUID}, credentialId : {<<>>, <<97, 98>>},
    cosePublicKey : {EddsaKey(<<61>>), Es256Key(<<62>>, <<63>>), Rs256Key(<<200, 64>>)} ]

SentWith(users, credentials, policies) ==
  [ error : {"none"},
    relyingPartyIdHash : {Hash},
    userPresent : {TRUE},
    userVerified : users,
    backupEligible : users,
    backedUp : users,
    signCount : {<<0, 1, 2, 3>>},
    attestedCredential : credentials,
    credentialProtectionPolicy : policies ]

SomeAuthenticators ==
  SentWith({TRUE}, Credentials, {0, 3})
    \cup SentWith(BOOLEAN, {None}, 0..2)

\* A page; sign-out; starting a sign-in by email; verifying the code of an
\* identity verification; the nightly job.
HandlerPlans ==
  { <<"read", "read">>,
    <<"read", "write">>,
    <<"read", "hash", "write">>,
    <<"read", "read", "read", "hash", "transaction">>,
    <<"transaction">> }

-----------------------------------------------------------------------------

NoAuthenticator == sent = None /\ data = <<>> /\ damage = 0

NoInput == text = <<>> /\ NoAuthenticator

InputsInit ==
  \/ Init /\ NoAuthenticator
  \/ text = <<>> /\ WebAuthnInit

InputsNext ==
  \/ sent = None /\ Next /\ UNCHANGED <<sent, data, damage>>
  \/ sent # None /\ WebAuthnNext /\ UNCHANGED text

RequestsInit == InputsInit /\ ResourcesInit

RequestsNext ==
  \/ ResourcesInit /\ InputsNext /\ UNCHANGED resourceVars
  \/ NoInput /\ ResourcesNext /\ UNCHANGED <<text, sent, data, damage>>

RequestsSpec ==
  /\ RequestsInit
  /\ [][RequestsNext]_<<text, sent, data, damage, resourceVars>>
  /\ Fairness
=============================================================================
