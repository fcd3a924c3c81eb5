------------------------------ MODULE WebAuthn ------------------------------
(***************************************************************************)
(* What an authenticator sends when a passkey is made or used              *)
(* (webauthn/parse.go), and the public key in it (webauthn/cose.go).  The  *)
(* state is the authenticator data of a request: what an authenticator has *)
(* encoded, or the same after some damage.                                 *)
(*                                                                         *)
(* Offsets are those of the code, from 0.  The sizes that are fixed there  *)
(* are constants here, so that TLC has short texts and the proofs have     *)
(* any.                                                                    *)
(***************************************************************************)
EXTENDS Integers, Sequences

CONSTANTS
  HashSize,               \* 32: a SHA-256 of the relying party's id
  AAGUIDSize,             \* 16
  CoordinateSize,         \* 32
  ModulusSize,            \* 256
  CredProtect,            \* the bytes of "credProtect"
  MaxCredentialIdLength,  \* 1023
  IsOnCurve(_, _),        \* elliptic.P256().IsOnCurve
  Sent,                   \* what authenticators encode
  Damaged,                \* bytes that appear instead of, or after, others
  MaxDamage,              \* bound: damages to one text
  None

ASSUME SizesAssumption ==
  /\ {HashSize, AAGUIDSize, MaxCredentialIdLength, MaxDamage} \subseteq Nat
  /\ {CoordinateSize, ModulusSize} \subseteq Nat \ {0}
  /\ CoordinateSize < 256 /\ ModulusSize < 65536 /\ MaxCredentialIdLength < 65536

ASSUME NoneAssumption ==
  None \notin [ aaguid        : Seq(0..255),
               credentialId  : Seq(0..255),
               cosePublicKey : Seq(0..255) ]

ASSUME DamagedAssumption == Damaged \subseteq 0..255

ASSUME CredProtectAssumption ==
  CredProtect \in Seq(0..255) /\ Len(CredProtect) < 24

VARIABLES
  sent,    \* what the authenticator has encoded, or None
  data,    \* webauthnAuthenticatorData
  damage   \* how many damages data has suffered

vars == <<sent, data, damage>>

At(d, i) == d[i + 1]

\* d[from:to], and d[from:]
Slice(d, from, to) == SubSeq(d, from + 1, to)
From(d, from) == Slice(d, from, Len(d))

HasAt(d, i, s) == \A j \in DOMAIN s : At(d, i + j - 1) = s[j]

-----------------------------------------------------------------------------
(* Public keys: CBOR maps, in the canonical order of CTAP 2.1. *)

EddsaSize == 10 + CoordinateSize
Es256Size == 13 + 2 * CoordinateSize
Rs256Size == 16 + ModulusSize

\* A field whose value is a byte string of a fixed length.
CoordinateField(label) == <<label, 88, CoordinateSize>>
ModulusField == <<32, 89, ModulusSize \div 256, ModulusSize % 256>>

\* A map of less than 24 fields, whose number is in the low bits.
IsMap(d) ==
  /\ Len(d) >= 1
  /\ At(d, 0) \div 32 = 5
  /\ At(d, 0) % 32 \in 1..23

MapSize(d) == At(d, 0) % 32

\* 1: the key type, which selects the checks of the rest.
HasType(d, type) == IsMap(d) /\ Len(d) > 2 /\ HasAt(d, 1, <<1, type>>)

\* 3: -8 (EdDSA), -1: 6 (Ed25519), -2: x.
EddsaFields(d) ==
  /\ MapSize(d) = 4
  /\ HasAt(d, 3, <<3, 39>>)
  /\ HasAt(d, 5, <<32, 6>>)
  /\ HasAt(d, 7, CoordinateField(33))

\* 3: -7 (ES256), -1: 1 (P-256), -2: x, -3: y.
Es256Fields(d) ==
  /\ MapSize(d) = 5
  /\ HasAt(d, 3, <<3, 38>>)
  /\ HasAt(d, 5, <<32, 1>>)
  /\ HasAt(d, 7, CoordinateField(33))
  /\ HasAt(d, 10 + CoordinateSize, CoordinateField(34))

\* 3: -257 (RS256), -1: n, of all its bits, -2: 65537.
Rs256Fields(d) ==
  /\ MapSize(d) = 4
  /\ HasAt(d, 3, <<3, 57, 1, 0>>)
  /\ HasAt(d, 7, ModulusField)
  /\ At(d, 11) \div 128 = 1
  /\ HasAt(d, 11 + ModulusSize, <<33, 67, 1, 0, 1>>)

OnCurve(d) ==
  IsOnCurve(Slice(d, 10, 10 + CoordinateSize),
            Slice(d, 13 + CoordinateSize, 13 + 2 * CoordinateSize))

\* mutant: the key takes all that follows
verifyCOSEPublicKeyToTheEnd(d) ==
  IF HasType(d, 1) /\ Len(d) >= EddsaSize /\ EddsaFields(d) THEN Len(d)
  ELSE IF HasType(d, 2) /\ Len(d) >= Es256Size /\ Es256Fields(d) /\ OnCurve(d)
  THEN Len(d)
  ELSE IF HasType(d, 3) /\ Len(d) >= Rs256Size /\ Rs256Fields(d) THEN Len(d)
  ELSE 0

\* The size of the key at the start of d, and 0 for an error.
verifyCOSEPublicKey(d) ==
  IF HasType(d, 1) /\ Len(d) >= EddsaSize /\ EddsaFields(d) THEN EddsaSize
  ELSE IF HasType(d, 2) /\ Len(d) >= Es256Size /\ Es256Fields(d) /\ OnCurve(d)
  THEN Es256Size
  ELSE IF HasType(d, 3) /\ Len(d) >= Rs256Size /\ Rs256Fields(d) THEN Rs256Size
  ELSE 0

\* VerifyAssertionSignatureWithCOSEPublicKey verifies a signature with key,
\* rather than return an error.
CanVerifyWith(key) ==
  \/ HasType(key, 1) /\ Len(key) = EddsaSize /\ EddsaFields(key)
  \/ HasType(key, 2) /\ Len(key) = Es256Size /\ Es256Fields(key)
  \/ HasType(key, 3) /\ Len(key) = Rs256Size /\ Rs256Fields(key)
-----------------------------------------------------------------------------
(* Authenticator data: the hash, flags, four bytes of a counter, then the     *)
(* credential (when it is new) and an extension.                              *)

Flag(d, bit) == (At(d, HashSize) \div 2^bit) % 2 = 1

UserPresent(d) == Flag(d, 0)
UserVerified(d) == Flag(d, 2)
BackupEligible(d) == Flag(d, 3)
BackedUp(d) == Flag(d, 4)
CredentialIncluded(d) == Flag(d, 6)
ExtensionIncluded(d) == Flag(d, 7)

HeaderSize == HashSize + 5
CredentialIdStart == HeaderSize + AAGUIDSize + 2

CredentialIdLength(d) ==
  256 * At(d, CredentialIdStart - 2) + At(d, CredentialIdStart - 1)

HasCredentialId(d) ==
  /\ Len(d) >= CredentialIdStart
  /\ Len(d) >= CredentialIdStart + CredentialIdLength(d)
  /\ CredentialIdLength(d) <= MaxCredentialIdLength

KeyStart(d) == CredentialIdStart + CredentialIdLength(d)
KeySize(d) == verifyCOSEPublicKey(From(d, KeyStart(d)))

CredentialEnd(d) ==
  IF CredentialIncluded(d) THEN KeyStart(d) + KeySize(d) ELSE HeaderSize

\* A map of one field, the policy for the protection of the credential.
IsExtension(e) ==
  /\ Len(e) = Len(CredProtect) + 3
  /\ HasAt(e, 0, <<161, 96 + Len(CredProtect)>> \o CredProtect)
  /\ At(e, Len(CredProtect) + 2) \in 1..3

\* mutant: what follows is not looked at
EndsWithAnything(d) ==
  ExtensionIncluded(d) => IsExtension(From(d, CredentialEnd(d)))

\* mutant: the credential is not counted
EndsAfterHeader(d) ==
  IF ExtensionIncluded(d) THEN IsExtension(From(d, HeaderSize))
  ELSE Len(d) = CredentialEnd(d)

EndsAsFlagged(d) ==
  IF ExtensionIncluded(d) THEN IsExtension(From(d, CredentialEnd(d)))
  ELSE Len(d) = CredentialEnd(d)

AttestedCredential(d) ==
  [ aaguid        |-> Slice(d, HeaderSize, HeaderSize + AAGUIDSize),
    credentialId  |-> Slice(d, CredentialIdStart, KeyStart(d)),
    cosePublicKey |-> Slice(d, KeyStart(d), KeyStart(d) + KeySize(d)) ]

\* "unsupported" stands for InvalidOrUnknownCOSEPublicKeyErrorStruct, which
\* clients are told of in words of its own (actions.go:323).
ParseAuthenticatorData(d) ==
  IF Len(d) < HeaderSize \/ (CredentialIncluded(d) /\ ~HasCredentialId(d))
  THEN [error |-> "invalid"]
  ELSE IF CredentialIncluded(d) /\ KeySize(d) = 0
  THEN [error |-> "unsupported"]
  ELSE IF ~EndsAsFlagged(d)
  THEN [error |-> "invalid"]
  ELSE [ error          |-> "none",
         relyingPartyIdHash |-> Slice(d, 0, HashSize),
         userPresent    |-> UserPresent(d),
         userVerified   |-> UserVerified(d),
         backupEligible |-> BackupEligible(d),
         backedUp       |-> BackedUp(d),
         signCount      |-> Slice(d, HashSize + 1, HeaderSize),
         attestedCredential |->
           IF CredentialIncluded(d) THEN AttestedCredential(d) ELSE None,
         credentialProtectionPolicy |->
           IF ExtensionIncluded(d) THEN d[Len(d)] ELSE 0 ]

validatePasskeyRegistrationWebauthnAuthenticator(authenticator, hash) ==
  /\ authenticator.error = "none"
  /\ authenticator.attestedCredential # None
  /\ authenticator.userPresent /\ authenticator.userVerified
  /\ authenticator.backedUp => authenticator.backupEligible
  /\ authenticator.relyingPartyIdHash = hash
  /\ authenticator.credentialProtectionPolicy \in {0, 3}

-----------------------------------------------------------------------------
(* What authenticators encode (Web Authentication, section 6.1). *)

Octets(n) == [1..n -> 0..255]

\* Keys as CTAP 2.1 writes them; the first bit of a modulus is set.
EddsaKey(x) == <<164, 1, 1, 3, 39, 32, 6>> \o CoordinateField(33) \o x

Es256Key(x, y) ==
  <<165, 1, 2, 3, 38, 32, 1>>
    \o CoordinateField(33) \o x \o CoordinateField(34) \o y

Rs256Key(n) ==
  <<164, 1, 3, 3, 57, 1, 0>> \o ModulusField \o n \o <<33, 67, 1, 0, 1>>

PublicKeys ==
  {EddsaKey(x) : x \in Octets(CoordinateSize)}
    \cup {Es256Key(p[1], p[2]) :
           p \in {q \in Octets(CoordinateSize) \X Octets(CoordinateSize) :
                 IsOnCurve(q[1], q[2])}}
    \cup {Rs256Key(n) : n \in {m \in Octets(ModulusSize) : m[1] >= 128}}

AttestedCredentials ==
  [ aaguid        : Octets(AAGUIDSize),
    credentialId  : UNION {Octets(n) : n \in 0..MaxCredentialIdLength},
    cosePublicKey : PublicKeys ]

\* What is encoded; "error" is that of reading it.
Authenticators ==
  [ error              : {"none"},
    relyingPartyIdHash : Octets(HashSize),
    userPresent        : BOOLEAN,
    userVerified       : BOOLEAN,
    backupEligible     : BOOLEAN,
    backedUp           : BOOLEAN,
    signCount          : Octets(4),
    attestedCredential : AttestedCredentials \cup {None},
    credentialProtectionPolicy : 0..3 ]

ASSUME SentAssumption == Sent \subseteq Authenticators

Bit(set, bit) == IF set THEN 2^bit ELSE 0

EncodedCredential(credential) ==
  LET length == Len(credential.credentialId)
  IN  credential.aaguid \o <<length \div 256, length % 256>>
        \o credential.credentialId \o credential.cosePublicKey

\* reserved: the bits without a meaning, 1 and 5.
Encode(a, reserved) ==
  LET attested == a.attestedCredential # None
      extended == a.credentialProtectionPolicy # 0
      flags == Bit(a.userPresent, 0) + Bit(a.userVerified, 2)
               + Bit(a.backupEligible, 3) + Bit(a.backedUp, 4)
               + Bit(attested, 6) + Bit(extended, 7) + reserved
  IN  a.relyingPartyIdHash \o <<flags>> \o a.signCount
        \o (IF attested THEN EncodedCredential(a.attestedCredential) ELSE <<>>)
        \o (IF extended
            THEN <<161, 96 + Len(CredProtect)>> \o CredProtect
                   \o <<a.credentialProtectionPolicy>>
            ELSE <<>>)

-----------------------------------------------------------------------------

WebAuthnInit ==
  /\ sent \in Sent
  /\ data = Encode(sent, 0)
  /\ damage = 0

Cut == \E n \in 0..(Len(data) - 1) : data' = SubSeq(data, 1, n)

Lengthen == \E byte \in Damaged : data' = Append(data, byte)

Change == \E i \in DOMAIN data, byte \in Damaged : data' = [data EXCEPT ![i] = byte]

WebAuthnNext ==
  /\ damage < MaxDamage
  /\ damage' = damage + 1
  /\ Cut \/ Lengthen \/ Change
  /\ UNCHANGED sent

WebAuthnSpec == WebAuthnInit /\ [][WebAuthnNext]_vars

-----------------------------------------------------------------------------

Read == ParseAuthenticatorData(data)

\* What an authenticator has encoded is read as it was: no offset is wrong,
\* whatever the parts before it were (webauthn/parse.go:24).
ReadsWhatWasWritten == sent # None /\ damage = 0 => Read = sent

\* Whatever arrives, what is accepted is accepted whole: nothing of it is
\* skipped, read twice or left over, but for the two reserved flags, so no
\* two texts that differ in more are read as the same (webauthn/parse.go:109).
NothingIsOverlooked ==
  Read.error = "none" =>
    \E reserved \in {0, 2, 32, 34} : data = Encode(Read, reserved)

\* The rules for keys are written twice, for a key with bytes after it and for
\* one from the database (webauthn/cose.go:20 and 121).  A key that is stored
\* at registration is never refused at sign-in, which would answer "unexpected
\* error" for as long as the passkey exists (actions.go:556).
KeysStayUsable ==
  validatePasskeyRegistrationWebauthnAuthenticator(Read, sent.relyingPartyIdHash)
    => CanVerifyWith(Read.attestedCredential.cosePublicKey)
=============================================================================
