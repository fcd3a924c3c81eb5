------------------------------ MODULE Sessions ------------------------------
(***************************************************************************)
(* The database as one browser can tell it: which rows there are, what     *)
(* each belongs to, and how far the flow it stands for has come.           *)
(*                                                                         *)
(* Addresses, codes and credentials are left out.  A row is verified when  *)
(* its email_address_verified or identity_verified is set, and filled when *)
(* the column that its flow sets is not NULL: the new address, the         *)
(* credential, the email code.  Accounts.tla has the same tables in full,  *)
(* and implements this module (AccountsSessions.tla).                      *)
(***************************************************************************)
EXTENDS Naturals, FiniteSets

CONSTANTS
  RowIds,                  \* bound: ids of a table
  None,                 \* no row
  maxPasskeyCountLimit

VARIABLE rows

VerifyingTables ==
  {"email_address_update_session", "passkey_registration_session",
   "passkey_deletion_session", "account_deletion_session"}

Tables ==
  {"user", "passkey", "auth_session", "signup_session",
   "passkey_signin_attempt", "email_code_signin_session",
   "identity_verification_session"} \union VerifyingTables

Key == Tables \X RowIds

\* of: the user or the auth session of the row.  about: the session an
\* identity verification is for, or the passkey a passkey deletion is for.
Row == [key : Key, of : Key \union {None}, about : Key \union {None},
        verified : BOOLEAN, filled : BOOLEAN]

Keys(S) == {r.key : r \in S}

Live(key) == key \in Keys(rows)

RowAt(key) == CHOOSE r \in rows : r.key = key

RowsIn(table) == {r \in rows : r.key[1] = table}

\* Keys a new row of the table can have: its id is random.
NewKeys(table) == ({table} \X RowIds) \ Keys(rows)

NewRow(key, of, about) ==
  [key |-> key, of |-> of, about |-> about,
   verified |-> FALSE, filled |-> FALSE]

Insert(S) == rows' = rows \union S

Replace(r, s) == rows' = (rows \ {r}) \union {s}

\* REFERENCES ... ON DELETE CASCADE
References(r) ==
  {r.of} \union (IF r.key[1] = "passkey_deletion_session" THEN {r.about}
                 ELSE {})

With(S) == S \union {r \in rows : References(r) \cap Keys(S) # {}}

\* A row references a user at most through one other row.
Delete(S) == rows' = rows \ With(With(S))

VerificationsOf(s) ==
  {v \in RowsIn("identity_verification_session") : v.about = s.key}

UserOf(s) == RowAt(s.of).of

PasskeysOf(user) == {p \in RowsIn("passkey") : p.of = user}

-----------------------------------------------------------------------------
(* What the transactions of the flows leave behind. *)

createSession(key) == Insert({NewRow(key, None, None)})

createEmailCodeSigninSession(key, user) ==
  /\ user \in RowsIn("user")
  /\ Insert({NewRow(key, user.key, None)})

\* The session of a verifying action and the identity verification it waits for.
createVerifyingSession(key, verification, auth, about) ==
  /\ auth \in RowsIn("auth_session")
  /\ Insert({NewRow(key, auth.key, about),
             NewRow(verification, auth.key, key)})

setVerified(s) == Replace(s, [s EXCEPT !.verified = TRUE])

fill(s) == ~s.filled /\ Replace(s, [s EXCEPT !.filled = TRUE])

setEmailCode(v, issued) == Replace(v, [v EXCEPT !.filled = issued])

deleteSession(s) == Delete({s} \union VerificationsOf(s))

completeIdentityVerification(v) ==
  \E s \in rows :
    /\ s.key = v.about
    /\ rows' = (rows \ {s, v}) \union {[s EXCEPT !.verified = TRUE]}

completeSignup(s, user, auth, passkeys) ==
  /\ s.verified
  /\ s.filled <=> passkeys # {}
  /\ rows' = (rows \ {s})
       \union {NewRow(user, None, None), NewRow(auth, user, None)}
       \union {NewRow(p, user, None) : p \in passkeys}

\* s: the attempt or the email code session that the sign-in uses up.
completeSignin(s, user, auth) ==
  /\ user \in RowsIn("user")
  /\ rows' = (rows \ {s}) \union {NewRow(auth, user.key, None)}

\* Codes sent to the old address are revoked.
completeEmailAddressUpdate(s) ==
  /\ s.verified /\ s.filled
  /\ rows' =
       {IF /\ r.key[1] = "identity_verification_session"
           /\ UserOf(r) = UserOf(s)
        THEN [r EXCEPT !.filled = FALSE]
        ELSE r : r \in {q \in rows \ {s} :
                          \/ q.key[1] # "email_code_signin_session"
                          \/ q.of # UserOf(s)}}

completePasskeyRegistration(s, passkey) ==
  /\ s.verified /\ s.filled
  /\ Cardinality(PasskeysOf(UserOf(s))) < maxPasskeyCountLimit
  /\ rows' = (rows \ {s}) \union {NewRow(passkey, UserOf(s), None)}

completePasskeyDeletion(s) == Delete({RowAt(s.about)})

completeAccountDeletion(s) == s.verified /\ Delete({RowAt(UserOf(s))})

-----------------------------------------------------------------------------

SessionStep ==
  \/ \E t \in {"signup_session", "passkey_signin_attempt"} :
       \E key \in NewKeys(t) : createSession(key)
  \/ \E user \in RowsIn("user"), key \in NewKeys("email_code_signin_session") :
       createEmailCodeSigninSession(key, user)
  \/ \E t \in VerifyingTables, auth \in RowsIn("auth_session") :
       \E key \in NewKeys(t), v \in NewKeys("identity_verification_session"),
          about \in IF t = "passkey_deletion_session"
                    THEN Keys(RowsIn("passkey")) ELSE {None} :
         createVerifyingSession(key, v, auth, about)
  \/ \E s \in RowsIn("signup_session") :
       \/ setVerified(s)
       \/ \E user \in NewKeys("user"), auth \in NewKeys("auth_session") :
            \/ completeSignup(s, user, auth, {})
            \/ \E p \in NewKeys("passkey") :
                 completeSignup(s, user, auth, {p})
  \/ \E t \in {"signup_session", "email_address_update_session",
               "passkey_registration_session"} :
       \E s \in RowsIn(t) : fill(s)
  \/ \E s \in rows \ (RowsIn("user") \union RowsIn("passkey")) :
       deleteSession(s)
  \/ \E v \in RowsIn("identity_verification_session") :
       \/ \E issued \in BOOLEAN : setEmailCode(v, issued)
       \/ completeIdentityVerification(v)
  \/ \E user \in RowsIn("user"), auth \in NewKeys("auth_session") :
       \E s \in RowsIn("passkey_signin_attempt")
                  \union RowsIn("email_code_signin_session") :
         completeSignin(s, user, auth)
  \/ \E s \in RowsIn("email_address_update_session") :
       completeEmailAddressUpdate(s)
  \/ \E s \in RowsIn("passkey_registration_session"),
        passkey \in NewKeys("passkey") :
       completePasskeyRegistration(s, passkey)
  \/ \E s \in RowsIn("passkey_deletion_session") : completePasskeyDeletion(s)
  \/ \E s \in RowsIn("account_deletion_session") : completeAccountDeletion(s)

\* The end of every auth session of a user.
deleteUserAuthSessions ==
  \E user \in RowsIn("user") :
    Delete({a \in RowsIn("auth_session") : a.of = user.key})

\* Any accounts, sign-up sessions and sign-in attempts may be old enough.
cleanDatabase ==
  LET old == RowsIn("user") \union RowsIn("signup_session")
               \union RowsIn("passkey_signin_attempt")
  IN Delete(old \ rows')

SessionsNext == cleanDatabase \/ SessionStep \/ deleteUserAuthSessions

SessionsSpec == rows = {} /\ [][SessionsNext]_rows
=============================================================================
