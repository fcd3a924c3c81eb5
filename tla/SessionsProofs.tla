-------------------------- MODULE SessionsProofs --------------------------
(***************************************************************************)
(* Accounts implements Sessions, for every number of requests: each commit *)
(* of the server is one step of Sessions, or changes nothing that Sessions *)
(* sees (SessionsImplemented, at the end).                                 *)
(*                                                                         *)
(* AccountsSessions adds the history variable seen, the rows of all tables *)
(* as Sessions has them.  The proof first relates the tables to seen, row  *)
(* by row; then, for each transaction, says which operator of Sessions it  *)
(* is and why that operator's guard holds.                                 *)
(***************************************************************************)
EXTENDS PromiseProofs, AccountsSessions

\* The rows of each table as they are seen.
SeenUsers == {SeenUser(u) : u \in user}
SeenPasskeys == {SeenPasskey(p) : p \in passkey}
SeenAuthSessions == {SeenAuthSession(a) : a \in auth_session}
SeenSignups == {SeenSignup(s) : s \in signup_session}
SeenAttempts == {SeenAttempt(t) : t \in passkey_signin_attempt}
SeenEmailCodes == {SeenEmailCode(c) : c \in email_code_signin_session}
SeenVerifications ==
  {SeenVerification(v) : v \in identity_verification_session}
SeenUpdates == {SeenUpdate(s) : s \in email_address_update_session}
SeenRegistrations ==
  {SeenRegistration(s) : s \in passkey_registration_session}
SeenPasskeyDeletions ==
  {SeenPasskeyDeletion(s) : s \in passkey_deletion_session}
SeenAccountDeletions ==
  {SeenAccountDeletion(s) : s \in account_deletion_session}

\* What is seen, table by table.
LEMMA SeenTables ==
  SeenRows = SeenUsers \union SeenPasskeys \union SeenAuthSessions
    \union SeenSignups \union SeenAttempts \union SeenEmailCodes
    \union SeenVerifications \union SeenUpdates \union SeenRegistrations
    \union SeenPasskeyDeletions \union SeenAccountDeletions
BY DEF SeenRows, SeenUsers, SeenPasskeys, SeenAuthSessions, SeenSignups,
   SeenAttempts, SeenEmailCodes, SeenVerifications, SeenUpdates,
   SeenRegistrations, SeenPasskeyDeletions, SeenAccountDeletions

\* What is seen after a step, table by table.
LEMMA SeenTablesAfter ==
  SeenRows' = (SeenUsers \union SeenPasskeys \union SeenAuthSessions
    \union SeenSignups \union SeenAttempts \union SeenEmailCodes
    \union SeenVerifications \union SeenUpdates \union SeenRegistrations
    \union SeenPasskeyDeletions \union SeenAccountDeletions)'
BY DEF SeenRows, SeenUsers, SeenPasskeys, SeenAuthSessions, SeenSignups,
   SeenAttempts, SeenEmailCodes, SeenVerifications, SeenUpdates,
   SeenRegistrations, SeenPasskeyDeletions, SeenAccountDeletions

\* Keys of different tables, and of different ids, differ.
LEMMA KeysDiffer ==
  /\ \A t, q, i, j : KeyOf(t, i) = KeyOf(q, j) <=> t = q /\ i = j
  /\ \A t, i : KeyOf(t, i)[1] = t
BY DEF KeyOf

\* The fields of a seen row.
LEMMA SeenFields ==
  ASSUME NEW table, NEW s, NEW of, NEW about, NEW verified, NEW filled
  PROVE  LET x == Seen(table, s, of, about, verified, filled)
         IN /\ x.key = KeyOf(table, s.id)
            /\ x.key[1] = table
            /\ x.of = of
            /\ x.about = about
            /\ x.verified = verified
            /\ x.filled = filled
BY DEF Seen, KeyOf

\* Every seen row has the key of its table.
LEMMA SeenKeys ==
  /\ \A u : SeenUser(u).key = KeyOf("user", u.id)
  /\ \A p : SeenPasskey(p).key = KeyOf("passkey", p.id)
  /\ \A a : SeenAuthSession(a).key = KeyOf("auth_session", a.id)
  /\ \A s : SeenSignup(s).key = KeyOf("signup_session", s.id)
  /\ \A t : SeenAttempt(t).key = KeyOf("passkey_signin_attempt", t.id)
  /\ \A c : SeenEmailCode(c).key = KeyOf("email_code_signin_session", c.id)
  /\ \A v : SeenVerification(v).key
              = KeyOf("identity_verification_session", v.id)
  /\ \A s : SeenUpdate(s).key = KeyOf("email_address_update_session", s.id)
  /\ \A s : SeenRegistration(s).key
              = KeyOf("passkey_registration_session", s.id)
  /\ \A s : SeenPasskeyDeletion(s).key
              = KeyOf("passkey_deletion_session", s.id)
  /\ \A s : SeenAccountDeletion(s).key
              = KeyOf("account_deletion_session", s.id)
BY DEF SeenUser, SeenPasskey, SeenAuthSession, SeenSignup, SeenAttempt,
   SeenEmailCode, SeenVerification, SeenUpdate, SeenRegistration,
   SeenPasskeyDeletion, SeenAccountDeletion, Seen

\* What each seen row belongs to.
LEMMA SeenOf ==
  /\ \A u : SeenUser(u).of = Null
  /\ \A p : SeenPasskey(p).of = KeyOf("user", p.user_id)
  /\ \A a : SeenAuthSession(a).of = KeyOf("user", a.user_id)
  /\ \A s : SeenSignup(s).of = Null
  /\ \A t : SeenAttempt(t).of = Null
  /\ \A c : SeenEmailCode(c).of = KeyOf("user", c.user_id)
  /\ \A v : SeenVerification(v).of = KeyOf("auth_session", v.auth_session_id)
  /\ \A s : SeenUpdate(s).of = KeyOf("auth_session", s.auth_session_id)
  /\ \A s : SeenRegistration(s).of = KeyOf("auth_session", s.auth_session_id)
  /\ \A s : SeenPasskeyDeletion(s).of
              = KeyOf("auth_session", s.auth_session_id)
  /\ \A s : SeenAccountDeletion(s).of
              = KeyOf("auth_session", s.auth_session_id)
BY DEF SeenUser, SeenPasskey, SeenAuthSession, SeenSignup, SeenAttempt,
   SeenEmailCode, SeenVerification, SeenUpdate, SeenRegistration,
   SeenPasskeyDeletion, SeenAccountDeletion, Seen, OfUser, OfAuthSession

\* The rows of a table, in Sessions, are those seen of it.
LEMMA SeenApart ==
  /\ \A x \in SeenUsers : x.key[1] = "user"
  /\ \A x \in SeenPasskeys : x.key[1] = "passkey"
  /\ \A x \in SeenAuthSessions : x.key[1] = "auth_session"
  /\ \A x \in SeenSignups : x.key[1] = "signup_session"
  /\ \A x \in SeenAttempts : x.key[1] = "passkey_signin_attempt"
  /\ \A x \in SeenEmailCodes : x.key[1] = "email_code_signin_session"
  /\ \A x \in SeenVerifications : x.key[1] = "identity_verification_session"
  /\ \A x \in SeenUpdates : x.key[1] = "email_address_update_session"
  /\ \A x \in SeenRegistrations : x.key[1] = "passkey_registration_session"
  /\ \A x \in SeenPasskeyDeletions : x.key[1] = "passkey_deletion_session"
  /\ \A x \in SeenAccountDeletions : x.key[1] = "account_deletion_session"
<1>1. \A x \in SeenUsers : x.key[1] = "user"
  BY DEF SeenUsers, SeenUser, Seen, KeyOf
<1>2. \A x \in SeenPasskeys : x.key[1] = "passkey"
  BY DEF SeenPasskeys, SeenPasskey, Seen, KeyOf
<1>3. \A x \in SeenAuthSessions : x.key[1] = "auth_session"
  BY DEF SeenAuthSessions, SeenAuthSession, Seen, KeyOf
<1>4. \A x \in SeenSignups : x.key[1] = "signup_session"
  BY DEF SeenSignups, SeenSignup, Seen, KeyOf
<1>5. \A x \in SeenAttempts : x.key[1] = "passkey_signin_attempt"
  BY DEF SeenAttempts, SeenAttempt, Seen, KeyOf
<1>6. \A x \in SeenEmailCodes : x.key[1] = "email_code_signin_session"
  BY DEF SeenEmailCodes, SeenEmailCode, Seen, KeyOf
<1>7. \A x \in SeenVerifications : x.key[1] = "identity_verification_session"
  BY DEF SeenVerifications, SeenVerification, Seen, KeyOf
<1>8. \A x \in SeenUpdates : x.key[1] = "email_address_update_session"
  BY DEF SeenUpdates, SeenUpdate, Seen, KeyOf
<1>9. \A x \in SeenRegistrations : x.key[1] = "passkey_registration_session"
  BY DEF SeenRegistrations, SeenRegistration, Seen, KeyOf
<1>10. \A x \in SeenPasskeyDeletions : x.key[1] = "passkey_deletion_session"
  BY DEF SeenPasskeyDeletions, SeenPasskeyDeletion, Seen, KeyOf
<1>11. \A x \in SeenAccountDeletions : x.key[1] = "account_deletion_session"
  BY DEF SeenAccountDeletions, SeenAccountDeletion, Seen, KeyOf
<1> QED
  BY <1>1, <1>2, <1>3, <1>4, <1>5, <1>6, <1>7, <1>8, <1>9, <1>10, <1>11

\* After a step, too.
LEMMA SeenApartAfter ==
  /\ \A x \in SeenUsers' : x.key[1] = "user"
  /\ \A x \in SeenPasskeys' : x.key[1] = "passkey"
  /\ \A x \in SeenAuthSessions' : x.key[1] = "auth_session"
  /\ \A x \in SeenSignups' : x.key[1] = "signup_session"
  /\ \A x \in SeenAttempts' : x.key[1] = "passkey_signin_attempt"
  /\ \A x \in SeenEmailCodes' : x.key[1] = "email_code_signin_session"
  /\ \A x \in SeenVerifications' : x.key[1] = "identity_verification_session"
  /\ \A x \in SeenUpdates' : x.key[1] = "email_address_update_session"
  /\ \A x \in SeenRegistrations' : x.key[1] = "passkey_registration_session"
  /\ \A x \in SeenPasskeyDeletions' : x.key[1] = "passkey_deletion_session"
  /\ \A x \in SeenAccountDeletions' : x.key[1] = "account_deletion_session"
<1>1. \A x \in SeenUsers' : x.key[1] = "user"
  BY DEF SeenUsers, SeenUser, Seen, KeyOf
<1>2. \A x \in SeenPasskeys' : x.key[1] = "passkey"
  BY DEF SeenPasskeys, SeenPasskey, Seen, KeyOf
<1>3. \A x \in SeenAuthSessions' : x.key[1] = "auth_session"
  BY DEF SeenAuthSessions, SeenAuthSession, Seen, KeyOf
<1>4. \A x \in SeenSignups' : x.key[1] = "signup_session"
  BY DEF SeenSignups, SeenSignup, Seen, KeyOf
<1>5. \A x \in SeenAttempts' : x.key[1] = "passkey_signin_attempt"
  BY DEF SeenAttempts, SeenAttempt, Seen, KeyOf
<1>6. \A x \in SeenEmailCodes' : x.key[1] = "email_code_signin_session"
  BY DEF SeenEmailCodes, SeenEmailCode, Seen, KeyOf
<1>7. \A x \in SeenVerifications' : x.key[1] = "identity_verification_session"
  BY DEF SeenVerifications, SeenVerification, Seen, KeyOf
<1>8. \A x \in SeenUpdates' : x.key[1] = "email_address_update_session"
  BY DEF SeenUpdates, SeenUpdate, Seen, KeyOf
<1>9. \A x \in SeenRegistrations' : x.key[1] = "passkey_registration_session"
  BY DEF SeenRegistrations, SeenRegistration, Seen, KeyOf
<1>10. \A x \in SeenPasskeyDeletions' : x.key[1] = "passkey_deletion_session"
  BY DEF SeenPasskeyDeletions, SeenPasskeyDeletion, Seen, KeyOf
<1>11. \A x \in SeenAccountDeletions' : x.key[1] = "account_deletion_session"
  BY DEF SeenAccountDeletions, SeenAccountDeletion, Seen, KeyOf
<1> QED
  BY <1>1, <1>2, <1>3, <1>4, <1>5, <1>6, <1>7, <1>8, <1>9, <1>10, <1>11

\* The rows that Sessions finds in a table.
LEMMA SeenRowsIn ==
  ASSUME seen = SeenRows
  PROVE  /\ SeenBy!RowsIn("user") = SeenUsers
         /\ SeenBy!RowsIn("passkey") = SeenPasskeys
         /\ SeenBy!RowsIn("auth_session") = SeenAuthSessions
         /\ SeenBy!RowsIn("signup_session") = SeenSignups
         /\ SeenBy!RowsIn("passkey_signin_attempt") = SeenAttempts
         /\ SeenBy!RowsIn("email_code_signin_session") = SeenEmailCodes
         /\ SeenBy!RowsIn("identity_verification_session") = SeenVerifications
         /\ SeenBy!RowsIn("email_address_update_session") = SeenUpdates
         /\ SeenBy!RowsIn("passkey_registration_session") = SeenRegistrations
         /\ SeenBy!RowsIn("passkey_deletion_session") = SeenPasskeyDeletions
         /\ SeenBy!RowsIn("account_deletion_session") = SeenAccountDeletions
BY SeenApart, SeenTables DEF SeenBy!RowsIn

\* One row has one key.
LEMMA SeenKeyed ==
  ASSUME TypeOK, seen = SeenRows, NEW x \in seen, NEW y \in seen,
         x.key = y.key
  PROVE  x = y
<1> USE DEF TypeOK, TablesOK, TableOK
<1>1. \A v, w \in user : SeenUser(v).key = SeenUser(w).key => v = w
  BY SeenKeys, KeysDiffer
<1>2. \A v, w \in passkey : SeenPasskey(v).key = SeenPasskey(w).key => v = w
  BY SeenKeys, KeysDiffer
<1>3. \A v, w \in auth_session : SeenAuthSession(v).key
          = SeenAuthSession(w).key => v = w
  BY SeenKeys, KeysDiffer
<1>4. \A v, w \in signup_session : SeenSignup(v).key = SeenSignup(w).key =>
        v = w
  BY SeenKeys, KeysDiffer
<1>5. \A v, w \in passkey_signin_attempt : SeenAttempt(v).key
          = SeenAttempt(w).key => v = w
  BY SeenKeys, KeysDiffer
<1>6. \A v, w \in email_code_signin_session : SeenEmailCode(v).key
          = SeenEmailCode(w).key => v = w
  BY SeenKeys, KeysDiffer
<1>7. \A v, w \in identity_verification_session : SeenVerification(v).key
          = SeenVerification(w).key => v = w
  BY SeenKeys, KeysDiffer
<1>8. \A v, w \in email_address_update_session : SeenUpdate(v).key
          = SeenUpdate(w).key => v = w
  BY SeenKeys, KeysDiffer
<1>9. \A v, w \in passkey_registration_session : SeenRegistration(v).key
          = SeenRegistration(w).key => v = w
  BY SeenKeys, KeysDiffer
<1>10. \A v, w \in passkey_deletion_session : SeenPasskeyDeletion(v).key
           = SeenPasskeyDeletion(w).key => v = w
  BY SeenKeys, KeysDiffer
<1>11. \A v, w \in account_deletion_session : SeenAccountDeletion(v).key
           = SeenAccountDeletion(w).key => v = w
  BY SeenKeys, KeysDiffer
<1> HIDE DEF TypeOK, TablesOK, TableOK
<1>12. x \in SeenUsers /\ y \in SeenUsers => x = y
  BY <1>1 DEF SeenUsers
<1>13. x \in SeenPasskeys /\ y \in SeenPasskeys => x = y
  BY <1>2 DEF SeenPasskeys
<1>14. x \in SeenAuthSessions /\ y \in SeenAuthSessions => x = y
  BY <1>3 DEF SeenAuthSessions
<1>15. x \in SeenSignups /\ y \in SeenSignups => x = y
  BY <1>4 DEF SeenSignups
<1>16. x \in SeenAttempts /\ y \in SeenAttempts => x = y
  BY <1>5 DEF SeenAttempts
<1>17. x \in SeenEmailCodes /\ y \in SeenEmailCodes => x = y
  BY <1>6 DEF SeenEmailCodes
<1>18. x \in SeenVerifications /\ y \in SeenVerifications => x = y
  BY <1>7 DEF SeenVerifications
<1>19. x \in SeenUpdates /\ y \in SeenUpdates => x = y
  BY <1>8 DEF SeenUpdates
<1>20. x \in SeenRegistrations /\ y \in SeenRegistrations => x = y
  BY <1>9 DEF SeenRegistrations
<1>21. x \in SeenPasskeyDeletions /\ y \in SeenPasskeyDeletions => x = y
  BY <1>10 DEF SeenPasskeyDeletions
<1>22. x \in SeenAccountDeletions /\ y \in SeenAccountDeletions => x = y
  BY <1>11 DEF SeenAccountDeletions
<1> QED
  BY <1>12, <1>13, <1>14, <1>15, <1>16, <1>17, <1>18, <1>19, <1>20, <1>21,
     <1>22, SeenTables, SeenApart

\* Sessions finds a row by its key.
LEMMA SeenRowAt ==
  ASSUME TypeOK, seen = SeenRows, NEW x \in seen
  PROVE  SeenBy!RowAt(x.key) = x
BY SeenKeyed DEF SeenBy!RowAt

\* What Sessions deletes with the rows S: what references one of them, and
\* what references that.
LEMMA WithTwice ==
  ASSUME NEW S \in SUBSET seen, NEW x \in seen
  PROVE  x \in SeenBy!With(SeenBy!With(S)) <=>
           \/ x \in S
           \/ \E y \in S : y.key \in SeenBy!References(x)
           \/ \E y \in seen, z \in S : /\ y.key \in SeenBy!References(x)
                                       /\ z.key \in SeenBy!References(y)
BY DEF SeenBy!With, SeenBy!Keys

-----------------------------------------------------------------------------
(* Deletions: Sessions deletes what ON DELETE CASCADE does. *)

\* What a seen row references.
LEMMA SeenReferences ==
  /\ \A u : SeenBy!References(SeenUser(u)) = {Null}
  /\ \A p : SeenBy!References(SeenPasskey(p)) = {KeyOf("user", p.user_id)}
  /\ \A a : SeenBy!References(SeenAuthSession(a)) = {KeyOf("user", a.user_id)}
  /\ \A s : SeenBy!References(SeenSignup(s)) = {Null}
  /\ \A t : SeenBy!References(SeenAttempt(t)) = {Null}
  /\ \A c : SeenBy!References(SeenEmailCode(c)) = {KeyOf("user", c.user_id)}
  /\ \A v : SeenBy!References(SeenVerification(v))
              = {KeyOf("auth_session", v.auth_session_id)}
  /\ \A s : SeenBy!References(SeenUpdate(s))
              = {KeyOf("auth_session", s.auth_session_id)}
  /\ \A s : SeenBy!References(SeenRegistration(s))
              = {KeyOf("auth_session", s.auth_session_id)}
  /\ \A s : SeenBy!References(SeenPasskeyDeletion(s))
              = {KeyOf("auth_session", s.auth_session_id),
                 KeyOf("passkey", s.passkey_id)}
  /\ \A s : SeenBy!References(SeenAccountDeletion(s))
              = {KeyOf("auth_session", s.auth_session_id)}
BY DEF SeenUser, SeenPasskey, SeenAuthSession, SeenSignup, SeenAttempt,
   SeenEmailCode, SeenVerification, SeenUpdate, SeenRegistration,
   SeenPasskeyDeletion, SeenAccountDeletion, Seen, OfUser, OfAuthSession,
   KeyOf, SeenBy!References

\* No row has NULL for its key.
LEMMA SeenNotNull ==
  ASSUME TypeOK, seen = SeenRows, NEW x \in seen
  PROVE  x.key # Null
<1>1. ASSUME NEW t \in SeenBy!Tables, NEW i \in Nat
      PROVE  KeyOf(t, i) # Null
  <2>1. KeyOf(t, i) \in SeenBy!Tables \X Nat
    BY <1>1 DEF KeyOf
  <2> QED
    BY <2>1, NullIsNoKey
<1> DEFINE Numbered(T) == \A s \in T : s.id \in Nat
<1>2. /\ Numbered(user)
      /\ Numbered(passkey)
      /\ Numbered(auth_session)
      /\ Numbered(signup_session)
      /\ Numbered(passkey_signin_attempt)
      /\ Numbered(email_code_signin_session)
      /\ Numbered(identity_verification_session)
      /\ Numbered(email_address_update_session)
      /\ Numbered(passkey_registration_session)
      /\ Numbered(passkey_deletion_session)
      /\ Numbered(account_deletion_session)
  BY DEF TypeOK, TablesOK, TableOK, Counters
<1>3. \A s \in user : SeenUser(s).key # Null
  BY <1>1, <1>2 DEF SeenUser, Seen, SeenBy!Tables, SeenBy!VerifyingTables
<1>4. \A s \in passkey : SeenPasskey(s).key # Null
  BY <1>1, <1>2 DEF SeenPasskey, Seen, SeenBy!Tables, SeenBy!VerifyingTables
<1>5. \A s \in auth_session : SeenAuthSession(s).key # Null
  BY <1>1, <1>2
  DEF SeenAuthSession, Seen, SeenBy!Tables, SeenBy!VerifyingTables
<1>6. \A s \in signup_session : SeenSignup(s).key # Null
  BY <1>1, <1>2 DEF SeenSignup, Seen, SeenBy!Tables, SeenBy!VerifyingTables
<1>7. \A s \in passkey_signin_attempt : SeenAttempt(s).key # Null
  BY <1>1, <1>2 DEF SeenAttempt, Seen, SeenBy!Tables, SeenBy!VerifyingTables
<1>8. \A s \in email_code_signin_session : SeenEmailCode(s).key # Null
  BY <1>1, <1>2 DEF SeenEmailCode, Seen, SeenBy!Tables, SeenBy!VerifyingTables
<1>9. \A s \in identity_verification_session : SeenVerification(s).key # Null
  BY <1>1, <1>2
  DEF SeenVerification, Seen, SeenBy!Tables, SeenBy!VerifyingTables
<1>10. \A s \in email_address_update_session : SeenUpdate(s).key # Null
  BY <1>1, <1>2 DEF SeenUpdate, Seen, SeenBy!Tables, SeenBy!VerifyingTables
<1>11. \A s \in passkey_registration_session : SeenRegistration(s).key # Null
  BY <1>1, <1>2
  DEF SeenRegistration, Seen, SeenBy!Tables, SeenBy!VerifyingTables
<1>12. \A s \in passkey_deletion_session : SeenPasskeyDeletion(s).key # Null
  BY <1>1, <1>2
  DEF SeenPasskeyDeletion, Seen, SeenBy!Tables, SeenBy!VerifyingTables
<1>13. \A s \in account_deletion_session : SeenAccountDeletion(s).key # Null
  BY <1>1, <1>2
  DEF SeenAccountDeletion, Seen, SeenBy!Tables, SeenBy!VerifyingTables
<1> QED
  BY <1>3, <1>4, <1>5, <1>6, <1>7, <1>8, <1>9, <1>10, <1>11, <1>12, <1>13
  DEF SeenRows

\* The row seen at the key of a user.
LEMMA SeenUserAt ==
  ASSUME TypeOK, seen = SeenRows, NEW x \in seen, NEW id
  PROVE  x.key = KeyOf("user", id) <=>
           \E u \in user : u.id = id /\ x = SeenUser(u)
<1>1. x.key = KeyOf("user", id) => x \in SeenUsers
  BY SeenRowsIn DEF SeenBy!RowsIn, KeyOf
<1>2. \A u : SeenUser(u).key = KeyOf("user", id) <=> u.id = id
  BY DEF SeenUser, Seen, KeyOf
<1> QED
  BY <1>1, <1>2 DEF SeenUsers

\* The row seen at the key of an auth session.
LEMMA SeenAuthSessionAt ==
  ASSUME TypeOK, seen = SeenRows, NEW x \in seen, NEW id
  PROVE  x.key = KeyOf("auth_session", id) <=>
           \E a \in auth_session : a.id = id /\ x = SeenAuthSession(a)
<1>1. x.key = KeyOf("auth_session", id) => x \in SeenAuthSessions
  BY SeenRowsIn DEF SeenBy!RowsIn, KeyOf
<1>2. \A a : SeenAuthSession(a).key = KeyOf("auth_session", id) <=> a.id = id
  BY DEF SeenAuthSession, Seen, KeyOf
<1> QED
  BY <1>1, <1>2 DEF SeenAuthSessions

\* The row seen at the key of a passkey.
LEMMA SeenPasskeyAt ==
  ASSUME TypeOK, seen = SeenRows, NEW x \in seen, NEW id
  PROVE  x.key = KeyOf("passkey", id) <=>
           \E p \in passkey : p.id = id /\ x = SeenPasskey(p)
<1>1. x.key = KeyOf("passkey", id) => x \in SeenPasskeys
  BY SeenRowsIn DEF SeenBy!RowsIn, KeyOf
<1>2. \A p : SeenPasskey(p).key = KeyOf("passkey", id) <=> p.id = id
  BY DEF SeenPasskey, Seen, KeyOf
<1> QED
  BY <1>1, <1>2 DEF SeenPasskeys

\* Deleting S deletes what has the key, or what that references.
Hits(S, key) ==
  \/ \E y \in S : y.key = key
  \/ \E y \in seen, z \in S : y.key = key /\ z.key \in SeenBy!References(y)

\* The user, auth session or passkey id is deleted with the rows S.
UserFalls(S, id) == \E u \in user : u.id = id /\ SeenUser(u) \in S

AuthSessionFalls(S, id) ==
  \E a \in auth_session :
    /\ a.id = id
    /\ SeenAuthSession(a) \in S \/ UserFalls(S, a.user_id)

PasskeyFalls(S, id) ==
  \E p \in passkey :
    /\ p.id = id
    /\ SeenPasskey(p) \in S \/ UserFalls(S, p.user_id)

\* A row goes with S when it references what S hits.
LEMMA DeletedIf ==
  ASSUME NEW S \in SUBSET seen, NEW x \in seen
  PROVE  x \in SeenBy!With(SeenBy!With(S)) <=>
           x \in S \/ \E key \in SeenBy!References(x) : Hits(S, key)
BY WithTwice DEF Hits

\* No deletion hits a NULL reference.
LEMMA HitsNothing ==
  ASSUME TypeOK, seen = SeenRows, NEW S \in SUBSET seen
  PROVE  ~Hits(S, Null)
BY SeenNotNull DEF Hits

\* A deletion hits a user only by deleting the user's own row.
LEMMA HitsUser ==
  ASSUME TypeOK, seen = SeenRows, NEW S \in SUBSET seen, NEW id
  PROVE  Hits(S, KeyOf("user", id)) <=> UserFalls(S, id)
<1>1. (\E y \in S : y.key = KeyOf("user", id)) <=> UserFalls(S, id)
  BY SeenUserAt DEF UserFalls
<1>2. \A y \in seen, z \in S :
        ~(y.key = KeyOf("user", id) /\ z.key \in SeenBy!References(y))
  BY SeenUserAt, SeenReferences, SeenNotNull
<1> QED
  BY <1>1, <1>2 DEF Hits

\* A deletion hits an auth session by its own row or by its user's.
LEMMA HitsAuthSession ==
  ASSUME TypeOK, seen = SeenRows, NEW S \in SUBSET seen, NEW id
  PROVE  Hits(S, KeyOf("auth_session", id)) <=> AuthSessionFalls(S, id)
<1>1. (\E y \in S : y.key = KeyOf("auth_session", id)) <=>
        \E a \in auth_session : a.id = id /\ SeenAuthSession(a) \in S
  BY SeenAuthSessionAt
<1>2. \A a \in auth_session : SeenAuthSession(a) \in seen
  BY DEF SeenRows
<1>3. ASSUME NEW a \in auth_session
      PROVE  (\E z \in S : z.key \in SeenBy!References(SeenAuthSession(a)))
               <=> UserFalls(S, a.user_id)
  BY SeenReferences, SeenUserAt DEF UserFalls
<1>4. (\E y \in seen, z \in S : /\ y.key = KeyOf("auth_session", id)
                                /\ z.key \in SeenBy!References(y)) <=>
        \E a \in auth_session : a.id = id /\ UserFalls(S, a.user_id)
  BY <1>2, <1>3, SeenAuthSessionAt
<1> QED
  BY <1>1, <1>4 DEF Hits, AuthSessionFalls

\* A deletion hits a passkey by its own row or by its user's.
LEMMA HitsPasskey ==
  ASSUME TypeOK, seen = SeenRows, NEW S \in SUBSET seen, NEW id
  PROVE  Hits(S, KeyOf("passkey", id)) <=> PasskeyFalls(S, id)
<1>1. (\E y \in S : y.key = KeyOf("passkey", id)) <=>
        \E p \in passkey : p.id = id /\ SeenPasskey(p) \in S
  BY SeenPasskeyAt
<1>2. \A p \in passkey : SeenPasskey(p) \in seen
  BY DEF SeenRows
<1>3. ASSUME NEW p \in passkey
      PROVE  (\E z \in S : z.key \in SeenBy!References(SeenPasskey(p)))
               <=> UserFalls(S, p.user_id)
  BY SeenReferences, SeenUserAt DEF UserFalls
<1>4. (\E y \in seen, z \in S : /\ y.key = KeyOf("passkey", id)
                                /\ z.key \in SeenBy!References(y)) <=>
        \E p \in passkey : p.id = id /\ UserFalls(S, p.user_id)
  BY <1>2, <1>3, SeenPasskeyAt
<1> QED
  BY <1>1, <1>4 DEF Hits, PasskeyFalls

\* Which rows a deletion of S deletes, by their tables.
LEMMA DeletedRows ==
  ASSUME TypeOK, seen = SeenRows, NEW S \in SUBSET seen,
         NEW W, W = SeenBy!With(SeenBy!With(S))
  PROVE  /\ \A u \in user : SeenUser(u) \in W <=> SeenUser(u) \in S
         /\ \A p \in passkey : SeenPasskey(p) \in W <=>
              SeenPasskey(p) \in S \/ UserFalls(S, p.user_id)
         /\ \A a \in auth_session : SeenAuthSession(a) \in W <=>
              SeenAuthSession(a) \in S \/ UserFalls(S, a.user_id)
         /\ \A s \in signup_session :
              SeenSignup(s) \in W <=> SeenSignup(s) \in S
         /\ \A t \in passkey_signin_attempt :
              SeenAttempt(t) \in W <=> SeenAttempt(t) \in S
         /\ \A c \in email_code_signin_session : SeenEmailCode(c) \in W <=>
              SeenEmailCode(c) \in S \/ UserFalls(S, c.user_id)
         /\ \A v \in identity_verification_session :
              SeenVerification(v) \in W <=>
                \/ SeenVerification(v) \in S
                \/ AuthSessionFalls(S, v.auth_session_id)
         /\ \A s \in email_address_update_session : SeenUpdate(s) \in W <=>
              SeenUpdate(s) \in S \/ AuthSessionFalls(S, s.auth_session_id)
         /\ \A s \in passkey_registration_session :
              SeenRegistration(s) \in W <=>
                \/ SeenRegistration(s) \in S
                \/ AuthSessionFalls(S, s.auth_session_id)
         /\ \A s \in passkey_deletion_session :
              SeenPasskeyDeletion(s) \in W <=>
                \/ SeenPasskeyDeletion(s) \in S
                \/ AuthSessionFalls(S, s.auth_session_id)
                \/ PasskeyFalls(S, s.passkey_id)
         /\ \A s \in account_deletion_session :
              SeenAccountDeletion(s) \in W <=>
                \/ SeenAccountDeletion(s) \in S
                \/ AuthSessionFalls(S, s.auth_session_id)
<1>1. \A x \in seen :
        x \in W <=> x \in S \/ \E key \in SeenBy!References(x) : Hits(S, key)
  BY DeletedIf
<1>2. /\ \A u \in user : SeenUser(u) \in seen
      /\ \A p \in passkey : SeenPasskey(p) \in seen
      /\ \A a \in auth_session : SeenAuthSession(a) \in seen
      /\ \A s \in signup_session : SeenSignup(s) \in seen
      /\ \A t \in passkey_signin_attempt : SeenAttempt(t) \in seen
      /\ \A c \in email_code_signin_session : SeenEmailCode(c) \in seen
      /\ \A v \in identity_verification_session : SeenVerification(v) \in seen
      /\ \A s \in email_address_update_session : SeenUpdate(s) \in seen
      /\ \A s \in passkey_registration_session : SeenRegistration(s) \in seen
      /\ \A s \in passkey_deletion_session : SeenPasskeyDeletion(s) \in seen
      /\ \A s \in account_deletion_session : SeenAccountDeletion(s) \in seen
  BY DEF SeenRows
<1>3. /\ ~Hits(S, Null)
      /\ \A id : Hits(S, KeyOf("user", id)) <=> UserFalls(S, id)
      /\ \A id : Hits(S, KeyOf("auth_session", id)) <=> AuthSessionFalls(S, id)
      /\ \A id : Hits(S, KeyOf("passkey", id)) <=> PasskeyFalls(S, id)
  BY HitsNothing, HitsUser, HitsAuthSession, HitsPasskey
<1> QED
  BY <1>1, <1>2, <1>3, SeenReferences

\* The rows seen of a table that does not change.
LEMMA SeenUnchanged ==
  /\ UNCHANGED user => UNCHANGED SeenUsers
  /\ UNCHANGED passkey => UNCHANGED SeenPasskeys
  /\ UNCHANGED auth_session => UNCHANGED SeenAuthSessions
  /\ UNCHANGED signup_session => UNCHANGED SeenSignups
  /\ UNCHANGED passkey_signin_attempt => UNCHANGED SeenAttempts
  /\ UNCHANGED email_code_signin_session => UNCHANGED SeenEmailCodes
  /\ UNCHANGED identity_verification_session => UNCHANGED SeenVerifications
  /\ UNCHANGED email_address_update_session => UNCHANGED SeenUpdates
  /\ UNCHANGED passkey_registration_session => UNCHANGED SeenRegistrations
  /\ UNCHANGED passkey_deletion_session => UNCHANGED SeenPasskeyDeletions
  /\ UNCHANGED account_deletion_session => UNCHANGED SeenAccountDeletions
BY DEF SeenUsers, SeenPasskeys, SeenAuthSessions, SeenSignups, SeenAttempts,
       SeenEmailCodes, SeenVerifications, SeenUpdates, SeenRegistrations,
       SeenPasskeyDeletions, SeenAccountDeletions,
 SeenUser, SeenPasskey, SeenAuthSession, SeenSignup, SeenAttempt,
 SeenEmailCode, SeenVerification, SeenUpdate, SeenRegistration,
 SeenPasskeyDeletion, SeenAccountDeletion, Seen, OfUser, OfAuthSession

\* What is left when the rows seen as W go.
LEMMA SeenLeft ==
  ASSUME NEW W,
         user' = {u \in user : SeenUser(u) \notin W},
         passkey' = {p \in passkey : SeenPasskey(p) \notin W},
         auth_session' = {a \in auth_session : SeenAuthSession(a) \notin W},
         signup_session' = {s \in signup_session : SeenSignup(s) \notin W},
         passkey_signin_attempt' =
           {t \in passkey_signin_attempt : SeenAttempt(t) \notin W},
         email_code_signin_session' =
           {c \in email_code_signin_session : SeenEmailCode(c) \notin W},
         identity_verification_session' =
           {v \in identity_verification_session :
              SeenVerification(v) \notin W},
         email_address_update_session' =
           {s \in email_address_update_session : SeenUpdate(s) \notin W},
         passkey_registration_session' =
           {s \in passkey_registration_session : SeenRegistration(s) \notin W},
         passkey_deletion_session' =
           {s \in passkey_deletion_session : SeenPasskeyDeletion(s) \notin W},
         account_deletion_session' =
           {s \in account_deletion_session : SeenAccountDeletion(s) \notin W}
  PROVE  SeenRows' = SeenRows \ W
<1>1. SeenUsers' = SeenUsers \ W
  BY DEF SeenUsers, SeenUser, Seen, OfUser, OfAuthSession
<1>2. SeenPasskeys' = SeenPasskeys \ W
  BY DEF SeenPasskeys, SeenPasskey, Seen, OfUser, OfAuthSession
<1>3. SeenAuthSessions' = SeenAuthSessions \ W
  BY DEF SeenAuthSessions, SeenAuthSession, Seen, OfUser, OfAuthSession
<1>4. SeenSignups' = SeenSignups \ W
  BY DEF SeenSignups, SeenSignup, Seen, OfUser, OfAuthSession
<1>5. SeenAttempts' = SeenAttempts \ W
  BY DEF SeenAttempts, SeenAttempt, Seen, OfUser, OfAuthSession
<1>6. SeenEmailCodes' = SeenEmailCodes \ W
  BY DEF SeenEmailCodes, SeenEmailCode, Seen, OfUser, OfAuthSession
<1>7. SeenVerifications' = SeenVerifications \ W
  BY DEF SeenVerifications, SeenVerification, Seen, OfUser, OfAuthSession
<1>8. SeenUpdates' = SeenUpdates \ W
  BY DEF SeenUpdates, SeenUpdate, Seen, OfUser, OfAuthSession
<1>9. SeenRegistrations' = SeenRegistrations \ W
  BY DEF SeenRegistrations, SeenRegistration, Seen, OfUser, OfAuthSession
<1>10. SeenPasskeyDeletions' = SeenPasskeyDeletions \ W
  BY DEF SeenPasskeyDeletions, SeenPasskeyDeletion, Seen, OfUser, OfAuthSession
<1>11. SeenAccountDeletions' = SeenAccountDeletions \ W
  BY DEF SeenAccountDeletions, SeenAccountDeletion, Seen, OfUser, OfAuthSession
<1> QED
  BY <1>1, <1>2, <1>3, <1>4, <1>5, <1>6, <1>7, <1>8, <1>9, <1>10, <1>11,
     SeenTables, SeenTablesAfter

\* A cascade of users U, auth sessions A and passkeys P, in Sessions.
LEMMA CascadeSeen ==
  ASSUME TypeOK, ReferentialIntegrity, seen = SeenRows, NEW S \in SUBSET seen,
         NEW U, NEW A, NEW P, CascadeDelete(U, A, P),
         \A u \in user : SeenUser(u) \in S <=> u.id \in U,
         \A a \in auth_session : SeenAuthSession(a) \in S <=> a.id \in A,
         \A p \in passkey : SeenPasskey(p) \in S <=> p.id \in P,
         signup_session' = {s \in signup_session : SeenSignup(s) \notin S},
         passkey_signin_attempt' =
           {t \in passkey_signin_attempt : SeenAttempt(t) \notin S},
         \A c \in email_code_signin_session : SeenEmailCode(c) \notin S,
         \A v \in identity_verification_session : SeenVerification(v) \notin S,
         \A s \in email_address_update_session : SeenUpdate(s) \notin S,
         \A s \in passkey_registration_session : SeenRegistration(s) \notin S,
         \A s \in passkey_deletion_session : SeenPasskeyDeletion(s) \notin S,
         \A s \in account_deletion_session : SeenAccountDeletion(s) \notin S
  PROVE  SeenRows' = seen \ SeenBy!With(SeenBy!With(S))
<1>1. PICK W : W = SeenBy!With(SeenBy!With(S))
  OBVIOUS
<1>2. ASSUME NEW id, HasRow(user, id)
      PROVE  UserFalls(S, id) <=> id \in U
  BY <1>2 DEF UserFalls, HasRow
<1>3. ASSUME NEW id, HasRow(auth_session, id)
      PROVE  AuthSessionFalls(S, id) <=> id \in A \union SessionsOf(U)
  <2>1. \A a \in auth_session : HasRow(user, a.user_id)
    BY DEF ReferentialIntegrity
  <2>2. \A a, b \in auth_session : a.id = b.id => a = b
    BY DEF TypeOK, TablesOK, TableOK
  <2> QED
    BY <1>2, <1>3, <2>1, <2>2 DEF AuthSessionFalls, HasRow, SessionsOf
<1>4. ASSUME NEW id, HasRow(passkey, id)
      PROVE  PasskeyFalls(S, id) <=> id \in P \union PasskeysOf(U)
  <2>1. \A p \in passkey : HasRow(user, p.user_id)
    BY DEF ReferentialIntegrity
  <2>2. \A p, q \in passkey : p.id = q.id => p = q
    BY DEF TypeOK, TablesOK, TableOK
  <2> QED
    BY <1>2, <1>4, <2>1, <2>2 DEF PasskeyFalls, HasRow, PasskeysOf
<1>5. /\ \A p \in passkey : p.id \in PasskeysOf(U) <=> p.user_id \in U
      /\ \A a \in auth_session : a.id \in SessionsOf(U) <=> a.user_id \in U
  BY DEF TypeOK, TablesOK, TableOK, PasskeysOf, SessionsOf
<1>6. /\ \A s \in passkey \union auth_session
             \union email_code_signin_session :
           HasRow(user, s.user_id)
      /\ \A s \in identity_verification_session
                   \union email_address_update_session
                   \union passkey_registration_session
                   \union passkey_deletion_session
                   \union account_deletion_session :
           HasRow(auth_session, s.auth_session_id)
      /\ \A s \in passkey_deletion_session : HasRow(passkey, s.passkey_id)
  BY DEF ReferentialIntegrity
<1>7. user' = {u \in user : SeenUser(u) \notin W}
  BY <1>1, <1>2, <1>3, <1>4, <1>5, <1>6, DeletedRows DEF CascadeDelete, Without
<1>8. passkey' = {p \in passkey : SeenPasskey(p) \notin W}
  BY <1>1, <1>2, <1>3, <1>4, <1>5, <1>6, DeletedRows DEF CascadeDelete, Without
<1>9. auth_session' = {a \in auth_session : SeenAuthSession(a) \notin W}
  BY <1>1, <1>2, <1>3, <1>4, <1>5, <1>6, DeletedRows DEF CascadeDelete, Without
<1>10. signup_session' = {s \in signup_session : SeenSignup(s) \notin W}
  BY <1>1, <1>2, <1>3, <1>4, <1>5, <1>6, DeletedRows DEF CascadeDelete, Without
<1>11. passkey_signin_attempt' =
         {t \in passkey_signin_attempt : SeenAttempt(t) \notin W}
  BY <1>1, <1>2, <1>3, <1>4, <1>5, <1>6, DeletedRows DEF CascadeDelete, Without
<1>12. email_code_signin_session' =
         {c \in email_code_signin_session : SeenEmailCode(c) \notin W}
  BY <1>1, <1>2, <1>3, <1>4, <1>5, <1>6, DeletedRows DEF CascadeDelete, Without
<1>13. identity_verification_session' =
         {v \in identity_verification_session : SeenVerification(v) \notin W}
  BY <1>1, <1>2, <1>3, <1>4, <1>5, <1>6, DeletedRows DEF CascadeDelete, Without
<1>14. email_address_update_session' =
         {s \in email_address_update_session : SeenUpdate(s) \notin W}
  BY <1>1, <1>2, <1>3, <1>4, <1>5, <1>6, DeletedRows DEF CascadeDelete, Without
<1>15. passkey_registration_session' =
         {s \in passkey_registration_session : SeenRegistration(s) \notin W}
  BY <1>1, <1>2, <1>3, <1>4, <1>5, <1>6, DeletedRows DEF CascadeDelete, Without
<1>16. passkey_deletion_session' =
         {s \in passkey_deletion_session : SeenPasskeyDeletion(s) \notin W}
  BY <1>1, <1>2, <1>3, <1>4, <1>5, <1>6, DeletedRows DEF CascadeDelete, Without
<1>17. account_deletion_session' =
         {s \in account_deletion_session : SeenAccountDeletion(s) \notin W}
  BY <1>1, <1>2, <1>3, <1>4, <1>5, <1>6, DeletedRows DEF CascadeDelete, Without
<1> QED
  BY <1>1, <1>7, <1>8, <1>9, <1>10, <1>11, <1>12, <1>13, <1>14, <1>15, <1>16,
     <1>17, SeenLeft

\* Rows that nothing references end by themselves.
LEMMA EndSeen ==
  ASSUME TypeOK, seen = SeenRows, NEW S \in SUBSET seen,
         UNCHANGED <<user, passkey, auth_session>>,
         \A u \in user : SeenUser(u) \notin S,
         \A a \in auth_session : SeenAuthSession(a) \notin S,
         \A p \in passkey : SeenPasskey(p) \notin S,
         signup_session' = {s \in signup_session : SeenSignup(s) \notin S},
         passkey_signin_attempt' =
           {t \in passkey_signin_attempt : SeenAttempt(t) \notin S},
         email_code_signin_session' =
           {c \in email_code_signin_session : SeenEmailCode(c) \notin S},
         identity_verification_session' =
           {v \in identity_verification_session :
              SeenVerification(v) \notin S},
         email_address_update_session' =
           {s \in email_address_update_session : SeenUpdate(s) \notin S},
         passkey_registration_session' =
           {s \in passkey_registration_session : SeenRegistration(s) \notin S},
         passkey_deletion_session' =
           {s \in passkey_deletion_session : SeenPasskeyDeletion(s) \notin S},
         account_deletion_session' =
           {s \in account_deletion_session : SeenAccountDeletion(s) \notin S}
  PROVE  SeenRows' = seen \ SeenBy!With(SeenBy!With(S))
<1>1. PICK W : W = SeenBy!With(SeenBy!With(S))
  OBVIOUS
<1>2. \A id : /\ ~UserFalls(S, id)
               /\ ~AuthSessionFalls(S, id)
               /\ ~PasskeyFalls(S, id)
  BY DEF UserFalls, AuthSessionFalls, PasskeyFalls
<1>3. user' = {u \in user : SeenUser(u) \notin W}
  BY <1>1, <1>2, DeletedRows
<1>4. passkey' = {p \in passkey : SeenPasskey(p) \notin W}
  BY <1>1, <1>2, DeletedRows
<1>5. auth_session' = {a \in auth_session : SeenAuthSession(a) \notin W}
  BY <1>1, <1>2, DeletedRows
<1>6. signup_session' = {s \in signup_session : SeenSignup(s) \notin W}
  BY <1>1, <1>2, DeletedRows
<1>7. passkey_signin_attempt' =
        {t \in passkey_signin_attempt : SeenAttempt(t) \notin W}
  BY <1>1, <1>2, DeletedRows
<1>8. email_code_signin_session' =
        {c \in email_code_signin_session : SeenEmailCode(c) \notin W}
  BY <1>1, <1>2, DeletedRows
<1>9. identity_verification_session' =
        {v \in identity_verification_session : SeenVerification(v) \notin W}
  BY <1>1, <1>2, DeletedRows
<1>10. email_address_update_session' =
         {s \in email_address_update_session : SeenUpdate(s) \notin W}
  BY <1>1, <1>2, DeletedRows
<1>11. passkey_registration_session' =
         {s \in passkey_registration_session : SeenRegistration(s) \notin W}
  BY <1>1, <1>2, DeletedRows
<1>12. passkey_deletion_session' =
         {s \in passkey_deletion_session : SeenPasskeyDeletion(s) \notin W}
  BY <1>1, <1>2, DeletedRows
<1>13. account_deletion_session' =
         {s \in account_deletion_session : SeenAccountDeletion(s) \notin W}
  BY <1>1, <1>2, DeletedRows
<1> QED
  BY <1>1, <1>3, <1>4, <1>5, <1>6, <1>7, <1>8, <1>9, <1>10, <1>11, <1>12,
     <1>13, SeenLeft

-----------------------------------------------------------------------------
(* The steps of Sessions. *)

\* A sign-up or a passkey sign-in starts.
LEMMA CreatesSession ==
  ASSUME NEW t \in {"signup_session", "passkey_signin_attempt"},
         NEW key \in SeenBy!NewKeys(t), SeenBy!createSession(key)
  PROVE  SeenBy!SessionsNext
BY DEF SeenBy!SessionsNext, SeenBy!SessionStep

\* An email code sign-in starts.
LEMMA CreatesEmailCode ==
  ASSUME NEW u \in SeenBy!RowsIn("user"),
         NEW key \in SeenBy!NewKeys("email_code_signin_session"),
         SeenBy!createEmailCodeSigninSession(key, u)
  PROVE  SeenBy!SessionsNext
BY DEF SeenBy!SessionsNext, SeenBy!SessionStep

\* A verifying action starts.
LEMMA CreatesVerifyingSession ==
  ASSUME NEW t \in SeenBy!VerifyingTables,
         NEW auth \in SeenBy!RowsIn("auth_session"),
         NEW key \in SeenBy!NewKeys(t),
         NEW v \in SeenBy!NewKeys("identity_verification_session"),
         NEW about \in IF t = "passkey_deletion_session"
                       THEN SeenBy!Keys(SeenBy!RowsIn("passkey")) ELSE {Null},
         SeenBy!createVerifyingSession(key, v, auth, about)
  PROVE  SeenBy!SessionsNext
BY DEF SeenBy!SessionsNext, SeenBy!SessionStep

\* A sign-up's address is verified.
LEMMA SetsVerified ==
  ASSUME NEW s \in SeenBy!RowsIn("signup_session"), SeenBy!setVerified(s)
  PROVE  SeenBy!SessionsNext
BY DEF SeenBy!SessionsNext, SeenBy!SessionStep

\* A sign-up without a passkey ends.
LEMMA CompletesSignupPlain ==
  ASSUME NEW s \in SeenBy!RowsIn("signup_session"),
         NEW u \in SeenBy!NewKeys("user"),
         NEW auth \in SeenBy!NewKeys("auth_session"),
         SeenBy!completeSignup(s, u, auth, {})
  PROVE  SeenBy!SessionsNext
BY DEF SeenBy!SessionsNext, SeenBy!SessionStep

\* A sign-up with a passkey ends.
LEMMA CompletesSignupPasskey ==
  ASSUME NEW s \in SeenBy!RowsIn("signup_session"),
         NEW u \in SeenBy!NewKeys("user"),
         NEW auth \in SeenBy!NewKeys("auth_session"),
         NEW p \in SeenBy!NewKeys("passkey"),
         SeenBy!completeSignup(s, u, auth, {p})
  PROVE  SeenBy!SessionsNext
BY DEF SeenBy!SessionsNext, SeenBy!SessionStep

\* The column that a flow waits for is set.
LEMMA Fills ==
  ASSUME NEW t \in {"signup_session", "email_address_update_session",
                    "passkey_registration_session"},
         NEW s \in SeenBy!RowsIn(t), SeenBy!fill(s)
  PROVE  SeenBy!SessionsNext
BY DEF SeenBy!SessionsNext, SeenBy!SessionStep

\* A session is given up.
LEMMA DeletesSession ==
  ASSUME NEW s \in seen, s.key[1] # "user", s.key[1] # "passkey",
         SeenBy!deleteSession(s)
  PROVE  SeenBy!SessionsNext
BY DEF SeenBy!SessionsNext, SeenBy!SessionStep, SeenBy!RowsIn

\* A code of an identity verification is issued or revoked.
LEMMA SetsEmailCode ==
  ASSUME NEW v \in SeenBy!RowsIn("identity_verification_session"),
         NEW to \in BOOLEAN, SeenBy!setEmailCode(v, to)
  PROVE  SeenBy!SessionsNext
BY DEF SeenBy!SessionsNext, SeenBy!SessionStep

\* An identity verification ends.
LEMMA CompletesVerification ==
  ASSUME NEW v \in SeenBy!RowsIn("identity_verification_session"),
         SeenBy!completeIdentityVerification(v)
  PROVE  SeenBy!SessionsNext
BY DEF SeenBy!SessionsNext, SeenBy!SessionStep

\* A sign-in ends.
LEMMA CompletesSignin ==
  ASSUME NEW u \in SeenBy!RowsIn("user"),
         NEW auth \in SeenBy!NewKeys("auth_session"),
         NEW s \in SeenBy!RowsIn("passkey_signin_attempt")
                     \union SeenBy!RowsIn("email_code_signin_session"),
         SeenBy!completeSignin(s, u, auth)
  PROVE  SeenBy!SessionsNext
BY DEF SeenBy!SessionsNext, SeenBy!SessionStep

\* An email address update ends.
LEMMA CompletesUpdate ==
  ASSUME NEW s \in SeenBy!RowsIn("email_address_update_session"),
         SeenBy!completeEmailAddressUpdate(s)
  PROVE  SeenBy!SessionsNext
BY DEF SeenBy!SessionsNext, SeenBy!SessionStep

\* A passkey registration ends.
LEMMA CompletesRegistration ==
  ASSUME NEW s \in SeenBy!RowsIn("passkey_registration_session"),
         NEW p \in SeenBy!NewKeys("passkey"),
         SeenBy!completePasskeyRegistration(s, p)
  PROVE  SeenBy!SessionsNext
BY DEF SeenBy!SessionsNext, SeenBy!SessionStep

\* A passkey deletion ends.
LEMMA CompletesPasskeyDeletion ==
  ASSUME NEW s \in SeenBy!RowsIn("passkey_deletion_session"),
         SeenBy!completePasskeyDeletion(s)
  PROVE  SeenBy!SessionsNext
BY DEF SeenBy!SessionsNext, SeenBy!SessionStep

\* An account deletion ends.
LEMMA CompletesAccountDeletion ==
  ASSUME NEW s \in SeenBy!RowsIn("account_deletion_session"),
         SeenBy!completeAccountDeletion(s)
  PROVE  SeenBy!SessionsNext
BY DEF SeenBy!SessionsNext, SeenBy!SessionStep

-----------------------------------------------------------------------------

\* No counter has given out an id that Sessions does not have.
IssuedKnown == \A c \in Counters : 1..issued[c] \subseteq IdsIssued

\* The initial accounts have ids of Sessions.
LEMMA InitIssued == Init => IssuedKnown
<1> SUFFICES ASSUME Init, NEW c \in Counters
             PROVE  1..issued[c] \subseteq IdsIssued
  BY DEF IssuedKnown
<1>1. Len(InitialAccounts) \in Nat
      /\ DOMAIN InitialAccounts = 1..Len(InitialAccounts)
  BY InitialAccountsAssumption
<1>2. issued[c] = Len(InitialAccounts) \/ issued[c] = 0
  BY DEF Init
<1>3. 1..0 = {}
  OBVIOUS
<1> QED
  BY <1>1, <1>2, <1>3 DEF IdsIssued

\* A transaction draws no id beyond the bound, MaxIssued.
LEMMA IssueKnown ==
  ASSUME TypeOK, IssuedKnown, NEW C \in SUBSET Counters, Issue(C)
  PROVE  IssuedKnown'
<1> SUFFICES ASSUME NEW c \in Counters
             PROVE  1..issued'[c] \subseteq IdsIssued
  BY DEF IssuedKnown
<1>1. CASE c \in C
  <2>1. issued'[c] = issued[c] + 1 /\ issued[c] < MaxIssued[c]
    BY <1>1 DEF Issue
  <2>2. issued[c] \in Nat /\ MaxIssued[c] \in Nat
    BY MaxIssuedAssumption DEF TypeOK
  <2>3. 1..issued'[c] \subseteq 1..MaxIssued[c]
    BY <2>1, <2>2
  <2> QED
    BY <2>3 DEF IdsIssued
<1>2. CASE c \notin C
  BY <1>2 DEF Issue, IssuedKnown
<1> QED
  BY <1>1, <1>2

\* Every step keeps the ids within the bound.
LEMMA NextIssued ==
  ASSUME TypeOK, IssuedKnown, [Next]_vars
  PROVE  IssuedKnown'
<1>1. UNCHANGED issued => IssuedKnown'
  BY DEF IssuedKnown
<1> QED
  BY <1>1, IssuedSteps, IssueKnown

\* A key that no row seen of its table has is new.
LEMMA FreshKey ==
  ASSUME NEW table, NEW i \in IdsIssued,
         \A x \in SeenBy!RowsIn(table) : x.key # KeyOf(table, i)
  PROVE  KeyOf(table, i) \in SeenBy!NewKeys(table)
BY DEF SeenBy!NewKeys, SeenBy!Keys, SeenBy!RowsIn, KeyOf

\* An id that no row of the table has makes a key that no seen row has.
LEMMA FreshKeys ==
  ASSUME seen = SeenRows, NEW i \in IdsIssued
  PROVE  /\ ~HasRow(user, i) =>
              KeyOf("user", i)
                \in SeenBy!NewKeys("user")
         /\ ~HasRow(passkey, i) =>
              KeyOf("passkey", i)
                \in SeenBy!NewKeys("passkey")
         /\ ~HasRow(auth_session, i) =>
              KeyOf("auth_session", i)
                \in SeenBy!NewKeys("auth_session")
         /\ ~HasRow(signup_session, i) =>
              KeyOf("signup_session", i)
                \in SeenBy!NewKeys("signup_session")
         /\ ~HasRow(passkey_signin_attempt, i) =>
              KeyOf("passkey_signin_attempt", i)
                \in SeenBy!NewKeys("passkey_signin_attempt")
         /\ ~HasRow(email_code_signin_session, i) =>
              KeyOf("email_code_signin_session", i)
                \in SeenBy!NewKeys("email_code_signin_session")
         /\ ~HasRow(identity_verification_session, i) =>
              KeyOf("identity_verification_session", i)
                \in SeenBy!NewKeys("identity_verification_session")
         /\ ~HasRow(email_address_update_session, i) =>
              KeyOf("email_address_update_session", i)
                \in SeenBy!NewKeys("email_address_update_session")
         /\ ~HasRow(passkey_registration_session, i) =>
              KeyOf("passkey_registration_session", i)
                \in SeenBy!NewKeys("passkey_registration_session")
         /\ ~HasRow(passkey_deletion_session, i) =>
              KeyOf("passkey_deletion_session", i)
                \in SeenBy!NewKeys("passkey_deletion_session")
         /\ ~HasRow(account_deletion_session, i) =>
              KeyOf("account_deletion_session", i)
                \in SeenBy!NewKeys("account_deletion_session")
<1>1. ASSUME ~HasRow(user, i)
      PROVE  KeyOf("user", i)
               \in SeenBy!NewKeys("user")
  <2>1. \A x \in SeenUsers : x.key # KeyOf("user", i)
    BY <1>1 DEF SeenUsers, SeenUser, Seen, KeyOf, HasRow
  <2> QED
    BY <2>1, FreshKey, SeenRowsIn
<1>2. ASSUME ~HasRow(passkey, i)
      PROVE  KeyOf("passkey", i)
               \in SeenBy!NewKeys("passkey")
  <2>1. \A x \in SeenPasskeys : x.key # KeyOf("passkey", i)
    BY <1>2 DEF SeenPasskeys, SeenPasskey, Seen, KeyOf, HasRow
  <2> QED
    BY <2>1, FreshKey, SeenRowsIn
<1>3. ASSUME ~HasRow(auth_session, i)
      PROVE  KeyOf("auth_session", i)
               \in SeenBy!NewKeys("auth_session")
  <2>1. \A x \in SeenAuthSessions : x.key # KeyOf("auth_session", i)
    BY <1>3 DEF SeenAuthSessions, SeenAuthSession, Seen, KeyOf, HasRow
  <2> QED
    BY <2>1, FreshKey, SeenRowsIn
<1>4. ASSUME ~HasRow(signup_session, i)
      PROVE  KeyOf("signup_session", i)
               \in SeenBy!NewKeys("signup_session")
  <2>1. \A x \in SeenSignups : x.key # KeyOf("signup_session", i)
    BY <1>4 DEF SeenSignups, SeenSignup, Seen, KeyOf, HasRow
  <2> QED
    BY <2>1, FreshKey, SeenRowsIn
<1>5. ASSUME ~HasRow(passkey_signin_attempt, i)
      PROVE  KeyOf("passkey_signin_attempt", i)
               \in SeenBy!NewKeys("passkey_signin_attempt")
  <2>1. \A x \in SeenAttempts : x.key # KeyOf("passkey_signin_attempt", i)
    BY <1>5 DEF SeenAttempts, SeenAttempt, Seen, KeyOf, HasRow
  <2> QED
    BY <2>1, FreshKey, SeenRowsIn
<1>6. ASSUME ~HasRow(email_code_signin_session, i)
      PROVE  KeyOf("email_code_signin_session", i)
               \in SeenBy!NewKeys("email_code_signin_session")
  <2>1. \A x \in SeenEmailCodes : x.key # KeyOf("email_code_signin_session", i)
    BY <1>6 DEF SeenEmailCodes, SeenEmailCode, Seen, KeyOf, HasRow
  <2> QED
    BY <2>1, FreshKey, SeenRowsIn
<1>7. ASSUME ~HasRow(identity_verification_session, i)
      PROVE  KeyOf("identity_verification_session", i)
               \in SeenBy!NewKeys("identity_verification_session")
  <2>1. \A x \in SeenVerifications : x.key
            # KeyOf("identity_verification_session", i)
    BY <1>7 DEF SeenVerifications, SeenVerification, Seen, KeyOf, HasRow
  <2> QED
    BY <2>1, FreshKey, SeenRowsIn
<1>8. ASSUME ~HasRow(email_address_update_session, i)
      PROVE  KeyOf("email_address_update_session", i)
               \in SeenBy!NewKeys("email_address_update_session")
  <2>1. \A x \in SeenUpdates : x.key # KeyOf("email_address_update_session", i)
    BY <1>8 DEF SeenUpdates, SeenUpdate, Seen, KeyOf, HasRow
  <2> QED
    BY <2>1, FreshKey, SeenRowsIn
<1>9. ASSUME ~HasRow(passkey_registration_session, i)
      PROVE  KeyOf("passkey_registration_session", i)
               \in SeenBy!NewKeys("passkey_registration_session")
  <2>1. \A x \in SeenRegistrations : x.key
            # KeyOf("passkey_registration_session", i)
    BY <1>9 DEF SeenRegistrations, SeenRegistration, Seen, KeyOf, HasRow
  <2> QED
    BY <2>1, FreshKey, SeenRowsIn
<1>10. ASSUME ~HasRow(passkey_deletion_session, i)
      PROVE  KeyOf("passkey_deletion_session", i)
               \in SeenBy!NewKeys("passkey_deletion_session")
  <2>1. \A x \in SeenPasskeyDeletions : x.key
            # KeyOf("passkey_deletion_session", i)
    BY <1>10 DEF SeenPasskeyDeletions, SeenPasskeyDeletion, Seen, KeyOf, HasRow
  <2> QED
    BY <2>1, FreshKey, SeenRowsIn
<1>11. ASSUME ~HasRow(account_deletion_session, i)
      PROVE  KeyOf("account_deletion_session", i)
               \in SeenBy!NewKeys("account_deletion_session")
  <2>1. \A x \in SeenAccountDeletions : x.key
            # KeyOf("account_deletion_session", i)
    BY <1>11 DEF SeenAccountDeletions, SeenAccountDeletion, Seen, KeyOf, HasRow
  <2> QED
    BY <2>1, FreshKey, SeenRowsIn
<1> QED
  BY <1>1, <1>2, <1>3, <1>4, <1>5, <1>6, <1>7, <1>8, <1>9, <1>10, <1>11

\* The ids that a transaction draws are Sessions' ids, and no row has them.
LEMMA IdsDrawn ==
  ASSUME TypeOK, NEW C \in SUBSET Counters, Issue(C)
  PROVE  /\ \A c \in C : NewId(c) \in IdsIssued
         /\ ~HasRow(passkey, NewId("passkey"))
         /\ ~HasRow(auth_session, NewId("auth_session"))
         /\ ~HasRow(signup_session, NewId("signup_session"))
         /\ ~HasRow(passkey_signin_attempt, NewId("signin"))
         /\ ~HasRow(email_code_signin_session, NewId("signin"))
         /\ ~HasRow(identity_verification_session, NewId("verifying_action"))
         /\ ~HasRow(email_address_update_session, NewId("verifying_action"))
         /\ ~HasRow(passkey_registration_session, NewId("verifying_action"))
         /\ ~HasRow(passkey_deletion_session, NewId("verifying_action"))
         /\ ~HasRow(account_deletion_session, NewId("verifying_action"))
<1>1. \A c \in C : NewId(c) \in 1..MaxIssued[c]
  BY MaxIssuedAssumption DEF TypeOK, Issue, NewId
<1>2. \A c \in C : NewId(c) \in IdsIssued
  BY <1>1 DEF IdsIssued
<1>3. \A rows, Row, n : n \in Nat /\ TableOK(rows, Row, n) =>
        ~HasRow(rows, n + 1)
  BY DEF TableOK, HasRow
<1>4. \A c \in Counters : issued[c] \in Nat
  BY DEF TypeOK
<1> QED
  BY <1>2, <1>3, <1>4 DEF TypeOK, TablesOK, NewId, Counters

-----------------------------------------------------------------------------
(* The end of a session before its flow is over. *)

\* What holds of a state that Sessions sees.
SeenInv ==
  /\ TypeOK
  /\ ReferentialIntegrity
  /\ PasskeyCounts
  /\ IssuedKnown
  /\ seen = SeenRows

\* The first part of the key of each seen row.
LEMMA SeenFirst ==
  /\ \A u : SeenUser(u).key[1] = "user"
  /\ \A p : SeenPasskey(p).key[1] = "passkey"
  /\ \A a : SeenAuthSession(a).key[1] = "auth_session"
  /\ \A s : SeenSignup(s).key[1] = "signup_session"
  /\ \A t : SeenAttempt(t).key[1] = "passkey_signin_attempt"
  /\ \A c : SeenEmailCode(c).key[1] = "email_code_signin_session"
  /\ \A v : SeenVerification(v).key[1] = "identity_verification_session"
  /\ \A s : SeenUpdate(s).key[1] = "email_address_update_session"
  /\ \A s : SeenRegistration(s).key[1] = "passkey_registration_session"
  /\ \A s : SeenPasskeyDeletion(s).key[1] = "passkey_deletion_session"
  /\ \A s : SeenAccountDeletion(s).key[1] = "account_deletion_session"
BY DEF SeenUser, SeenPasskey, SeenAuthSession, SeenSignup, SeenAttempt,
       SeenEmailCode, SeenVerification, SeenUpdate, SeenRegistration,
       SeenPasskeyDeletion, SeenAccountDeletion, Seen, KeyOf

\* Rows S of other tables are none of a table's rows.
LEMMA NotAmong ==
  ASSUME NEW S
  PROVE  /\ (\A x \in S : x.key[1] # "user") =>
              \A u : SeenUser(u) \notin S
         /\ (\A x \in S : x.key[1] # "passkey") =>
              \A p : SeenPasskey(p) \notin S
         /\ (\A x \in S : x.key[1] # "auth_session") =>
              \A a : SeenAuthSession(a) \notin S
         /\ (\A x \in S : x.key[1] # "signup_session") =>
              \A s : SeenSignup(s) \notin S
         /\ (\A x \in S : x.key[1] # "passkey_signin_attempt") =>
              \A t : SeenAttempt(t) \notin S
         /\ (\A x \in S : x.key[1] # "email_code_signin_session") =>
              \A c : SeenEmailCode(c) \notin S
         /\ (\A x \in S : x.key[1] # "identity_verification_session") =>
              \A v : SeenVerification(v) \notin S
         /\ (\A x \in S : x.key[1] # "email_address_update_session") =>
              \A s : SeenUpdate(s) \notin S
         /\ (\A x \in S : x.key[1] # "passkey_registration_session") =>
              \A s : SeenRegistration(s) \notin S
         /\ (\A x \in S : x.key[1] # "passkey_deletion_session") =>
              \A s : SeenPasskeyDeletion(s) \notin S
         /\ (\A x \in S : x.key[1] # "account_deletion_session") =>
              \A s : SeenAccountDeletion(s) \notin S
BY SeenFirst

\* One seen row for each row.
LEMMA SeenOnce ==
  ASSUME TypeOK
  PROVE  /\ \A v, w \in user :
              v.id = w.id <=> SeenUser(v) = SeenUser(w)
         /\ \A v, w \in passkey :
              v.id = w.id <=> SeenPasskey(v) = SeenPasskey(w)
         /\ \A v, w \in auth_session :
              v.id = w.id <=> SeenAuthSession(v) = SeenAuthSession(w)
         /\ \A v, w \in signup_session :
              v.id = w.id <=> SeenSignup(v) = SeenSignup(w)
         /\ \A v, w \in passkey_signin_attempt :
              v.id = w.id <=> SeenAttempt(v) = SeenAttempt(w)
         /\ \A v, w \in email_code_signin_session :
              v.id = w.id <=> SeenEmailCode(v) = SeenEmailCode(w)
         /\ \A v, w \in identity_verification_session :
              v.id = w.id <=> SeenVerification(v) = SeenVerification(w)
         /\ \A v, w \in email_address_update_session :
              v.id = w.id <=> SeenUpdate(v) = SeenUpdate(w)
         /\ \A v, w \in passkey_registration_session :
              v.id = w.id <=> SeenRegistration(v) = SeenRegistration(w)
         /\ \A v, w \in passkey_deletion_session :
              v.id = w.id <=> SeenPasskeyDeletion(v) = SeenPasskeyDeletion(w)
         /\ \A v, w \in account_deletion_session :
              v.id = w.id <=> SeenAccountDeletion(v) = SeenAccountDeletion(w)
<1>1. \A v, w \in user : v.id = w.id <=> SeenUser(v) = SeenUser(w)
  <2>1. \A v, w \in user : v.id = w.id => v = w
    BY DEF TypeOK, TablesOK, TableOK
  <2>2. \A v, w : SeenUser(v) = SeenUser(w) => v.id = w.id
    BY DEF SeenUser, Seen, KeyOf
  <2> QED
    BY <2>1, <2>2
<1>2. \A v, w \in passkey : v.id = w.id <=> SeenPasskey(v) = SeenPasskey(w)
  <2>1. \A v, w \in passkey : v.id = w.id => v = w
    BY DEF TypeOK, TablesOK, TableOK
  <2>2. \A v, w : SeenPasskey(v) = SeenPasskey(w) => v.id = w.id
    BY DEF SeenPasskey, Seen, KeyOf
  <2> QED
    BY <2>1, <2>2
<1>3. \A v, w \in auth_session : v.id = w.id <=>
        SeenAuthSession(v) = SeenAuthSession(w)
  <2>1. \A v, w \in auth_session : v.id = w.id => v = w
    BY DEF TypeOK, TablesOK, TableOK
  <2>2. \A v, w : SeenAuthSession(v) = SeenAuthSession(w) => v.id = w.id
    BY DEF SeenAuthSession, Seen, KeyOf
  <2> QED
    BY <2>1, <2>2
<1>4. \A v, w \in signup_session : v.id = w.id <=>
        SeenSignup(v) = SeenSignup(w)
  <2>1. \A v, w \in signup_session : v.id = w.id => v = w
    BY DEF TypeOK, TablesOK, TableOK
  <2>2. \A v, w : SeenSignup(v) = SeenSignup(w) => v.id = w.id
    BY DEF SeenSignup, Seen, KeyOf
  <2> QED
    BY <2>1, <2>2
<1>5. \A v, w \in passkey_signin_attempt : v.id = w.id <=>
        SeenAttempt(v) = SeenAttempt(w)
  <2>1. \A v, w \in passkey_signin_attempt : v.id = w.id => v = w
    BY DEF TypeOK, TablesOK, TableOK
  <2>2. \A v, w : SeenAttempt(v) = SeenAttempt(w) => v.id = w.id
    BY DEF SeenAttempt, Seen, KeyOf
  <2> QED
    BY <2>1, <2>2
<1>6. \A v, w \in email_code_signin_session : v.id = w.id <=>
        SeenEmailCode(v) = SeenEmailCode(w)
  <2>1. \A v, w \in email_code_signin_session : v.id = w.id => v = w
    BY DEF TypeOK, TablesOK, TableOK
  <2>2. \A v, w : SeenEmailCode(v) = SeenEmailCode(w) => v.id = w.id
    BY DEF SeenEmailCode, Seen, KeyOf
  <2> QED
    BY <2>1, <2>2
<1>7. \A v, w \in identity_verification_session : v.id = w.id <=>
        SeenVerification(v) = SeenVerification(w)
  <2>1. \A v, w \in identity_verification_session : v.id = w.id => v = w
    BY DEF TypeOK, TablesOK, TableOK
  <2>2. \A v, w : SeenVerification(v) = SeenVerification(w) => v.id = w.id
    BY DEF SeenVerification, Seen, KeyOf
  <2> QED
    BY <2>1, <2>2
<1>8. \A v, w \in email_address_update_session : v.id = w.id <=>
        SeenUpdate(v) = SeenUpdate(w)
  <2>1. \A v, w \in email_address_update_session : v.id = w.id => v = w
    BY DEF TypeOK, TablesOK, TableOK
  <2>2. \A v, w : SeenUpdate(v) = SeenUpdate(w) => v.id = w.id
    BY DEF SeenUpdate, Seen, KeyOf
  <2> QED
    BY <2>1, <2>2
<1>9. \A v, w \in passkey_registration_session : v.id = w.id <=>
        SeenRegistration(v) = SeenRegistration(w)
  <2>1. \A v, w \in passkey_registration_session : v.id = w.id => v = w
    BY DEF TypeOK, TablesOK, TableOK
  <2>2. \A v, w : SeenRegistration(v) = SeenRegistration(w) => v.id = w.id
    BY DEF SeenRegistration, Seen, KeyOf
  <2> QED
    BY <2>1, <2>2
<1>10. \A v, w \in passkey_deletion_session : v.id = w.id <=>
         SeenPasskeyDeletion(v) = SeenPasskeyDeletion(w)
  <2>1. \A v, w \in passkey_deletion_session : v.id = w.id => v = w
    BY DEF TypeOK, TablesOK, TableOK
  <2>2. \A v, w : SeenPasskeyDeletion(v) = SeenPasskeyDeletion(w) =>
          v.id = w.id
    BY DEF SeenPasskeyDeletion, Seen, KeyOf
  <2> QED
    BY <2>1, <2>2
<1>11. \A v, w \in account_deletion_session : v.id = w.id <=>
         SeenAccountDeletion(v) = SeenAccountDeletion(w)
  <2>1. \A v, w \in account_deletion_session : v.id = w.id => v = w
    BY DEF TypeOK, TablesOK, TableOK
  <2>2. \A v, w : SeenAccountDeletion(v) = SeenAccountDeletion(w) =>
          v.id = w.id
    BY DEF SeenAccountDeletion, Seen, KeyOf
  <2> QED
    BY <2>1, <2>2
<1> QED
  BY <1>1, <1>2, <1>3, <1>4, <1>5, <1>6, <1>7, <1>8, <1>9, <1>10, <1>11

\* Which seen verifications are about the session id of a verifying action.
LEMMA SeenAbout ==
  ASSUME TypeOK, NEW v \in identity_verification_session, NEW id
  PROVE  /\ SeenVerification(v).about
                = KeyOf("email_address_update_session", id)
              <=> /\ v.verifying_action = "email_address_update"
                  /\ v.verifying_action_id = id
         /\ SeenVerification(v).about
                = KeyOf("passkey_registration_session", id)
              <=> /\ v.verifying_action = "passkey_registration"
                  /\ v.verifying_action_id = id
         /\ SeenVerification(v).about = KeyOf("passkey_deletion_session", id)
              <=> /\ v.verifying_action = "passkey_deletion"
                  /\ v.verifying_action_id = id
         /\ SeenVerification(v).about = KeyOf("account_deletion_session", id)
              <=> /\ v.verifying_action = "account_deletion"
                  /\ v.verifying_action_id = id
<1>1. v.verifying_action \in VerifyingActions
  BY Columns DEF IdentityVerificationSessionRow
<1>2. SeenVerification(v).about
        = KeyOf(SessionTable(v.verifying_action), v.verifying_action_id)
  BY DEF SeenVerification, Seen
<1>3. /\ SessionTable("email_address_update") = "email_address_update_session"
      /\ SessionTable("passkey_registration") = "passkey_registration_session"
      /\ SessionTable("passkey_deletion") = "passkey_deletion_session"
      /\ SessionTable("account_deletion") = "account_deletion_session"
  BY DEF SessionTable
<1> QED
  BY <1>1, <1>2, <1>3 DEF VerifyingActions, KeyOf

\* A session of no verifying action has no identity verifications.
LEMMA NoVerificationsOf ==
  ASSUME TypeOK, seen = SeenRows, NEW x,
         x.key[1] \notin SeenBy!VerifyingTables
  PROVE  SeenBy!VerificationsOf(x) = {}
<1>1. ASSUME NEW v \in identity_verification_session
      PROVE  SeenVerification(v).about[1] \in SeenBy!VerifyingTables
  <2>1. v.verifying_action \in VerifyingActions
    BY Columns DEF IdentityVerificationSessionRow
  <2> QED
    BY <2>1 DEF SeenVerification, Seen, KeyOf, VerifyingActions, SessionTable,
       SeenBy!VerifyingTables
<1> QED
  BY <1>1, SeenRowsIn DEF SeenBy!VerificationsOf, SeenVerifications

\* deleteEmailAddressUpdateSession is deleteSession of Sessions: the
\* identity verifications of the session go with it.
LEMMA CancelUpdateSeen ==
  ASSUME SeenInv, seen' = SeenRows', NEW id,
         deleteEmailAddressUpdateSession(id)
  PROVE  SeenBy!SessionsNext
<1> USE DEF SeenInv
<1>1. PICK s \in email_address_update_session : s.id = id
  BY DEF deleteEmailAddressUpdateSession, HasRow
<1>2. PICK x : x = SeenUpdate(s)
  OBVIOUS
<1>3. /\ x \in seen
      /\ x.key = KeyOf("email_address_update_session", id)
      /\ x.key[1] = "email_address_update_session"
  BY <1>1, <1>2, SeenKeys, SeenFirst DEF SeenRows
<1>4. PICK V : V = SeenBy!VerificationsOf(x)
  OBVIOUS
<1>5. V = {y \in SeenVerifications : y.about = x.key}
  BY <1>4, SeenRowsIn DEF SeenBy!VerificationsOf
<1>6. PICK S : S = {x} \union V
  OBVIOUS
<1>7. S \subseteq seen
  BY <1>3, <1>5, <1>6, SeenTables
<1>8. \A y \in S : y.key[1] \in {"email_address_update_session",
                                "identity_verification_session"}
  BY <1>3, <1>5, <1>6, SeenApart
<1>9. email_address_update_session' =
        {q \in email_address_update_session : SeenUpdate(q) \notin S}
  <2>1. \A q \in email_address_update_session : SeenUpdate(q) \notin V
    BY <1>5, SeenApart, SeenFirst
  <2> QED
    BY <1>1, <1>2, <1>6, <2>1, SeenOnce
    DEF deleteEmailAddressUpdateSession, WithoutRow
<1>10. identity_verification_session' =
         {v \in identity_verification_session : SeenVerification(v) \notin S}
  <2>1. \A v \in identity_verification_session : SeenVerification(v) \in S
          <=>
            SeenVerification(v).about = KeyOf("email_address_update_session", id)
    BY <1>3, <1>5, <1>6, SeenFirst DEF SeenVerifications
  <2> QED
    BY <2>1, SeenAbout
    DEF deleteEmailAddressUpdateSession, DeleteVerificationsOf
<1>11. UNCHANGED <<user, passkey, auth_session, signup_session,
                   passkey_signin_attempt, email_code_signin_session,
                   passkey_registration_session, passkey_deletion_session,
                   account_deletion_session>>
  BY DEF deleteEmailAddressUpdateSession, emailAddressUpdateLeaves,
         passkeyRegistrationLeaves,
     accountTables, signinTables
<1>12. /\ \A w : SeenUser(w) \notin S
       /\ \A w : SeenPasskey(w) \notin S
       /\ \A w : SeenAuthSession(w) \notin S
       /\ \A w : SeenSignup(w) \notin S
       /\ \A w : SeenAttempt(w) \notin S
       /\ \A w : SeenEmailCode(w) \notin S
       /\ \A w : SeenRegistration(w) \notin S
       /\ \A w : SeenPasskeyDeletion(w) \notin S
       /\ \A w : SeenAccountDeletion(w) \notin S
  BY <1>8, NotAmong
<1>13. SeenRows' = seen \ SeenBy!With(SeenBy!With(S))
  BY <1>7, <1>9, <1>10, <1>11, <1>12, EndSeen
<1>14. SeenBy!deleteSession(x)
  BY <1>4, <1>6, <1>13 DEF SeenBy!deleteSession, SeenBy!Delete
<1> QED
  BY <1>3, <1>14, DeletesSession

\* So is deletePasskeyRegistrationSession.
LEMMA CancelRegistrationSeen ==
  ASSUME SeenInv, seen' = SeenRows', NEW id,
         deletePasskeyRegistrationSession(id)
  PROVE  SeenBy!SessionsNext
<1> USE DEF SeenInv
<1>1. PICK s \in passkey_registration_session : s.id = id
  BY DEF deletePasskeyRegistrationSession, HasRow
<1>2. PICK x : x = SeenRegistration(s)
  OBVIOUS
<1>3. /\ x \in seen
      /\ x.key = KeyOf("passkey_registration_session", id)
      /\ x.key[1] = "passkey_registration_session"
  BY <1>1, <1>2, SeenKeys, SeenFirst DEF SeenRows
<1>4. PICK V : V = SeenBy!VerificationsOf(x)
  OBVIOUS
<1>5. V = {y \in SeenVerifications : y.about = x.key}
  BY <1>4, SeenRowsIn DEF SeenBy!VerificationsOf
<1>6. PICK S : S = {x} \union V
  OBVIOUS
<1>7. S \subseteq seen
  BY <1>3, <1>5, <1>6, SeenTables
<1>8. \A y \in S : y.key[1] \in {"passkey_registration_session",
                                "identity_verification_session"}
  BY <1>3, <1>5, <1>6, SeenApart
<1>9. passkey_registration_session' =
        {q \in passkey_registration_session : SeenRegistration(q) \notin S}
  <2>1. \A q \in passkey_registration_session : SeenRegistration(q) \notin V
    BY <1>5, SeenApart, SeenFirst
  <2> QED
    BY <1>1, <1>2, <1>6, <2>1, SeenOnce
    DEF deletePasskeyRegistrationSession, WithoutRow
<1>10. identity_verification_session' =
         {v \in identity_verification_session : SeenVerification(v) \notin S}
  <2>1. \A v \in identity_verification_session : SeenVerification(v) \in S
          <=>
            SeenVerification(v).about = KeyOf("passkey_registration_session", id)
    BY <1>3, <1>5, <1>6, SeenFirst DEF SeenVerifications
  <2> QED
    BY <2>1, SeenAbout
    DEF deletePasskeyRegistrationSession, DeleteVerificationsOf
<1>11. UNCHANGED <<user, passkey, auth_session, signup_session,
                   passkey_signin_attempt, email_code_signin_session,
                   email_address_update_session, passkey_deletion_session,
                   account_deletion_session>>
  BY DEF deletePasskeyRegistrationSession, emailAddressUpdateLeaves,
         passkeyRegistrationLeaves,
     accountTables, signinTables
<1>12. /\ \A w : SeenUser(w) \notin S
       /\ \A w : SeenPasskey(w) \notin S
       /\ \A w : SeenAuthSession(w) \notin S
       /\ \A w : SeenSignup(w) \notin S
       /\ \A w : SeenAttempt(w) \notin S
       /\ \A w : SeenEmailCode(w) \notin S
       /\ \A w : SeenUpdate(w) \notin S
       /\ \A w : SeenPasskeyDeletion(w) \notin S
       /\ \A w : SeenAccountDeletion(w) \notin S
  BY <1>8, NotAmong
<1>13. SeenRows' = seen \ SeenBy!With(SeenBy!With(S))
  BY <1>7, <1>9, <1>10, <1>11, <1>12, EndSeen
<1>14. SeenBy!deleteSession(x)
  BY <1>4, <1>6, <1>13 DEF SeenBy!deleteSession, SeenBy!Delete
<1> QED
  BY <1>3, <1>14, DeletesSession

\* So is deletePasskeyDeletionSession.
LEMMA CancelDeletionSeen ==
  ASSUME SeenInv, seen' = SeenRows', NEW id, deletePasskeyDeletionSession(id)
  PROVE  SeenBy!SessionsNext
<1> USE DEF SeenInv
<1>1. PICK s \in passkey_deletion_session : s.id = id
  BY DEF deletePasskeyDeletionSession, HasRow
<1>2. PICK x : x = SeenPasskeyDeletion(s)
  OBVIOUS
<1>3. /\ x \in seen
      /\ x.key = KeyOf("passkey_deletion_session", id)
      /\ x.key[1] = "passkey_deletion_session"
  BY <1>1, <1>2, SeenKeys, SeenFirst DEF SeenRows
<1>4. PICK V : V = SeenBy!VerificationsOf(x)
  OBVIOUS
<1>5. V = {y \in SeenVerifications : y.about = x.key}
  BY <1>4, SeenRowsIn DEF SeenBy!VerificationsOf
<1>6. PICK S : S = {x} \union V
  OBVIOUS
<1>7. S \subseteq seen
  BY <1>3, <1>5, <1>6, SeenTables
<1>8. \A y \in S : y.key[1] \in {"passkey_deletion_session",
                                "identity_verification_session"}
  BY <1>3, <1>5, <1>6, SeenApart
<1>9. passkey_deletion_session' =
        {q \in passkey_deletion_session : SeenPasskeyDeletion(q) \notin S}
  <2>1. \A q \in passkey_deletion_session : SeenPasskeyDeletion(q) \notin V
    BY <1>5, SeenApart, SeenFirst
  <2> QED
    BY <1>1, <1>2, <1>6, <2>1, SeenOnce
    DEF deletePasskeyDeletionSession, WithoutRow
<1>10. identity_verification_session' =
         {v \in identity_verification_session : SeenVerification(v) \notin S}
  <2>1. \A v \in identity_verification_session : SeenVerification(v) \in S
          <=> SeenVerification(v).about = KeyOf("passkey_deletion_session", id)
    BY <1>3, <1>5, <1>6, SeenFirst DEF SeenVerifications
  <2> QED
    BY <2>1, SeenAbout DEF deletePasskeyDeletionSession, DeleteVerificationsOf
<1>11. UNCHANGED <<user, passkey, auth_session, signup_session,
                   passkey_signin_attempt, email_code_signin_session,
                   email_address_update_session, passkey_registration_session,
                   account_deletion_session>>
  BY DEF deletePasskeyDeletionSession, emailAddressUpdateLeaves,
         passkeyRegistrationLeaves,
     accountTables, signinTables
<1>12. /\ \A w : SeenUser(w) \notin S
       /\ \A w : SeenPasskey(w) \notin S
       /\ \A w : SeenAuthSession(w) \notin S
       /\ \A w : SeenSignup(w) \notin S
       /\ \A w : SeenAttempt(w) \notin S
       /\ \A w : SeenEmailCode(w) \notin S
       /\ \A w : SeenUpdate(w) \notin S
       /\ \A w : SeenRegistration(w) \notin S
       /\ \A w : SeenAccountDeletion(w) \notin S
  BY <1>8, NotAmong
<1>13. SeenRows' = seen \ SeenBy!With(SeenBy!With(S))
  BY <1>7, <1>9, <1>10, <1>11, <1>12, EndSeen
<1>14. SeenBy!deleteSession(x)
  BY <1>4, <1>6, <1>13 DEF SeenBy!deleteSession, SeenBy!Delete
<1> QED
  BY <1>3, <1>14, DeletesSession

\* So is deleteAccountDeletionSession.
LEMMA CancelAccountDeletionSeen ==
  ASSUME SeenInv, seen' = SeenRows', NEW id, deleteAccountDeletionSession(id)
  PROVE  SeenBy!SessionsNext
<1> USE DEF SeenInv
<1>1. PICK s \in account_deletion_session : s.id = id
  BY DEF deleteAccountDeletionSession, HasRow
<1>2. PICK x : x = SeenAccountDeletion(s)
  OBVIOUS
<1>3. /\ x \in seen
      /\ x.key = KeyOf("account_deletion_session", id)
      /\ x.key[1] = "account_deletion_session"
  BY <1>1, <1>2, SeenKeys, SeenFirst DEF SeenRows
<1>4. PICK V : V = SeenBy!VerificationsOf(x)
  OBVIOUS
<1>5. V = {y \in SeenVerifications : y.about = x.key}
  BY <1>4, SeenRowsIn DEF SeenBy!VerificationsOf
<1>6. PICK S : S = {x} \union V
  OBVIOUS
<1>7. S \subseteq seen
  BY <1>3, <1>5, <1>6, SeenTables
<1>8. \A y \in S : y.key[1] \in {"account_deletion_session",
                                "identity_verification_session"}
  BY <1>3, <1>5, <1>6, SeenApart
<1>9. account_deletion_session' =
        {q \in account_deletion_session : SeenAccountDeletion(q) \notin S}
  <2>1. \A q \in account_deletion_session : SeenAccountDeletion(q) \notin V
    BY <1>5, SeenApart, SeenFirst
  <2> QED
    BY <1>1, <1>2, <1>6, <2>1, SeenOnce
    DEF deleteAccountDeletionSession, WithoutRow
<1>10. identity_verification_session' =
         {v \in identity_verification_session : SeenVerification(v) \notin S}
  <2>1. \A v \in identity_verification_session : SeenVerification(v) \in S
          <=> SeenVerification(v).about = KeyOf("account_deletion_session", id)
    BY <1>3, <1>5, <1>6, SeenFirst DEF SeenVerifications
  <2> QED
    BY <2>1, SeenAbout DEF deleteAccountDeletionSession, DeleteVerificationsOf
<1>11. UNCHANGED <<user, passkey, auth_session, signup_session,
                   passkey_signin_attempt, email_code_signin_session,
                   email_address_update_session, passkey_registration_session,
                   passkey_deletion_session>>
  BY DEF deleteAccountDeletionSession, emailAddressUpdateLeaves,
         passkeyRegistrationLeaves,
     accountTables, signinTables
<1>12. /\ \A w : SeenUser(w) \notin S
       /\ \A w : SeenPasskey(w) \notin S
       /\ \A w : SeenAuthSession(w) \notin S
       /\ \A w : SeenSignup(w) \notin S
       /\ \A w : SeenAttempt(w) \notin S
       /\ \A w : SeenEmailCode(w) \notin S
       /\ \A w : SeenUpdate(w) \notin S
       /\ \A w : SeenRegistration(w) \notin S
       /\ \A w : SeenPasskeyDeletion(w) \notin S
  BY <1>8, NotAmong
<1>13. SeenRows' = seen \ SeenBy!With(SeenBy!With(S))
  BY <1>7, <1>9, <1>10, <1>11, <1>12, EndSeen
<1>14. SeenBy!deleteSession(x)
  BY <1>4, <1>6, <1>13 DEF SeenBy!deleteSession, SeenBy!Delete
<1> QED
  BY <1>3, <1>14, DeletesSession

\* deleteSignupSession deletes that row alone.
LEMMA CancelSignupSeen ==
  ASSUME SeenInv, seen' = SeenRows', NEW r \in Requests, deleteSignupSession(r)
  PROVE  SeenBy!SessionsNext
<1> USE DEF SeenInv
<1>1. PICK s \in signup_session : s.id = request[r].id
  BY DEF deleteSignupSession, HasRow
<1>2. PICK x : x = SeenSignup(s)
  OBVIOUS
<1>3. x \in seen /\ x.key[1] = "signup_session"
  BY <1>1, <1>2, SeenFirst DEF SeenRows
<1>4. SeenBy!VerificationsOf(x) = {}
  BY <1>3, NoVerificationsOf DEF SeenBy!VerifyingTables
<1>5. PICK S : S = {x}
  OBVIOUS
<1>6. signup_session' =
        {q \in signup_session : SeenSignup(q) \notin S}
  BY <1>1, <1>2, <1>5, SeenOnce DEF deleteSignupSession, WithoutRow
<1>7. UNCHANGED <<user, passkey, auth_session, passkey_signin_attempt,
                  email_code_signin_session, identity_verification_session,
                  email_address_update_session, passkey_registration_session,
                  passkey_deletion_session, account_deletion_session>>
  BY DEF deleteSignupSession, accountTables, signinTables, actionTables,
         signupLeaves
<1>8. /\ \A w : SeenUser(w) \notin S
      /\ \A w : SeenPasskey(w) \notin S
      /\ \A w : SeenAuthSession(w) \notin S
      /\ \A w : SeenAttempt(w) \notin S
      /\ \A w : SeenEmailCode(w) \notin S
      /\ \A w : SeenVerification(w) \notin S
      /\ \A w : SeenUpdate(w) \notin S
      /\ \A w : SeenRegistration(w) \notin S
      /\ \A w : SeenPasskeyDeletion(w) \notin S
      /\ \A w : SeenAccountDeletion(w) \notin S
  BY <1>3, <1>5, NotAmong
<1>9. SeenRows' = seen \ SeenBy!With(SeenBy!With(S))
  BY <1>3, <1>5, <1>6, <1>7, <1>8, EndSeen
<1>10. {x} \union {} = S
  BY <1>5
<1>11. SeenBy!deleteSession(x)
  BY <1>4, <1>9, <1>10 DEF SeenBy!deleteSession, SeenBy!Delete
<1> QED
  BY <1>3, <1>11, DeletesSession

\* deletePasskeySigninAttempt deletes that row alone.
LEMMA CancelAttemptSeen ==
  ASSUME SeenInv, seen' = SeenRows', NEW r \in Requests,
         deletePasskeySigninAttempt(r)
  PROVE  SeenBy!SessionsNext
<1> USE DEF SeenInv
<1>1. PICK s \in passkey_signin_attempt : s.id = request[r].id
  BY DEF deletePasskeySigninAttempt, HasRow
<1>2. PICK x : x = SeenAttempt(s)
  OBVIOUS
<1>3. x \in seen /\ x.key[1] = "passkey_signin_attempt"
  BY <1>1, <1>2, SeenFirst DEF SeenRows
<1>4. SeenBy!VerificationsOf(x) = {}
  BY <1>3, NoVerificationsOf DEF SeenBy!VerifyingTables
<1>5. PICK S : S = {x}
  OBVIOUS
<1>6. passkey_signin_attempt' =
        {q \in passkey_signin_attempt : SeenAttempt(q) \notin S}
  BY <1>1, <1>2, <1>5, SeenOnce DEF deletePasskeySigninAttempt, WithoutRow
<1>7. UNCHANGED <<user, passkey, auth_session, signup_session,
                  email_code_signin_session, identity_verification_session,
                  email_address_update_session, passkey_registration_session,
                  passkey_deletion_session, account_deletion_session>>
  BY DEF deletePasskeySigninAttempt, accountTables, signinTables,
         actionTables, signupLeaves
<1>8. /\ \A w : SeenUser(w) \notin S
      /\ \A w : SeenPasskey(w) \notin S
      /\ \A w : SeenAuthSession(w) \notin S
      /\ \A w : SeenSignup(w) \notin S
      /\ \A w : SeenEmailCode(w) \notin S
      /\ \A w : SeenVerification(w) \notin S
      /\ \A w : SeenUpdate(w) \notin S
      /\ \A w : SeenRegistration(w) \notin S
      /\ \A w : SeenPasskeyDeletion(w) \notin S
      /\ \A w : SeenAccountDeletion(w) \notin S
  BY <1>3, <1>5, NotAmong
<1>9. SeenRows' = seen \ SeenBy!With(SeenBy!With(S))
  BY <1>3, <1>5, <1>6, <1>7, <1>8, EndSeen
<1>10. {x} \union {} = S
  BY <1>5
<1>11. SeenBy!deleteSession(x)
  BY <1>4, <1>9, <1>10 DEF SeenBy!deleteSession, SeenBy!Delete
<1> QED
  BY <1>3, <1>11, DeletesSession

\* deleteEmailCodeSigninSession deletes that row alone.
LEMMA CancelEmailCodeSeen ==
  ASSUME SeenInv, seen' = SeenRows', NEW r \in Requests,
         deleteEmailCodeSigninSession(r)
  PROVE  SeenBy!SessionsNext
<1> USE DEF SeenInv
<1>1. PICK s \in email_code_signin_session : s.id = request[r].id
  BY DEF deleteEmailCodeSigninSession, HasRow
<1>2. PICK x : x = SeenEmailCode(s)
  OBVIOUS
<1>3. x \in seen /\ x.key[1] = "email_code_signin_session"
  BY <1>1, <1>2, SeenFirst DEF SeenRows
<1>4. SeenBy!VerificationsOf(x) = {}
  BY <1>3, NoVerificationsOf DEF SeenBy!VerifyingTables
<1>5. PICK S : S = {x}
  OBVIOUS
<1>6. email_code_signin_session' =
        {q \in email_code_signin_session : SeenEmailCode(q) \notin S}
  BY <1>1, <1>2, <1>5, SeenOnce DEF deleteEmailCodeSigninSession, WithoutRow
<1>7. UNCHANGED <<user, passkey, auth_session, signup_session,
                  passkey_signin_attempt, identity_verification_session,
                  email_address_update_session, passkey_registration_session,
                  passkey_deletion_session, account_deletion_session>>
  BY DEF deleteEmailCodeSigninSession, accountTables, signinTables,
         actionTables, signupLeaves
<1>8. /\ \A w : SeenUser(w) \notin S
      /\ \A w : SeenPasskey(w) \notin S
      /\ \A w : SeenAuthSession(w) \notin S
      /\ \A w : SeenSignup(w) \notin S
      /\ \A w : SeenAttempt(w) \notin S
      /\ \A w : SeenVerification(w) \notin S
      /\ \A w : SeenUpdate(w) \notin S
      /\ \A w : SeenRegistration(w) \notin S
      /\ \A w : SeenPasskeyDeletion(w) \notin S
      /\ \A w : SeenAccountDeletion(w) \notin S
  BY <1>3, <1>5, NotAmong
<1>9. SeenRows' = seen \ SeenBy!With(SeenBy!With(S))
  BY <1>3, <1>5, <1>6, <1>7, <1>8, EndSeen
<1>10. {x} \union {} = S
  BY <1>5
<1>11. SeenBy!deleteSession(x)
  BY <1>4, <1>9, <1>10 DEF SeenBy!deleteSession, SeenBy!Delete
<1> QED
  BY <1>3, <1>11, DeletesSession

-----------------------------------------------------------------------------
(* The end of auth sessions, passkeys and accounts. *)

\* deleteAuthSession deletes the auth session and all it started.
LEMMA SignOutSeen ==
  ASSUME SeenInv, seen' = SeenRows', NEW r \in Requests, deleteAuthSession(r)
  PROVE  SeenBy!SessionsNext
<1> USE DEF SeenInv
<1>1. PICK a \in auth_session : a.id = request[r].id
  BY DEF deleteAuthSession, HasRow
<1>2. PICK x : x = SeenAuthSession(a)
  OBVIOUS
<1>3. x \in seen /\ x.key[1] = "auth_session"
  BY <1>1, <1>2, SeenFirst DEF SeenRows
<1>4. SeenBy!VerificationsOf(x) = {}
  BY <1>3, NoVerificationsOf DEF SeenBy!VerifyingTables
<1>5. PICK S : S = {x}
  OBVIOUS
<1>6. PICK U, A : U = {} /\ A = {a.id}
  OBVIOUS
<1>7. /\ \A w : SeenUser(w) \notin S
      /\ \A w : SeenPasskey(w) \notin S
      /\ \A w : SeenSignup(w) \notin S
      /\ \A w : SeenAttempt(w) \notin S
      /\ \A w : SeenEmailCode(w) \notin S
      /\ \A w : SeenVerification(w) \notin S
      /\ \A w : SeenUpdate(w) \notin S
      /\ \A w : SeenRegistration(w) \notin S
      /\ \A w : SeenPasskeyDeletion(w) \notin S
      /\ \A w : SeenAccountDeletion(w) \notin S
  BY <1>3, <1>5, NotAmong
<1>8. CascadeDelete(U, A, U)
      /\ UNCHANGED <<signup_session, passkey_signin_attempt>>
  BY <1>1, <1>6 DEF deleteAuthSession
<1>9. /\ \A b \in auth_session : SeenAuthSession(b) \in S <=> b.id \in A
      /\ \A u \in user : SeenUser(u) \in S <=> u.id \in U
      /\ \A p \in passkey : SeenPasskey(p) \in S <=> p.id \in U
      /\ signup_session' = {s \in signup_session : SeenSignup(s) \notin S}
      /\ passkey_signin_attempt' =
           {t \in passkey_signin_attempt : SeenAttempt(t) \notin S}
  BY <1>1, <1>2, <1>5, <1>6, <1>7, <1>8, SeenOnce
<1>10. SeenRows' = seen \ SeenBy!With(SeenBy!With(S))
  BY <1>3, <1>5, <1>7, <1>8, <1>9, CascadeSeen
<1>11. {x} \union {} = S
  BY <1>5
<1>12. SeenBy!deleteSession(x)
  BY <1>4, <1>10, <1>11 DEF SeenBy!deleteSession, SeenBy!Delete
<1> QED
  BY <1>3, <1>12, DeletesSession

\* deleteUserAuthSessions does so for every auth session of a user; a user
\* who is gone has none left.
LEMMA SignOutAllSeen ==
  ASSUME SeenInv, seen' = SeenRows', NEW r \in Requests,
         deleteUserAuthSessions(r)
  PROVE  seen' = seen \/ SeenBy!SessionsNext
<1> USE DEF SeenInv
<1>1. PICK id, U, A : /\ id = request[r].other
                      /\ U = {}
                      /\ A = SessionsOf({id})
  OBVIOUS
<1>2. CascadeDelete(U, A, U)
      /\ UNCHANGED <<signup_session, passkey_signin_attempt>>
  BY <1>1 DEF deleteUserAuthSessions
<1>3. \A a \in auth_session : a.id \in A <=> a.user_id = id
  BY <1>1 DEF SessionsOf, TypeOK, TablesOK, TableOK
<1>4. PICK S : S = {x \in SeenAuthSessions : x.of = KeyOf("user", id)}
  OBVIOUS
<1>5. S \subseteq seen /\ \A x \in S : x.key[1] = "auth_session"
  BY <1>4, SeenTables, SeenApart
<1>6. \A a \in auth_session : SeenAuthSession(a) \in S <=> a.id \in A
  <2>1. \A a : SeenAuthSession(a).of = KeyOf("user", id) <=> a.user_id = id
    BY DEF SeenAuthSession, Seen, OfUser, KeyOf
  <2> QED
    BY <1>3, <1>4, <2>1 DEF SeenAuthSessions
<1>7. /\ \A w : SeenUser(w) \notin S
      /\ \A w : SeenPasskey(w) \notin S
      /\ \A w : SeenSignup(w) \notin S
      /\ \A w : SeenAttempt(w) \notin S
      /\ \A w : SeenEmailCode(w) \notin S
      /\ \A w : SeenVerification(w) \notin S
      /\ \A w : SeenUpdate(w) \notin S
      /\ \A w : SeenRegistration(w) \notin S
      /\ \A w : SeenPasskeyDeletion(w) \notin S
      /\ \A w : SeenAccountDeletion(w) \notin S
  BY <1>5, NotAmong
<1>8. /\ \A u \in user : SeenUser(u) \in S <=> u.id \in U
      /\ \A p \in passkey : SeenPasskey(p) \in S <=> p.id \in U
      /\ signup_session' = {s \in signup_session : SeenSignup(s) \notin S}
      /\ passkey_signin_attempt' =
           {t \in passkey_signin_attempt : SeenAttempt(t) \notin S}
  BY <1>1, <1>2, <1>7
<1>9. SeenRows' = seen \ SeenBy!With(SeenBy!With(S))
  BY <1>2, <1>5, <1>6, <1>7, <1>8, CascadeSeen
<1>10. ASSUME NEW u \in user, u.id = id
       PROVE  SeenBy!SessionsNext
  <2>1. SeenUser(u) \in SeenBy!RowsIn("user")
    BY SeenRowsIn DEF SeenUsers
  <2>2. S = {a \in SeenBy!RowsIn("auth_session") : a.of = SeenUser(u).key}
    BY <1>4, <1>10, SeenRowsIn, SeenKeys
  <2> QED
    BY <1>9, <2>1, <2>2
    DEF SeenBy!SessionsNext, SeenBy!deleteUserAuthSessions, SeenBy!Delete
<1>11. ASSUME ~HasRow(user, id)
       PROVE  seen' = seen
  <2>1. \A a \in auth_session : a.user_id # id
    BY <1>11 DEF ReferentialIntegrity
  <2>2. S = {}
    BY <1>3, <1>4, <1>6, <2>1 DEF SeenAuthSessions
  <2> QED
    BY <1>9, <2>2 DEF SeenBy!With, SeenBy!Keys
<1> QED
  BY <1>10, <1>11 DEF HasRow

\* The owner of a session of a verifying action, as Sessions finds it.
LEMMA SeenOwner ==
  ASSUME SeenInv, NEW x \in seen, NEW a \in auth_session,
         x.of = KeyOf("auth_session", a.id)
  PROVE  SeenBy!UserOf(x) = KeyOf("user", a.user_id)
<1>1. SeenAuthSession(a) \in seen
  BY DEF SeenRows, SeenInv
<1>2. SeenBy!RowAt(x.of) = SeenAuthSession(a)
  BY <1>1, SeenRowAt, SeenKeys DEF SeenInv
<1> QED
  BY <1>2, SeenOf DEF SeenBy!UserOf

\* completePasskeyDeletion deletes the passkey the session is about, and every
\* other session that is about it.
LEMMA RemovePasskeySeen ==
  ASSUME SeenInv, seen' = SeenRows', NEW r \in Requests,
         completePasskeyDeletion(r)
  PROVE  SeenBy!SessionsNext
<1> USE DEF SeenInv
<1>1. PICK s \in passkey_deletion_session :
        HasRow(passkey, s.passkey_id) /\ CascadeDelete({}, {}, {s.passkey_id})
  BY DEF completePasskeyDeletion
<1>2. PICK p \in passkey : p.id = s.passkey_id
  BY <1>1 DEF HasRow
<1>3. PICK x : x = SeenPasskey(p)
  OBVIOUS
<1>4. x \in seen /\ x.key[1] = "passkey"
  BY <1>3, SeenFirst DEF SeenRows
<1>5. PICK S : S = {x}
  OBVIOUS
<1>6. \A q \in passkey : SeenPasskey(q) \in S <=> q.id \in {s.passkey_id}
  BY <1>2, <1>3, <1>5, SeenOnce
<1>7. /\ \A w : SeenUser(w) \notin S
      /\ \A w : SeenAuthSession(w) \notin S
      /\ \A w : SeenSignup(w) \notin S
      /\ \A w : SeenAttempt(w) \notin S
      /\ \A w : SeenEmailCode(w) \notin S
      /\ \A w : SeenVerification(w) \notin S
      /\ \A w : SeenUpdate(w) \notin S
      /\ \A w : SeenRegistration(w) \notin S
      /\ \A w : SeenPasskeyDeletion(w) \notin S
      /\ \A w : SeenAccountDeletion(w) \notin S
  BY <1>4, <1>5, NotAmong
<1>8. PICK U, P : U = {} /\ P = {s.passkey_id}
  OBVIOUS
<1>9. /\ \A u \in user : SeenUser(u) \in S <=> u.id \in U
      /\ \A a \in auth_session : SeenAuthSession(a) \in S <=> a.id \in U
      /\ \A q \in passkey : SeenPasskey(q) \in S <=> q.id \in P
      /\ CascadeDelete(U, U, P)
      /\ signup_session' = {t \in signup_session : SeenSignup(t) \notin S}
      /\ passkey_signin_attempt' =
           {t \in passkey_signin_attempt : SeenAttempt(t) \notin S}
  BY <1>1, <1>6, <1>7, <1>8 DEF completePasskeyDeletion
<1>10. SeenRows' = seen \ SeenBy!With(SeenBy!With(S))
  BY <1>4, <1>5, <1>7, <1>9, CascadeSeen
<1>11. SeenPasskeyDeletion(s) \in SeenBy!RowsIn("passkey_deletion_session")
  BY SeenRowsIn DEF SeenPasskeyDeletions
<1>12. SeenPasskeyDeletion(s).about = x.key
  BY <1>2, <1>3, SeenKeys DEF SeenPasskeyDeletion, Seen
<1>13. SeenBy!RowAt(SeenPasskeyDeletion(s).about) = x
  BY <1>4, <1>12, SeenRowAt
<1>14. SeenBy!completePasskeyDeletion(SeenPasskeyDeletion(s))
  BY <1>5, <1>10, <1>13 DEF SeenBy!completePasskeyDeletion, SeenBy!Delete
<1> QED
  BY <1>11, <1>14, CompletesPasskeyDeletion

\* completeAccountDeletion deletes the user of the session, and all that is
\* the user's.
LEMMA RemoveAccountSeen ==
  ASSUME SeenInv, seen' = SeenRows', NEW r \in Requests,
         completeAccountDeletion(r)
  PROVE  SeenBy!SessionsNext
<1> USE DEF SeenInv
<1>1. PICK s \in account_deletion_session, u \in user :
        /\ OwnedBy(s, u)
        /\ s.identity_verified
        /\ CascadeDelete({u.id}, {}, {})
  BY DEF completeAccountDeletion
<1>2. PICK a \in auth_session : a.id = s.auth_session_id /\ a.user_id = u.id
  BY <1>1 DEF OwnedBy
<1>3. PICK x : x = SeenUser(u)
  OBVIOUS
<1>4. x \in seen /\ x.key[1] = "user"
  BY <1>3, SeenFirst DEF SeenRows
<1>5. PICK S : S = {x}
  OBVIOUS
<1>6. \A v \in user : SeenUser(v) \in S <=> v.id \in {u.id}
  BY <1>3, <1>5, SeenOnce
<1>7. /\ \A w : SeenPasskey(w) \notin S
      /\ \A w : SeenAuthSession(w) \notin S
      /\ \A w : SeenSignup(w) \notin S
      /\ \A w : SeenAttempt(w) \notin S
      /\ \A w : SeenEmailCode(w) \notin S
      /\ \A w : SeenVerification(w) \notin S
      /\ \A w : SeenUpdate(w) \notin S
      /\ \A w : SeenRegistration(w) \notin S
      /\ \A w : SeenPasskeyDeletion(w) \notin S
      /\ \A w : SeenAccountDeletion(w) \notin S
  BY <1>4, <1>5, NotAmong
<1>8. PICK N, U : N = {} /\ U = {u.id}
  OBVIOUS
<1>9. /\ \A p \in passkey : SeenPasskey(p) \in S <=> p.id \in N
      /\ \A b \in auth_session : SeenAuthSession(b) \in S <=> b.id \in N
      /\ \A v \in user : SeenUser(v) \in S <=> v.id \in U
      /\ CascadeDelete(U, N, N)
      /\ signup_session' = {t \in signup_session : SeenSignup(t) \notin S}
      /\ passkey_signin_attempt' =
           {t \in passkey_signin_attempt : SeenAttempt(t) \notin S}
  BY <1>1, <1>6, <1>7, <1>8 DEF completeAccountDeletion
<1>10. SeenRows' = seen \ SeenBy!With(SeenBy!With(S))
  BY <1>4, <1>5, <1>7, <1>9, CascadeSeen
<1>11. PICK y : y = SeenAccountDeletion(s)
  OBVIOUS
<1>12. y \in SeenBy!RowsIn("account_deletion_session") /\ y \in seen
  BY <1>11, SeenRowsIn, SeenTables DEF SeenAccountDeletions
<1>13. y.of = KeyOf("auth_session", a.id) /\ y.verified
  BY <1>1, <1>2, <1>11, SeenOf DEF SeenAccountDeletion, Seen
<1>14. SeenBy!UserOf(y) = x.key
  BY <1>2, <1>3, <1>12, <1>13, SeenOwner, SeenKeys
<1>15. SeenBy!RowAt(SeenBy!UserOf(y)) = x
  BY <1>4, <1>14, SeenRowAt
<1>16. SeenBy!completeAccountDeletion(y)
  BY <1>5, <1>10, <1>13, <1>15 DEF SeenBy!completeAccountDeletion, SeenBy!Delete
<1> QED
  BY <1>12, <1>16, CompletesAccountDeletion

\* cleanDatabase deletes users with all that is theirs, sign-up sessions and
\* sign-in attempts.
LEMMA CleanSeen ==
  ASSUME SeenInv, seen' = SeenRows', cleanDatabase
  PROVE  SeenBy!SessionsNext
<1> USE DEF SeenInv
<1>1. PICK oldUsers \in SUBSET user, oldSignups \in SUBSET signup_session,
           oldAttempts \in SUBSET passkey_signin_attempt :
        /\ CascadeDelete({u.id : u \in oldUsers}, {}, {})
        /\ signup_session' = signup_session \ oldSignups
        /\ passkey_signin_attempt' = passkey_signin_attempt \ oldAttempts
  BY DEF cleanDatabase
<1>2. PICK S : S = (SeenUsers \union SeenSignups \union SeenAttempts) \ seen'
  OBVIOUS
<1>3. S \subseteq seen
  BY <1>2, SeenTables
<1>4. \A x \in S : x.key[1] \in {"user", "signup_session",
                                "passkey_signin_attempt"}
  BY <1>2, SeenApart
<1>5. \A u \in user : SeenUser(u) \in S <=> u.id \in {v.id : v \in oldUsers}
  <2>1. \A u \in user : SeenUser(u) \in SeenRows' <=>
          SeenUser(u) \in SeenUsers'
    BY SeenTablesAfter, SeenApartAfter, SeenFirst
  <2>2. user' = {u \in user : u.id \notin {v.id : v \in oldUsers}}
    BY <1>1 DEF CascadeDelete
  <2>3. SeenUsers' = {SeenUser(u) : u \in user'}
    BY DEF SeenUsers, SeenUser, Seen
  <2>4. \A u \in user : SeenUser(u) \in SeenUsers' <=> u \in user'
    BY <2>2, <2>3, SeenOnce DEF TypeOK, TablesOK, TableOK
  <2> QED
    BY <1>2, <2>1, <2>2, <2>4 DEF SeenUsers
<1>6. signup_session' = {s \in signup_session : SeenSignup(s) \notin S}
  <2>1. \A s \in signup_session :
          SeenSignup(s) \in SeenRows' <=> SeenSignup(s) \in SeenSignups'
    BY SeenTablesAfter, SeenApartAfter, SeenFirst
  <2>2. SeenSignups' = {SeenSignup(s) : s \in signup_session'}
    BY DEF SeenSignups, SeenSignup, Seen
  <2>3. \A s \in signup_session :
          SeenSignup(s) \in SeenSignups' <=> s \in signup_session'
    BY <1>1, <2>2, SeenOnce DEF TypeOK, TablesOK, TableOK
  <2> QED
    BY <1>1, <1>2, <2>1, <2>3 DEF SeenSignups
<1>7. passkey_signin_attempt' =
        {t \in passkey_signin_attempt : SeenAttempt(t) \notin S}
  <2>1. \A t \in passkey_signin_attempt :
          SeenAttempt(t) \in SeenRows' <=> SeenAttempt(t) \in SeenAttempts'
    BY SeenTablesAfter, SeenApartAfter, SeenFirst
  <2>2. SeenAttempts' = {SeenAttempt(t) : t \in passkey_signin_attempt'}
    BY DEF SeenAttempts, SeenAttempt, Seen
  <2>3. \A t \in passkey_signin_attempt :
          SeenAttempt(t) \in SeenAttempts' <=> t \in passkey_signin_attempt'
    BY <1>1, <2>2, SeenOnce DEF TypeOK, TablesOK, TableOK
  <2> QED
    BY <1>1, <1>2, <2>1, <2>3 DEF SeenAttempts
<1>8. /\ \A w : SeenPasskey(w) \notin S
      /\ \A w : SeenAuthSession(w) \notin S
      /\ \A w : SeenEmailCode(w) \notin S
      /\ \A w : SeenVerification(w) \notin S
      /\ \A w : SeenUpdate(w) \notin S
      /\ \A w : SeenRegistration(w) \notin S
      /\ \A w : SeenPasskeyDeletion(w) \notin S
      /\ \A w : SeenAccountDeletion(w) \notin S
  BY <1>4, NotAmong
<1>9. /\ \A p \in passkey : SeenPasskey(p) \in S <=> p.id \in {}
      /\ \A a \in auth_session : SeenAuthSession(a) \in S <=> a.id \in {}
  BY <1>8
<1>10. SeenRows' = seen \ SeenBy!With(SeenBy!With(S))
  BY <1>1, <1>3, <1>5, <1>6, <1>7, <1>8, <1>9, CascadeSeen
<1>11. S = (SeenBy!RowsIn("user") \union SeenBy!RowsIn("signup_session")
             \union SeenBy!RowsIn("passkey_signin_attempt")) \ seen'
  BY <1>2, SeenRowsIn
<1> QED
  BY <1>10, <1>11 DEF SeenBy!SessionsNext, SeenBy!cleanDatabase, SeenBy!Delete

-----------------------------------------------------------------------------
(* The start of a flow. *)

\* createSignupSession is createSession of Sessions.
LEMMA StartSignupSeen ==
  ASSUME SeenInv, seen' = SeenRows', NEW r \in Requests, createSignupSession(r)
  PROVE  SeenBy!SessionsNext
<1> USE DEF SeenInv
<1>1. PICK key : key = KeyOf("signup_session", NewId("signup_session"))
  OBVIOUS
<1>2. key \in SeenBy!NewKeys("signup_session")
  BY <1>1, FreshKeys, IdsDrawn DEF createSignupSession, Counters
<1>3. PICK n : n = [id |-> NewId("signup_session"),
             target_user_id |-> NewId("user"),
             email_address |-> request[r].value,
             email_address_verified |-> FALSE,
             passkey_webauthn_credential_id |-> Null]
  OBVIOUS
<1>4. signup_session' = signup_session \union {n}
  BY <1>3 DEF createSignupSession
<1>5. SeenSignup(n) = SeenBy!NewRow(key, Null, Null)
  BY <1>1, <1>3 DEF SeenSignup, Seen, SeenBy!NewRow
<1>6. SeenSignups' = SeenSignups \union {SeenSignup(n)}
  BY <1>4 DEF SeenSignups, SeenSignup, Seen, OfUser
<1>7. UNCHANGED <<SeenUsers, SeenPasskeys, SeenAuthSessions, SeenAttempts,
                  SeenEmailCodes, SeenVerifications, SeenUpdates,
                  SeenRegistrations, SeenPasskeyDeletions,
                  SeenAccountDeletions>>
  BY SeenUnchanged
  DEF createSignupSession, accountTables, signinTables, actionTables,
      signupLeaves
<1>8. SeenRows' = seen \union {SeenSignup(n)}
  BY <1>6, <1>7, SeenTables, SeenTablesAfter
<1> QED
  BY <1>2, <1>5, <1>8, CreatesSession DEF SeenBy!createSession, SeenBy!Insert

\* createPasskeySigninAttempt is createSession of Sessions.
LEMMA StartAttemptSeen ==
  ASSUME SeenInv, seen' = SeenRows', NEW r \in Requests,
         createPasskeySigninAttempt(r)
  PROVE  SeenBy!SessionsNext
<1> USE DEF SeenInv
<1>1. PICK key : key = KeyOf("passkey_signin_attempt", NewId("signin"))
  OBVIOUS
<1>2. key \in SeenBy!NewKeys("passkey_signin_attempt")
  BY <1>1, FreshKeys, IdsDrawn DEF createPasskeySigninAttempt, Counters
<1>3. PICK n : n = [id |-> NewId("signin")]
  OBVIOUS
<1>4. passkey_signin_attempt' = passkey_signin_attempt \union {n}
  BY <1>3 DEF createPasskeySigninAttempt
<1>5. SeenAttempt(n) = SeenBy!NewRow(key, Null, Null)
  BY <1>1, <1>3 DEF SeenAttempt, Seen, SeenBy!NewRow
<1>6. SeenAttempts' = SeenAttempts \union {SeenAttempt(n)}
  BY <1>4 DEF SeenAttempts, SeenAttempt, Seen, OfUser
<1>7. UNCHANGED <<SeenUsers, SeenPasskeys, SeenAuthSessions, SeenSignups,
                  SeenEmailCodes, SeenVerifications, SeenUpdates,
                  SeenRegistrations, SeenPasskeyDeletions,
                  SeenAccountDeletions>>
  BY SeenUnchanged
  DEF createPasskeySigninAttempt, accountTables, signinTables, actionTables,
      signupLeaves
<1>8. SeenRows' = seen \union {SeenAttempt(n)}
  BY <1>6, <1>7, SeenTables, SeenTablesAfter
<1> QED
  BY <1>2, <1>5, <1>8, CreatesSession DEF SeenBy!createSession, SeenBy!Insert

\* createEmailCodeSigninSessionFromUserEmailAddress is
\* createEmailCodeSigninSession of Sessions: its user was read in the same
\* transaction.
LEMMA StartEmailCodeSeen ==
  ASSUME SeenInv, seen' = SeenRows', NEW r \in Requests,
         createEmailCodeSigninSessionFromUserEmailAddress(r)
  PROVE  SeenBy!SessionsNext
<1> USE DEF SeenInv
<1>1. PICK key : key = KeyOf("email_code_signin_session", NewId("signin"))
  OBVIOUS
<1>2. key \in SeenBy!NewKeys("email_code_signin_session")
  BY <1>1, FreshKeys, IdsDrawn
  DEF createEmailCodeSigninSessionFromUserEmailAddress, Counters
<1>3. PICK u \in user :
        email_code_signin_session' = email_code_signin_session \union
          {[id |-> NewId("signin"), user_id |-> u.id,
            email_code |-> request[r].value]}
  BY DEF createEmailCodeSigninSessionFromUserEmailAddress
<1>4. PICK n : n = [id |-> NewId("signin"), user_id |-> u.id,
                    email_code |-> request[r].value]
  OBVIOUS
<1>5. SeenEmailCode(n) = SeenBy!NewRow(key, SeenUser(u).key, Null)
  BY <1>1, <1>4, SeenKeys DEF SeenEmailCode, Seen, OfUser, SeenBy!NewRow
<1>6. SeenEmailCodes' = SeenEmailCodes \union {SeenEmailCode(n)}
  BY <1>3, <1>4 DEF SeenEmailCodes, SeenEmailCode, Seen, OfUser
<1>7. UNCHANGED <<SeenUsers, SeenPasskeys, SeenAuthSessions, SeenSignups,
                  SeenAttempts, SeenVerifications, SeenUpdates,
                  SeenRegistrations, SeenPasskeyDeletions,
                  SeenAccountDeletions>>
  BY SeenUnchanged
  DEF createEmailCodeSigninSessionFromUserEmailAddress, accountTables,
      signinTables, actionTables, signupLeaves
<1>8. SeenRows' = seen \union {SeenEmailCode(n)}
  BY <1>6, <1>7, SeenTables, SeenTablesAfter
<1>9. SeenUser(u) \in SeenBy!RowsIn("user")
  BY SeenRowsIn DEF SeenUsers
<1> QED
  BY <1>2, <1>5, <1>8, <1>9, CreatesEmailCode
  DEF SeenBy!createEmailCodeSigninSession, SeenBy!Insert

\* createEmailAddressUpdateSession is createVerifyingSession of Sessions: two
\* rows, one for the action and one for the identity verification.
LEMMA StartUpdateSeen ==
  ASSUME SeenInv, seen' = SeenRows', NEW r \in Requests,
         createEmailAddressUpdateSession(r)
  PROVE  SeenBy!SessionsNext
<1> USE DEF SeenInv
<1>1. PICK id, key, ver : /\ id = NewId("verifying_action")
                          /\ key = KeyOf("email_address_update_session", id)
                          /\ ver = KeyOf("identity_verification_session", id)
  OBVIOUS
<1>2. /\ key \in SeenBy!NewKeys("email_address_update_session")
      /\ ver \in SeenBy!NewKeys("identity_verification_session")
  BY <1>1, FreshKeys, IdsDrawn DEF createEmailAddressUpdateSession, Counters
<1>3. PICK a \in auth_session : a.id = request[r].id
  BY DEF createEmailAddressUpdateSession, HasRow
<1>4. PICK n, v :
        /\ n = [id |-> id, auth_session_id |-> a.id,
                identity_verified |-> FALSE, new_email_address |-> Null]
        /\ v = NewIdentityVerificationSession("email_address_update", id, a.id)
  OBVIOUS
<1>5. /\ email_address_update_session' = email_address_update_session
             \union {n}
      /\ identity_verification_session' =
           identity_verification_session \union {v}
  BY <1>1, <1>3, <1>4 DEF createEmailAddressUpdateSession
<1>6. SeenUpdate(n) = SeenBy!NewRow(key, SeenAuthSession(a).key,
               Null)
  BY <1>1, <1>4, SeenKeys DEF SeenUpdate, Seen, OfAuthSession, SeenBy!NewRow
<1>7. SeenVerification(v) = SeenBy!NewRow(ver, SeenAuthSession(a).key, key)
  BY <1>1, <1>4, SeenKeys
  DEF SeenVerification, Seen, OfAuthSession, SeenBy!NewRow,
      NewIdentityVerificationSession, SessionTable
<1>8. /\ SeenUpdates' = SeenUpdates \union {SeenUpdate(n)}
      /\ SeenVerifications' = SeenVerifications \union {SeenVerification(v)}
  BY <1>5 DEF SeenUpdates, SeenUpdate, SeenVerifications,
     SeenVerification, Seen, OfAuthSession
<1>9. UNCHANGED <<SeenUsers, SeenPasskeys, SeenAuthSessions, SeenSignups,
                  SeenAttempts, SeenEmailCodes, SeenRegistrations,
                  SeenPasskeyDeletions, SeenAccountDeletions>>
  BY SeenUnchanged
  DEF createEmailAddressUpdateSession, emailAddressUpdateLeaves,
      passkeyRegistrationLeaves, accountTables, signinTables, actionTables,
      signupLeaves
<1>10. SeenRows' = seen \union {SeenUpdate(n), SeenVerification(v)}
  BY <1>8, <1>9, SeenTables, SeenTablesAfter
<1>11. SeenAuthSession(a) \in SeenBy!RowsIn("auth_session")
  BY SeenRowsIn DEF SeenAuthSessions
<1>12. Null \in {Null}
  OBVIOUS
<1>13. SeenBy!createVerifyingSession(key, ver, SeenAuthSession(a), Null)
  BY <1>6, <1>7, <1>10, <1>11
  DEF SeenBy!createVerifyingSession, SeenBy!Insert
<1> QED
  BY <1>2, <1>11, <1>12, <1>13, CreatesVerifyingSession
  DEF SeenBy!VerifyingTables

\* So is createPasskeyRegistrationSession.
LEMMA StartRegistrationSeen ==
  ASSUME SeenInv, seen' = SeenRows', NEW r \in Requests,
         createPasskeyRegistrationSession(r)
  PROVE  SeenBy!SessionsNext
<1> USE DEF SeenInv
<1>1. PICK id, key, ver : /\ id = NewId("verifying_action")
                          /\ key = KeyOf("passkey_registration_session", id)
                          /\ ver = KeyOf("identity_verification_session", id)
  OBVIOUS
<1>2. /\ key \in SeenBy!NewKeys("passkey_registration_session")
      /\ ver \in SeenBy!NewKeys("identity_verification_session")
  BY <1>1, FreshKeys, IdsDrawn DEF createPasskeyRegistrationSession, Counters
<1>3. PICK a \in auth_session : a.id = request[r].id
  BY DEF createPasskeyRegistrationSession, HasRow
<1>4. PICK n, v :
        /\ n = [id |-> id, auth_session_id |-> a.id,
                identity_verified |-> FALSE,
           passkey_webauthn_credential_id |-> Null]
        /\ v = NewIdentityVerificationSession("passkey_registration", id, a.id)
  OBVIOUS
<1>5. /\ passkey_registration_session' = passkey_registration_session
             \union {n}
      /\ identity_verification_session' =
           identity_verification_session \union {v}
  BY <1>1, <1>3, <1>4 DEF createPasskeyRegistrationSession
<1>6. SeenRegistration(n) = SeenBy!NewRow(key, SeenAuthSession(a).key,
               Null)
  BY <1>1, <1>4, SeenKeys
  DEF SeenRegistration, Seen, OfAuthSession, SeenBy!NewRow
<1>7. SeenVerification(v) = SeenBy!NewRow(ver, SeenAuthSession(a).key, key)
  BY <1>1, <1>4, SeenKeys
  DEF SeenVerification, Seen, OfAuthSession, SeenBy!NewRow,
      NewIdentityVerificationSession, SessionTable
<1>8. /\ SeenRegistrations' = SeenRegistrations \union {SeenRegistration(n)}
      /\ SeenVerifications' = SeenVerifications \union {SeenVerification(v)}
  BY <1>5 DEF SeenRegistrations, SeenRegistration, SeenVerifications,
     SeenVerification, Seen, OfAuthSession
<1>9. UNCHANGED <<SeenUsers, SeenPasskeys, SeenAuthSessions, SeenSignups,
                  SeenAttempts, SeenEmailCodes, SeenUpdates,
                  SeenPasskeyDeletions, SeenAccountDeletions>>
  BY SeenUnchanged
  DEF createPasskeyRegistrationSession, emailAddressUpdateLeaves,
      passkeyRegistrationLeaves, accountTables, signinTables, actionTables,
      signupLeaves
<1>10. SeenRows' = seen \union {SeenRegistration(n), SeenVerification(v)}
  BY <1>8, <1>9, SeenTables, SeenTablesAfter
<1>11. SeenAuthSession(a) \in SeenBy!RowsIn("auth_session")
  BY SeenRowsIn DEF SeenAuthSessions
<1>12. Null \in {Null}
  OBVIOUS
<1>13. SeenBy!createVerifyingSession(key, ver, SeenAuthSession(a), Null)
  BY <1>6, <1>7, <1>10, <1>11
  DEF SeenBy!createVerifyingSession, SeenBy!Insert
<1> QED
  BY <1>2, <1>11, <1>12, <1>13, CreatesVerifyingSession
  DEF SeenBy!VerifyingTables

\* So is createPasskeyDeletionSession, about a passkey that exists.
LEMMA StartDeletionSeen ==
  ASSUME SeenInv, seen' = SeenRows', NEW r \in Requests,
         createPasskeyDeletionSession(r)
  PROVE  SeenBy!SessionsNext
<1> USE DEF SeenInv
<1>1. PICK id, key, ver : /\ id = NewId("verifying_action")
                          /\ key = KeyOf("passkey_deletion_session", id)
                          /\ ver = KeyOf("identity_verification_session", id)
  OBVIOUS
<1>2. /\ key \in SeenBy!NewKeys("passkey_deletion_session")
      /\ ver \in SeenBy!NewKeys("identity_verification_session")
  BY <1>1, FreshKeys, IdsDrawn DEF createPasskeyDeletionSession, Counters
<1>3. PICK a \in auth_session : a.id = request[r].id
  BY DEF createPasskeyDeletionSession, HasRow
<1>4. PICK n, v :
        /\ n = [id |-> id, auth_session_id |-> a.id,
                identity_verified |-> FALSE, passkey_id |-> request[r].other]
        /\ v = NewIdentityVerificationSession("passkey_deletion", id, a.id)
  OBVIOUS
<1>5. /\ passkey_deletion_session' = passkey_deletion_session \union {n}
      /\ identity_verification_session' =
           identity_verification_session \union {v}
  BY <1>1, <1>3, <1>4 DEF createPasskeyDeletionSession
<1>6. SeenPasskeyDeletion(n) = SeenBy!NewRow(key, SeenAuthSession(a).key,
               KeyOf("passkey", request[r].other))
  BY <1>1, <1>4, SeenKeys
  DEF SeenPasskeyDeletion, Seen, OfAuthSession, SeenBy!NewRow
<1>7. SeenVerification(v) = SeenBy!NewRow(ver, SeenAuthSession(a).key, key)
  BY <1>1, <1>4, SeenKeys
  DEF SeenVerification, Seen, OfAuthSession, SeenBy!NewRow,
      NewIdentityVerificationSession, SessionTable
<1>8. /\ SeenPasskeyDeletions' = SeenPasskeyDeletions
             \union {SeenPasskeyDeletion(n)}
      /\ SeenVerifications' = SeenVerifications \union {SeenVerification(v)}
  BY <1>5 DEF SeenPasskeyDeletions, SeenPasskeyDeletion, SeenVerifications,
     SeenVerification, Seen, OfAuthSession
<1>9. UNCHANGED <<SeenUsers, SeenPasskeys, SeenAuthSessions, SeenSignups,
                  SeenAttempts, SeenEmailCodes, SeenUpdates,
                  SeenRegistrations, SeenAccountDeletions>>
  BY SeenUnchanged
  DEF createPasskeyDeletionSession, emailAddressUpdateLeaves,
      passkeyRegistrationLeaves, accountTables, signinTables, actionTables,
      signupLeaves
<1>10. SeenRows' = seen \union {SeenPasskeyDeletion(n), SeenVerification(v)}
  BY <1>8, <1>9, SeenTables, SeenTablesAfter
<1>11. SeenAuthSession(a) \in SeenBy!RowsIn("auth_session")
  BY SeenRowsIn DEF SeenAuthSessions
<1>12. KeyOf("passkey", request[r].other)
         \in SeenBy!Keys(SeenBy!RowsIn("passkey"))
  <2>1. PICK p \in passkey : p.id = request[r].other
    BY DEF createPasskeyDeletionSession, HasRow
  <2>2. SeenPasskey(p) \in SeenBy!RowsIn("passkey")
    BY SeenRowsIn DEF SeenPasskeys
  <2>3. SeenPasskey(p).key = KeyOf("passkey", request[r].other)
    BY <2>1, SeenKeys
  <2> QED
    BY <2>2, <2>3 DEF SeenBy!Keys
<1>13. SeenBy!createVerifyingSession(key, ver, SeenAuthSession(a),
                                     KeyOf("passkey", request[r].other))
  BY <1>6, <1>7, <1>10, <1>11
  DEF SeenBy!createVerifyingSession, SeenBy!Insert
<1> QED
  BY <1>2, <1>11, <1>12, <1>13, CreatesVerifyingSession
  DEF SeenBy!VerifyingTables

\* So is createAccountDeletionSession.
LEMMA StartAccountDeletionSeen ==
  ASSUME SeenInv, seen' = SeenRows', NEW r \in Requests,
         createAccountDeletionSession(r)
  PROVE  SeenBy!SessionsNext
<1> USE DEF SeenInv
<1>1. PICK id, key, ver : /\ id = NewId("verifying_action")
                          /\ key = KeyOf("account_deletion_session", id)
                          /\ ver = KeyOf("identity_verification_session", id)
  OBVIOUS
<1>2. /\ key \in SeenBy!NewKeys("account_deletion_session")
      /\ ver \in SeenBy!NewKeys("identity_verification_session")
  BY <1>1, FreshKeys, IdsDrawn DEF createAccountDeletionSession, Counters
<1>3. PICK a \in auth_session : a.id = request[r].id
  BY DEF createAccountDeletionSession, HasRow
<1>4. PICK n, v :
        /\ n = [id |-> id, auth_session_id |-> a.id,
                identity_verified |-> FALSE]
        /\ v = NewIdentityVerificationSession("account_deletion", id, a.id)
  OBVIOUS
<1>5. /\ account_deletion_session' = account_deletion_session \union {n}
      /\ identity_verification_session' =
           identity_verification_session \union {v}
  BY <1>1, <1>3, <1>4 DEF createAccountDeletionSession
<1>6. SeenAccountDeletion(n) = SeenBy!NewRow(key, SeenAuthSession(a).key,
               Null)
  BY <1>1, <1>4, SeenKeys
  DEF SeenAccountDeletion, Seen, OfAuthSession, SeenBy!NewRow
<1>7. SeenVerification(v) = SeenBy!NewRow(ver, SeenAuthSession(a).key, key)
  BY <1>1, <1>4, SeenKeys
  DEF SeenVerification, Seen, OfAuthSession, SeenBy!NewRow,
      NewIdentityVerificationSession, SessionTable
<1>8. /\ SeenAccountDeletions' = SeenAccountDeletions
             \union {SeenAccountDeletion(n)}
      /\ SeenVerifications' = SeenVerifications \union {SeenVerification(v)}
  BY <1>5 DEF SeenAccountDeletions, SeenAccountDeletion, SeenVerifications,
     SeenVerification, Seen, OfAuthSession
<1>9. UNCHANGED <<SeenUsers, SeenPasskeys, SeenAuthSessions, SeenSignups,
                  SeenAttempts, SeenEmailCodes, SeenUpdates,
                  SeenRegistrations, SeenPasskeyDeletions>>
  BY SeenUnchanged
  DEF createAccountDeletionSession, emailAddressUpdateLeaves,
      passkeyRegistrationLeaves, accountTables, signinTables, actionTables,
      signupLeaves
<1>10. SeenRows' = seen \union {SeenAccountDeletion(n), SeenVerification(v)}
  BY <1>8, <1>9, SeenTables, SeenTablesAfter
<1>11. SeenAuthSession(a) \in SeenBy!RowsIn("auth_session")
  BY SeenRowsIn DEF SeenAuthSessions
<1>12. Null \in {Null}
  OBVIOUS
<1>13. SeenBy!createVerifyingSession(key, ver, SeenAuthSession(a), Null)
  BY <1>6, <1>7, <1>10, <1>11
  DEF SeenBy!createVerifyingSession, SeenBy!Insert
<1> QED
  BY <1>2, <1>11, <1>12, <1>13, CreatesVerifyingSession
  DEF SeenBy!VerifyingTables

-----------------------------------------------------------------------------
(* Steps within a flow: what a session waits for is set. *)

\* A verified signup_session is seen as one.
LEMMA SignupVerified ==
  ASSUME NEW s \in SignupSessionRow,
         NEW n, n = [s EXCEPT !.email_address_verified = TRUE]
  PROVE  SeenSignup(n) = [SeenSignup(s) EXCEPT !.verified = TRUE]
<1>1. /\ n.id = s.id
      /\ n.passkey_webauthn_credential_id = s.passkey_webauthn_credential_id
      /\ n.email_address_verified = TRUE
  BY DEF SignupSessionRow
<1>2. PICK to, was, filled :
        /\ to = TRUE
        /\ was = s.email_address_verified
        /\ filled = (s.passkey_webauthn_credential_id # Null)
  OBVIOUS
<1>3. SeenSignup(n)
        = Seen("signup_session", n, Null, Null, to, filled)
  BY <1>1, <1>2, Zenon DEF SeenSignup
<1>4. SeenSignup(s)
        = Seen("signup_session", s, Null, Null, was, filled)
  BY <1>2, Zenon DEF SeenSignup
<1>5. Seen("signup_session", n, Null, Null, to, filled)
        = [Seen("signup_session", s, Null, Null, was, filled)
             EXCEPT !.verified = to]
  BY <1>1 DEF Seen
<1> QED
  BY <1>2, <1>3, <1>4, <1>5, Zenon

\* A verified email_address_update_session is seen as one.
LEMMA UpdateVerified ==
  ASSUME NEW s \in EmailAddressUpdateSessionRow,
         NEW n, n = [s EXCEPT !.identity_verified = TRUE]
  PROVE  SeenUpdate(n) = [SeenUpdate(s) EXCEPT !.verified = TRUE]
<1>1. /\ n.id = s.id
      /\ n.auth_session_id = s.auth_session_id
      /\ n.new_email_address = s.new_email_address
      /\ n.identity_verified = TRUE
  BY DEF EmailAddressUpdateSessionRow
<1>2. PICK to, was, filled, of :
        /\ to = TRUE
        /\ was = s.identity_verified
        /\ filled = (s.new_email_address # Null)
        /\ of = OfAuthSession(s)
  OBVIOUS
<1>3. SeenUpdate(n)
        = Seen("email_address_update_session", n, of, Null, to, filled)
  BY <1>1, <1>2, Zenon DEF SeenUpdate, OfAuthSession
<1>4. SeenUpdate(s)
        = Seen("email_address_update_session", s, of, Null, was, filled)
  BY <1>2, Zenon DEF SeenUpdate, OfAuthSession
<1>5. Seen("email_address_update_session", n, of, Null, to, filled)
        = [Seen("email_address_update_session", s, of, Null, was, filled)
             EXCEPT !.verified = to]
  BY <1>1 DEF Seen
<1> QED
  BY <1>2, <1>3, <1>4, <1>5, Zenon

\* A verified passkey_registration_session is seen as one.
LEMMA RegistrationVerified ==
  ASSUME NEW s \in PasskeyRegistrationSessionRow,
         NEW n, n = [s EXCEPT !.identity_verified = TRUE]
  PROVE  SeenRegistration(n) = [SeenRegistration(s) EXCEPT !.verified = TRUE]
<1>1. /\ n.id = s.id
      /\ n.auth_session_id = s.auth_session_id
      /\ n.passkey_webauthn_credential_id = s.passkey_webauthn_credential_id
      /\ n.identity_verified = TRUE
  BY DEF PasskeyRegistrationSessionRow
<1>2. PICK to, was, filled, of :
        /\ to = TRUE
        /\ was = s.identity_verified
        /\ filled = (s.passkey_webauthn_credential_id # Null)
        /\ of = OfAuthSession(s)
  OBVIOUS
<1>3. SeenRegistration(n)
        = Seen("passkey_registration_session", n, of, Null, to, filled)
  BY <1>1, <1>2, Zenon DEF SeenRegistration, OfAuthSession
<1>4. SeenRegistration(s)
        = Seen("passkey_registration_session", s, of, Null, was, filled)
  BY <1>2, Zenon DEF SeenRegistration, OfAuthSession
<1>5. Seen("passkey_registration_session", n, of, Null, to, filled)
        = [Seen("passkey_registration_session", s, of, Null, was, filled)
             EXCEPT !.verified = to]
  BY <1>1 DEF Seen
<1> QED
  BY <1>2, <1>3, <1>4, <1>5, Zenon

\* A verified passkey_deletion_session is seen as one.
LEMMA PasskeyDeletionVerified ==
  ASSUME NEW s \in PasskeyDeletionSessionRow,
         NEW n, n = [s EXCEPT !.identity_verified = TRUE]
  PROVE  SeenPasskeyDeletion(n)
             = [SeenPasskeyDeletion(s) EXCEPT !.verified = TRUE]
<1>1. /\ n.id = s.id
      /\ n.auth_session_id = s.auth_session_id
      /\ n.passkey_id = s.passkey_id
      /\ n.identity_verified = TRUE
  BY DEF PasskeyDeletionSessionRow
<1>2. PICK to, was, of, about, no :
        /\ to = TRUE
        /\ was = s.identity_verified
        /\ of = OfAuthSession(s)
        /\ about = KeyOf("passkey", s.passkey_id)
        /\ no = FALSE
  OBVIOUS
<1>3. SeenPasskeyDeletion(n)
        = Seen("passkey_deletion_session", n, of, about, to, no)
  BY <1>1, <1>2, Zenon DEF SeenPasskeyDeletion, OfAuthSession
<1>4. SeenPasskeyDeletion(s)
        = Seen("passkey_deletion_session", s, of, about, was, no)
  BY <1>2, Zenon DEF SeenPasskeyDeletion, OfAuthSession
<1>5. Seen("passkey_deletion_session", n, of, about, to, no)
        = [Seen("passkey_deletion_session", s, of, about, was, no)
             EXCEPT !.verified = to]
  BY <1>1 DEF Seen
<1> QED
  BY <1>2, <1>3, <1>4, <1>5, Zenon

\* A verified account_deletion_session is seen as one.
LEMMA AccountDeletionVerified ==
  ASSUME NEW s \in AccountDeletionSessionRow,
         NEW n, n = [s EXCEPT !.identity_verified = TRUE]
  PROVE  SeenAccountDeletion(n)
             = [SeenAccountDeletion(s) EXCEPT !.verified = TRUE]
<1>1. /\ n.id = s.id
      /\ n.auth_session_id = s.auth_session_id
      /\ n.identity_verified = TRUE
  BY DEF AccountDeletionSessionRow
<1>2. PICK to, was, of, no :
        /\ to = TRUE
        /\ was = s.identity_verified
        /\ of = OfAuthSession(s)
        /\ no = FALSE
  OBVIOUS
<1>3. SeenAccountDeletion(n)
        = Seen("account_deletion_session", n, of, Null, to, no)
  BY <1>1, <1>2, Zenon DEF SeenAccountDeletion, OfAuthSession
<1>4. SeenAccountDeletion(s)
        = Seen("account_deletion_session", s, of, Null, was, no)
  BY <1>2, Zenon DEF SeenAccountDeletion, OfAuthSession
<1>5. Seen("account_deletion_session", n, of, Null, to, no)
        = [Seen("account_deletion_session", s, of, Null, was, no)
             EXCEPT !.verified = to]
  BY <1>1 DEF Seen
<1> QED
  BY <1>2, <1>3, <1>4, <1>5, Zenon

\* A signup_session with its column set is seen as filled.
LEMMA SignupFilled ==
  ASSUME NEW s \in SignupSessionRow, NEW value, value # Null,
         NEW n, n = [s EXCEPT !.passkey_webauthn_credential_id = value]
  PROVE  SeenSignup(n) = [SeenSignup(s) EXCEPT !.filled = TRUE]
<1>1. /\ n.id = s.id
      /\ n.email_address_verified = s.email_address_verified
      /\ n.passkey_webauthn_credential_id = value
  BY DEF SignupSessionRow
<1>2. PICK to, was, verified :
        /\ to = TRUE
        /\ was = (s.passkey_webauthn_credential_id # Null)
        /\ verified = s.email_address_verified
  OBVIOUS
<1>3. SeenSignup(n)
        = Seen("signup_session", n, Null, Null, verified, to)
  BY <1>1, <1>2, Zenon DEF SeenSignup
<1>4. SeenSignup(s)
        = Seen("signup_session", s, Null, Null, verified, was)
  BY <1>2, Zenon DEF SeenSignup
<1>5. Seen("signup_session", n, Null, Null, verified, to)
        = [Seen("signup_session", s, Null, Null, verified, was)
             EXCEPT !.filled = to]
  BY <1>1 DEF Seen
<1> QED
  BY <1>2, <1>3, <1>4, <1>5, Zenon

\* A email_address_update_session with its column set is seen as filled.
LEMMA UpdateFilled ==
  ASSUME NEW s \in EmailAddressUpdateSessionRow, NEW value, value # Null,
         NEW n, n = [s EXCEPT !.new_email_address = value]
  PROVE  SeenUpdate(n) = [SeenUpdate(s) EXCEPT !.filled = TRUE]
<1>1. /\ n.id = s.id
      /\ n.auth_session_id = s.auth_session_id
      /\ n.identity_verified = s.identity_verified
      /\ n.new_email_address = value
  BY DEF EmailAddressUpdateSessionRow
<1>2. PICK to, was, verified, of :
        /\ to = TRUE
        /\ was = (s.new_email_address # Null)
        /\ verified = s.identity_verified
        /\ of = OfAuthSession(s)
  OBVIOUS
<1>3. SeenUpdate(n)
        = Seen("email_address_update_session", n, of, Null, verified, to)
  BY <1>1, <1>2, Zenon DEF SeenUpdate, OfAuthSession
<1>4. SeenUpdate(s)
        = Seen("email_address_update_session", s, of, Null, verified, was)
  BY <1>2, Zenon DEF SeenUpdate, OfAuthSession
<1>5. Seen("email_address_update_session", n, of, Null, verified, to)
        = [Seen("email_address_update_session", s, of, Null, verified, was)
             EXCEPT !.filled = to]
  BY <1>1 DEF Seen
<1> QED
  BY <1>2, <1>3, <1>4, <1>5, Zenon

\* A passkey_registration_session with its column set is seen as filled.
LEMMA RegistrationFilled ==
  ASSUME NEW s \in PasskeyRegistrationSessionRow, NEW value, value # Null,
         NEW n, n = [s EXCEPT !.passkey_webauthn_credential_id = value]
  PROVE  SeenRegistration(n) = [SeenRegistration(s) EXCEPT !.filled = TRUE]
<1>1. /\ n.id = s.id
      /\ n.auth_session_id = s.auth_session_id
      /\ n.identity_verified = s.identity_verified
      /\ n.passkey_webauthn_credential_id = value
  BY DEF PasskeyRegistrationSessionRow
<1>2. PICK to, was, verified, of :
        /\ to = TRUE
        /\ was = (s.passkey_webauthn_credential_id # Null)
        /\ verified = s.identity_verified
        /\ of = OfAuthSession(s)
  OBVIOUS
<1>3. SeenRegistration(n)
        = Seen("passkey_registration_session", n, of, Null, verified, to)
  BY <1>1, <1>2, Zenon DEF SeenRegistration, OfAuthSession
<1>4. SeenRegistration(s)
        = Seen("passkey_registration_session", s, of, Null, verified, was)
  BY <1>2, Zenon DEF SeenRegistration, OfAuthSession
<1>5. Seen("passkey_registration_session", n, of, Null, verified, to)
        = [Seen("passkey_registration_session", s, of, Null, verified, was)
             EXCEPT !.filled = to]
  BY <1>1 DEF Seen
<1> QED
  BY <1>2, <1>3, <1>4, <1>5, Zenon

\* An identity verification is seen as filled when it has a code.
LEMMA VerificationFilled ==
  ASSUME NEW s \in IdentityVerificationSessionRow, NEW value,
         NEW n, n = [s EXCEPT !.email_code = value]
  PROVE  SeenVerification(n)
             = [SeenVerification(s) EXCEPT !.filled = (value # Null)]
<1>1. /\ n.id = s.id
      /\ n.auth_session_id = s.auth_session_id
      /\ n.verifying_action = s.verifying_action
      /\ n.verifying_action_id = s.verifying_action_id
      /\ n.email_code = value
  BY DEF IdentityVerificationSessionRow
<1>2. PICK to, was, of, about, no :
        /\ to = (value # Null)
        /\ was = (s.email_code # Null)
        /\ of = OfAuthSession(s)
        /\ about
               = KeyOf(SessionTable(s.verifying_action), s.verifying_action_id)
        /\ no = FALSE
  OBVIOUS
<1>3. SeenVerification(n)
        = Seen("identity_verification_session", n, of, about, no, to)
  BY <1>1, <1>2, Zenon DEF SeenVerification, OfAuthSession
<1>4. SeenVerification(s)
        = Seen("identity_verification_session", s, of, about, no, was)
  BY <1>2, Zenon DEF SeenVerification, OfAuthSession
<1>5. Seen("identity_verification_session", n, of, about, no, to)
        = [Seen("identity_verification_session", s, of, about, no, was)
             EXCEPT !.filled = to]
  BY <1>1 DEF Seen
<1> QED
  BY <1>2, <1>3, <1>4, <1>5, Zenon

\* A row of signup_session gives way to another of its id.
LEMMA ReplaceSignups ==
  ASSUME SeenInv, NEW s \in signup_session, NEW n,
         signup_session' = (signup_session \ {s}) \union {n},
         UNCHANGED <<SeenUsers, SeenPasskeys, SeenAuthSessions, SeenAttempts,
                     SeenEmailCodes, SeenVerifications, SeenUpdates,
                     SeenRegistrations, SeenPasskeyDeletions,
                     SeenAccountDeletions>>
  PROVE  /\ SeenSignup(s) \in SeenBy!RowsIn("signup_session")
         /\ SeenRows' = (seen \ {SeenSignup(s)}) \union {SeenSignup(n)}
<1> USE DEF SeenInv
<1>1. \A q \in signup_session : q # s => SeenSignup(q) # SeenSignup(s)
  BY SeenOnce DEF TypeOK, TablesOK, TableOK
<1>2. SeenSignups' = {SeenSignup(q) : q \in signup_session'}
  BY DEF SeenSignups, SeenSignup, Seen, OfAuthSession
<1>3. SeenSignups' = (SeenSignups \ {SeenSignup(s)})
                     \union {SeenSignup(n)}
  BY <1>1, <1>2 DEF SeenSignups
<1>4. SeenSignup(s) \in SeenSignups
  BY DEF SeenSignups
<1> QED
  BY <1>3, <1>4, SeenRowsIn, SeenApart, SeenFirst, SeenTables, SeenTablesAfter

\* A row of email_address_update_session gives way to another of its id.
LEMMA ReplaceUpdates ==
  ASSUME SeenInv, NEW s \in email_address_update_session, NEW n,
         email_address_update_session' = (email_address_update_session \ {s})
             \union {n},
         UNCHANGED <<SeenUsers, SeenPasskeys, SeenAuthSessions, SeenSignups,
                     SeenAttempts, SeenEmailCodes, SeenVerifications,
                     SeenRegistrations, SeenPasskeyDeletions,
                     SeenAccountDeletions>>
  PROVE  /\ SeenUpdate(s) \in SeenBy!RowsIn("email_address_update_session")
         /\ SeenRows' = (seen \ {SeenUpdate(s)}) \union {SeenUpdate(n)}
<1> USE DEF SeenInv
<1>1. \A q \in email_address_update_session : q # s =>
        SeenUpdate(q) # SeenUpdate(s)
  BY SeenOnce DEF TypeOK, TablesOK, TableOK
<1>2. SeenUpdates' = {SeenUpdate(q) : q \in email_address_update_session'}
  BY DEF SeenUpdates, SeenUpdate, Seen, OfAuthSession
<1>3. SeenUpdates' = (SeenUpdates \ {SeenUpdate(s)})
                     \union {SeenUpdate(n)}
  BY <1>1, <1>2 DEF SeenUpdates
<1>4. SeenUpdate(s) \in SeenUpdates
  BY DEF SeenUpdates
<1> QED
  BY <1>3, <1>4, SeenRowsIn, SeenApart, SeenFirst, SeenTables, SeenTablesAfter

\* A row of passkey_registration_session gives way to another of its id.
LEMMA ReplaceRegistrations ==
  ASSUME SeenInv, NEW s \in passkey_registration_session, NEW n,
         passkey_registration_session' = (passkey_registration_session \ {s})
             \union {n},
         UNCHANGED <<SeenUsers, SeenPasskeys, SeenAuthSessions, SeenSignups,
                     SeenAttempts, SeenEmailCodes, SeenVerifications,
                     SeenUpdates, SeenPasskeyDeletions, SeenAccountDeletions>>
  PROVE  /\ SeenRegistration(s)
                \in SeenBy!RowsIn("passkey_registration_session")
         /\ SeenRows' = (seen \ {SeenRegistration(s)})
                \union {SeenRegistration(n)}
<1> USE DEF SeenInv
<1>1. \A q \in passkey_registration_session : q # s =>
        SeenRegistration(q) # SeenRegistration(s)
  BY SeenOnce DEF TypeOK, TablesOK, TableOK
<1>2. SeenRegistrations'
          = {SeenRegistration(q) : q \in passkey_registration_session'}
  BY DEF SeenRegistrations, SeenRegistration, Seen, OfAuthSession
<1>3. SeenRegistrations' = (SeenRegistrations \ {SeenRegistration(s)})
                     \union {SeenRegistration(n)}
  BY <1>1, <1>2 DEF SeenRegistrations
<1>4. SeenRegistration(s) \in SeenRegistrations
  BY DEF SeenRegistrations
<1> QED
  BY <1>3, <1>4, SeenRowsIn, SeenApart, SeenFirst, SeenTables, SeenTablesAfter

\* A row of identity_verification_session gives way to another of its id.
LEMMA ReplaceVerifications ==
  ASSUME SeenInv, NEW s \in identity_verification_session, NEW n,
         identity_verification_session' = (identity_verification_session \ {s})
             \union {n},
         UNCHANGED <<SeenUsers, SeenPasskeys, SeenAuthSessions, SeenSignups,
                     SeenAttempts, SeenEmailCodes, SeenUpdates,
                     SeenRegistrations, SeenPasskeyDeletions,
                     SeenAccountDeletions>>
  PROVE  /\ SeenVerification(s)
                \in SeenBy!RowsIn("identity_verification_session")
         /\ SeenRows' = (seen \ {SeenVerification(s)})
                \union {SeenVerification(n)}
<1> USE DEF SeenInv
<1>1. \A q \in identity_verification_session : q # s =>
        SeenVerification(q) # SeenVerification(s)
  BY SeenOnce DEF TypeOK, TablesOK, TableOK
<1>2. SeenVerifications'
          = {SeenVerification(q) : q \in identity_verification_session'}
  BY DEF SeenVerifications, SeenVerification, Seen, OfAuthSession
<1>3. SeenVerifications' = (SeenVerifications \ {SeenVerification(s)})
                     \union {SeenVerification(n)}
  BY <1>1, <1>2 DEF SeenVerifications
<1>4. SeenVerification(s) \in SeenVerifications
  BY DEF SeenVerifications
<1> QED
  BY <1>3, <1>4, SeenRowsIn, SeenApart, SeenFirst, SeenTables, SeenTablesAfter

\* setSignupSessionAsEmailAddressVerified is setVerified of Sessions.
LEMMA VerifySignupSeen ==
  ASSUME SeenInv, seen' = SeenRows', NEW r \in Requests,
         setSignupSessionAsEmailAddressVerified(r)
  PROVE  SeenBy!SessionsNext
<1> USE DEF SeenInv
<1>1. PICK s \in signup_session :
        /\ signup_session' =
             (signup_session \ {s})
                 \union {[s EXCEPT !.email_address_verified = TRUE]}
  BY DEF setSignupSessionAsEmailAddressVerified
<1>2. PICK n : n = [s EXCEPT !.email_address_verified = TRUE]
  OBVIOUS
<1>3. UNCHANGED <<SeenUsers, SeenPasskeys, SeenAuthSessions, SeenAttempts,
                  SeenEmailCodes, SeenVerifications, SeenUpdates,
                  SeenRegistrations, SeenPasskeyDeletions,
                  SeenAccountDeletions>>
  BY SeenUnchanged
  DEF setSignupSessionAsEmailAddressVerified, emailAddressUpdateLeaves,
     passkeyRegistrationLeaves, accountTables, signinTables, actionTables,
     signupLeaves
<1>4. /\ SeenSignup(s) \in SeenBy!RowsIn("signup_session")
      /\ SeenRows' = (seen \ {SeenSignup(s)}) \union {SeenSignup(n)}
  BY <1>1, <1>2, <1>3, ReplaceSignups
<1>5. s \in SignupSessionRow
  BY Columns
<1>6. SeenSignup(n) = [SeenSignup(s) EXCEPT !.verified = TRUE]
  BY <1>2, <1>5, SignupVerified
<1> QED
  BY <1>4, <1>6, SetsVerified DEF SeenBy!setVerified, SeenBy!Replace

\* setSignupSessionPasskeyWebauthnCredential is fill of Sessions: the column
\* was NULL.
LEMMA FillSignupSeen ==
  ASSUME SeenInv, seen' = SeenRows', NEW r \in Requests,
         setSignupSessionPasskeyWebauthnCredential(r)
  PROVE  SeenBy!SessionsNext
<1> USE DEF SeenInv
<1>1. PICK s \in signup_session :
        /\ signup_session' =
             (signup_session \ {s})
                 \union {[s EXCEPT !.passkey_webauthn_credential_id
                                       = request[r].value]}
        /\ s.passkey_webauthn_credential_id = Null
  BY DEF setSignupSessionPasskeyWebauthnCredential, SetsSignupCredential
<1>2. PICK n :
        n = [s EXCEPT !.passkey_webauthn_credential_id = request[r].value]
  OBVIOUS
<1>3. UNCHANGED <<SeenUsers, SeenPasskeys, SeenAuthSessions, SeenAttempts,
                  SeenEmailCodes, SeenVerifications, SeenUpdates,
                  SeenRegistrations, SeenPasskeyDeletions,
                  SeenAccountDeletions>>
  BY SeenUnchanged
  DEF setSignupSessionPasskeyWebauthnCredential, emailAddressUpdateLeaves,
     passkeyRegistrationLeaves, accountTables, signinTables, actionTables,
     signupLeaves
<1>4. /\ SeenSignup(s) \in SeenBy!RowsIn("signup_session")
      /\ SeenRows' = (seen \ {SeenSignup(s)}) \union {SeenSignup(n)}
  BY <1>1, <1>2, <1>3, ReplaceSignups
<1>5. s \in SignupSessionRow /\ request[r].value # Null
  BY Columns, NullAssumption
  DEF setSignupSessionPasskeyWebauthnCredential, TypeOK, RequestsOK
<1>6. SeenSignup(n) = [SeenSignup(s) EXCEPT !.filled = TRUE]
  BY <1>2, <1>5, SignupFilled
<1>7. ~SeenSignup(s).filled
  BY <1>1 DEF SeenSignup, Seen
<1> QED
  BY <1>4, <1>6, <1>7, Fills DEF SeenBy!fill, SeenBy!Replace

\* So is setEmailAddressUpdateSessionNewEmailAddress.
LEMMA FillUpdateSeen ==
  ASSUME SeenInv, seen' = SeenRows', NEW r \in Requests,
         setEmailAddressUpdateSessionNewEmailAddress(r)
  PROVE  SeenBy!SessionsNext
<1> USE DEF SeenInv
<1>1. PICK s \in email_address_update_session :
        /\ email_address_update_session' =
             (email_address_update_session \ {s})
                 \union {[s EXCEPT !.new_email_address = request[r].value]}
        /\ s.new_email_address = Null
  BY DEF setEmailAddressUpdateSessionNewEmailAddress, SetsNewEmailAddress
<1>2. PICK n : n = [s EXCEPT !.new_email_address = request[r].value]
  OBVIOUS
<1>3. UNCHANGED <<SeenUsers, SeenPasskeys, SeenAuthSessions, SeenSignups,
                  SeenAttempts, SeenEmailCodes, SeenVerifications,
                  SeenRegistrations, SeenPasskeyDeletions,
                  SeenAccountDeletions>>
  BY SeenUnchanged
  DEF setEmailAddressUpdateSessionNewEmailAddress, emailAddressUpdateLeaves,
     passkeyRegistrationLeaves, accountTables, signinTables, actionTables,
     signupLeaves
<1>4. /\ SeenUpdate(s) \in SeenBy!RowsIn("email_address_update_session")
      /\ SeenRows' = (seen \ {SeenUpdate(s)}) \union {SeenUpdate(n)}
  BY <1>1, <1>2, <1>3, ReplaceUpdates
<1>5. s \in EmailAddressUpdateSessionRow /\ request[r].value # Null
  BY Columns, NullAssumption
  DEF setEmailAddressUpdateSessionNewEmailAddress, TypeOK, RequestsOK
<1>6. SeenUpdate(n) = [SeenUpdate(s) EXCEPT !.filled = TRUE]
  BY <1>2, <1>5, UpdateFilled
<1>7. ~SeenUpdate(s).filled
  BY <1>1 DEF SeenUpdate, Seen
<1> QED
  BY <1>4, <1>6, <1>7, Fills DEF SeenBy!fill, SeenBy!Replace

\* So is setPasskeyRegistrationSessionPasskeyWebauthnCredential.
LEMMA FillRegistrationSeen ==
  ASSUME SeenInv, seen' = SeenRows', NEW r \in Requests,
         setPasskeyRegistrationSessionPasskeyWebauthnCredential(r)
  PROVE  SeenBy!SessionsNext
<1> USE DEF SeenInv
<1>1. PICK s \in passkey_registration_session :
        /\ passkey_registration_session' =
             (passkey_registration_session \ {s})
                 \union {[s EXCEPT !.passkey_webauthn_credential_id
                                       = request[r].value]}
        /\ s.passkey_webauthn_credential_id = Null
  BY DEF setPasskeyRegistrationSessionPasskeyWebauthnCredential
<1>2. PICK n :
        n = [s EXCEPT !.passkey_webauthn_credential_id = request[r].value]
  OBVIOUS
<1>3. UNCHANGED <<SeenUsers, SeenPasskeys, SeenAuthSessions, SeenSignups,
                  SeenAttempts, SeenEmailCodes, SeenVerifications,
                  SeenUpdates, SeenPasskeyDeletions, SeenAccountDeletions>>
  BY SeenUnchanged
  DEF setPasskeyRegistrationSessionPasskeyWebauthnCredential,
      emailAddressUpdateLeaves,
     passkeyRegistrationLeaves, accountTables, signinTables, actionTables,
     signupLeaves
<1>4. /\ SeenRegistration(s) \in SeenBy!RowsIn("passkey_registration_session")
      /\ SeenRows' = (seen \ {SeenRegistration(s)})
             \union {SeenRegistration(n)}
  BY <1>1, <1>2, <1>3, ReplaceRegistrations
<1>5. s \in PasskeyRegistrationSessionRow /\ request[r].value # Null
  BY Columns, NullAssumption
  DEF setPasskeyRegistrationSessionPasskeyWebauthnCredential, TypeOK,
      RequestsOK
<1>6. SeenRegistration(n) = [SeenRegistration(s) EXCEPT !.filled = TRUE]
  BY <1>2, <1>5, RegistrationFilled
<1>7. ~SeenRegistration(s).filled
  BY <1>1 DEF SeenRegistration, Seen
<1> QED
  BY <1>4, <1>6, <1>7, Fills DEF SeenBy!fill, SeenBy!Replace

\* issueIdentityVerificationSessionEmailCode is setEmailCode of Sessions.
LEMMA IssueSeen ==
  ASSUME SeenInv, seen' = SeenRows', NEW r \in Requests,
         issueIdentityVerificationSessionEmailCode(r)
  PROVE  SeenBy!SessionsNext
<1> USE DEF SeenInv
<1>1. PICK s \in identity_verification_session, u \in user :
        /\ identity_verification_session' =
             (identity_verification_session \ {s})
                 \union {[s EXCEPT !.email_code = u.email_address]}
  BY DEF issueIdentityVerificationSessionEmailCode
<1>2. PICK n : n = [s EXCEPT !.email_code = u.email_address]
  OBVIOUS
<1>3. UNCHANGED <<SeenUsers, SeenPasskeys, SeenAuthSessions, SeenSignups,
                  SeenAttempts, SeenEmailCodes, SeenUpdates,
                  SeenRegistrations, SeenPasskeyDeletions,
                  SeenAccountDeletions>>
  BY SeenUnchanged
  DEF issueIdentityVerificationSessionEmailCode, emailAddressUpdateLeaves,
     passkeyRegistrationLeaves, accountTables, signinTables, actionTables,
     signupLeaves
<1>4. /\ SeenVerification(s) \in SeenBy!RowsIn("identity_verification_session")
      /\ SeenRows' = (seen \ {SeenVerification(s)})
             \union {SeenVerification(n)}
  BY <1>1, <1>2, <1>3, ReplaceVerifications
<1>5. s \in IdentityVerificationSessionRow
  BY Columns
<1>6. PICK value, to : value = u.email_address /\ to = (value # Null)
  OBVIOUS
<1>7. n = [s EXCEPT !.email_code = value]
  BY <1>2, <1>6
<1>8. SeenVerification(n) = [SeenVerification(s) EXCEPT !.filled = to]
  BY <1>7, <1>5, <1>6, VerificationFilled, Zenon
<1>9. SeenBy!setEmailCode(SeenVerification(s), to)
  BY <1>4, <1>8 DEF SeenBy!setEmailCode, SeenBy!Replace
<1>10. to \in BOOLEAN
  BY <1>6, Zenon
<1> QED
  BY <1>4, <1>9, <1>10, SetsEmailCode

\* So is revokeIdentityVerificationSessionEmailCode.
LEMMA RevokeSeen ==
  ASSUME SeenInv, seen' = SeenRows', NEW r \in Requests,
         revokeIdentityVerificationSessionEmailCode(r)
  PROVE  SeenBy!SessionsNext
<1> USE DEF SeenInv
<1>1. PICK s \in identity_verification_session :
        /\ identity_verification_session' =
             (identity_verification_session \ {s})
                 \union {[s EXCEPT !.email_code = Null]}
  BY DEF revokeIdentityVerificationSessionEmailCode
<1>2. PICK n : n = [s EXCEPT !.email_code = Null]
  OBVIOUS
<1>3. UNCHANGED <<SeenUsers, SeenPasskeys, SeenAuthSessions, SeenSignups,
                  SeenAttempts, SeenEmailCodes, SeenUpdates,
                  SeenRegistrations, SeenPasskeyDeletions,
                  SeenAccountDeletions>>
  BY SeenUnchanged
  DEF revokeIdentityVerificationSessionEmailCode, emailAddressUpdateLeaves,
     passkeyRegistrationLeaves, accountTables, signinTables, actionTables,
     signupLeaves
<1>4. /\ SeenVerification(s) \in SeenBy!RowsIn("identity_verification_session")
      /\ SeenRows' = (seen \ {SeenVerification(s)})
             \union {SeenVerification(n)}
  BY <1>1, <1>2, <1>3, ReplaceVerifications
<1>5. s \in IdentityVerificationSessionRow
  BY Columns
<1>6. PICK value, to : value = Null /\ to = (value # Null)
  OBVIOUS
<1>7. n = [s EXCEPT !.email_code = value]
  BY <1>2, <1>6
<1>8. SeenVerification(n) = [SeenVerification(s) EXCEPT !.filled = to]
  BY <1>7, <1>5, <1>6, VerificationFilled, Zenon
<1>9. SeenBy!setEmailCode(SeenVerification(s), to)
  BY <1>4, <1>8 DEF SeenBy!setEmailCode, SeenBy!Replace
<1>10. to \in BOOLEAN
  BY <1>6, Zenon
<1> QED
  BY <1>4, <1>9, <1>10, SetsEmailCode

\* An identity verification for an email address update is
\* completeIdentityVerification of Sessions: the session it is about is
\* verified and the verification used up at once.
LEMMA CompleteUpdateSeen ==
  ASSUME SeenInv, seen' = SeenRows', NEW v \in identity_verification_session,
         v.verifying_action = "email_address_update",
         completeIdentityVerificationForEmailAddressUpdate(v),
         VerificationUsed(v),
         UNCHANGED <<accountTables, signup_session, signinTables>>
  PROVE  SeenBy!SessionsNext
<1> USE DEF SeenInv
<1>1. PICK s \in email_address_update_session : s.id = v.verifying_action_id
  BY DEF completeIdentityVerificationForEmailAddressUpdate, HasRow
<1>2. PICK n : n = [s EXCEPT !.identity_verified = TRUE]
  OBVIOUS
<1>3. email_address_update_session' = (email_address_update_session \ {s})
          \union {n}
  BY <1>1, <1>2
  DEF completeIdentityVerificationForEmailAddressUpdate, MarkVerified,
     TypeOK, TablesOK, TableOK
<1>4. identity_verification_session' = identity_verification_session \ {v}
  BY DEF VerificationUsed, WithoutRow, TypeOK, TablesOK, TableOK
<1>5. UNCHANGED <<SeenUsers, SeenPasskeys, SeenAuthSessions, SeenSignups,
                  SeenAttempts, SeenEmailCodes, SeenRegistrations,
                  SeenPasskeyDeletions, SeenAccountDeletions>>
  BY SeenUnchanged
  DEF completeIdentityVerificationForEmailAddressUpdate, accountTables,
      signinTables
<1>6. \A q \in email_address_update_session : q # s =>
        SeenUpdate(q) # SeenUpdate(s)
  BY SeenOnce DEF TypeOK, TablesOK, TableOK
<1>7. SeenUpdates' = (SeenUpdates \ {SeenUpdate(s)})
                     \union {SeenUpdate(n)}
  <2>1. SeenUpdates' = {SeenUpdate(q) : q \in email_address_update_session'}
    BY DEF SeenUpdates, SeenUpdate, Seen, OfAuthSession
  <2> QED
    BY <1>3, <1>6, <2>1 DEF SeenUpdates
<1>8. \A w \in identity_verification_session :
        w # v => SeenVerification(w) # SeenVerification(v)
  BY SeenOnce DEF TypeOK, TablesOK, TableOK
<1>9. SeenVerifications' = SeenVerifications \ {SeenVerification(v)}
  <2>1. SeenVerifications' =
          {SeenVerification(w) : w \in identity_verification_session'}
    BY DEF SeenVerifications, SeenVerification, Seen, OfAuthSession
  <2> QED
    BY <1>4, <1>8, <2>1 DEF SeenVerifications
<1>10. /\ SeenUpdate(s) \in SeenUpdates
      /\ SeenVerification(v) \in SeenVerifications
  BY DEF SeenUpdates, SeenVerifications
<1>11. SeenRows' = (seen \ {SeenUpdate(s), SeenVerification(v)})
                     \union {SeenUpdate(n)}
  BY <1>5, <1>7, <1>9, <1>10, SeenApart, SeenFirst, SeenTables, SeenTablesAfter
<1>12. s \in EmailAddressUpdateSessionRow
  BY Columns
<1>13. SeenUpdate(n) = [SeenUpdate(s) EXCEPT !.verified = TRUE]
  BY <1>2, <1>12, UpdateVerified
<1>14. SeenUpdate(s).key = SeenVerification(v).about
  <2>1. SeenVerification(v).about = KeyOf("email_address_update_session", s.id)
    BY <1>1, SeenAbout
  <2> QED
    BY <2>1 DEF SeenUpdate, Seen
<1>15. SeenBy!completeIdentityVerification(SeenVerification(v))
  BY <1>10, <1>11, <1>13, <1>14, SeenTables
  DEF SeenBy!completeIdentityVerification
<1> QED
  BY <1>10, <1>15, SeenRowsIn, CompletesVerification

\* So is one for a passkey registration.
LEMMA CompleteRegistrationSeen ==
  ASSUME SeenInv, seen' = SeenRows', NEW v \in identity_verification_session,
         v.verifying_action = "passkey_registration",
         completeIdentityVerificationForPasskeyRegistration(v),
         VerificationUsed(v),
         UNCHANGED <<accountTables, signup_session, signinTables>>
  PROVE  SeenBy!SessionsNext
<1> USE DEF SeenInv
<1>1. PICK s \in passkey_registration_session : s.id = v.verifying_action_id
  BY DEF completeIdentityVerificationForPasskeyRegistration, HasRow
<1>2. PICK n : n = [s EXCEPT !.identity_verified = TRUE]
  OBVIOUS
<1>3. passkey_registration_session' = (passkey_registration_session \ {s})
          \union {n}
  BY <1>1, <1>2
  DEF completeIdentityVerificationForPasskeyRegistration, MarkVerified,
     TypeOK, TablesOK, TableOK
<1>4. identity_verification_session' = identity_verification_session \ {v}
  BY DEF VerificationUsed, WithoutRow, TypeOK, TablesOK, TableOK
<1>5. UNCHANGED <<SeenUsers, SeenPasskeys, SeenAuthSessions, SeenSignups,
                  SeenAttempts, SeenEmailCodes, SeenUpdates,
                  SeenPasskeyDeletions, SeenAccountDeletions>>
  BY SeenUnchanged
  DEF completeIdentityVerificationForPasskeyRegistration, accountTables,
      signinTables
<1>6. \A q \in passkey_registration_session : q # s =>
        SeenRegistration(q) # SeenRegistration(s)
  BY SeenOnce DEF TypeOK, TablesOK, TableOK
<1>7. SeenRegistrations' = (SeenRegistrations \ {SeenRegistration(s)})
                     \union {SeenRegistration(n)}
  <2>1. SeenRegistrations'
            = {SeenRegistration(q) : q \in passkey_registration_session'}
    BY DEF SeenRegistrations, SeenRegistration, Seen, OfAuthSession
  <2> QED
    BY <1>3, <1>6, <2>1 DEF SeenRegistrations
<1>8. \A w \in identity_verification_session :
        w # v => SeenVerification(w) # SeenVerification(v)
  BY SeenOnce DEF TypeOK, TablesOK, TableOK
<1>9. SeenVerifications' = SeenVerifications \ {SeenVerification(v)}
  <2>1. SeenVerifications' =
          {SeenVerification(w) : w \in identity_verification_session'}
    BY DEF SeenVerifications, SeenVerification, Seen, OfAuthSession
  <2> QED
    BY <1>4, <1>8, <2>1 DEF SeenVerifications
<1>10. /\ SeenRegistration(s) \in SeenRegistrations
      /\ SeenVerification(v) \in SeenVerifications
  BY DEF SeenRegistrations, SeenVerifications
<1>11. SeenRows' = (seen \ {SeenRegistration(s), SeenVerification(v)})
                     \union {SeenRegistration(n)}
  BY <1>5, <1>7, <1>9, <1>10, SeenApart, SeenFirst, SeenTables, SeenTablesAfter
<1>12. s \in PasskeyRegistrationSessionRow
  BY Columns
<1>13. SeenRegistration(n) = [SeenRegistration(s) EXCEPT !.verified = TRUE]
  BY <1>2, <1>12, RegistrationVerified
<1>14. SeenRegistration(s).key = SeenVerification(v).about
  <2>1. SeenVerification(v).about = KeyOf("passkey_registration_session", s.id)
    BY <1>1, SeenAbout
  <2> QED
    BY <2>1 DEF SeenRegistration, Seen
<1>15. SeenBy!completeIdentityVerification(SeenVerification(v))
  BY <1>10, <1>11, <1>13, <1>14, SeenTables
  DEF SeenBy!completeIdentityVerification
<1> QED
  BY <1>10, <1>15, SeenRowsIn, CompletesVerification

\* So is one for a passkey deletion.
LEMMA CompletePasskeyDeletionSeen ==
  ASSUME SeenInv, seen' = SeenRows', NEW v \in identity_verification_session,
         v.verifying_action = "passkey_deletion",
         completeIdentityVerificationForPasskeyDeletion(v),
         VerificationUsed(v),
         UNCHANGED <<accountTables, signup_session, signinTables>>
  PROVE  SeenBy!SessionsNext
<1> USE DEF SeenInv
<1>1. PICK s \in passkey_deletion_session : s.id = v.verifying_action_id
  BY DEF completeIdentityVerificationForPasskeyDeletion, HasRow
<1>2. PICK n : n = [s EXCEPT !.identity_verified = TRUE]
  OBVIOUS
<1>3. passkey_deletion_session' = (passkey_deletion_session \ {s}) \union {n}
  BY <1>1, <1>2
  DEF completeIdentityVerificationForPasskeyDeletion, MarkVerified,
     TypeOK, TablesOK, TableOK
<1>4. identity_verification_session' = identity_verification_session \ {v}
  BY DEF VerificationUsed, WithoutRow, TypeOK, TablesOK, TableOK
<1>5. UNCHANGED <<SeenUsers, SeenPasskeys, SeenAuthSessions, SeenSignups,
                  SeenAttempts, SeenEmailCodes, SeenUpdates,
                  SeenRegistrations, SeenAccountDeletions>>
  BY SeenUnchanged
  DEF completeIdentityVerificationForPasskeyDeletion, accountTables,
      signinTables
<1>6. \A q \in passkey_deletion_session : q # s =>
        SeenPasskeyDeletion(q) # SeenPasskeyDeletion(s)
  BY SeenOnce DEF TypeOK, TablesOK, TableOK
<1>7. SeenPasskeyDeletions' = (SeenPasskeyDeletions \ {SeenPasskeyDeletion(s)})
                     \union {SeenPasskeyDeletion(n)}
  <2>1. SeenPasskeyDeletions'
            = {SeenPasskeyDeletion(q) : q \in passkey_deletion_session'}
    BY DEF SeenPasskeyDeletions, SeenPasskeyDeletion, Seen, OfAuthSession
  <2> QED
    BY <1>3, <1>6, <2>1 DEF SeenPasskeyDeletions
<1>8. \A w \in identity_verification_session :
        w # v => SeenVerification(w) # SeenVerification(v)
  BY SeenOnce DEF TypeOK, TablesOK, TableOK
<1>9. SeenVerifications' = SeenVerifications \ {SeenVerification(v)}
  <2>1. SeenVerifications' =
          {SeenVerification(w) : w \in identity_verification_session'}
    BY DEF SeenVerifications, SeenVerification, Seen, OfAuthSession
  <2> QED
    BY <1>4, <1>8, <2>1 DEF SeenVerifications
<1>10. /\ SeenPasskeyDeletion(s) \in SeenPasskeyDeletions
      /\ SeenVerification(v) \in SeenVerifications
  BY DEF SeenPasskeyDeletions, SeenVerifications
<1>11. SeenRows' = (seen \ {SeenPasskeyDeletion(s), SeenVerification(v)})
                     \union {SeenPasskeyDeletion(n)}
  BY <1>5, <1>7, <1>9, <1>10, SeenApart, SeenFirst, SeenTables, SeenTablesAfter
<1>12. s \in PasskeyDeletionSessionRow
  BY Columns
<1>13. SeenPasskeyDeletion(n)
           = [SeenPasskeyDeletion(s) EXCEPT !.verified = TRUE]
  BY <1>2, <1>12, PasskeyDeletionVerified
<1>14. SeenPasskeyDeletion(s).key = SeenVerification(v).about
  <2>1. SeenVerification(v).about = KeyOf("passkey_deletion_session", s.id)
    BY <1>1, SeenAbout
  <2> QED
    BY <2>1 DEF SeenPasskeyDeletion, Seen
<1>15. SeenBy!completeIdentityVerification(SeenVerification(v))
  BY <1>10, <1>11, <1>13, <1>14, SeenTables
  DEF SeenBy!completeIdentityVerification
<1> QED
  BY <1>10, <1>15, SeenRowsIn, CompletesVerification

\* So is one for an account deletion.
LEMMA CompleteAccountDeletionSeen ==
  ASSUME SeenInv, seen' = SeenRows', NEW v \in identity_verification_session,
         v.verifying_action = "account_deletion",
         completeIdentityVerificationForAccountDeletion(v),
         VerificationUsed(v),
         UNCHANGED <<accountTables, signup_session, signinTables>>
  PROVE  SeenBy!SessionsNext
<1> USE DEF SeenInv
<1>1. PICK s \in account_deletion_session : s.id = v.verifying_action_id
  BY DEF completeIdentityVerificationForAccountDeletion, HasRow
<1>2. PICK n : n = [s EXCEPT !.identity_verified = TRUE]
  OBVIOUS
<1>3. account_deletion_session' = (account_deletion_session \ {s}) \union {n}
  BY <1>1, <1>2
  DEF completeIdentityVerificationForAccountDeletion, MarkVerified,
     TypeOK, TablesOK, TableOK
<1>4. identity_verification_session' = identity_verification_session \ {v}
  BY DEF VerificationUsed, WithoutRow, TypeOK, TablesOK, TableOK
<1>5. UNCHANGED <<SeenUsers, SeenPasskeys, SeenAuthSessions, SeenSignups,
                  SeenAttempts, SeenEmailCodes, SeenUpdates,
                  SeenRegistrations, SeenPasskeyDeletions>>
  BY SeenUnchanged
  DEF completeIdentityVerificationForAccountDeletion, accountTables,
      signinTables
<1>6. \A q \in account_deletion_session : q # s =>
        SeenAccountDeletion(q) # SeenAccountDeletion(s)
  BY SeenOnce DEF TypeOK, TablesOK, TableOK
<1>7. SeenAccountDeletions' = (SeenAccountDeletions \ {SeenAccountDeletion(s)})
                     \union {SeenAccountDeletion(n)}
  <2>1. SeenAccountDeletions'
            = {SeenAccountDeletion(q) : q \in account_deletion_session'}
    BY DEF SeenAccountDeletions, SeenAccountDeletion, Seen, OfAuthSession
  <2> QED
    BY <1>3, <1>6, <2>1 DEF SeenAccountDeletions
<1>8. \A w \in identity_verification_session :
        w # v => SeenVerification(w) # SeenVerification(v)
  BY SeenOnce DEF TypeOK, TablesOK, TableOK
<1>9. SeenVerifications' = SeenVerifications \ {SeenVerification(v)}
  <2>1. SeenVerifications' =
          {SeenVerification(w) : w \in identity_verification_session'}
    BY DEF SeenVerifications, SeenVerification, Seen, OfAuthSession
  <2> QED
    BY <1>4, <1>8, <2>1 DEF SeenVerifications
<1>10. /\ SeenAccountDeletion(s) \in SeenAccountDeletions
      /\ SeenVerification(v) \in SeenVerifications
  BY DEF SeenAccountDeletions, SeenVerifications
<1>11. SeenRows' = (seen \ {SeenAccountDeletion(s), SeenVerification(v)})
                     \union {SeenAccountDeletion(n)}
  BY <1>5, <1>7, <1>9, <1>10, SeenApart, SeenFirst, SeenTables, SeenTablesAfter
<1>12. s \in AccountDeletionSessionRow
  BY Columns
<1>13. SeenAccountDeletion(n)
           = [SeenAccountDeletion(s) EXCEPT !.verified = TRUE]
  BY <1>2, <1>12, AccountDeletionVerified
<1>14. SeenAccountDeletion(s).key = SeenVerification(v).about
  <2>1. SeenVerification(v).about = KeyOf("account_deletion_session", s.id)
    BY <1>1, SeenAbout
  <2> QED
    BY <2>1 DEF SeenAccountDeletion, Seen
<1>15. SeenBy!completeIdentityVerification(SeenVerification(v))
  BY <1>10, <1>11, <1>13, <1>14, SeenTables
  DEF SeenBy!completeIdentityVerification
<1> QED
  BY <1>10, <1>15, SeenRowsIn, CompletesVerification

\* completeIdentityVerification is that of Sessions, whatever it is for.
LEMMA CompleteVerificationSeen ==
  ASSUME SeenInv, seen' = SeenRows', NEW r \in Requests,
         completeIdentityVerification(r)
  PROVE  SeenBy!SessionsNext
<1>1. PICK v \in identity_verification_session :
        /\ \/ v.verifying_action = "email_address_update"
              /\ completeIdentityVerificationForEmailAddressUpdate(v)
           \/ v.verifying_action = "passkey_registration"
              /\ completeIdentityVerificationForPasskeyRegistration(v)
           \/ v.verifying_action = "passkey_deletion"
              /\ completeIdentityVerificationForPasskeyDeletion(v)
           \/ v.verifying_action = "account_deletion"
              /\ completeIdentityVerificationForAccountDeletion(v)
        /\ VerificationUsed(v)
  BY DEF completeIdentityVerification
<1>2. UNCHANGED <<accountTables, signup_session, signinTables>>
  BY DEF completeIdentityVerification
<1> QED
  BY <1>1, <1>2, CompleteUpdateSeen, CompleteRegistrationSeen,
     CompletePasskeyDeletionSeen, CompleteAccountDeletionSeen

-----------------------------------------------------------------------------
(* The end of a flow. *)

\* A new row of user is seen.
LEMMA AddUsers ==
  ASSUME NEW n, user' = user \union {n}
  PROVE  SeenUsers' = SeenUsers \union {SeenUser(n)}
<1>1. SeenUsers' = {SeenUser(u) : u \in user'}
  BY DEF SeenUsers, SeenUser, Seen, OfUser
<1> QED
  BY <1>1 DEF SeenUsers

\* A new row of passkey is seen.
LEMMA AddPasskeys ==
  ASSUME NEW n, passkey' = passkey \union {n}
  PROVE  SeenPasskeys' = SeenPasskeys \union {SeenPasskey(n)}
<1>1. SeenPasskeys' = {SeenPasskey(p) : p \in passkey'}
  BY DEF SeenPasskeys, SeenPasskey, Seen, OfUser
<1> QED
  BY <1>1 DEF SeenPasskeys

\* A new row of auth_session is seen.
LEMMA AddAuthSessions ==
  ASSUME NEW n, auth_session' = auth_session \union {n}
  PROVE  SeenAuthSessions' = SeenAuthSessions \union {SeenAuthSession(n)}
<1>1. SeenAuthSessions' = {SeenAuthSession(a) : a \in auth_session'}
  BY DEF SeenAuthSessions, SeenAuthSession, Seen, OfUser
<1> QED
  BY <1>1 DEF SeenAuthSessions

\* The row of signup_session that is used up is seen no longer.
LEMMA UseSignups ==
  ASSUME TypeOK, NEW s \in signup_session,
         signup_session' = WithoutRow(signup_session, s.id)
  PROVE  SeenSignups' = SeenSignups \ {SeenSignup(s)}
<1>1. signup_session' = signup_session \ {s}
  BY DEF WithoutRow, TypeOK, TablesOK, TableOK
<1>2. \A q \in signup_session : q # s => SeenSignup(q) # SeenSignup(s)
  BY SeenOnce DEF TypeOK, TablesOK, TableOK
<1>3. SeenSignups' = {SeenSignup(q) : q \in signup_session'}
  BY DEF SeenSignups, SeenSignup, Seen, OfUser, OfAuthSession
<1> QED
  BY <1>1, <1>2, <1>3 DEF SeenSignups

\* The row of passkey_signin_attempt that is used up is seen no longer.
LEMMA UseAttempts ==
  ASSUME TypeOK, NEW s \in passkey_signin_attempt,
         passkey_signin_attempt' = WithoutRow(passkey_signin_attempt, s.id)
  PROVE  SeenAttempts' = SeenAttempts \ {SeenAttempt(s)}
<1>1. passkey_signin_attempt' = passkey_signin_attempt \ {s}
  BY DEF WithoutRow, TypeOK, TablesOK, TableOK
<1>2. \A q \in passkey_signin_attempt : q # s =>
        SeenAttempt(q) # SeenAttempt(s)
  BY SeenOnce DEF TypeOK, TablesOK, TableOK
<1>3. SeenAttempts' = {SeenAttempt(q) : q \in passkey_signin_attempt'}
  BY DEF SeenAttempts, SeenAttempt, Seen, OfUser, OfAuthSession
<1> QED
  BY <1>1, <1>2, <1>3 DEF SeenAttempts

\* The row of email_code_signin_session that is used up is seen no longer.
LEMMA UseEmailCodes ==
  ASSUME TypeOK, NEW s \in email_code_signin_session,
         email_code_signin_session'
             = WithoutRow(email_code_signin_session, s.id)
  PROVE  SeenEmailCodes' = SeenEmailCodes \ {SeenEmailCode(s)}
<1>1. email_code_signin_session' = email_code_signin_session \ {s}
  BY DEF WithoutRow, TypeOK, TablesOK, TableOK
<1>2. \A q \in email_code_signin_session : q # s =>
        SeenEmailCode(q) # SeenEmailCode(s)
  BY SeenOnce DEF TypeOK, TablesOK, TableOK
<1>3. SeenEmailCodes' = {SeenEmailCode(q) : q \in email_code_signin_session'}
  BY DEF SeenEmailCodes, SeenEmailCode, Seen, OfUser, OfAuthSession
<1> QED
  BY <1>1, <1>2, <1>3 DEF SeenEmailCodes

\* The row of email_address_update_session that is used up is seen no longer.
LEMMA UseUpdates ==
  ASSUME TypeOK, NEW s \in email_address_update_session,
         email_address_update_session'
             = WithoutRow(email_address_update_session, s.id)
  PROVE  SeenUpdates' = SeenUpdates \ {SeenUpdate(s)}
<1>1. email_address_update_session' = email_address_update_session \ {s}
  BY DEF WithoutRow, TypeOK, TablesOK, TableOK
<1>2. \A q \in email_address_update_session : q # s =>
        SeenUpdate(q) # SeenUpdate(s)
  BY SeenOnce DEF TypeOK, TablesOK, TableOK
<1>3. SeenUpdates' = {SeenUpdate(q) : q \in email_address_update_session'}
  BY DEF SeenUpdates, SeenUpdate, Seen, OfUser, OfAuthSession
<1> QED
  BY <1>1, <1>2, <1>3 DEF SeenUpdates

\* The row of passkey_registration_session that is used up is seen no longer.
LEMMA UseRegistrations ==
  ASSUME TypeOK, NEW s \in passkey_registration_session,
         passkey_registration_session'
             = WithoutRow(passkey_registration_session, s.id)
  PROVE  SeenRegistrations' = SeenRegistrations \ {SeenRegistration(s)}
<1>1. passkey_registration_session' = passkey_registration_session \ {s}
  BY DEF WithoutRow, TypeOK, TablesOK, TableOK
<1>2. \A q \in passkey_registration_session : q # s =>
        SeenRegistration(q) # SeenRegistration(s)
  BY SeenOnce DEF TypeOK, TablesOK, TableOK
<1>3. SeenRegistrations'
          = {SeenRegistration(q) : q \in passkey_registration_session'}
  BY DEF SeenRegistrations, SeenRegistration, Seen, OfUser, OfAuthSession
<1> QED
  BY <1>1, <1>2, <1>3 DEF SeenRegistrations

\* What a sign-up and a sign-in add are new rows.
LEMMA NewAccountSeen ==
  ASSUME NEW id, NEW email_address
  PROVE  SeenUser([id |-> id, email_address |-> email_address])
           = SeenBy!NewRow(KeyOf("user", id), Null, Null)
BY DEF SeenUser, Seen, SeenBy!NewRow

\* The auth session of a sign-up or a sign-in.
LEMMA NewSessionSeen ==
  ASSUME NEW id, NEW user_id
  PROVE  SeenAuthSession([id |-> id, user_id |-> user_id])
           = SeenBy!NewRow(KeyOf("auth_session", id), KeyOf("user", user_id),
                           Null)
BY DEF SeenAuthSession, Seen, OfUser, SeenBy!NewRow

\* The passkey of a sign-up or a passkey registration.
LEMMA NewPasskeySeen ==
  ASSUME NEW id, NEW user_id, NEW c
  PROVE  SeenPasskey([id |-> id, user_id |-> user_id,
                      webauthn_credential_id |-> c])
           = SeenBy!NewRow(KeyOf("passkey", id), KeyOf("user", user_id), Null)
BY DEF SeenPasskey, Seen, OfUser, SeenBy!NewRow

\* The user id of a sign-up session is an id of Sessions.
LEMMA TargetKnown ==
  ASSUME SeenInv, NEW s \in signup_session
  PROVE  s.target_user_id \in IdsIssued
<1>1. s.target_user_id \in 1..issued["user"]
  BY DEF SeenInv, TypeOK, TablesOK
<1>2. 1..issued["user"] \subseteq IdsIssued
  BY DEF SeenInv, IssuedKnown, Counters
<1> QED
  BY <1>1, <1>2

\* completeSignupWithoutPasskeyRegistration is completeSignup of Sessions.
LEMMA SignupPlainSeen ==
  ASSUME SeenInv, seen' = SeenRows', NEW r \in Requests,
         completeSignupWithoutPasskeyRegistration(r)
  PROVE  SeenBy!SessionsNext
<1> USE DEF SeenInv
<1>1. PICK s \in signup_session :
        /\ s.passkey_webauthn_credential_id = Null
        /\ SignUp(s)
  BY DEF completeSignupWithoutPasskeyRegistration
<1>2. PICK u, auth, x :
        /\ u = KeyOf("user", s.target_user_id)
        /\ auth = KeyOf("auth_session", NewId("auth_session"))
        /\ x = SeenSignup(s)
  OBVIOUS
<1>3. u \in SeenBy!NewKeys("user")
  BY <1>1, <1>2, TargetKnown, FreshKeys DEF SignUp
<1>4. Issue({"auth_session"})
  BY DEF completeSignupWithoutPasskeyRegistration
<1>5. auth \in SeenBy!NewKeys("auth_session")
  BY <1>2, <1>4, FreshKeys, IdsDrawn DEF Counters
<1>6. SeenUsers' = SeenUsers \union {SeenBy!NewRow(u, Null, Null)}
  BY <1>1, <1>2, AddUsers, NewAccountSeen DEF SignUp
<1>7. SeenAuthSessions' = SeenAuthSessions
          \union {SeenBy!NewRow(auth, u, Null)}
  BY <1>1, <1>2, AddAuthSessions, NewSessionSeen DEF SignUp
<1>8. SeenSignups' = SeenSignups \ {x}
  BY <1>1, <1>2, UseSignups DEF SignUp, SignupSessionUsed
<1>9. UNCHANGED <<SeenPasskeys, SeenAttempts, SeenEmailCodes,
                   SeenVerifications, SeenUpdates, SeenRegistrations,
                   SeenPasskeyDeletions, SeenAccountDeletions>>
  BY SeenUnchanged DEF completeSignupWithoutPasskeyRegistration, accountTables,
     signinTables, actionTables, signupLeaves
<1>10. /\ x \in SeenSignups
       /\ x.verified
       /\ ~x.filled
  BY <1>1, <1>2 DEF SignUp, SeenSignups, SeenSignup, Seen
<1>11. SeenBy!NewRow(u, Null, Null).key[1] # "signup_session"
  BY <1>2 DEF SeenBy!NewRow, KeyOf
<1>12. SeenBy!NewRow(auth, u, Null).key[1] # "signup_session"
  BY <1>2 DEF SeenBy!NewRow, KeyOf
<1>13. x.key[1] = "signup_session"
  BY <1>2, SeenFirst
<1>14. SeenRows' = (seen \ {x})
         \union {SeenBy!NewRow(u, Null, Null), SeenBy!NewRow(auth, u, Null)}
  BY <1>6, <1>7, <1>8, <1>9, <1>10, <1>13, SeenApart,
     SeenTables, SeenTablesAfter
<1>15. SeenBy!completeSignup(x, u, auth, {})
  <2>1. {SeenBy!NewRow(k, u, Null) : k \in {}} = {}
    OBVIOUS
  <2> QED
    BY <1>10, <1>14, <2>1 DEF SeenBy!completeSignup
<1> QED
  BY <1>3, <1>5, <1>10, <1>15, SeenRowsIn, CompletesSignupPlain

\* completeSignupWithPasskeyRegistration is completeSignup of Sessions.
LEMMA SignupPasskeySeen ==
  ASSUME SeenInv, seen' = SeenRows', NEW r \in Requests,
         completeSignupWithPasskeyRegistration(r)
  PROVE  SeenBy!SessionsNext
<1> USE DEF SeenInv
<1>1. PICK s \in signup_session :
        /\ s.passkey_webauthn_credential_id # Null
        /\ SignUp(s)
        /\ passkey' = passkey \union
             {[id |-> NewId("passkey"), user_id |-> s.target_user_id,
               webauthn_credential_id |-> s.passkey_webauthn_credential_id]}
  BY DEF completeSignupWithPasskeyRegistration
<1>2. PICK u, auth, p, x :
        /\ u = KeyOf("user", s.target_user_id)
        /\ auth = KeyOf("auth_session", NewId("auth_session"))
        /\ p = KeyOf("passkey", NewId("passkey"))
        /\ x = SeenSignup(s)
  OBVIOUS
<1>3. u \in SeenBy!NewKeys("user")
  BY <1>1, <1>2, TargetKnown, FreshKeys DEF SignUp
<1>4. Issue({"auth_session", "passkey"})
  BY DEF completeSignupWithPasskeyRegistration
<1>5. auth \in SeenBy!NewKeys("auth_session")
  BY <1>2, <1>4, FreshKeys, IdsDrawn DEF Counters
<1>6. p \in SeenBy!NewKeys("passkey")
  BY <1>2, <1>4, FreshKeys, IdsDrawn DEF Counters
<1>7. SeenUsers' = SeenUsers \union {SeenBy!NewRow(u, Null, Null)}
  BY <1>1, <1>2, AddUsers, NewAccountSeen DEF SignUp
<1>8. SeenAuthSessions' = SeenAuthSessions
          \union {SeenBy!NewRow(auth, u, Null)}
  BY <1>1, <1>2, AddAuthSessions, NewSessionSeen DEF SignUp
<1>9. SeenSignups' = SeenSignups \ {x}
  BY <1>1, <1>2, UseSignups DEF SignUp, SignupSessionUsed
<1>10. SeenPasskeys' = SeenPasskeys \union {SeenBy!NewRow(p, u, Null)}
  BY <1>1, <1>2, AddPasskeys, NewPasskeySeen
<1>11. UNCHANGED <<SeenAttempts, SeenEmailCodes, SeenVerifications,
                   SeenUpdates, SeenRegistrations, SeenPasskeyDeletions,
                   SeenAccountDeletions>>
  BY SeenUnchanged DEF completeSignupWithPasskeyRegistration, accountTables,
     signinTables, actionTables, signupLeaves
<1>12. /\ x \in SeenSignups
       /\ x.verified
       /\ x.filled
  BY <1>1, <1>2 DEF SignUp, SeenSignups, SeenSignup, Seen
<1>13. SeenBy!NewRow(u, Null, Null).key[1] # "signup_session"
  BY <1>2 DEF SeenBy!NewRow, KeyOf
<1>14. SeenBy!NewRow(auth, u, Null).key[1] # "signup_session"
  BY <1>2 DEF SeenBy!NewRow, KeyOf
<1>15. SeenBy!NewRow(p, u, Null).key[1] # "signup_session"
  BY <1>2 DEF SeenBy!NewRow, KeyOf
<1>16. x.key[1] = "signup_session"
  BY <1>2, SeenFirst
<1>17. SeenRows' = (seen \ {x})
         \union {SeenBy!NewRow(u, Null, Null), SeenBy!NewRow(auth, u, Null)}
         \union {SeenBy!NewRow(p, u, Null)}
  BY <1>7, <1>8, <1>9, <1>10, <1>11, <1>12, <1>16, SeenApart,
     SeenTables, SeenTablesAfter
<1>18. SeenBy!completeSignup(x, u, auth, {p})
  BY <1>12, <1>17 DEF SeenBy!completeSignup
<1> QED
  BY <1>3, <1>5, <1>6, <1>12, <1>18, SeenRowsIn, CompletesSignupPasskey

\* completePasskeySignin is completeSignin of Sessions.
LEMMA PasskeySigninSeen ==
  ASSUME SeenInv, seen' = SeenRows', NEW r \in Requests,
         completePasskeySignin(r)
  PROVE  SeenBy!SessionsNext
<1> USE DEF SeenInv
<1>1. PICK s \in passkey_signin_attempt, u \in user :
        /\ passkey_signin_attempt' = WithoutRow(passkey_signin_attempt, s.id)
        /\ auth_session' = auth_session \union
             {[id |-> NewId("auth_session"), user_id |-> u.id]}
  BY DEF completePasskeySignin, UnusedAttempt, HasRow
<1>2. PICK x, y, auth : /\ x = SeenAttempt(s)
                        /\ y = SeenUser(u)
                        /\ auth = KeyOf("auth_session", NewId("auth_session"))
  OBVIOUS
<1>3. auth \in SeenBy!NewKeys("auth_session")
  BY <1>2, FreshKeys, IdsDrawn DEF completePasskeySignin, Counters
<1>4. y.key = KeyOf("user", u.id)
  BY <1>2 DEF SeenUser, Seen
<1>5. SeenAuthSessions'
        = SeenAuthSessions \union {SeenBy!NewRow(auth, y.key, Null)}
  BY <1>1, <1>2, <1>4, AddAuthSessions, NewSessionSeen
<1>6. SeenAttempts' = SeenAttempts \ {x}
  BY <1>1, <1>2, UseAttempts
<1>7. UNCHANGED <<SeenUsers, SeenPasskeys, SeenSignups, SeenEmailCodes,
                  SeenVerifications, SeenUpdates, SeenRegistrations,
                  SeenPasskeyDeletions, SeenAccountDeletions>>
  BY SeenUnchanged DEF completePasskeySignin, accountTables,
     signinTables, actionTables
<1>8. x \in SeenAttempts /\ y \in SeenUsers
  BY <1>2 DEF SeenAttempts, SeenUsers
<1>9. SeenRows' = (seen \ {x}) \union {SeenBy!NewRow(auth, y.key, Null)}
  BY <1>5, <1>6, <1>7, <1>8, SeenApart, SeenTables, SeenTablesAfter
<1>10. SeenBy!completeSignin(x, y, auth)
  BY <1>8, <1>9, SeenRowsIn DEF SeenBy!completeSignin
<1> QED
  BY <1>3, <1>8, <1>10, SeenRowsIn, CompletesSignin

\* completeEmailCodeSigninSession is completeSignin of Sessions.
LEMMA EmailCodeSigninSeen ==
  ASSUME SeenInv, seen' = SeenRows', NEW r \in Requests,
         completeEmailCodeSigninSession(r)
  PROVE  SeenBy!SessionsNext
<1> USE DEF SeenInv
<1>1. PICK s \in email_code_signin_session, u \in user :
        /\ email_code_signin_session'
               = WithoutRow(email_code_signin_session, s.id)
        /\ auth_session' = auth_session \union
             {[id |-> NewId("auth_session"), user_id |-> u.id]}
  BY DEF completeEmailCodeSigninSession, ReferentialIntegrity, HasRow
<1>2. PICK x, y, auth : /\ x = SeenEmailCode(s)
                        /\ y = SeenUser(u)
                        /\ auth = KeyOf("auth_session", NewId("auth_session"))
  OBVIOUS
<1>3. auth \in SeenBy!NewKeys("auth_session")
  BY <1>2, FreshKeys, IdsDrawn DEF completeEmailCodeSigninSession, Counters
<1>4. y.key = KeyOf("user", u.id)
  BY <1>2 DEF SeenUser, Seen
<1>5. SeenAuthSessions'
        = SeenAuthSessions \union {SeenBy!NewRow(auth, y.key, Null)}
  BY <1>1, <1>2, <1>4, AddAuthSessions, NewSessionSeen
<1>6. SeenEmailCodes' = SeenEmailCodes \ {x}
  BY <1>1, <1>2, UseEmailCodes
<1>7. UNCHANGED <<SeenUsers, SeenPasskeys, SeenSignups, SeenAttempts,
                  SeenVerifications, SeenUpdates, SeenRegistrations,
                  SeenPasskeyDeletions, SeenAccountDeletions>>
  BY SeenUnchanged DEF completeEmailCodeSigninSession, accountTables,
     signinTables, actionTables
<1>8. x \in SeenEmailCodes /\ y \in SeenUsers
  BY <1>2 DEF SeenEmailCodes, SeenUsers
<1>9. SeenRows' = (seen \ {x}) \union {SeenBy!NewRow(auth, y.key, Null)}
  BY <1>5, <1>6, <1>7, <1>8, SeenApart, SeenTables, SeenTablesAfter
<1>10. SeenBy!completeSignin(x, y, auth)
  BY <1>8, <1>9, SeenRowsIn DEF SeenBy!completeSignin
<1> QED
  BY <1>3, <1>8, <1>10, SeenRowsIn, CompletesSignin

\* Sessions counts no more passkeys of a user than the users table has.
LEMMA SeenPasskeyCount ==
  ASSUME SeenInv, NEW id
  PROVE  LET count == SeenBy!Cardinality(SeenBy!PasskeysOf(KeyOf("user", id)))
         IN /\ count \in Nat
            /\ getUserPasskeyCount(id) \in Nat
            /\ count <= getUserPasskeyCount(id)
<1> USE DEF SeenInv
<1>1. PICK P, T, f : /\ P = {p \in passkey : p.user_id = id}
                     /\ T = {SeenPasskey(p) : p \in P}
                     /\ f = [p \in P |-> SeenPasskey(p)]
  OBVIOUS
<1>2. SeenBy!PasskeysOf(KeyOf("user", id)) = T
  <2>1. \A p : SeenPasskey(p).of = KeyOf("user", id) <=> p.user_id = id
    BY DEF SeenPasskey, Seen, OfUser, KeyOf
  <2> QED
    BY <1>1, <2>1, SeenRowsIn DEF SeenBy!PasskeysOf, SeenPasskeys
<1>3. f \in Surjection(P, T)
  BY <1>1 DEF Surjection
<1>4. IsFiniteSet(P)
  BY <1>1, FS_Subset DEF PasskeyCounts
<1>5. /\ Cardinality(T) <= Cardinality(P)
      /\ Cardinality(T) \in Nat
      /\ Cardinality(P) \in Nat
  BY <1>3, <1>4, FS_Surjection, FS_CardinalityType
<1>6. SeenBy!Cardinality(T) = Cardinality(T)
  BY DEF SeenBy!Cardinality, SeenBy!IsFiniteSet, Cardinality, IsFiniteSet
<1> QED
  BY <1>1, <1>2, <1>5, <1>6 DEF getUserPasskeyCount

\* completePasskeyRegistration is that of Sessions.
LEMMA RegisterPasskeySeen ==
  ASSUME SeenInv, seen' = SeenRows', NEW r \in Requests,
         completePasskeyRegistration(r)
  PROVE  SeenBy!SessionsNext
<1> USE DEF SeenInv
<1>1. PICK s \in passkey_registration_session, a \in auth_session :
        /\ a.id = s.auth_session_id
        /\ BelowPasskeyCountLimit(a.user_id)
        /\ s.passkey_webauthn_credential_id # Null
        /\ s.identity_verified
        /\ passkey' = passkey \union
             {[id |-> NewId("passkey"), user_id |-> a.user_id,
               webauthn_credential_id |-> s.passkey_webauthn_credential_id]}
        /\ passkey_registration_session' =
             WithoutRow(passkey_registration_session, s.id)
  BY DEF completePasskeyRegistration
<1>2. PICK x, k, p : /\ x = SeenRegistration(s)
                     /\ k = KeyOf("user", a.user_id)
                     /\ p = KeyOf("passkey", NewId("passkey"))
  OBVIOUS
<1>3. p \in SeenBy!NewKeys("passkey")
  BY <1>2, FreshKeys, IdsDrawn DEF completePasskeyRegistration, Counters
<1>4. /\ x \in SeenRegistrations
      /\ x \in seen
      /\ x.key[1] = "passkey_registration_session"
  BY <1>2, SeenTables, SeenFirst DEF SeenRegistrations
<1>5. /\ x.verified
      /\ x.filled
      /\ x.of = KeyOf("auth_session", a.id)
  BY <1>1, <1>2 DEF SeenRegistration, Seen, OfAuthSession
<1>6. SeenBy!UserOf(x) = k
  BY <1>2, <1>4, <1>5, SeenOwner
<1>7. SeenBy!Cardinality(SeenBy!PasskeysOf(k)) < maxPasskeyCountLimit
  <2>1. PICK c, n : /\ c = SeenBy!Cardinality(SeenBy!PasskeysOf(k))
                    /\ n = getUserPasskeyCount(a.user_id)
    OBVIOUS
  <2>2. c \in Nat /\ n \in Nat
    BY <1>2, <2>1, SeenPasskeyCount
  <2>3. c <= n
    BY <1>2, <2>1, SeenPasskeyCount
  <2>4. n < maxPasskeyCountLimit
    BY <1>1, <2>1 DEF BelowPasskeyCountLimit
  <2> QED
    BY <2>1, <2>2, <2>3, <2>4, LimitAssumption
<1>8. SeenPasskeys' = SeenPasskeys \union {SeenBy!NewRow(p, k, Null)}
  BY <1>1, <1>2, AddPasskeys, NewPasskeySeen
<1>9. SeenRegistrations' = SeenRegistrations \ {x}
  BY <1>1, <1>2, UseRegistrations
<1>10. UNCHANGED <<SeenUsers, SeenAuthSessions, SeenSignups, SeenAttempts,
                   SeenEmailCodes, SeenVerifications, SeenUpdates,
                   SeenPasskeyDeletions, SeenAccountDeletions>>
  BY SeenUnchanged DEF completePasskeyRegistration, passkeyRegistrationLeaves
<1>11. SeenRows' = (seen \ {x}) \union {SeenBy!NewRow(p, k, Null)}
  BY <1>4, <1>8, <1>9, <1>10, SeenApart, SeenTables, SeenTablesAfter
<1>12. SeenBy!completePasskeyRegistration(x, p)
  BY <1>5, <1>6, <1>7, <1>11 DEF SeenBy!completePasskeyRegistration
<1> QED
  BY <1>3, <1>4, <1>12, SeenRowsIn, CompletesRegistration

\* An identity verification is of a user in Sessions when it is the user's.
LEMMA SeenOwned ==
  ASSUME SeenInv, NEW v \in identity_verification_session, NEW u \in user
  PROVE  SeenBy!UserOf(SeenVerification(v)) = KeyOf("user", u.id)
           <=> OwnedBy(v, u)
<1> USE DEF SeenInv
<1>1. PICK a \in auth_session : a.id = v.auth_session_id
  BY DEF ReferentialIntegrity, HasRow
<1>2. SeenVerification(v) \in seen
  BY DEF SeenRows
<1>3. SeenVerification(v).of = KeyOf("auth_session", a.id)
  BY <1>1 DEF SeenVerification, Seen, OfAuthSession
<1>4. SeenBy!UserOf(SeenVerification(v)) = KeyOf("user", a.user_id)
  BY <1>2, <1>3, SeenOwner
<1>5. OwnedBy(v, u) <=> a.user_id = u.id
  BY <1>1 DEF OwnedBy, TypeOK, TablesOK, TableOK
<1> QED
  BY <1>4, <1>5 DEF KeyOf

\* completeEmailAddressUpdate is that of Sessions: no row of the account is
\* seen to change but its update session, its sign-in codes and the codes of
\* its identity verifications.
LEMMA UpdateEmailAddressSeen ==
  ASSUME SeenInv, seen' = SeenRows', NEW r \in Requests,
         completeEmailAddressUpdate(r)
  PROVE  SeenBy!SessionsNext
<1> USE DEF SeenInv
<1>1. PICK s \in email_address_update_session, u \in user :
        /\ OwnedBy(s, u)
        /\ s.new_email_address # Null
        /\ s.identity_verified
        /\ user' = (user \ {u}) \union
                     {[u EXCEPT !.email_address = s.new_email_address]}
        /\ email_address_update_session' =
             WithoutRow(email_address_update_session, s.id)
        /\ RevokeEmailCodes(u)
        /\ email_code_signin_session' =
             {c \in email_code_signin_session : c.user_id # u.id}
  BY DEF completeEmailAddressUpdate
<1>2. PICK a \in auth_session : a.id = s.auth_session_id /\ a.user_id = u.id
  BY <1>1 DEF OwnedBy
<1>3. PICK x, k : x = SeenUpdate(s) /\ k = KeyOf("user", u.id)
  OBVIOUS
<1>4. /\ x \in SeenUpdates
      /\ x \in seen
      /\ x.key[1] = "email_address_update_session"
  BY <1>3, SeenTables, SeenFirst DEF SeenUpdates
<1>5. /\ x.verified
      /\ x.filled
      /\ x.of = KeyOf("auth_session", a.id)
  BY <1>1, <1>2, <1>3 DEF SeenUpdate, Seen, OfAuthSession
<1>6. SeenBy!UserOf(x) = k
  BY <1>2, <1>3, <1>4, <1>5, SeenOwner
<1> DEFINE F(y) == IF /\ y.key[1] = "identity_verification_session"
                      /\ SeenBy!UserOf(y) = k
                   THEN [y EXCEPT !.filled = FALSE]
                   ELSE y
<1> DEFINE Kept == {y \in seen \ {x} :
                      \/ y.key[1] # "email_code_signin_session"
                      \/ y.of # k}
<1>7. UNCHANGED SeenUsers
  <2>1. PICK n : n = [u EXCEPT !.email_address = s.new_email_address]
    OBVIOUS
  <2>2. n.id = u.id
    BY <2>1, Columns DEF UserRow
  <2>3. SeenUser(n) = SeenUser(u)
    BY <2>2 DEF SeenUser, Seen
  <2>4. SeenUsers' = {SeenUser(v) : v \in user'}
    BY DEF SeenUsers, SeenUser, Seen
  <2>5. user' = (user \ {u}) \union {n}
    BY <1>1, <2>1
  <2> QED
    BY <2>3, <2>4, <2>5 DEF SeenUsers
<1>8. SeenUpdates' = SeenUpdates \ {x}
  BY <1>1, <1>3, UseUpdates
<1>9. SeenEmailCodes' = {y \in SeenEmailCodes : y.of # k}
  <2>1. \A c : SeenEmailCode(c).of = k <=> c.user_id = u.id
    BY <1>3 DEF SeenEmailCode, Seen, OfUser, KeyOf
  <2>2. SeenEmailCodes' = {SeenEmailCode(c) : c \in email_code_signin_session'}
    BY DEF SeenEmailCodes, SeenEmailCode, Seen, OfUser
  <2> QED
    BY <1>1, <2>1, <2>2 DEF SeenEmailCodes
<1>10. SeenVerifications' = {F(y) : y \in SeenVerifications}
  <2> DEFINE G(v) == IF OwnedBy(v, u) THEN [v EXCEPT !.email_code = Null]
                     ELSE v
  <2>1. ASSUME NEW v \in identity_verification_session
        PROVE  SeenVerification(G(v)) = F(SeenVerification(v))
    <3>1. SeenVerification(v).key[1] = "identity_verification_session"
      BY SeenFirst
    <3>2. CASE OwnedBy(v, u)
      <4>1. SeenBy!UserOf(SeenVerification(v)) = k
        BY <1>3, <3>2, SeenOwned
      <4>2. F(SeenVerification(v))
                = [SeenVerification(v) EXCEPT !.filled = FALSE]
        BY <3>1, <4>1
      <4>3. PICK n, no : /\ n = [v EXCEPT !.email_code = Null]
                         /\ no = (Null # Null)
        OBVIOUS
      <4>4. v \in IdentityVerificationSessionRow
        BY Columns
      <4>5. SeenVerification(n) = [SeenVerification(v) EXCEPT !.filled = no]
        BY <4>3, <4>4, VerificationFilled, Zenon
      <4>6. no = FALSE
        BY <4>3
      <4>7. G(v) = n
        BY <3>2, <4>3
      <4> QED
        BY <4>2, <4>5, <4>6, <4>7, Zenon
    <3>3. CASE ~OwnedBy(v, u)
      BY <1>3, <3>3, SeenOwned
    <3> QED
      BY <3>2, <3>3
  <2>2. identity_verification_session'
          = {G(v) : v \in identity_verification_session}
    BY <1>1 DEF RevokeEmailCodes
  <2>3. SeenVerifications'
          = {SeenVerification(v) : v \in identity_verification_session'}
    BY DEF SeenVerifications, SeenVerification, Seen, OfAuthSession
  <2> HIDE DEF F, G
  <2> QED
    BY <2>1, <2>2, <2>3 DEF SeenVerifications
<1>11. UNCHANGED <<SeenPasskeys, SeenAuthSessions, SeenSignups, SeenAttempts,
                   SeenRegistrations, SeenPasskeyDeletions,
                   SeenAccountDeletions>>
  BY SeenUnchanged DEF completeEmailAddressUpdate, emailAddressUpdateLeaves
<1>12. \A y \in seen : y \notin SeenVerifications => F(y) = y
  <2>1. \A y \in seen : y \notin SeenVerifications =>
          y.key[1] # "identity_verification_session"
    BY SeenRowsIn DEF SeenBy!RowsIn
  <2> QED
    BY <2>1
<1>13. SeenVerifications \subseteq Kept
  BY <1>4, SeenApart, SeenTables
<1>14. Kept \ SeenVerifications = SeenRows' \ SeenVerifications'
  <2>1. \A y \in SeenVerifications' : y.key[1]
            = "identity_verification_session"
    BY SeenApartAfter
  <2>2. Kept \ SeenVerifications =
          SeenUsers \union SeenPasskeys \union SeenAuthSessions
            \union SeenSignups \union SeenAttempts
            \union {y \in SeenEmailCodes : y.of # k}
            \union (SeenUpdates \ {x}) \union SeenRegistrations
            \union SeenPasskeyDeletions \union SeenAccountDeletions
    BY <1>4, SeenApart, SeenTables
  <2>3. SeenRows' \ SeenVerifications' =
          (SeenUsers \union SeenPasskeys \union SeenAuthSessions
            \union SeenSignups \union SeenAttempts \union SeenEmailCodes
            \union SeenUpdates \union SeenRegistrations
            \union SeenPasskeyDeletions \union SeenAccountDeletions)'
    BY SeenApartAfter, SeenTablesAfter
  <2> QED
    BY <1>7, <1>8, <1>9, <1>11, <2>2, <2>3
<1>15. SeenVerifications' \subseteq SeenRows'
  BY SeenTablesAfter
<1>16. SeenRows' = {F(y) : y \in Kept}
  <2> HIDE DEF F, Kept
  <2>1. Kept \subseteq seen
    BY DEF Kept
  <2> QED
    BY <1>10, <1>12, <1>13, <1>14, <1>15, <2>1
<1>17. SeenBy!completeEmailAddressUpdate(x)
  BY <1>5, <1>6, <1>16 DEF SeenBy!completeEmailAddressUpdate
<1> QED
  BY <1>4, <1>17, SeenRowsIn, CompletesUpdate

-----------------------------------------------------------------------------
(* The refinement. *)

\* Steps that leave the tables as they are leave what is seen of them.
LEMMA SameTablesSeen ==
  ASSUME UNCHANGED database
  PROVE  UNCHANGED SeenRows
BY SeenUnchanged, SeenTables, SeenTablesAfter
DEF database, accountTables, signinTables, actionTables

\* A transaction is a step of Sessions, or is not seen by it.
LEMMA CommitsSeen ==
  ASSUME SeenInv, seen' = SeenRows', NEW r \in Requests, Commits(r)
  PROVE  seen' = seen \/ SeenBy!SessionsNext
<1>1. CASE SignupCommits(r)
  BY <1>1, StartSignupSeen, CancelSignupSeen, VerifySignupSeen,
     FillSignupSeen, SignupPlainSeen, SignupPasskeySeen
  DEF SignupCommits
<1>2. CASE SigninCommits(r)
  BY <1>2, StartAttemptSeen, CancelAttemptSeen, PasskeySigninSeen,
     StartEmailCodeSeen, CancelEmailCodeSeen, EmailCodeSigninSeen,
     SignOutSeen, SignOutAllSeen
  DEF SigninCommits
<1>3. CASE ActionCommits(r)
  BY <1>3, StartUpdateSeen, FillUpdateSeen, UpdateEmailAddressSeen,
     StartRegistrationSeen, FillRegistrationSeen, RegisterPasskeySeen,
     StartDeletionSeen, RemovePasskeySeen, StartAccountDeletionSeen,
     RemoveAccountSeen
  DEF ActionCommits
<1>4. CASE CancelCommits(r)
  BY <1>4, CancelUpdateSeen, CancelRegistrationSeen, CancelDeletionSeen,
     CancelAccountDeletionSeen
  DEF CancelCommits
<1>5. CASE VerificationCommits(r)
  BY <1>5, IssueSeen, RevokeSeen, CompleteVerificationSeen
  DEF VerificationCommits
<1> QED
  BY <1>1, <1>2, <1>3, <1>4, <1>5 DEF Commits

\* Every step of the server is a step of Sessions, or is not seen by it.
LEMMA NextSeen ==
  ASSUME SeenInv, [SeenNext]_<<vars, seen>>
  PROVE  seen' = seen \/ SeenBy!SessionsNext
<1>1. CASE SeenNext
  <2>1. seen' = SeenRows' /\ Next
    BY <1>1 DEF SeenNext
  <2>2. CASE UNCHANGED database
    BY <2>1, <2>2, SameTablesSeen DEF SeenInv
  <2>3. ASSUME NEW r \in Requests, Commits(r)
        PROVE  seen' = seen \/ SeenBy!SessionsNext
    BY <2>1, <2>3, CommitsSeen
  <2>4. CASE cleanDatabase
    BY <2>1, <2>4, CleanSeen
  <2> QED
    BY <2>1, <2>2, <2>3, <2>4, NextSteps
    DEF SeenInv, Reads, Receive, Rollback, database
<1>2. CASE UNCHANGED <<vars, seen>>
  BY <1>2
<1> QED
  BY <1>1, <1>2

\* SeenInv is inductive.
LEMMA NextSeenInv ==
  ASSUME SeenInv, [SeenNext]_<<vars, seen>>
  PROVE  SeenInv'
<1>1. [Next]_vars
  BY DEF SeenNext
<1>2. TypeOK' /\ ReferentialIntegrity' /\ PasskeyCounts' /\ IssuedKnown'
  BY <1>1, NextTypeOK, NextRI, NextCounts, NextIssued DEF SeenInv
<1>3. seen' = SeenRows'
  <2>1. UNCHANGED vars => UNCHANGED SeenRows
    BY SameTablesSeen DEF vars, database
  <2> QED
    BY <2>1 DEF SeenInv, SeenNext
<1> QED
  BY <1>2, <1>3 DEF SeenInv

\* Accounts implements Sessions: with any number of requests in flight, each
\* commit of the server is one step of Sessions, or is not seen by it.
THEOREM SessionsImplemented == SeenSpec => ActsAsSeen
<1>1. SeenInit => SeenInv
  BY InitTypeOK, InitRI, InitCounts, InitIssued DEF SeenInit, SeenInv
<1>2. SeenInv /\ [SeenNext]_<<vars, seen>> => SeenInv'
  BY NextSeenInv
<1>3. SeenInv /\ [SeenNext]_<<vars, seen>> =>
        [seen' = seen \/ SeenBy!SessionsNext]_seen
  BY NextSeen
<1> QED
  BY <1>1, <1>2, <1>3, PTL DEF SeenSpec, ActsAsSeen
=============================================================================
