--------------------------- MODULE BrowserProofs ---------------------------
(***************************************************************************)
(* Proofs about Browser, for any tabs, any ids of rows and any habits: the *)
(* tokens in the pages of a browser fit each other and fit the page, and   *)
(* pages offer what handlers accept.                                       *)
(*                                                                         *)
(* Three things make this inductive.  Rows reference rows of the tables of *)
(* the schema, and what they reference is there.  The session a page is    *)
(* about is a session of that kind.  What a route has looked at stays so   *)
(* until the page appears: flows only go forward.                          *)
(***************************************************************************)
EXTENDS Browser, FiniteSetTheorems, TLAPS

\* Whose a row of each table is, and what it is about.
Shaped(r) ==
  /\ r.key[1] \in {"user", "signup_session", "passkey_signin_attempt"}
       => r.of = None
  /\ r.key[1] \in {"passkey", "auth_session", "email_code_signin_session"}
       => r.of \in {"user"} \X RowIds
  /\ r.key[1] \in VerifyingTables \union {"identity_verification_session"}
       => r.of \in {"auth_session"} \X RowIds
  /\ r.key[1] = "passkey_deletion_session" => r.about \in {"passkey"} \X RowIds
  /\ r.key[1] = "identity_verification_session"
       => r.about \in VerifyingTables \X RowIds

\* A key is the key of one row.
RowsType ==
  /\ rows \subseteq Row
  /\ \A r, s \in rows : r.key = s.key => r = s

\* Rows are those of the schema, and what they reference is there.
RowsFit ==
  /\ RowsType
  /\ IsFiniteSet(rows)
  /\ \A r \in rows : Shaped(r)
  /\ \A r \in rows : \A k \in References(r) \ {None} : Live(k)

\* The table of the session of a page.  The page for signing in makes an attempt.
PageSession(path) ==
  IF SessionOf[path] = "none" THEN "passkey_signin_attempt" ELSE SessionOf[path]

\* What is so of the row s of the session when its page is shown, and already
\* when the route has read it.
SessionFits(T, s) ==
  /\ s.key[1] \in VerifyingTables \union {"identity_verification_session"}
       => s.of = T.auth
  /\ T.path \in VerifiedPages => s.verified
  /\ T.path \in FilledPages => s.filled

\* T: the state of a tab.
Fits(T) ==
  /\ T.session # None => T.path \in Paths /\ T.session[1] = PageSession(T.path)
  /\ T.passkeys \subseteq {"passkey"} \X RowIds
  /\ /\ T.reply.code = "ok"
     /\ T.reply.action \in
          {"verify_identity_verification_email_code",
           "verify_identity_verification_passkey_webauthn_signature"}
     => T.reply.about \in VerifyingTables
  /\ T.phase \in {"item", "passkeys", "shown", "waiting"} =>
       \A s \in rows : s.key = T.session => SessionFits(T, s)
  /\ T.path = "/account" /\ T.phase \in {"item", "passkeys"} =>
       \A r \in rows : r.key = T.auth => r.of = T.item

\* With one tab nobody revokes the code, or sets the credential, while the route
\* reads something else.
Undisturbed(T) ==
  T.phase = "item" => \A s \in rows : s.key = T.session =>
    /\ T.path = "/verify-identity/verify-email-code" => s.filled
    /\ T.path = "/register-passkey/create-passkey" => ~s.filled

\* The inductive invariant.
IInv ==
  /\ TypeOK
  /\ RowsFit
  /\ \A t \in DOMAIN tabs : Fits(tabs[t])
  /\ \A t \in DOMAIN tabs : DOMAIN tabs = {t} => Undisturbed(tabs[t])

-----------------------------------------------------------------------------
(* Rows. *)

\* A key is a pair of a table and an id, and None is not one.
LEMMA KeyType ==
  /\ \A k \in Key : k = <<k[1], k[2]>> /\ k[1] \in Tables /\ k[2] \in RowIds
  /\ \A table \in Tables, id \in RowIds :
       /\ <<table, id>> \in Key
       /\ <<table, id>>[1] = table
       /\ <<table, id>> # None
  /\ \A T \in SUBSET Tables : T \X RowIds \subseteq Key
  /\ None \notin Key
BY NoneAssumption DEF Key

\* A row is found by its key.
LEMMA RowAtKey ==
  ASSUME RowsType, NEW r \in rows
  PROVE  RowAt(r.key) = r
<1>1. RowAt(r.key) \in rows /\ RowAt(r.key).key = r.key
  BY DEF RowAt
<1> QED
  BY <1>1 DEF RowsType

\* What is live is a row.
LEMMA RowAtLive ==
  ASSUME RowsType, NEW key, Live(key)
  PROVE  /\ RowAt(key) \in rows
         /\ RowAt(key).key = key
         /\ \A r \in rows : r.key = key => r = RowAt(key)
         /\ key \in Key
<1>1. PICK r \in rows : key = r.key
  BY DEF Live, Keys
<1> QED
  BY <1>1, RowAtKey DEF RowsType, Row

\* What references what: sessions and passkeys a user, sessions of flows an auth
\* session or a passkey.
LEMMA ReferenceTables ==
  ASSUME RowsFit, NEW r \in rows, NEW k \in References(r) \ {None}
  PROVE  /\ k[1] \in {"user", "auth_session", "passkey"}
         /\ k[1] # "user" =>
              r.key[1] \in VerifyingTables \union {"identity_verification_session"}
         /\ r.key[1] \notin {"user", "signup_session", "passkey_signin_attempt"}
         /\ k[1] = "user" <=>
              r.key[1] \in {"passkey", "auth_session", "email_code_signin_session"}
<1>1. Shaped(r) /\ r.key \in Key
  BY DEF RowsFit, RowsType, Row
<1>2. r.key[1] \in Tables
  BY <1>1, KeyType
<1>3. k = r.of \/ (r.key[1] = "passkey_deletion_session" /\ k = r.about)
  BY DEF References
<1> QED
  BY <1>1, <1>2, <1>3 DEF Shaped, Tables, VerifyingTables

\* Rows are deleted with all that references them, so what the others reference
\* is still there.
LEMMA DeleteFits ==
  ASSUME RowsFit, NEW S \in SUBSET rows, Delete(S)
  PROVE  RowsFit' /\ rows' \subseteq rows
<1>1. rows' = rows \ With(With(S)) /\ rows' \subseteq rows
  BY DEF Delete
<1>2. RowsType'
  BY <1>1 DEF RowsFit, RowsType
<1>3. IsFiniteSet(rows')
  BY <1>1, FS_Subset DEF RowsFit
<1>4. \A r \in rows' : Shaped(r)
  BY <1>1 DEF RowsFit
<1>5. ASSUME NEW r \in rows', NEW k \in References(r) \ {None}
      PROVE  \E q \in rows' : q.key = k
  <2>1. r \in rows /\ r \notin With(With(S))
    BY <1>1
  <2>2. PICK q \in rows : q.key = k
    BY <2>1 DEF RowsFit, Live, Keys
  <2>3. q \notin With(S)
    BY <2>1, <2>2 DEF With, Keys
  <2>4. ASSUME q \in With(With(S))
        PROVE  FALSE
    <3>1. PICK p \in With(S) : p.key \in References(q)
      BY <2>3, <2>4 DEF With, Keys
    <3>2. p \notin S /\ p \in rows
      BY <2>3, <3>1, <2>2 DEF With, Keys
    <3>3. PICK s \in S : s.key \in References(p)
      BY <3>1, <3>2 DEF With, Keys
    <3>4. p.key # None /\ s.key # None
      BY <3>2, <3>3, KeyType DEF RowsFit, RowsType, Row
    <3>5. q.key[1] # "user" /\ q.key[1] \in {"auth_session", "passkey"}
      BY <2>1, <2>2, <3>1, <3>4, ReferenceTables
    <3>6. p.key[1] = "user"
      BY <2>2, <3>1, <3>4, <3>5, ReferenceTables DEF VerifyingTables
    <3> QED
      BY <3>2, <3>3, <3>4, <3>6, ReferenceTables
  <2> QED
    BY <1>1, <2>2, <2>4
<1> QED
  BY <1>1, <1>2, <1>3, <1>4, <1>5 DEF RowsFit, Live, Keys

\* The rows of C are replaced by those of A.
LEMMA ReplaceFits ==
  ASSUME RowsFit, NEW C \in SUBSET rows, NEW A \in SUBSET Row, IsFiniteSet(A),
         rows' = (rows \ C) \union A,
         \A a, b \in A : a.key = b.key => a = b,
         \A a \in A, r \in rows \ C : a.key # r.key,
         \A a \in A : Shaped(a),
         \A a \in A : \A k \in References(a) \ {None} : k \in Keys(rows'),
         \A c \in C : \/ c.key[1] \notin {"user", "auth_session", "passkey"}
                      \/ c.key \in Keys(A)
  PROVE  RowsFit'
<1>1. RowsType'
  BY DEF RowsFit, RowsType
<1>2. IsFiniteSet(rows')
  <2>1. IsFiniteSet(rows \ C)
    BY FS_Subset DEF RowsFit
  <2> QED
    BY <2>1, FS_Union
<1>3. \A r \in rows' : Shaped(r)
  BY DEF RowsFit
<1>4. ASSUME NEW r \in rows \ C, NEW k \in References(r) \ {None}
      PROVE  k \in Keys(rows')
  <2>1. PICK q \in rows : q.key = k
    BY DEF RowsFit, Live, Keys
  <2>2. k[1] \in {"user", "auth_session", "passkey"}
    BY ReferenceTables
  <2> QED
    BY <2>1, <2>2 DEF Keys
<1>5. \A r \in rows' : \A k \in References(r) \ {None} : k \in Keys(rows')
  BY <1>4
<1> QED
  BY <1>1, <1>2, <1>3, <1>5 DEF RowsFit, Live

-----------------------------------------------------------------------------
(* Flows go forward. *)

\* What becomes of the row r: nothing that was set is undone, except that codes
\* of identity verifications are revoked.
MovesOn(r, s) ==
  /\ s.key = r.key /\ s.of = r.of
  /\ r.verified => s.verified
  /\ r.filled /\ r.key[1] # "identity_verification_session" => s.filled

\* Other rows have keys that nobody knows yet.
RowsMoveOn ==
  \A s \in rows' : s.key \notin Named \/ \E r \in rows : MovesOn(r, s)

\* The sessions of the pages that need what their flow has set.
LEMMA PageSessions ==
  /\ \A path \in FilledPages :
       /\ path \in Paths
       /\ PageSession(path) # "identity_verification_session"
  /\ \A path \in VerifiedPages : path \in Paths
  /\ \A path \in Paths : PageSession(path) \in Tables
BY DEF FilledPages, VerifiedPages, FlowPages, PageSession, SessionOf, Paths,
       VerifyingTables, Tables

\* What tabs name.
LEMMA TabNames ==
  ASSUME NEW t \in DOMAIN tabs
  PROVE  {tabs[t].auth, tabs[t].session, tabs[t].item} \subseteq Named
BY DEF Named

\* A tab whose page fits still does when rows have moved on.
LEMMA FitsMovesOn ==
  ASSUME RowsType, RowsMoveOn,
         NEW T, Fits(T), {T.auth, T.session} \subseteq Named
  PROVE  Fits(T)'
<1>1. ASSUME NEW s \in rows', s.key = T.session,
             T.phase \in {"item", "passkeys", "shown", "waiting"}
      PROVE  SessionFits(T, s)
  <2>1. PICK r \in rows : MovesOn(r, s)
    BY <1>1 DEF RowsMoveOn
  <2>2. r.key = T.session /\ SessionFits(T, r)
    BY <1>1, <2>1 DEF MovesOn, Fits
  <2>3. T.path \in FilledPages => r.key[1] # "identity_verification_session"
    BY <2>2, KeyType, PageSessions DEF Fits, RowsType, Row
  <2> QED
    BY <2>1, <2>2, <2>3 DEF MovesOn, SessionFits
<1>2. ASSUME NEW s \in rows', s.key = T.auth,
             T.path = "/account", T.phase \in {"item", "passkeys"}
      PROVE  s.of = T.item
  <2>1. PICK r \in rows : MovesOn(r, s)
    BY <1>2 DEF RowsMoveOn
  <2> QED
    BY <1>2, <2>1 DEF MovesOn, Fits
<1> QED
  BY <1>1, <1>2 DEF Fits

\* Rows that go away move on.
LEMMA FewerMoveOn ==
  ASSUME rows' \subseteq rows
  PROVE  RowsMoveOn
BY DEF RowsMoveOn, MovesOn

-----------------------------------------------------------------------------
(* Tabs. *)

\* Cookies hold tokens of their own tables.
JarOK(jar) ==
  /\ jar \in [Cookies -> Key \union {None}]
  /\ \A c \in Cookies : jar[c] # None => jar[c][1] = c

\* A tab that has read nothing yet.
Fresh(T) ==
  /\ T \in Tab
  /\ T.session # None => T.path \in Paths /\ T.session[1] = PageSession(T.path)
  /\ T.passkeys = {} /\ T.reply = NoReply
  /\ T.phase = "auth" \/ (T.phase = "shown" /\ T.session = None)

\* A request is made with nothing but cookies.
LEMMA RequestIsFresh ==
  ASSUME NEW path \in Paths \union {NoPage}, NEW jar, JarOK(jar)
  PROVE  Fresh(Request(path, jar))
<1>1. \A p \in Paths : SessionOf[p] # "none" =>
        /\ SessionOf[p] \in Cookies
        /\ PageSession(p) = SessionOf[p]
  BY DEF SessionOf, Paths, Cookies, Tables, VerifyingTables, PageSession
<1>2. "auth_session" \in Cookies
  BY DEF Cookies, Tables
<1> DEFINE session == IF path \in Paths /\ SessionOf[path] # "none"
                      THEN jar[SessionOf[path]] ELSE None
<1>3. /\ session \in Key \union {None}
      /\ session # None => path \in Paths /\ session[1] = PageSession(path)
      /\ path \notin Paths => session = None
  BY <1>1 DEF JarOK
<1>4. jar["auth_session"] \in Key \union {None}
  BY <1>2 DEF JarOK
<1>5. Request(path, jar) =
        [path |-> path, phase |-> IF path \in Paths THEN "auth" ELSE "shown",
         auth |-> jar["auth_session"], session |-> session,
         item |-> None, passkeys |-> {}, reply |-> NoReply]
  BY DEF Request
<1> HIDE DEF session
<1>6. Request(path, jar) \in Tab
  <2>1. NoReply \in [action : Actions \union {"none"}, code : Codes,
                     tokens : SUBSET Key,
                     about : VerifyingTables \union {"none"}]
    BY DEF NoReply, Codes
  <2>2. (IF path \in Paths THEN "auth" ELSE "shown") \in {"auth", "shown"}
    OBVIOUS
  <2> QED
    BY <1>3, <1>4, <1>5, <2>1, <2>2 DEF Tab
<1> QED
  BY <1>3, <1>5, <1>6 DEF Fresh

\* So far it fits, and it will after the step.
LEMMA FreshFits ==
  ASSUME NEW T, Fresh(T)
  PROVE  /\ RowsType => Fits(T) /\ Undisturbed(T)
         /\ RowsType' => Fits(T)' /\ Undisturbed(T)'
<1>1. /\ T.phase \notin {"item", "passkeys", "waiting"}
      /\ T.phase = "shown" => T.session = None
      /\ T.passkeys = {} /\ T.reply.code # "ok"
      /\ T.session # None => T.path \in Paths /\ T.session[1] = PageSession(T.path)
  BY DEF Fresh, NoReply
<1>2. ASSUME RowsType
      PROVE  \A s \in rows : s.key # None
  BY <1>2, KeyType DEF RowsType, Row
<1>3. ASSUME RowsType'
      PROVE  \A s \in rows' : s.key # None
  BY <1>3, KeyType DEF RowsType, Row
<1>4. RowsType => Fits(T) /\ Undisturbed(T)
  BY <1>1, <1>2 DEF Fits, Undisturbed
<1>5. RowsType' => Fits(T)' /\ Undisturbed(T)'
  BY <1>1, <1>3 DEF Fits, Undisturbed
<1> QED
  BY <1>4, <1>5

\* A step of one tab: the others see at most that rows have moved on.
LEMMA TabStep ==
  ASSUME IInv, UNCHANGED habit, RowsFit', RowsMoveOn, JarOK(cookies)',
         NEW t \in DOMAIN tabs, NEW T \in Tab,
         tabs' = [tabs EXCEPT ![t] = T],
         Fits(T)', DOMAIN tabs = {t} => Undisturbed(T)'
  PROVE  IInv'
<1>1. DOMAIN tabs = habit.tabs /\ DOMAIN tabs' = DOMAIN tabs
  BY DEF IInv, TypeOK
<1>2. TypeOK'
  <2>1. tabs' \in [habit.tabs -> Tab]
    BY DEF IInv, TypeOK
  <2> QED
    BY <2>1 DEF IInv, TypeOK, RowsFit, RowsType, JarOK
<1>3. ASSUME NEW u \in DOMAIN tabs
      PROVE  Fits(tabs[u])'
  <2>1. CASE u = t
    <3>1. tabs'[u] = T
      BY <2>1
    <3> QED
      BY <3>1 DEF Fits
  <2>2. CASE u # t
    <3>1. PICK U : U = tabs[u]
      OBVIOUS
    <3>2. Fits(U) /\ {U.auth, U.session} \subseteq Named
      BY <3>1, TabNames DEF IInv
    <3>3. Fits(U)'
      BY <3>2, FitsMovesOn DEF IInv, RowsFit
    <3>4. tabs'[u] = U
      BY <2>2, <3>1
    <3> QED
      BY <3>3, <3>4 DEF Fits
  <2> QED
    BY <2>1, <2>2
<1>4. ASSUME NEW u \in DOMAIN tabs, DOMAIN tabs = {u}
      PROVE  Undisturbed(tabs[u])'
  <2>1. u = t /\ tabs'[u] = T
    BY <1>4
  <2> QED
    BY <1>4, <2>1 DEF Undisturbed
<1> QED
  BY <1>1, <1>2, <1>3, <1>4 DEF IInv

\* A tab that goes to a page, with other cookies.
LEMMA GoFits ==
  ASSUME IInv, UNCHANGED <<rows, habit>>, NEW t \in DOMAIN tabs,
         NEW path \in Paths \union {NoPage}, NEW jar, JarOK(jar),
         Go(t, path, jar)
  PROVE  IInv'
<1>1. PICK T : T = Request(path, jar)
  OBVIOUS
<1>2. Fresh(T) /\ T \in Tab
  BY <1>1, RequestIsFresh DEF Fresh
<1>3. RowsFit' /\ RowsType'
  BY DEF IInv, RowsFit, RowsType, Live
<1>4. RowsMoveOn
  BY FewerMoveOn
<1>5. JarOK(cookies)' /\ tabs' = [tabs EXCEPT ![t] = T]
  BY <1>1 DEF Go, JarOK
<1> QED
  BY <1>2, <1>3, <1>4, <1>5, FreshFits, TabStep

\* Deleting cookies.
LEMMA BlankJar ==
  ASSUME TypeOK, NEW tables
  PROVE  JarOK(Blank(tables))
BY DEF TypeOK, JarOK, Blank

\* Setting cookies.
LEMMA KeepJar ==
  ASSUME NEW jar, JarOK(jar), NEW tokens \in SUBSET Key
  PROVE  JarOK(Keep(jar, tokens))
<1>1. ASSUME NEW c \in Cookies, \E token \in tokens : token[1] = c
      PROVE  /\ (CHOOSE token \in tokens : token[1] = c) \in Key
             /\ (CHOOSE token \in tokens : token[1] = c)[1] = c
  BY <1>1
<1> QED
  BY <1>1 DEF Keep, JarOK

-----------------------------------------------------------------------------
(* Routes. *)

\* What a route has seen of the row s of the session of the page T when it goes
\* on to a phase.
Seen(T, phase, s) ==
  /\ phase # "session" => SessionFits(T, s)
  /\ phase = "item" =>
       /\ T.path = "/verify-identity/verify-email-code" => s.filled
       /\ T.path = "/register-passkey/create-passkey" => ~s.filled
  /\ phase = "shown" =>
       /\ T.path = "/sign-up/verify-email-address" => ~s.verified
       /\ T.path \in {"/sign-up/register-passkey",
                      "/update-email-address/set-new-email-address"}
            => ~s.filled

\* A route goes on.
Proceeds(t, phase, item) ==
  /\ Continue(t, phase, item)
  /\ tabs[t].path = "/account" /\ phase # "shown" =>
       phase \in {"item", "passkeys"}
         /\ \A r \in rows : r.key = tabs[t].auth => r.of = item
  /\ \A s \in rows : s.key = tabs[t].session => Seen(tabs[t], phase, s)

\* A route redirects.
Redirects(t) ==
  \E path \in Paths \union {NoPage} : \E tables : Redirect(t, path, tables)

\* The pages that list passkeys.
ShowsPasskeys(t) ==
  /\ tabs[t].path \in {"/account", "/verify-identity"}
  /\ tabs[t].phase = "passkeys"
  /\ tabs' = [tabs EXCEPT ![t].phase = "shown", ![t].item = None,
                          ![t].passkeys = Keys(PasskeysOf(tabs[t].item))]
  /\ UNCHANGED <<rows, cookies>>

\* The page that makes a sign-in attempt.
MakesAttempt(t) ==
  /\ tabs[t].path = "/sign-in" /\ tabs[t].phase = "item"
  /\ \E attempt \in FreshKeys("passkey_signin_attempt") :
       /\ createSession(attempt)
       /\ tabs' = [tabs EXCEPT ![t].phase = "shown", ![t].session = attempt]
  /\ UNCHANGED cookies

\* What a step of a route comes to.
Outcome(t) ==
  \/ Redirects(t)
  \/ \E phase \in {"session", "item", "passkeys", "shown"},
        item \in Key \union {None} : Proceeds(t, phase, item)
  \/ ShowsPasskeys(t)
  \/ MakesAttempt(t)

\* Pages that are not about the session of a verified flow.
LEMMA OpenPages ==
  ASSUME RowsType, NEW t \in DOMAIN tabs, Fits(tabs[t]),
         tabs[t].path \in {"/", "/account", "/sign-in", "/sign-up",
                           "/sign-up/verify-email-address",
                           "/sign-in/verify-email-code"}
  PROVE  \A s \in rows : s.key = tabs[t].session => SessionFits(tabs[t], s)
<1>1. /\ tabs[t].path \notin VerifiedPages \union FilledPages
      /\ PageSession(tabs[t].path) \in {"signup_session",
           "passkey_signin_attempt", "email_code_signin_session"}
  BY DEF VerifiedPages, FilledPages, FlowPages, PageSession, SessionOf, Paths,
         VerifyingTables
<1>2. \A s \in rows : s.key # None
  BY KeyType DEF RowsType, Row
<1> QED
  BY <1>1, <1>2 DEF Fits, SessionFits, VerifyingTables

\* A page for who is signed out.
LEMMA SignedOutOutcome ==
  ASSUME RowsType, NEW t \in DOMAIN tabs, Fits(tabs[t]),
         NEW next \in {"session", "item", "shown"}, SignedOut(t, next),
         \/ next = "session" /\ tabs[t].path # "/account"
         \/ tabs[t].path \in {"/", "/sign-in", "/sign-up"}
  PROVE  Outcome(t)
<1>1. CASE Redirect(t, "/account", {})
  <2>1. "/account" \in Paths
    BY DEF Paths
  <2> QED
    BY <1>1, <2>1 DEF Outcome, Redirects
<1>2. CASE Continue(t, next, None)
  <2>1. next # "session" =>
          \A s \in rows : s.key = tabs[t].session => SessionFits(tabs[t], s)
    BY OpenPages
  <2> QED
    BY <1>2, <2>1 DEF Outcome, Proceeds, Seen
<1> QED
  BY <1>1, <1>2 DEF SignedOut

\* A page for who is signed in.
LEMMA SignedInOutcome ==
  ASSUME RowsType, NEW t \in DOMAIN tabs, Fits(tabs[t]),
         NEW next \in {"session", "item"}, SignedIn(t, next),
         next = "item" <=> tabs[t].path = "/account"
  PROVE  Outcome(t)
<1>1. CASE Redirect(t, "/sign-in", {"auth_session"})
  <2>1. "/sign-in" \in Paths
    BY DEF Paths
  <2> QED
    BY <1>1, <2>1 DEF Outcome, Redirects
<1>2. CASE Live(tabs[t].auth) /\ Continue(t, next, RowAt(tabs[t].auth).of)
  <2>1. /\ RowAt(tabs[t].auth) \in rows
        /\ \A r \in rows : r.key = tabs[t].auth => r = RowAt(tabs[t].auth)
    BY <1>2, RowAtLive
  <2>2. RowAt(tabs[t].auth).of \in Key \union {None}
    BY <2>1 DEF RowsType, Row
  <2>3. next # "session" =>
          \A s \in rows : s.key = tabs[t].session => SessionFits(tabs[t], s)
    BY OpenPages
  <2> QED
    BY <1>2, <2>1, <2>2, <2>3 DEF Outcome, Proceeds, Seen
<1> QED
  BY <1>1, <1>2 DEF SignedIn

\* What a route finds when it looks for the session of the page.
LEMMA SessionRead ==
  ASSUME RowsType, NEW t \in DOMAIN tabs, Fits(tabs[t]), HasSession(t)
  PROVE  \A s \in rows : s.key = tabs[t].session =>
           /\ s = RowAt(tabs[t].session)
           /\ s.key[1] = PageSession(tabs[t].path)
<1>1. \A s \in rows : s.key # None
  BY KeyType DEF RowsType, Row
<1> QED
  BY <1>1, RowAtLive DEF HasSession, Fits

\* Pages for who is not signed in.
LEMMA SignedOutPages ==
  ASSUME RowsType, NEW t \in DOMAIN tabs, Fits(tabs[t]),
         \/ homePageRoute(t)
         \/ signUpPageRoute(t)
         \/ signUpVerifyEmailAddressPageRoute(t)
         \/ signUpRegisterPasskeyPageRoute(t)
         \/ signUpRegisterPasskeySetPasskeyNamePageRoute(t)
         \/ signInPageRoute(t)
         \/ signInVerifyEmailCodePageRoute(t)
  PROVE  Outcome(t)
<1> DEFINE s == RowAt(tabs[t].session)
<1>1. /\ \A path \in Paths : \A tables : Redirect(t, path, tables) => Outcome(t)
      /\ "/sign-up" \in Paths /\ "/sign-in" \in Paths
      /\ "/sign-up/verify-email-address" \in Paths
      /\ "/sign-up/register-passkey" \in Paths
      /\ "/sign-up/register-passkey/set-passkey-name" \in Paths
  BY DEF Outcome, Redirects, Paths
<1>2. ASSUME NEW phase \in {"item", "shown"}, NEW item \in Key \union {None},
             Continue(t, phase, item), tabs[t].path # "/account",
             \A r \in rows : r.key = tabs[t].session => Seen(tabs[t], phase, r)
      PROVE  Outcome(t)
  BY <1>2 DEF Outcome, Proceeds
<1>3. HasSession(t) =>
        \A r \in rows : r.key = tabs[t].session =>
          r = s /\ r.key[1] = PageSession(tabs[t].path)
  BY SessionRead
<1>4. tabs[t].path \in {"/sign-up/verify-email-address",
                        "/sign-up/register-passkey",
                        "/sign-up/register-passkey/set-passkey-name"} =>
        PageSession(tabs[t].path) = "signup_session"
  BY DEF PageSession, SessionOf, Paths
<1> HIDE DEF s
<1>5. CASE homePageRoute(t) \/ signUpPageRoute(t)
  BY <1>5, SignedOutOutcome DEF homePageRoute, signUpPageRoute
<1>6. CASE signUpVerifyEmailAddressPageRoute(t)
  <2>1. tabs[t].path = "/sign-up/verify-email-address"
    BY <1>6 DEF signUpVerifyEmailAddressPageRoute
  <2>2. CASE SignedOut(t, "session")
    BY <2>1, <2>2, SignedOutOutcome
  <2>3. CASE ~SignedOut(t, "session")
    BY <1>6, <2>1, <2>3, <1>1, <1>2, <1>3, OpenPages
    DEF signUpVerifyEmailAddressPageRoute, WithSession, WithoutSession, Seen, s
  <2> QED
    BY <2>2, <2>3
<1>7. CASE signUpRegisterPasskeyPageRoute(t)
  <2>1. tabs[t].path = "/sign-up/register-passkey"
    BY <1>7 DEF signUpRegisterPasskeyPageRoute
  <2>2. CASE SignedOut(t, "session")
    BY <2>1, <2>2, SignedOutOutcome
  <2>3. tabs[t].path \notin FilledPages
    BY <2>1 DEF FilledPages
  <2>4. CASE ~SignedOut(t, "session")
    BY <1>7, <2>1, <2>3, <2>4, <1>1, <1>2, <1>3, <1>4
    DEF signUpRegisterPasskeyPageRoute, WithSession, WithoutSession, Seen,
        SessionFits, VerifyingTables, s
  <2> QED
    BY <2>2, <2>4
<1>8. CASE signUpRegisterPasskeySetPasskeyNamePageRoute(t)
  <2>1. tabs[t].path = "/sign-up/register-passkey/set-passkey-name"
    BY <1>8 DEF signUpRegisterPasskeySetPasskeyNamePageRoute
  <2>2. CASE SignedOut(t, "session")
    BY <2>1, <2>2, SignedOutOutcome
  <2>3. CASE ~SignedOut(t, "session")
    BY <1>8, <2>1, <2>3, <1>1, <1>2, <1>3, <1>4
    DEF signUpRegisterPasskeySetPasskeyNamePageRoute, WithSession,
        WithoutSession, Seen, SessionFits, VerifyingTables, s
  <2> QED
    BY <2>2, <2>3
<1>9. CASE signInPageRoute(t)
  <2>1. CASE SignedOut(t, "item")
    BY <1>9, <2>1, SignedOutOutcome DEF signInPageRoute
  <2> QED
    BY <1>9, <2>1 DEF signInPageRoute, Outcome, MakesAttempt
<1>10. CASE signInVerifyEmailCodePageRoute(t)
  <2>1. tabs[t].path = "/sign-in/verify-email-code"
    BY <1>10 DEF signInVerifyEmailCodePageRoute
  <2>2. CASE SignedOut(t, "session")
    BY <2>1, <2>2, SignedOutOutcome
  <2>3. CASE ~SignedOut(t, "session")
    <3>1. Live(tabs[t].session) => tabs[t].session \in Key \union {None}
      BY RowAtLive
    <3> QED
      BY <1>10, <2>1, <2>3, <3>1, <1>1, <1>2, <1>3, OpenPages
      DEF signInVerifyEmailCodePageRoute, WithSession, WithoutSession,
          WithItem, Seen
  <2> QED
    BY <2>2, <2>3
<1> QED
  BY <1>5, <1>6, <1>7, <1>8, <1>9, <1>10

\* Pages for who is signed in, about a session of a flow.
LEMMA SignedInPages ==
  ASSUME RowsType, NEW t \in DOMAIN tabs, Fits(tabs[t]), tabs[t] \in Tab,
         \/ updateEmailAddressSetNewEmailAddressPageRoute(t)
         \/ updateEmailAddressVerifyNewEmailAddressPageRoute(t)
         \/ registerPasskeySetPasskeyNamePageRoute(t)
         \/ deleteAccountConfirmPageRoute(t)
  PROVE  Outcome(t)
<1> DEFINE s == RowAt(tabs[t].session)
<1>1. /\ \A path \in Paths \union {NoPage} : \A tables :
           Redirect(t, path, tables) => Outcome(t)
      /\ "/account" \in Paths /\ "/verify-identity" \in Paths
      /\ "/update-email-address/verify-new-email-address" \in Paths
      /\ "/register-passkey/create-passkey" \in Paths
      /\ "/update-email-address" = NoPage
  BY DEF Outcome, Redirects, Paths, NoPage
<1>2. ASSUME Continue(t, "shown", None), tabs[t].path # "/account",
             \A r \in rows : r.key = tabs[t].session => Seen(tabs[t], "shown", r)
      PROVE  Outcome(t)
  BY <1>2 DEF Outcome, Proceeds
<1>3. HasSession(t) => \A r \in rows : r.key = tabs[t].session => r = s
  BY SessionRead
<1> HIDE DEF s
<1>4. CASE updateEmailAddressSetNewEmailAddressPageRoute(t)
  <2>1. tabs[t].path = "/update-email-address/set-new-email-address"
    BY <1>4 DEF updateEmailAddressSetNewEmailAddressPageRoute
  <2>2. CASE SignedIn(t, "session")
    BY <2>1, <2>2, SignedInOutcome
  <2>3. tabs[t].path \notin FilledPages
    BY <2>1 DEF FilledPages
  <2>4. CASE ~SignedIn(t, "session")
    BY <1>4, <2>1, <2>3, <2>4, <1>1, <1>2, <1>3
    DEF updateEmailAddressSetNewEmailAddressPageRoute, WithOwnSession,
        WithSession, WithoutSession, SameAuthSession, Seen, SessionFits, s
  <2> QED
    BY <2>2, <2>4
<1>5. CASE updateEmailAddressVerifyNewEmailAddressPageRoute(t)
  <2>1. tabs[t].path = "/update-email-address/verify-new-email-address"
    BY <1>5 DEF updateEmailAddressVerifyNewEmailAddressPageRoute
  <2>2. CASE SignedIn(t, "session")
    BY <2>1, <2>2, SignedInOutcome
  <2>3. CASE ~SignedIn(t, "session")
    BY <1>5, <2>1, <2>3, <1>1, <1>2, <1>3
    DEF updateEmailAddressVerifyNewEmailAddressPageRoute, WithOwnSession,
        WithSession, WithoutSession, SameAuthSession, Seen, SessionFits, s
  <2> QED
    BY <2>2, <2>3
<1>6. CASE registerPasskeySetPasskeyNamePageRoute(t)
  <2>1. tabs[t].path = "/register-passkey/set-passkey-name"
    BY <1>6 DEF registerPasskeySetPasskeyNamePageRoute
  <2>2. CASE SignedIn(t, "session")
    BY <2>1, <2>2, SignedInOutcome
  <2>3. CASE ~SignedIn(t, "session")
    BY <1>6, <2>1, <2>3, <1>1, <1>2, <1>3
    DEF registerPasskeySetPasskeyNamePageRoute, WithOwnSession,
        WithSession, WithoutSession, SameAuthSession, Seen, SessionFits, s
  <2> QED
    BY <2>2, <2>3
<1>7. CASE deleteAccountConfirmPageRoute(t)
  <2>1. tabs[t].path = "/delete-account/confirm"
    BY <1>7 DEF deleteAccountConfirmPageRoute
  <2>2. CASE SignedIn(t, "session")
    BY <2>1, <2>2, SignedInOutcome
  <2>3. tabs[t].path \notin FilledPages
    BY <2>1 DEF FilledPages
  <2>4. CASE ~SignedIn(t, "session")
    BY <1>7, <2>1, <2>3, <2>4, <1>1, <1>2, <1>3
    DEF deleteAccountConfirmPageRoute, WithOwnSession,
        WithSession, WithoutSession, SameAuthSession, Seen, SessionFits, s
  <2> QED
    BY <2>2, <2>4
<1> QED
  BY <1>4, <1>5, <1>6, <1>7

\* Pages that read another row after the session.
LEMMA ReadingPages ==
  ASSUME RowsType, NEW t \in DOMAIN tabs, Fits(tabs[t]), tabs[t] \in Tab,
         \/ verifyIdentityVerifyEmailCodePageRoute(t)
         \/ registerPasskeyCreatePasskeyPageRoute(t)
         \/ deletePasskeyConfirmPageRoute(t)
  PROVE  Outcome(t)
<1> DEFINE s == RowAt(tabs[t].session)
<1>1. /\ \A path \in Paths : \A tables : Redirect(t, path, tables) => Outcome(t)
      /\ "/account" \in Paths /\ "/verify-identity" \in Paths
      /\ "/sign-in" \in Paths /\ "/register-passkey/set-passkey-name" \in Paths
  BY DEF Outcome, Redirects, Paths
<1>2. ASSUME NEW phase \in {"item", "shown"}, NEW item \in Key \union {None},
             Continue(t, phase, item), tabs[t].path # "/account",
             \A r \in rows : r.key = tabs[t].session => Seen(tabs[t], phase, r)
      PROVE  Outcome(t)
  BY <1>2 DEF Outcome, Proceeds
<1>3. /\ HasSession(t) => s \in rows
      /\ HasSession(t) => \A r \in rows : r.key = tabs[t].session => r = s
      /\ s \in rows => s.about \in Key \union {None}
  BY RowAtLive, SessionRead DEF HasSession, RowsType, Row
<1>4. tabs[t].phase = "item" =>
        \A r \in rows : r.key = tabs[t].session => SessionFits(tabs[t], r)
  BY DEF Fits
<1>5. {tabs[t].item, tabs[t].session} \subseteq Key \union {None}
  BY DEF Tab
<1> HIDE DEF s
<1>6. CASE verifyIdentityVerifyEmailCodePageRoute(t)
  <2>1. tabs[t].path = "/verify-identity/verify-email-code"
    BY <1>6 DEF verifyIdentityVerifyEmailCodePageRoute
  <2>2. CASE SignedIn(t, "session")
    BY <2>1, <2>2, SignedInOutcome
  <2>3. tabs[t].path \notin VerifiedPages \union FilledPages
    BY <2>1 DEF FilledPages, VerifiedPages, FlowPages, SessionOf, Paths,
                VerifyingTables
  <2>4. CASE ~SignedIn(t, "session") /\ tabs[t].phase = "session"
    BY <1>6, <2>1, <2>3, <2>4, <1>1, <1>2, <1>3
    DEF verifyIdentityVerifyEmailCodePageRoute, WithOwnSession, WithItem,
        WithSession, WithoutSession, SameAuthSession, Seen, SessionFits, s
  <2>5. CASE ~SignedIn(t, "session") /\ tabs[t].phase # "session"
    BY <1>6, <2>1, <2>5, <1>1, <1>2, <1>4, <1>5
    DEF verifyIdentityVerifyEmailCodePageRoute, WithOwnSession, WithItem,
        WithSession, Seen
  <2> QED
    BY <2>2, <2>4, <2>5
<1>7. CASE registerPasskeyCreatePasskeyPageRoute(t)
  <2>1. tabs[t].path = "/register-passkey/create-passkey"
    BY <1>7 DEF registerPasskeyCreatePasskeyPageRoute
  <2>2. CASE SignedIn(t, "session")
    BY <2>1, <2>2, SignedInOutcome
  <2>3. tabs[t].path \notin FilledPages
    BY <2>1 DEF FilledPages
  <2>4. CASE ~SignedIn(t, "session") /\ tabs[t].phase = "session"
    BY <1>7, <2>1, <2>3, <2>4, <1>1, <1>2, <1>3, <1>5
    DEF registerPasskeyCreatePasskeyPageRoute, WithOwnSession, WithItem,
        WithSession, WithoutSession, SameAuthSession, Seen, SessionFits, s
  <2>5. CASE ~SignedIn(t, "session") /\ tabs[t].phase # "session"
    BY <1>7, <2>1, <2>5, <1>1, <1>2, <1>4, <1>5
    DEF registerPasskeyCreatePasskeyPageRoute, WithOwnSession, WithItem,
        WithSession, Seen
  <2> QED
    BY <2>2, <2>4, <2>5
<1>8. CASE deletePasskeyConfirmPageRoute(t)
  <2>1. tabs[t].path = "/delete-passkey/confirm"
    BY <1>8 DEF deletePasskeyConfirmPageRoute
  <2>2. CASE SignedIn(t, "session")
    BY <2>1, <2>2, SignedInOutcome
  <2>3. tabs[t].path \notin FilledPages
    BY <2>1 DEF FilledPages
  <2>4. CASE ~SignedIn(t, "session") /\ tabs[t].phase = "session"
    BY <1>8, <2>1, <2>3, <2>4, <1>1, <1>2, <1>3
    DEF deletePasskeyConfirmPageRoute, WithOwnSession, WithItem,
        WithSession, WithoutSession, SameAuthSession, Seen, SessionFits, s
  <2>5. CASE ~SignedIn(t, "session") /\ tabs[t].phase # "session"
    BY <1>8, <2>1, <2>5, <1>1, <1>2, <1>4, <1>5
    DEF deletePasskeyConfirmPageRoute, WithOwnSession, WithItem,
        WithSession, Seen
  <2> QED
    BY <2>2, <2>4, <2>5
<1> QED
  BY <1>6, <1>7, <1>8

\* Pages that list passkeys.
LEMMA PasskeyPages ==
  ASSUME RowsType, NEW t \in DOMAIN tabs, Fits(tabs[t]), tabs[t] \in Tab,
         accountPageRoute(t) \/ verifyIdentityPageRoute(t)
  PROVE  Outcome(t)
<1> DEFINE s == RowAt(tabs[t].session)
<1>1. /\ \A path \in Paths : \A tables : Redirect(t, path, tables) => Outcome(t)
      /\ "/account" \in Paths /\ "/sign-in" \in Paths
  BY DEF Outcome, Redirects, Paths
<1>2. HasSession(t) => \A r \in rows : r.key = tabs[t].session => r = s
  BY SessionRead
<1>3. tabs[t].item \in Key \union {None}
  BY DEF Tab
<1> HIDE DEF s
<1>4. CASE accountPageRoute(t)
  <2>1. tabs[t].path = "/account"
    BY <1>4 DEF accountPageRoute
  <2>2. CASE SignedIn(t, "item")
    BY <2>1, <2>2, SignedInOutcome
  <2>3. CASE WithItem(t, tabs[t].item, "passkeys", "/sign-in", {"auth_session"})
    <3>1. \A r \in rows : r.key = tabs[t].auth => r.of = tabs[t].item
      BY <2>1, <2>3 DEF Fits, WithItem
    <3>2. Continue(t, "passkeys", tabs[t].item) => Outcome(t)
      BY <1>3, <2>1, <3>1, OpenPages DEF Outcome, Proceeds, Seen
    <3> QED
      BY <1>1, <2>3, <3>2 DEF WithItem
  <2> QED
    BY <1>4, <2>2, <2>3 DEF accountPageRoute, Outcome, ShowsPasskeys
<1>5. CASE verifyIdentityPageRoute(t)
  <2>1. tabs[t].path = "/verify-identity"
    BY <1>5 DEF verifyIdentityPageRoute
  <2>2. CASE SignedIn(t, "session")
    BY <2>1, <2>2, SignedInOutcome
  <2>3. tabs[t].path \notin VerifiedPages \union FilledPages
    BY <2>1 DEF FilledPages, VerifiedPages, FlowPages, SessionOf, Paths,
                VerifyingTables
  <2>4. ASSUME Continue(t, "passkeys", tabs[t].item), HasSession(t),
               s.of = tabs[t].auth
        PROVE  Outcome(t)
    BY <2>4, <1>2, <1>3, <2>1, <2>3 DEF Outcome, Proceeds, Seen, SessionFits
  <2>5. CASE ~SignedIn(t, "session") /\ tabs[t].phase = "session"
    BY <1>5, <2>5, <2>4, <1>1
    DEF verifyIdentityPageRoute, WithOwnSession, WithSession, WithoutSession,
        SameAuthSession, s
  <2>6. CASE ~SignedIn(t, "session") /\ tabs[t].phase # "session"
    BY <1>5, <2>1, <2>6
    DEF verifyIdentityPageRoute, WithOwnSession, WithSession, Outcome,
        ShowsPasskeys
  <2> QED
    BY <2>2, <2>5, <2>6
<1> QED
  BY <1>4, <1>5

\* What the routes do, all in all.
LEMMA RouteOutcome ==
  ASSUME RowsType, NEW t \in DOMAIN tabs, Fits(tabs[t]), tabs[t] \in Tab,
         PageRoute(t)
  PROVE  Outcome(t)
BY SignedOutPages, SignedInPages, ReadingPages, PasskeyPages DEF PageRoute

\* The keys of passkeys.
LEMMA PasskeyKeys ==
  ASSUME RowsType, NEW user
  PROVE  Keys(PasskeysOf(user)) \subseteq {"passkey"} \X RowIds
<1> SUFFICES ASSUME NEW p \in PasskeysOf(user)
             PROVE  p.key \in {"passkey"} \X RowIds
  BY DEF Keys
<1>1. p.key \in Key /\ p.key[1] = "passkey"
  BY DEF PasskeysOf, RowsIn, RowsType, Row
<1>2. p.key = <<p.key[1], p.key[2]>> /\ p.key[2] \in RowIds
  BY <1>1, KeyType
<1> QED
  BY <1>1, <1>2

\* A route that goes on, or shows the page.
LEMMA ProceedsFits ==
  ASSUME IInv, UNCHANGED habit, NEW t \in DOMAIN tabs,
         NEW phase \in {"session", "item", "passkeys", "shown"},
         NEW item \in Key \union {None}, Proceeds(t, phase, item)
  PROVE  IInv'
<1>1. PICK U : U = tabs[t]
  OBVIOUS
<1>2. U \in Tab /\ Fits(U)
  BY <1>1 DEF IInv, TypeOK
<1> DEFINE next == IF phase = "shown" THEN None ELSE item
           T == [U EXCEPT !.phase = phase, !.item = next]
<1>3. next \in Key \union {None}
  OBVIOUS
<1>4. /\ T \in Tab /\ T.phase = phase /\ T.item = next
      /\ T.path = U.path /\ T.auth = U.auth /\ T.session = U.session
      /\ T.passkeys = U.passkeys /\ T.reply = U.reply
  BY <1>2, <1>3 DEF Tab
<1>5. tabs' = [tabs EXCEPT ![t] = T] /\ UNCHANGED <<rows, cookies>>
  BY <1>1 DEF Proceeds, Continue
<1> HIDE DEF T
<1>6. RowsFit' /\ RowsMoveOn /\ JarOK(cookies)'
  BY <1>5, FewerMoveOn DEF IInv, RowsFit, RowsType, Live, TypeOK, JarOK
<1>7. \A s \in rows : s.key = T.session => Seen(U, phase, s)
  BY <1>1, <1>4 DEF Proceeds
<1>8. T.path = "/account" /\ T.phase \in {"item", "passkeys"} =>
        \A r \in rows : r.key = T.auth => r.of = T.item
  BY <1>1, <1>4 DEF Proceeds
<1>9. Fits(T)'
  BY <1>2, <1>4, <1>5, <1>7, <1>8 DEF Fits, Seen, SessionFits
<1>10. Undisturbed(T)'
  BY <1>4, <1>5, <1>7 DEF Undisturbed, Seen
<1> QED
  BY <1>4, <1>5, <1>6, <1>9, <1>10, TabStep

\* A page appears with the keys of passkeys.
LEMMA ShowsPasskeysFits ==
  ASSUME IInv, UNCHANGED habit, NEW t \in DOMAIN tabs, ShowsPasskeys(t)
  PROVE  IInv'
<1>1. PICK U : U = tabs[t]
  OBVIOUS
<1>2. U \in Tab /\ Fits(U)
  BY <1>1 DEF IInv, TypeOK
<1>0. PICK passkeys : passkeys = Keys(PasskeysOf(U.item))
  OBVIOUS
<1> DEFINE T == [U EXCEPT !.phase = "shown", !.item = None,
                          !.passkeys = passkeys]
<1>3. passkeys \subseteq {"passkey"} \X RowIds
  BY <1>0, PasskeyKeys DEF IInv, RowsFit
<1>4. passkeys \in SUBSET Key
  BY <1>3, KeyType DEF Tables
<1>5. tabs' = [tabs EXCEPT ![t] = T] /\ UNCHANGED <<rows, cookies>>
  BY <1>0, <1>1 DEF ShowsPasskeys
<1>6. /\ T \in Tab /\ T.phase = "shown"
      /\ T.path = U.path /\ T.auth = U.auth /\ T.session = U.session
      /\ T.passkeys = passkeys /\ T.reply = U.reply
  BY <1>2, <1>4 DEF Tab
<1> HIDE DEF T
<1>7. RowsFit' /\ RowsMoveOn /\ JarOK(cookies)'
  BY <1>5, FewerMoveOn DEF IInv, RowsFit, RowsType, Live, TypeOK, JarOK
<1>8. U.phase = "passkeys"
  BY <1>1 DEF ShowsPasskeys
<1>9. UNCHANGED rows
  BY <1>5
<1>10. T.passkeys \subseteq {"passkey"} \X RowIds
  BY <1>3, <1>6
<1>11. Fits(T)'
  BY <1>2, <1>6, <1>8, <1>9, <1>10 DEF Fits, SessionFits
<1>12. Undisturbed(T)'
  BY <1>6 DEF Undisturbed
<1>13. T \in Tab /\ tabs' = [tabs EXCEPT ![t] = T]
  BY <1>5, <1>6
<1> QED
  BY <1>7, <1>11, <1>12, <1>13, TabStep

\* Keys of new rows.
LEMMA FreshKey ==
  ASSUME NEW table \in Tables, NEW k \in FreshKeys(table)
  PROVE  /\ k \in {table} \X RowIds /\ k \in Key /\ k[1] = table
         /\ k \notin Keys(rows) /\ k \notin Named
<1>1. k \in ({table} \X RowIds) \ Keys(rows) /\ k \notin Named
  BY DEF FreshKeys, NewKeys
<1>2. {table} \X RowIds \subseteq Key
  BY KeyType
<1> QED
  BY <1>1, <1>2

\* A new row.
LEMMA NewRowType ==
  ASSUME NEW key \in Key, NEW of \in Key \union {None},
         NEW about \in Key \union {None}
  PROVE  /\ NewRow(key, of, about) \in Row
         /\ NewRow(key, of, about).key = key /\ NewRow(key, of, about).of = of
         /\ NewRow(key, of, about).about = about
BY DEF NewRow, Row

\* A session that references nothing.
LEMMA CreateFits ==
  ASSUME RowsFit, NEW table \in {"signup_session", "passkey_signin_attempt"},
         NEW key \in FreshKeys(table), createSession(key)
  PROVE  RowsFit' /\ RowsMoveOn
<1> DEFINE row == NewRow(key, None, None)
<1>1. table \in Tables
  BY DEF Tables
<1>2. key \in Key /\ key[1] = table /\ key \notin Keys(rows) /\ key \notin Named
  BY <1>1, FreshKey
<1>3. row \in Row /\ row.key = key /\ row.of = None
  BY <1>2, NewRowType
<1>4. rows' = (rows \ {}) \union {row}
  BY DEF createSession, Insert
<1> HIDE DEF row
<1>5. Shaped(row) /\ References(row) = {None}
  BY <1>2, <1>3 DEF Shaped, References, VerifyingTables
<1>6. IsFiniteSet({row})
  BY FS_Singleton
<1>7. \A r \in rows \ {} : row.key # r.key
  BY <1>2, <1>3 DEF Keys
<1>8. {row} \in SUBSET Row /\ {} \in SUBSET rows
  BY <1>3
<1>9. RowsFit'
  BY <1>4, <1>5, <1>6, <1>7, <1>8, ReplaceFits
<1>10. RowsMoveOn
  BY <1>2, <1>3, <1>4 DEF RowsMoveOn, MovesOn
<1> QED
  BY <1>9, <1>10

\* The page for signing in appears with a new attempt.
LEMMA MakesAttemptFits ==
  ASSUME IInv, UNCHANGED habit, NEW t \in DOMAIN tabs, MakesAttempt(t)
  PROVE  IInv'
<1>1. PICK attempt \in FreshKeys("passkey_signin_attempt") :
        /\ createSession(attempt)
        /\ tabs' = [tabs EXCEPT ![t].phase = "shown", ![t].session = attempt]
  BY DEF MakesAttempt
<1>2. attempt \in Key /\ attempt[1] = "passkey_signin_attempt"
  BY FreshKey DEF Tables
<1>3. PICK U : U = tabs[t]
  OBVIOUS
<1>4. U \in Tab /\ Fits(U) /\ U.path = "/sign-in"
  BY <1>3 DEF IInv, TypeOK, MakesAttempt
<1> DEFINE T == [U EXCEPT !.phase = "shown", !.session = attempt]
<1>5. tabs' = [tabs EXCEPT ![t] = T] /\ cookies' = cookies
  BY <1>1, <1>3 DEF MakesAttempt
<1>6. /\ T \in Tab /\ T.phase = "shown" /\ T.path = "/sign-in"
      /\ T.session = attempt /\ T.passkeys = U.passkeys /\ T.reply = U.reply
  BY <1>2, <1>4 DEF Tab
<1> HIDE DEF T
<1>7. RowsFit' /\ RowsMoveOn /\ JarOK(cookies)'
  BY <1>1, <1>5, CreateFits DEF IInv, TypeOK, JarOK
<1>8. /\ "/sign-in" \in Paths /\ PageSession("/sign-in") = "passkey_signin_attempt"
      /\ "/sign-in" \notin VerifiedPages \union FilledPages
  BY DEF VerifiedPages, FilledPages, FlowPages, PageSession, SessionOf, Paths,
         VerifyingTables
<1>9. Fits(T)' /\ Undisturbed(T)'
  BY <1>2, <1>4, <1>6, <1>8 DEF Fits, SessionFits, Undisturbed, VerifyingTables
<1> QED
  BY <1>5, <1>6, <1>7, <1>9, TabStep

\* Every step of a route.
LEMMA RouteFits ==
  ASSUME IInv, UNCHANGED habit, NEW t \in DOMAIN tabs, PageRoute(t)
  PROVE  IInv'
<1>1. RowsType /\ Fits(tabs[t]) /\ tabs[t] \in Tab
  BY DEF IInv, RowsFit, TypeOK
<1>2. CASE Redirects(t)
  BY <1>2, BlankJar, GoFits DEF Redirects, Redirect, IInv
<1> QED
  BY <1>1, <1>2, RouteOutcome, ProceedsFits, ShowsPasskeysFits,
     MakesAttemptFits
  DEF Outcome

-----------------------------------------------------------------------------
(* Handlers: what commits do to the rows. *)

\* Rows take the place of others, which nothing references unless they stay
\* under their key.
LEMMA CommitFits ==
  ASSUME RowsFit, NEW C \in SUBSET rows, NEW A \in SUBSET Row, IsFiniteSet(A),
         rows' = (rows \ C) \union A,
         \A a, b \in A : a.key = b.key => a = b,
         \A a \in A : Shaped(a),
         \A a \in A : \A k \in References(a) \ {None} : k \in Keys(rows'),
         \A a \in A : \/ a.key \notin Keys(rows) /\ a.key \notin Named
                      \/ \E c \in C : MovesOn(c, a),
         \A c \in C : \/ c.key[1] \notin {"user", "auth_session", "passkey"}
                      \/ c.key \in Keys(A)
  PROVE  RowsFit' /\ RowsMoveOn
<1>1. ASSUME NEW a \in A, NEW r \in rows \ C
      PROVE  a.key # r.key
  <2>1. CASE a.key \notin Keys(rows)
    BY <2>1 DEF Keys
  <2>2. CASE \E c \in C : MovesOn(c, a)
    BY <2>2 DEF MovesOn, RowsFit, RowsType
  <2> QED
    BY <2>1, <2>2
<1>2. RowsFit'
  BY <1>1, ReplaceFits
<1>3. RowsMoveOn
  BY DEF RowsMoveOn, MovesOn
<1> QED
  BY <1>2, <1>3

\* A row of one of these tables is referenced by nothing.
Loose(r) == r.key[1] \notin {"user", "auth_session", "passkey"}

\* One row comes in for those of C.
LEMMA OneComes ==
  ASSUME RowsFit, NEW C \in SUBSET rows, \A c \in C : Loose(c),
         NEW a \in Row, rows' = (rows \ C) \union {a},
         a.key \notin Keys(rows), a.key \notin Named, Shaped(a),
         \A k \in References(a) \ {None} : \E r \in rows \ C : r.key = k
  PROVE  RowsFit' /\ RowsMoveOn
<1> DEFINE A == {a}
<1>1. A \in SUBSET Row /\ IsFiniteSet(A)
  BY FS_Singleton
<1>2. rows' = (rows \ C) \union A
  OBVIOUS
<1>3. \A q \in A : \A k \in References(q) \ {None} : k \in Keys(rows')
  BY <1>2 DEF Keys
<1>4. /\ \A q, r \in A : q.key = r.key => q = r
      /\ \A q \in A : Shaped(q)
      /\ \A q \in A : \/ q.key \notin Keys(rows) /\ q.key \notin Named
                      \/ \E c \in C : MovesOn(c, q)
  OBVIOUS
<1>5. \A c \in C : \/ c.key[1] \notin {"user", "auth_session", "passkey"}
                   \/ c.key \in Keys(A)
  BY DEF Loose
<1> HIDE DEF A
<1> QED
  BY <1>1, <1>2, <1>3, <1>4, <1>5, CommitFits

\* Two rows come in for those of C.
LEMMA TwoCome ==
  ASSUME RowsFit, NEW C \in SUBSET rows, \A c \in C : Loose(c),
         NEW a \in Row, NEW b \in Row, rows' = (rows \ C) \union {a, b},
         a.key # b.key, Shaped(a), Shaped(b),
         a.key \notin Keys(rows), a.key \notin Named,
         b.key \notin Keys(rows), b.key \notin Named,
         \A k \in References(a) \ {None} : \E r \in rows \ C : r.key = k,
         \A k \in References(b) \ {None} :
           k = a.key \/ \E r \in rows \ C : r.key = k
  PROVE  RowsFit' /\ RowsMoveOn
<1> DEFINE A == {a, b}
<1>1. A \in SUBSET Row /\ IsFiniteSet(A)
  <2>1. IsFiniteSet({a}) /\ IsFiniteSet({b})
    BY FS_Singleton
  <2>2. IsFiniteSet({a} \union {b})
    BY <2>1, FS_Union
  <2>3. A = {a} \union {b}
    OBVIOUS
  <2> HIDE DEF A
  <2>4. A \in SUBSET Row
    BY <2>3
  <2> QED
    BY <2>2, <2>3, <2>4
<1>2. rows' = (rows \ C) \union A
  OBVIOUS
<1>3. \A q \in A : \A k \in References(q) \ {None} : k \in Keys(rows')
  BY <1>2 DEF Keys
<1>4. /\ \A q, r \in A : q.key = r.key => q = r
      /\ \A q \in A : Shaped(q)
      /\ \A q \in A : \/ q.key \notin Keys(rows) /\ q.key \notin Named
                      \/ \E c \in C : MovesOn(c, q)
  OBVIOUS
<1>5. \A c \in C : \/ c.key[1] \notin {"user", "auth_session", "passkey"}
                   \/ c.key \in Keys(A)
  BY DEF Loose
<1> HIDE DEF A
<1> QED
  BY <1>1, <1>2, <1>3, <1>4, <1>5, CommitFits

\* A row is updated, and those of C go.
LEMMA OneChanges ==
  ASSUME RowsFit, NEW C \in SUBSET rows, \A c \in C : Loose(c),
         NEW s \in rows, s \notin C, NEW a \in Row, MovesOn(s, a), a.about = s.about,
         rows' = (rows \ (C \union {s})) \union {a}
  PROVE  RowsFit' /\ RowsMoveOn
<1> DEFINE A == {a}
           D == C \union {s}
<1>1. A \in SUBSET Row /\ IsFiniteSet(A) /\ D \in SUBSET rows
  BY FS_Singleton
<1>2. rows' = (rows \ D) \union A
  OBVIOUS
<1>3. a.key = s.key /\ a.of = s.of
  BY DEF MovesOn
<1>4. Shaped(a) /\ References(a) = References(s)
  <2>1. Shaped(s)
    BY DEF RowsFit
  <2> QED
    BY <1>3, <2>1 DEF Shaped, References
<1>5. \A k \in References(a) \ {None} : k \in Keys(rows')
  <2>1. \A k \in References(s) \ {None} : \E r \in rows : r.key = k /\ r \notin C
    BY ReferenceTables DEF RowsFit, Live, Keys, Loose
  <2> QED
    BY <1>2, <1>3, <1>4, <2>1 DEF Keys
<1>6. /\ \A q, r \in A : q.key = r.key => q = r
      /\ \A q \in A : Shaped(q)
      /\ \A q \in A : \A k \in References(q) \ {None} : k \in Keys(rows')
      /\ \A q \in A : \/ q.key \notin Keys(rows) /\ q.key \notin Named
                      \/ \E c \in D : MovesOn(c, q)
  BY <1>4, <1>5
<1>7. \A c \in D : \/ c.key[1] \notin {"user", "auth_session", "passkey"}
                   \/ c.key \in Keys(A)
  BY <1>3 DEF Loose, Keys
<1> HIDE DEF A, D
<1> QED
  BY <1>1, <1>2, <1>6, <1>7, CommitFits

\* createEmailCodeSigninSession
LEMMA EmailCodeSigninFits ==
  ASSUME RowsFit, NEW key \in FreshKeys("email_code_signin_session"),
         NEW user, createEmailCodeSigninSession(key, user)
  PROVE  RowsFit' /\ RowsMoveOn
<1> DEFINE row == NewRow(key, user.key, None)
<1>1. /\ key \in Key /\ key[1] = "email_code_signin_session"
      /\ key \notin Keys(rows) /\ key \notin Named
  BY FreshKey DEF Tables
<1>2. /\ user \in rows /\ user.key[1] = "user" /\ user.key \in Key
  BY DEF createEmailCodeSigninSession, RowsIn, RowsFit, RowsType, Row
<1>3. user.key \in {"user"} \X RowIds
  BY <1>2, KeyType
<1>4. row \in Row /\ row.key = key /\ row.of = user.key
  BY <1>1, <1>2, NewRowType
<1>5. rows' = (rows \ {}) \union {row}
  BY DEF createEmailCodeSigninSession, Insert
<1> HIDE DEF row
<1>6. Shaped(row) /\ References(row) = {user.key}
  BY <1>1, <1>3, <1>4 DEF Shaped, References, VerifyingTables
<1>7. {} \in SUBSET rows
  OBVIOUS
<1> QED
  BY <1>1, <1>2, <1>4, <1>5, <1>6, <1>7, OneComes

\* createVerifyingSession
LEMMA VerifyingSessionFits ==
  ASSUME RowsFit, NEW table \in VerifyingTables,
         NEW key \in FreshKeys(table),
         NEW v \in FreshKeys("identity_verification_session"),
         NEW auth, NEW about, createVerifyingSession(key, v, auth, about),
         IF table = "passkey_deletion_session"
         THEN about \in ({"passkey"} \X RowIds) \intersect Keys(rows)
         ELSE about = None
  PROVE  RowsFit' /\ RowsMoveOn
<1> DEFINE a == NewRow(key, auth.key, about)
           b == NewRow(v, auth.key, key)
<1>1. /\ key \in Key /\ key[1] = table
      /\ key \notin Keys(rows) /\ key \notin Named
      /\ v \in Key /\ v[1] = "identity_verification_session"
      /\ v \notin Keys(rows) /\ v \notin Named
  BY FreshKey DEF Tables
<1>2. /\ auth \in rows /\ auth.key[1] = "auth_session" /\ auth.key \in Key
  BY DEF createVerifyingSession, RowsIn, RowsFit, RowsType, Row
<1>3. auth.key \in {"auth_session"} \X RowIds /\ key \in VerifyingTables \X RowIds
  BY <1>1, <1>2, KeyType
<1>4. about \in Key \union {None}
  BY KeyType DEF Tables
<1>5. /\ a \in Row /\ a.key = key /\ a.of = auth.key /\ a.about = about
      /\ b \in Row /\ b.key = v /\ b.of = auth.key /\ b.about = key
  BY <1>1, <1>2, <1>4, NewRowType
<1>6. rows' = (rows \ {}) \union {a, b}
  BY DEF createVerifyingSession, Insert
<1> HIDE DEF a, b
<1>7. /\ Shaped(a)
      /\ References(a) = {auth.key} \union
           (IF table = "passkey_deletion_session" THEN {about} ELSE {})
  BY <1>1, <1>3, <1>5 DEF Shaped, References, VerifyingTables
<1>8. Shaped(b) /\ References(b) = {auth.key}
  BY <1>1, <1>3, <1>5 DEF Shaped, References, VerifyingTables
<1>9. a.key # b.key
  BY <1>1, <1>5 DEF VerifyingTables
<1>10. /\ \A k \in References(a) \ {None} : \E r \in rows \ {} : r.key = k
       /\ \A k \in References(b) \ {None} : \E r \in rows \ {} : r.key = k
  BY <1>2, <1>7, <1>8 DEF Keys
<1>11. {} \in SUBSET rows /\ \A c \in {} : Loose(c)
  OBVIOUS
<1>12. /\ a \in Row /\ b \in Row /\ Shaped(a) /\ Shaped(b)
       /\ a.key \notin Keys(rows) /\ a.key \notin Named
       /\ b.key \notin Keys(rows) /\ b.key \notin Named
  BY <1>1, <1>5, <1>7, <1>8
<1>13. /\ \A k \in References(a) \ {None} : \E r \in rows \ {} : r.key = k
       /\ \A k \in References(b) \ {None} :
            k = a.key \/ \E r \in rows \ {} : r.key = k
  BY <1>10
<1> QED
  BY <1>6, <1>9, <1>11, <1>12, <1>13, TwoCome

\* setVerified, fill, setEmailCode
LEMMA ReplaceRowFits ==
  ASSUME RowsFit, NEW s \in rows, NEW a \in Row, MovesOn(s, a),
         a.about = s.about, Replace(s, a)
  PROVE  RowsFit' /\ RowsMoveOn
<1>1. rows' = (rows \ ({} \union {s})) \union {a}
  BY DEF Replace
<1>2. {} \in SUBSET rows /\ s \notin {} /\ \A c \in {} : Loose(c)
  OBVIOUS
<1> QED
  BY <1>1, <1>2, OneChanges

\* Rows go with all that references them.
LEMMA DeleteMovesOn ==
  ASSUME RowsFit, NEW S \in SUBSET rows, Delete(S)
  PROVE  RowsFit' /\ RowsMoveOn
BY DeleteFits, FewerMoveOn

\* A session is deleted with the verification it waits for.
LEMMA DeleteSessionFits ==
  ASSUME RowsFit, NEW s \in rows, deleteSession(s)
  PROVE  RowsFit' /\ RowsMoveOn
<1>1. {s} \union VerificationsOf(s) \in SUBSET rows
  BY DEF VerificationsOf, RowsIn
<1> QED
  BY <1>1, DeleteMovesOn DEF deleteSession

\* completeIdentityVerification
LEMMA IdentityVerifiedFits ==
  ASSUME RowsFit, NEW v \in rows, v.key[1] = "identity_verification_session",
         completeIdentityVerification(v)
  PROVE  RowsFit' /\ RowsMoveOn
<1>1. PICK s \in rows :
        /\ s.key = v.about
        /\ rows' = (rows \ {s, v}) \union {[s EXCEPT !.verified = TRUE]}
  BY DEF completeIdentityVerification
<1> DEFINE a == [s EXCEPT !.verified = TRUE]
<1>2. a \in Row /\ MovesOn(s, a) /\ a.about = s.about
  BY DEF RowsFit, RowsType, Row, MovesOn
<1>3. s \notin {v}
  <2>1. v.about \in VerifyingTables \X RowIds
    BY DEF RowsFit, Shaped
  <2> QED
    BY <1>1, <2>1 DEF VerifyingTables
<1>4. rows' = (rows \ ({v} \union {s})) \union {a}
  BY <1>1
<1> HIDE DEF a
<1>5. {v} \in SUBSET rows /\ \A c \in {v} : Loose(c)
  BY DEF Loose
<1> QED
  BY <1>2, <1>3, <1>4, <1>5, OneChanges

\* completeSignup
LEMMA SignupFits ==
  ASSUME RowsFit, NEW s \in rows, s.key[1] = "signup_session",
         NEW user \in FreshKeys("user"), NEW auth \in FreshKeys("auth_session"),
         NEW passkey \in FreshKeys("passkey"), NEW passkeys \in SUBSET {passkey},
         completeSignup(s, user, auth, passkeys)
  PROVE  RowsFit' /\ RowsMoveOn
<1> DEFINE a == NewRow(user, None, None)
           b == NewRow(auth, user, None)
           c == NewRow(passkey, user, None)
           P == {NewRow(p, user, None) : p \in passkeys}
           A == {a, b} \union P
<1>1. /\ user \in Key /\ user[1] = "user" /\ user \in {"user"} \X RowIds
      /\ user \notin Keys(rows) /\ user \notin Named
      /\ auth \in Key /\ auth[1] = "auth_session"
      /\ auth \notin Keys(rows) /\ auth \notin Named
      /\ passkey \in Key /\ passkey[1] = "passkey"
      /\ passkey \notin Keys(rows) /\ passkey \notin Named
  BY FreshKey DEF Tables
<1>2. /\ a \in Row /\ a.key = user /\ a.of = None
      /\ b \in Row /\ b.key = auth /\ b.of = user
      /\ c \in Row /\ c.key = passkey /\ c.of = user
  BY <1>1, NewRowType
<1>3. /\ P \subseteq {c} /\ A \subseteq {a, b, c}
      /\ rows' = (rows \ {s}) \union A /\ a \in A
  BY DEF completeSignup
<1>4. IsFiniteSet(A)
  <2>1. IsFiniteSet({a}) /\ IsFiniteSet({b}) /\ IsFiniteSet({c})
    BY FS_Singleton
  <2>2. IsFiniteSet({a} \union {b})
    BY <2>1, FS_Union
  <2>3. IsFiniteSet(({a} \union {b}) \union {c})
    BY <2>1, <2>2, FS_Union
  <2>4. A \subseteq ({a} \union {b}) \union {c}
    BY <1>3
  <2> HIDE DEF A, a, b, c
  <2> QED
    BY <2>3, <2>4, FS_Subset
<1> HIDE DEF A, P, a, b, c
<1>5. /\ Shaped(a) /\ References(a) = {None}
      /\ Shaped(b) /\ References(b) = {user}
      /\ Shaped(c) /\ References(c) = {user}
  BY <1>1, <1>2 DEF Shaped, References, VerifyingTables
<1>6. \A q \in A : \A k \in References(q) \ {None} : k \in Keys(rows')
  BY <1>2, <1>3, <1>5 DEF Keys
<1>7. /\ A \in SUBSET Row /\ {s} \in SUBSET rows
      /\ \A q, r \in A : q.key = r.key => q = r
      /\ \A q \in A : Shaped(q)
      /\ \A q \in A : \/ q.key \notin Keys(rows) /\ q.key \notin Named
                      \/ \E r \in {s} : MovesOn(r, q)
  BY <1>1, <1>2, <1>3, <1>5
<1>8. \A r \in {s} : \/ r.key[1] \notin {"user", "auth_session", "passkey"}
                     \/ r.key \in Keys(A)
  OBVIOUS
<1> QED
  BY <1>3, <1>4, <1>6, <1>7, <1>8, CommitFits

\* completeSignin
LEMMA SigninFits ==
  ASSUME RowsFit, NEW s \in rows, Loose(s), NEW user,
         NEW auth \in FreshKeys("auth_session"), completeSignin(s, user, auth)
  PROVE  RowsFit' /\ RowsMoveOn
<1> DEFINE a == NewRow(auth, user.key, None)
<1>1. /\ auth \in Key /\ auth[1] = "auth_session"
      /\ auth \notin Keys(rows) /\ auth \notin Named
  BY FreshKey DEF Tables
<1>2. /\ user \in rows /\ user.key[1] = "user" /\ user.key \in Key
      /\ rows' = (rows \ {s}) \union {a}
  BY DEF completeSignin, RowsIn, RowsFit, RowsType, Row
<1>3. user.key \in {"user"} \X RowIds
  BY <1>2, KeyType
<1>4. a \in Row /\ a.key = auth /\ a.of = user.key
  BY <1>1, <1>2, NewRowType
<1> HIDE DEF a
<1>5. Shaped(a) /\ References(a) = {user.key}
  BY <1>1, <1>3, <1>4 DEF Shaped, References, VerifyingTables
<1>6. user \in rows \ {s}
  BY <1>2 DEF Loose
<1>7. {s} \in SUBSET rows /\ \A c \in {s} : Loose(c)
  OBVIOUS
<1> QED
  BY <1>1, <1>2, <1>4, <1>5, <1>6, <1>7, OneComes

\* The auth session and the user of a session of a flow are there.
LEMMA OwnerLive ==
  ASSUME RowsFit, NEW s \in rows, s.key[1] \in VerifyingTables
  PROVE  /\ Live(UserOf(s)) /\ UserOf(s) \in {"user"} \X RowIds
         /\ UserOf(s) \in Key
<1> DEFINE auth == RowAt(s.of)
<1>1. s.of \in {"auth_session"} \X RowIds
  BY DEF RowsFit, Shaped
<1>2. s.of \in References(s) \ {None}
  BY <1>1, KeyType DEF Tables, References
<1>3. auth \in rows /\ auth.key = s.of
  BY <1>2, RowAtLive DEF RowsFit
<1>4. auth.key[1] = "auth_session"
  BY <1>1, <1>3
<1> HIDE DEF auth
<1>5. auth.of \in {"user"} \X RowIds
  BY <1>3, <1>4 DEF RowsFit, Shaped
<1>6. auth.of \in Key /\ auth.of # None
  BY <1>5, KeyType DEF Tables
<1>7. auth.of \in References(auth) \ {None}
  BY <1>6 DEF References
<1>8. Live(auth.of)
  BY <1>3, <1>7 DEF RowsFit
<1> QED
  BY <1>5, <1>6, <1>8 DEF UserOf, auth

\* completePasskeyRegistration
LEMMA RegistrationFits ==
  ASSUME RowsFit, NEW s \in rows, s.key[1] = "passkey_registration_session",
         NEW passkey \in FreshKeys("passkey"),
         completePasskeyRegistration(s, passkey)
  PROVE  RowsFit' /\ RowsMoveOn
<1>0. PICK user : user = UserOf(s)
  OBVIOUS
<1> DEFINE a == NewRow(passkey, user, None)
<1>1. /\ passkey \in Key /\ passkey[1] = "passkey"
      /\ passkey \notin Keys(rows) /\ passkey \notin Named
  BY FreshKey DEF Tables
<1>2. rows' = (rows \ {s}) \union {a}
  BY <1>0 DEF completePasskeyRegistration
<1>3. Live(user) /\ user \in {"user"} \X RowIds /\ user \in Key
  BY <1>0, OwnerLive DEF VerifyingTables
<1>4. PICK u \in rows : u.key = user
  BY <1>3 DEF Live, Keys
<1>5. u # s /\ a \in Row /\ a.key = passkey /\ a.of = user
  BY <1>1, <1>3, <1>4, NewRowType
<1> HIDE DEF a
<1>6. Shaped(a) /\ References(a) = {user}
  BY <1>1, <1>3, <1>5 DEF Shaped, References, VerifyingTables
<1>7. {s} \in SUBSET rows /\ \A c \in {s} : Loose(c)
  BY DEF Loose
<1>8. \A k \in References(a) \ {None} : \E r \in rows \ {s} : r.key = k
  BY <1>4, <1>5, <1>6
<1> QED
  BY <1>1, <1>2, <1>5, <1>6, <1>7, <1>8, OneComes

\* completeEmailAddressUpdate
LEMMA UpdateFits ==
  ASSUME RowsFit, NEW s \in rows, s.key[1] = "email_address_update_session",
         completeEmailAddressUpdate(s)
  PROVE  RowsFit' /\ RowsMoveOn
<1>0. PICK user : user = UserOf(s)
  OBVIOUS
<1> DEFINE revoked(r) == /\ r.key[1] = "identity_verification_session"
                         /\ UserOf(r) = user
<1>1. PICK R : R = {r \in rows : revoked(r)}
  OBVIOUS
<1> DEFINE next == [r \in rows |-> IF r \in R THEN [r EXCEPT !.filled = FALSE]
                                ELSE r]
           K == {q \in rows \ {s} : \/ q.key[1] # "email_code_signin_session"
                                    \/ q.of # user}
           A == {next[r] : r \in K}
<1>2. rows' = A
  BY <1>0, <1>1 DEF completeEmailAddressUpdate
<1>3. \A r \in R : r.key[1] = "identity_verification_session"
  BY <1>1
<1>4. ASSUME NEW r \in rows
      PROVE  /\ next[r] \in Row /\ MovesOn(r, next[r])
             /\ next[r].about = r.about
  BY <1>3 DEF RowsFit, RowsType, Row, MovesOn
<1>5. \A r \in rows : ~Loose(r) => r \in K
  BY DEF Loose
<1>6. ASSUME NEW r \in rows
      PROVE  Shaped(next[r]) /\ References(next[r]) = References(r)
  <2>1. Shaped(r)
    BY DEF RowsFit
  <2> QED
    BY <1>4, <2>1 DEF Shaped, References, MovesOn
<1>7. K \subseteq rows /\ IsFiniteSet(K)
  BY FS_Subset DEF RowsFit
<1>8. IsFiniteSet(A)
  <2>1. [r \in K |-> next[r]] \in Surjection(K, A)
    BY DEF Surjection
  <2> HIDE DEF K, A
  <2> QED
    BY <1>7, <2>1, FS_Surjection
<1>9. \A a \in A : \E r \in K : a = next[r]
  OBVIOUS
<1>10. \A r \in K : next[r] \in A
  OBVIOUS
<1> HIDE DEF next, K, A
<1>11. \A r \in rows : ~Loose(r) => r.key \in Keys(A)
  BY <1>4, <1>5, <1>10 DEF Keys, MovesOn
<1>12. ASSUME NEW a \in A, NEW k \in References(a) \ {None}
       PROVE  k \in Keys(rows')
  <2>1. PICK r \in rows : References(a) = References(r)
    BY <1>6, <1>7, <1>9
  <2>2. PICK q \in rows : q.key = k
    BY <2>1 DEF RowsFit, Live, Keys
  <2>3. ~Loose(q)
    BY <2>1, <2>2, ReferenceTables DEF Loose
  <2> QED
    BY <1>2, <1>11, <2>2, <2>3
<1>13. \A a \in A : a \in Row /\ Shaped(a) /\ \E c \in rows : MovesOn(c, a)
  BY <1>4, <1>6, <1>7, <1>9
<1>14. \A a, b \in A : a.key = b.key => a = b
  BY <1>4, <1>7, <1>9 DEF RowsFit, RowsType, MovesOn
<1>15. rows' = (rows \ rows) \union A /\ A \in SUBSET Row
  BY <1>2, <1>13
<1>16. rows \in SUBSET rows
  OBVIOUS
<1>17. \A c \in rows : \/ c.key[1] \notin {"user", "auth_session", "passkey"}
                       \/ c.key \in Keys(A)
  BY <1>11 DEF Loose
<1> QED
  BY <1>8, <1>12, <1>13, <1>14, <1>15, <1>16, <1>17, CommitFits

\* completePasskeyDeletion
LEMMA PasskeyDeletionFits ==
  ASSUME RowsFit, NEW s \in rows, s.key[1] = "passkey_deletion_session",
         completePasskeyDeletion(s)
  PROVE  RowsFit' /\ RowsMoveOn
<1>1. s.about \in {"passkey"} \X RowIds
  BY DEF RowsFit, Shaped
<1>2. s.about \in References(s) \ {None}
  BY <1>1, KeyType DEF References, Tables
<1>3. {RowAt(s.about)} \in SUBSET rows
  BY <1>2, RowAtLive DEF RowsFit
<1> QED
  BY <1>3, DeleteMovesOn DEF completePasskeyDeletion

\* completeAccountDeletion
LEMMA AccountDeletionFits ==
  ASSUME RowsFit, NEW s \in rows, s.key[1] = "account_deletion_session",
         completeAccountDeletion(s)
  PROVE  RowsFit' /\ RowsMoveOn
<1>1. Live(UserOf(s))
  BY OwnerLive DEF VerifyingTables
<1>2. {RowAt(UserOf(s))} \in SUBSET rows
  BY <1>1, RowAtLive DEF RowsFit
<1> QED
  BY <1>2, DeleteMovesOn DEF completeAccountDeletion

-----------------------------------------------------------------------------
(* Handlers: their answers. *)

\* The actions whose answer names the flow they are about.
VerifyActions ==
  {"verify_identity_verification_email_code",
   "verify_identity_verification_passkey_webauthn_signature"}

\* An answer that fits the action.
Answered(t, action) ==
  \E code \in Codes, tokens \in SUBSET Key,
     about \in VerifyingTables \union {"none"} :
    /\ Answer(t, action, code, tokens, about)
    /\ code = "ok" /\ action \in VerifyActions => about \in VerifyingTables

\* What a handler leaves behind when it accepts.
Committed(t, action) == RowsFit' /\ RowsMoveOn /\ Answered(t, action)

\* An answer without a verified identity.
LEMMA DoneAnswered ==
  ASSUME NEW t, NEW action, action \notin VerifyActions,
         NEW tokens \in SUBSET Key, Done(t, action, tokens)
  PROVE  Answered(t, action)
<1>1. CASE Answer(t, action, "ok", tokens, "none")
  BY <1>1 DEF Answered, Codes
<1>2. CASE Answer(t, action, "email_failed", {}, "none")
  BY <1>2 DEF Answered, Codes
<1> QED
  BY <1>1, <1>2 DEF Done

\* The tab waits for the answer, and acts on it.
LEMMA AnsweredFits ==
  ASSUME IInv, UNCHANGED habit, NEW t \in DOMAIN tabs, tabs[t].phase = "shown",
         NEW action \in Actions, RowsFit', RowsMoveOn, Answered(t, action)
  PROVE  IInv'
<1>1. PICK code \in Codes, tokens \in SUBSET Key,
           about \in VerifyingTables \union {"none"} :
        /\ Answer(t, action, code, tokens, about)
        /\ code = "ok" /\ action \in VerifyActions => about \in VerifyingTables
  BY DEF Answered
<1>2. PICK U : U = tabs[t]
  OBVIOUS
<1>3. U \in Tab /\ Fits(U) /\ U.phase = "shown"
  BY <1>2 DEF IInv, TypeOK
<1> DEFINE reply == [action |-> action, code |-> code, tokens |-> tokens,
                     about |-> about]
           T == [U EXCEPT !.phase = "waiting", !.reply = reply]
<1>4. reply \in [action : Actions \union {"none"}, code : Codes,
                 tokens : SUBSET Key, about : VerifyingTables \union {"none"}]
  OBVIOUS
<1>5. /\ reply.code = "ok" /\ reply.action \in VerifyActions
           => reply.about \in VerifyingTables
  BY <1>1
<1>6. tabs' = [tabs EXCEPT ![t] = T] /\ UNCHANGED cookies
  BY <1>1, <1>2 DEF Answer
<1> HIDE DEF reply
<1>7. /\ T \in Tab /\ T.phase = "waiting" /\ T.reply = reply
      /\ T.path = U.path /\ T.auth = U.auth /\ T.session = U.session
      /\ T.passkeys = U.passkeys
  BY <1>3, <1>4 DEF Tab
<1> HIDE DEF T
<1>8. {U.auth, U.session} \subseteq Named
  BY <1>2, TabNames
<1>9. Fits(U)'
  BY <1>3, <1>8, FitsMovesOn DEF IInv, RowsFit
<1>10. Fits(T)'
  BY <1>3, <1>5, <1>7, <1>9 DEF Fits, SessionFits, VerifyActions
<1>11. Undisturbed(T)' /\ JarOK(cookies)'
  BY <1>6, <1>7 DEF Undisturbed, JarOK, IInv, TypeOK
<1> QED
  BY <1>6, <1>7, <1>10, <1>11, TabStep

\* Every refusal has a code.
LEMMA RefusalCode ==
  ASSUME NEW action, NEW auth, NEW session
  PROVE  Refusal(action, auth, session) \in Codes
BY DEF Refusal, Codes

\* The tables of the actions.
LEMMA ActsOnTable ==
  /\ \A a \in SignupActions : a \in Actions /\ ActsOn[a] = "signup_session"
  /\ \A a \in EmailCodeSigninActions :
       a \in Actions /\ ActsOn[a] = "email_code_signin_session"
  /\ \A a \in IdentityVerificationActions :
       a \in Actions /\ ActsOn[a] = "identity_verification_session"
  /\ \A a \in EmailAddressUpdateActions :
       a \in Actions /\ ActsOn[a] = "email_address_update_session"
  /\ \A a \in PasskeyRegistrationActions :
       a \in Actions /\ ActsOn[a] = "passkey_registration_session"
  /\ \A a \in PasskeyDeletionActions :
       a \in Actions /\ ActsOn[a] = "passkey_deletion_session"
  /\ \A a \in AccountDeletionActions :
       a \in Actions /\ ActsOn[a] = "account_deletion_session"
  /\ "verify_passkey_signin_webauthn_signature" \in Actions
  /\ ActsOn["verify_passkey_signin_webauthn_signature"]
       = "passkey_signin_attempt"
  /\ \A a \in DOMAIN Starts \union {"start_signup", "start_email_code_signin",
                                    "sign_out", "sign_out_all_devices"} :
       a \in Actions /\ ActsOn[a] = "none"
<1>1. \A a \in SignupActions \union EmailCodeSigninActions
        \union IdentityVerificationActions \union EmailAddressUpdateActions
        \union PasskeyRegistrationActions \union PasskeyDeletionActions
        \union AccountDeletionActions \union DOMAIN Starts
        \union {"start_signup", "start_email_code_signin", "sign_out",
                "sign_out_all_devices",
                "verify_passkey_signin_webauthn_signature"} : a \in Actions
  BY DEF Actions
<1> QED
  BY <1>1
  DEF ActsOn, SignupActions, EmailCodeSigninActions,
      IdentityVerificationActions, EmailAddressUpdateActions,
      PasskeyRegistrationActions, PasskeyDeletionActions,
      AccountDeletionActions, Starts

\* Rows that are only read.
LEMMA SameRows ==
  ASSUME RowsFit, UNCHANGED rows
  PROVE  RowsFit' /\ RowsMoveOn
BY FewerMoveOn DEF RowsFit, RowsType, Live

\* What starts a flow.
LEMMA StartsCommitted ==
  ASSUME RowsFit, NEW t \in DOMAIN tabs, Fits(tabs[t]), NEW action,
         StartsFlow(t, action)
  PROVE  Committed(t, action)
<1>1. ASSUME action = "start_signup",
             NEW key \in FreshKeys("signup_session"),
             createSession(key), Done(t, action, {key})
      PROVE  Committed(t, action)
  <2>1. {key} \in SUBSET Key /\ action \notin VerifyActions
    BY <1>1, FreshKey DEF Tables, VerifyActions
  <2>2. Answered(t, action)
    BY <1>1, <2>1, DoneAnswered
  <2> QED
    BY <1>1, <2>2, CreateFits DEF Committed
<1>2. ASSUME action = "start_email_code_signin",
             NEW key \in FreshKeys("email_code_signin_session"), NEW user,
             createEmailCodeSigninSession(key, user), Done(t, action, {key})
      PROVE  Committed(t, action)
  <2>1. {key} \in SUBSET Key /\ action \notin VerifyActions
    BY <1>2, FreshKey DEF Tables, VerifyActions
  <2>2. Answered(t, action)
    BY <1>2, <2>1, DoneAnswered
  <2> QED
    BY <1>2, <2>2, EmailCodeSigninFits DEF Committed
<1>3. ASSUME action \in DOMAIN Starts,
             NEW key \in FreshKeys(Starts[action]),
             NEW v \in FreshKeys("identity_verification_session"),
             NEW about \in IF action = "start_passkey_deletion"
                           THEN tabs[t].passkeys \cap Keys(rows) ELSE {None},
             createVerifyingSession(key, v, RowAt(tabs[t].auth), about),
             Done(t, action, {key, v})
      PROVE  Committed(t, action)
  <2>1. /\ Starts[action] \in VerifyingTables
        /\ Starts[action] = "passkey_deletion_session"
             <=> action = "start_passkey_deletion"
        /\ action \notin VerifyActions
    BY <1>3 DEF Starts, VerifyingTables, VerifyActions
  <2>2. {key, v} \in SUBSET Key
    BY <1>3, <2>1, FreshKey DEF Tables
  <2>3. IF Starts[action] = "passkey_deletion_session"
        THEN about \in ({"passkey"} \X RowIds) \intersect Keys(rows)
        ELSE about = None
    BY <1>3, <2>1 DEF Fits
  <2>4. Answered(t, action)
    BY <1>3, <2>1, <2>2, DoneAnswered
  <2>5. RowsFit' /\ RowsMoveOn
    BY <1>3, <2>1, <2>3, VerifyingSessionFits
  <2> QED
    BY <2>4, <2>5 DEF Committed
<1> QED
  BY <1>1, <1>2, <1>3 DEF StartsFlow

\* What gives up a flow.
LEMMA CancelsCommitted ==
  ASSUME RowsFit, NEW t \in DOMAIN tabs, NEW action, NEW s \in rows,
         CancelsFlow(t, action, s)
  PROVE  Committed(t, action)
<1>1. action \notin VerifyActions /\ {} \in SUBSET Key
  BY DEF CancelsFlow, VerifyActions
<1>2. Answered(t, action)
  BY <1>1, DoneAnswered DEF CancelsFlow
<1> QED
  BY <1>2, DeleteSessionFits DEF CancelsFlow, Committed

\* What a sign-up does.
LEMMA SignupCommitted ==
  ASSUME RowsFit, NEW t \in DOMAIN tabs, NEW action, NEW s \in rows,
         s.key[1] = ActsOn[action], Signup(t, action, s)
  PROVE  Committed(t, action)
<1>1. action \in SignupActions /\ action \notin VerifyActions
  BY DEF Signup, SignupActions, VerifyActions
<1>2. s.key[1] = "signup_session"
  BY <1>1, ActsOnTable
<1>3. ASSUME Done(t, action, {}), RowsFit' /\ RowsMoveOn
      PROVE  Committed(t, action)
  BY <1>1, <1>3, DoneAnswered DEF Committed
<1>4. CASE setVerified(s) /\ Done(t, action, {})
  <2> DEFINE a == [s EXCEPT !.verified = TRUE]
  <2>1. a \in Row /\ MovesOn(s, a) /\ a.about = s.about
    BY DEF RowsFit, RowsType, Row, MovesOn
  <2> QED
    BY <1>3, <1>4, <2>1, ReplaceRowFits DEF setVerified
<1>5. CASE fill(s) /\ Done(t, action, {})
  <2> DEFINE a == [s EXCEPT !.filled = TRUE]
  <2>1. a \in Row /\ MovesOn(s, a) /\ a.about = s.about
    BY DEF RowsFit, RowsType, Row, MovesOn
  <2> QED
    BY <1>3, <1>5, <2>1, ReplaceRowFits DEF fill
<1>6. ASSUME NEW user \in FreshKeys("user"), NEW auth \in FreshKeys("auth_session"),
             NEW passkey \in FreshKeys("passkey"),
             completeSignup(s, user, auth,
               IF action = "set_signup_passkey_name" THEN {passkey} ELSE {}),
             Done(t, action, {auth})
      PROVE  Committed(t, action)
  <2>1. {auth} \in SUBSET Key
    BY FreshKey DEF Tables
  <2>2. Answered(t, action)
    BY <1>1, <1>6, <2>1, DoneAnswered
  <2>3. RowsFit' /\ RowsMoveOn
    BY <1>2, <1>6, SignupFits
  <2> QED
    BY <2>2, <2>3 DEF Committed
<1>7. CASE UNCHANGED rows /\ Done(t, action, {})
  BY <1>3, <1>7, SameRows
<1> QED
  BY <1>4, <1>5, <1>6, <1>7 DEF Signup

\* What a sign-in does.
LEMMA SigninCommitted ==
  ASSUME RowsFit, NEW t \in DOMAIN tabs, NEW action, NEW s \in rows,
         s.key[1] = ActsOn[action], Signin(t, action, s)
  PROVE  Committed(t, action)
<1>1. PICK user \in RowsIn("user"), auth \in FreshKeys("auth_session") :
        /\ action \in {"verify_passkey_signin_webauthn_signature",
                       "verify_email_code_signin_email_code"}
        /\ completeSignin(s, user, auth)
        /\ Done(t, action, {auth})
  BY DEF Signin
<1>2. action \notin VerifyActions
  BY <1>1 DEF VerifyActions
<1>3. Loose(s)
  BY <1>1, ActsOnTable DEF Loose, EmailCodeSigninActions
<1>4. {auth} \in SUBSET Key
  BY FreshKey DEF Tables
<1>5. Answered(t, action)
  BY <1>1, <1>2, <1>4, DoneAnswered
<1> QED
  BY <1>1, <1>3, <1>5, SigninFits DEF Committed

\* What signing out does.
LEMMA SignOutCommitted ==
  ASSUME RowsFit, NEW t \in DOMAIN tabs, NEW action, Live(tabs[t].auth),
         SignOut(t, action)
  PROVE  Committed(t, action)
<1>1. action \in {"sign_out", "sign_out_all_devices"} /\ Done(t, action, {})
  BY DEF SignOut
<1>2. action \notin VerifyActions /\ {} \in SUBSET Key
  BY <1>1 DEF VerifyActions
<1>3. Answered(t, action)
  BY <1>1, <1>2, DoneAnswered
<1>4. RowAt(tabs[t].auth) \in rows
  BY RowAtLive DEF RowsFit
<1>5. {a \in RowsIn("auth_session") : a.of = RowAt(tabs[t].auth).of}
        \in SUBSET rows
  BY DEF RowsIn
<1>6. RowsFit' /\ RowsMoveOn
  BY <1>4, <1>5, DeleteSessionFits, DeleteMovesOn DEF SignOut
<1> QED
  BY <1>3, <1>6 DEF Committed

\* What an identity verification does.
LEMMA IdentityCommitted ==
  ASSUME RowsFit, NEW t \in DOMAIN tabs, NEW action, NEW v \in rows,
         v.key[1] = ActsOn[action], IdentityVerification(t, action, v)
  PROVE  Committed(t, action)
<1>1. action \in IdentityVerificationActions
  BY DEF IdentityVerification, IdentityVerificationActions
<1>2. v.key[1] = "identity_verification_session"
  BY <1>1, ActsOnTable
<1>3. v.about \in VerifyingTables \X RowIds /\ v.about[1] \in VerifyingTables
  BY <1>2 DEF RowsFit, Shaped
<1>4. "ok" \in Codes /\ {} \in SUBSET Key
  BY DEF Codes
<1>5. ASSUME NEW issued \in BOOLEAN, setEmailCode(v, issued)
      PROVE  RowsFit' /\ RowsMoveOn
  <2> DEFINE a == [v EXCEPT !.filled = issued]
  <2>1. a \in Row /\ MovesOn(v, a) /\ a.about = v.about
    BY <1>2 DEF RowsFit, RowsType, Row, MovesOn
  <2> QED
    BY <1>5, <2>1, ReplaceRowFits DEF setEmailCode
<1>6. CASE /\ action \notin VerifyActions /\ Done(t, action, {})
           /\ \E issued \in BOOLEAN : setEmailCode(v, issued)
  BY <1>4, <1>5, <1>6, DoneAnswered DEF Committed
<1>7. CASE /\ completeIdentityVerification(v)
           /\ Answer(t, action, "ok", {}, v.about[1])
  <2>1. Answered(t, action)
    BY <1>3, <1>4, <1>7 DEF Answered
  <2> QED
    BY <1>2, <1>7, <2>1, IdentityVerifiedFits DEF Committed
<1>8. CASE /\ \E s \in rows : s.key = v.about /\ deleteSession(s)
           /\ Answer(t, action, "ok", {}, v.about[1])
  <2>1. Answered(t, action)
    BY <1>3, <1>4, <1>8 DEF Answered
  <2> QED
    BY <1>8, <2>1, DeleteSessionFits DEF Committed
<1> QED
  BY <1>6, <1>7, <1>8 DEF IdentityVerification, VerifyActions

\* What a verifying action does.
LEMMA VerifyingCommitted ==
  ASSUME RowsFit, NEW t \in DOMAIN tabs, NEW action, NEW s \in rows,
         s.key[1] = ActsOn[action], VerifyingAction(t, action, s)
  PROVE  Committed(t, action)
<1>1. Done(t, action, {}) /\ {} \in SUBSET Key
  BY DEF VerifyingAction
<1>2. action \in EmailAddressUpdateActions \union PasskeyRegistrationActions
                   \union PasskeyDeletionActions \union AccountDeletionActions
  BY DEF VerifyingAction, EmailAddressUpdateActions,
         PasskeyRegistrationActions, PasskeyDeletionActions,
         AccountDeletionActions
<1>3. Answered(t, action)
  <2>1. action \notin VerifyActions
    BY <1>2 DEF VerifyActions, EmailAddressUpdateActions,
         PasskeyRegistrationActions, PasskeyDeletionActions,
         AccountDeletionActions
  <2> QED
    BY <1>1, <2>1, DoneAnswered
<1>4. CASE fill(s)
  <2> DEFINE a == [s EXCEPT !.filled = TRUE]
  <2>1. a \in Row /\ MovesOn(s, a) /\ a.about = s.about
    BY DEF RowsFit, RowsType, Row, MovesOn
  <2> QED
    BY <1>3, <1>4, <2>1, ReplaceRowFits DEF fill, Committed
<1>5. CASE UNCHANGED rows
  BY <1>3, <1>5, SameRows DEF Committed
<1>6. CASE /\ action =
                "verify_email_address_update_new_email_address_verification_code"
           /\ completeEmailAddressUpdate(s)
  <2>1. s.key[1] = "email_address_update_session"
    BY <1>6, ActsOnTable DEF EmailAddressUpdateActions
  <2> QED
    BY <1>3, <1>6, <2>1, UpdateFits DEF Committed
<1>7. CASE /\ action = "set_passkey_registration_passkey_name"
           /\ \E passkey \in FreshKeys("passkey") :
                completePasskeyRegistration(s, passkey)
  <2>1. s.key[1] = "passkey_registration_session"
    BY <1>7, ActsOnTable DEF PasskeyRegistrationActions
  <2> QED
    BY <1>3, <1>7, <2>1, RegistrationFits DEF Committed
<1>8. CASE action = "confirm_passkey_deletion" /\ completePasskeyDeletion(s)
  <2>1. s.key[1] = "passkey_deletion_session"
    BY <1>8, ActsOnTable DEF PasskeyDeletionActions
  <2> QED
    BY <1>3, <1>8, <2>1, PasskeyDeletionFits DEF Committed
<1>9. CASE action = "confirm_account_deletion" /\ completeAccountDeletion(s)
  <2>1. s.key[1] = "account_deletion_session"
    BY <1>9, ActsOnTable DEF AccountDeletionActions
  <2> QED
    BY <1>3, <1>9, <2>1, AccountDeletionFits DEF Committed
<1> QED
  BY <1>4, <1>5, <1>6, <1>7, <1>8, <1>9 DEF VerifyingAction

\* What is offered are actions.
LEMMA OffersType ==
  ASSUME NEW t \in DOMAIN tabs, NEW action \in Offers(t)
  PROVE  /\ action \in Actions /\ tabs[t].phase = "shown"
         /\ tabs[t].path \in Paths /\ action \in Buttons[tabs[t].path]
<1>1. /\ tabs[t].phase = "shown" /\ tabs[t].path \in Paths
      /\ action \in Buttons[tabs[t].path]
  BY DEF Offers
<1>2. \A path \in Paths : Buttons[path] \subseteq Actions
  BY DEF Buttons, Paths, Actions, SignupActions, EmailCodeSigninActions,
         IdentityVerificationActions, EmailAddressUpdateActions,
         PasskeyRegistrationActions, PasskeyDeletionActions,
         AccountDeletionActions
<1> QED
  BY <1>1, <1>2

\* An accepted action.
LEMMA AcceptsCommitted ==
  ASSUME RowsFit, NEW t \in DOMAIN tabs, Fits(tabs[t]), NEW action \in Actions,
         Accepts(t, action)
  PROVE  Committed(t, action)
<1>1. CASE SignOut(t, action)
  <2>1. action \in ActionsOfUsers
    BY <1>1 DEF SignOut, ActionsOfUsers
  <2>2. Live(tabs[t].auth)
    BY <2>1 DEF Accepts, Refusal
  <2> QED
    BY <1>1, <2>2, SignOutCommitted
<1> QED
  BY <1>1, StartsCommitted, CancelsCommitted, SignupCommitted,
     SigninCommitted, IdentityCommitted, VerifyingCommitted DEF Accepts

\* Every press of a button.
LEMMA PressFits ==
  ASSUME IInv, UNCHANGED habit, NEW t \in DOMAIN tabs, NEW action,
         Press(t, action)
  PROVE  IInv'
<1>1. action \in Actions /\ tabs[t].phase = "shown" /\ action \in Offers(t)
  BY OffersType DEF Press
<1>2. RowsFit /\ Fits(tabs[t])
  BY DEF IInv
<1>3. CASE Accepts(t, action)
  BY <1>1, <1>2, <1>3, AcceptsCommitted, AnsweredFits DEF Committed
<1>4. ASSUME NEW code \in Codes \ {"ok"}, Answer(t, action, code, {}, "none"),
             UNCHANGED rows
      PROVE  IInv'
  <2>1. Answered(t, action)
    BY <1>4 DEF Answered
  <2> QED
    BY <1>1, <1>2, <1>4, <2>1, SameRows, AnsweredFits
<1>5. CASE Rejects(t, action)
  <2>1. Refusal(action, tabs[t].auth, tabs[t].session) \in Codes \ {"ok"}
    BY RefusalCode DEF Refusal
  <2> QED
    BY <1>4, <1>5, <2>1 DEF Rejects
<1>6. CASE Fails(t, action) \/ Taken(t, action)
  BY <1>4, <1>6 DEF Fails, Taken, Codes
<1> QED
  BY <1>3, <1>5, <1>6 DEF Press

-----------------------------------------------------------------------------
(* Scripts and mishaps. *)

\* An accepted action leads to a page, or to an alert.
LEMMA NextPageType ==
  ASSUME NEW action, NEW about, action \in VerifyActions => about \in VerifyingTables
  PROVE  NextPage(action, about) \in Paths \union {""}
<1>1. CASE action \in VerifyActions
  <2>1. action \notin DOMAIN Starts
    BY <1>1 DEF VerifyActions, Starts
  <2>2. NextPage(action, about) = FlowPage[about]
    BY <1>1, <2>1 DEF NextPage, PageOfFlow, VerifyActions
  <2>3. FlowPage[about] \in
          {"/update-email-address/set-new-email-address",
           "/register-passkey/create-passkey", "/delete-passkey/confirm",
           "/delete-account/confirm"}
    BY <1>1 DEF FlowPage, VerifyingTables
  <2> QED
    BY <2>2, <2>3 DEF Paths
<1>2. CASE action \notin VerifyActions
  <2>1. NextPage(action, about) \in
          {"/sign-up", "/sign-up/verify-email-address",
           "/sign-up/register-passkey",
           "/sign-up/register-passkey/set-passkey-name",
           "/sign-in", "/sign-in/verify-email-code", "/account",
           "/verify-identity", "/verify-identity/verify-email-code",
           "/update-email-address/verify-new-email-address",
           "/register-passkey/set-passkey-name", ""}
    BY <1>2 DEF NextPage, VerifyActions
  <2> QED
    BY <2>1 DEF Paths
<1> QED
  BY <1>1, <1>2

\* The page stays, with its script ready for the next button or not.
LEMMA StaysFits ==
  ASSUME IInv, UNCHANGED habit, NEW t \in DOMAIN tabs,
         tabs[t].phase \in {"shown", "waiting"}, Stay(t) \/ Stuck(t)
  PROVE  IInv'
<1>1. PICK phase \in {"shown", "stuck"} :
        /\ tabs' = [tabs EXCEPT ![t].phase = phase, ![t].reply = NoReply]
        /\ UNCHANGED <<rows, cookies>>
  BY DEF Stay, Stuck
<1>2. PICK U : U = tabs[t]
  OBVIOUS
<1>3. U \in Tab /\ Fits(U) /\ U.phase \in {"shown", "waiting"}
  BY <1>2 DEF IInv, TypeOK
<1> DEFINE T == [U EXCEPT !.phase = phase, !.reply = NoReply]
<1>4. NoReply \in [action : Actions \union {"none"}, code : Codes,
                   tokens : SUBSET Key,
                   about : VerifyingTables \union {"none"}]
  BY DEF NoReply, Codes
<1>5. tabs' = [tabs EXCEPT ![t] = T]
  BY <1>1, <1>2
<1>6. /\ T \in Tab /\ T.phase = phase /\ T.reply = NoReply
      /\ T.path = U.path /\ T.auth = U.auth /\ T.session = U.session
      /\ T.passkeys = U.passkeys
  BY <1>3, <1>4 DEF Tab
<1> HIDE DEF T
<1>7. RowsFit' /\ RowsMoveOn /\ JarOK(cookies)'
  BY <1>1, FewerMoveOn DEF IInv, RowsFit, RowsType, Live, TypeOK, JarOK
<1>8. Fits(T)' /\ Undisturbed(T)'
  BY <1>1, <1>3, <1>6 DEF Fits, SessionFits, Undisturbed, NoReply
<1> QED
  BY <1>5, <1>6, <1>7, <1>8, TabStep

\* A script that recovers from an error stays, gets stuck or leaves.
LEMMA RecoverOutcome ==
  ASSUME NEW t, NEW reply, Recover(t, reply)
  PROVE  \/ Stay(t) \/ Stuck(t)
         \/ \E path \in Paths : \E tables : Leave(t, path, tables)
<1>1. {"/sign-in", "/sign-up", "/account", "/verify-identity"} \subseteq Paths
  BY DEF Paths
<1> QED
  BY <1>1
  DEF Recover, SessionExpired, OwnSessionExpired, AddressTaken

\* Every step of a script.
LEMMA ScriptFits ==
  ASSUME IInv, UNCHANGED habit, NEW t \in DOMAIN tabs, Script(t)
  PROVE  IInv'
<1>1. PICK reply : reply = tabs[t].reply
  OBVIOUS
<1>2. tabs[t] \in Tab /\ Fits(tabs[t]) /\ tabs[t].phase = "waiting" /\ TypeOK
  BY DEF IInv, TypeOK, Script
<1>3. CASE reply.code = "ok" /\ Succeed(t, reply)
  <2>1. PICK path : path = NextPage(reply.action, reply.about)
    OBVIOUS
  <2>2. path \in Paths \union {""}
    BY <1>1, <1>2, <1>3, <2>1, NextPageType DEF Fits, VerifyActions
  <2>3. CASE path = ""
    BY <1>2, <1>3, <2>1, <2>3, StaysFits DEF Succeed
  <2>4. CASE path # ""
    <3>1. PICK jar : jar = Keep(Blank(EndedBy(reply.action, reply.about)),
                                reply.tokens)
      OBVIOUS
    <3>2. reply.tokens \in SUBSET Key
      BY <1>1, <1>2 DEF Tab
    <3>3. JarOK(jar)
      BY <1>2, <3>1, <3>2, BlankJar, KeepJar
    <3>4. Go(t, path, jar) /\ UNCHANGED rows
      BY <1>3, <2>1, <2>4, <3>1 DEF Succeed
    <3> QED
      BY <2>2, <2>4, <3>3, <3>4, GoFits
  <2> QED
    BY <2>3, <2>4
<1>4. CASE reply.code # "ok" /\ Recover(t, reply)
  <2>1. CASE Stay(t) \/ Stuck(t)
    BY <1>2, <2>1, StaysFits
  <2>2. ASSUME NEW path \in Paths, NEW tables, Leave(t, path, tables)
        PROVE  IInv'
    BY <1>2, <2>2, BlankJar, GoFits DEF Leave, Redirect
  <2> QED
    BY <1>4, <2>1, <2>2, RecoverOutcome
<1> QED
  BY <1>1, <1>3, <1>4 DEF Script

\* A path in the address bar, or the page once more.
LEMMA VisitFits ==
  ASSUME IInv, UNCHANGED habit, NEW t \in DOMAIN tabs, NEW path,
         \/ path \in habit.visits /\ Visit(t, path)
         \/ path = tabs[t].path /\ Reload(t)
  PROVE  IInv'
<1>1. path \in Paths \union {NoPage} /\ Visit(t, path)
  BY HabitsAssumption DEF IInv, TypeOK, Tab, Reload
<1>2. JarOK(cookies)
  BY DEF IInv, TypeOK, JarOK
<1> QED
  BY <1>1, <1>2, GoFits DEF Visit

\* An answer is lost.
LEMMA LoseAnswerFits ==
  ASSUME IInv, UNCHANGED habit, NEW t \in DOMAIN tabs, LoseAnswer(t)
  PROVE  IInv'
<1>1. PICK U : U = tabs[t]
  OBVIOUS
<1>2. U \in Tab /\ Fits(U) /\ U.phase = "waiting"
  BY <1>1 DEF IInv, TypeOK, LoseAnswer
<1> DEFINE reply == [NoReply EXCEPT !.action = U.reply.action, !.code = "lost"]
           T == [U EXCEPT !.reply = reply]
<1>3. /\ reply \in [action : Actions \union {"none"}, code : Codes,
                    tokens : SUBSET Key,
                    about : VerifyingTables \union {"none"}]
      /\ reply.code = "lost"
  BY <1>2 DEF NoReply, Codes, Tab
<1>4. tabs' = [tabs EXCEPT ![t] = T] /\ UNCHANGED <<rows, cookies>>
  BY <1>1 DEF LoseAnswer
<1> HIDE DEF reply
<1>5. /\ T \in Tab /\ T.phase = "waiting" /\ T.reply = reply
      /\ T.path = U.path /\ T.auth = U.auth /\ T.session = U.session
      /\ T.passkeys = U.passkeys
  BY <1>2, <1>3 DEF Tab
<1> HIDE DEF T
<1>6. RowsFit' /\ RowsMoveOn /\ JarOK(cookies)'
  BY <1>4, FewerMoveOn DEF IInv, RowsFit, RowsType, Live, TypeOK, JarOK
<1>7. Fits(T)' /\ Undisturbed(T)'
  BY <1>2, <1>3, <1>4, <1>5 DEF Fits, SessionFits, Undisturbed
<1> QED
  BY <1>4, <1>5, <1>6, <1>7, TabStep


\* A script that throws does nothing more.
LEMMA PressOldPageFits ==
  ASSUME IInv, UNCHANGED habit, NEW t \in DOMAIN tabs, PressOldPage(t)
  PROVE  IInv'
BY OffersType, StaysFits DEF PressOldPage

-----------------------------------------------------------------------------
(* What no tab does. *)

\* Rows and cookies go, and names of rows that are gone may be forgotten.
LEMMA LettingGo ==
  ASSUME IInv, UNCHANGED habit, RowsFit', rows' \subseteq rows,
         JarOK(cookies)', tabs' = tabs \/ tabs' = Resolved
  PROVE  IInv'
<1>1. DOMAIN tabs = habit.tabs /\ DOMAIN tabs' = DOMAIN tabs
  BY DEF IInv, TypeOK, Resolved
<1>2. ASSUME NEW t \in DOMAIN tabs
      PROVE  tabs'[t] \in Tab /\ Fits(tabs[t])'
             /\ (DOMAIN tabs = {t} => Undisturbed(tabs[t])')
  <2>1. PICK U : U = tabs[t]
    OBVIOUS
  <2>2. PICK T : T = tabs'[t]
    OBVIOUS
  <2>3. U \in Tab /\ Fits(U) /\ (DOMAIN tabs = {t} => Undisturbed(U))
    BY <2>1, <1>1 DEF IInv, TypeOK
  <2>4. /\ T.auth = U.auth \/ (T.auth = None /\ ~Live(U.auth))
        /\ T.session = U.session \/ T.session = None
        /\ T \in Tab /\ T.path = U.path /\ T.phase = U.phase
        /\ T.item = U.item /\ T.passkeys = U.passkeys /\ T.reply = U.reply
    <3>1. CASE tabs' = tabs
      BY <2>1, <2>2, <2>3, <3>1
    <3>2. CASE tabs' = Resolved
      <4>1. PICK auth, session :
              auth = Resolve(U.auth) /\ session = Resolve(U.session)
        OBVIOUS
      <4>2. T = [U EXCEPT !.auth = auth, !.session = session]
        BY <2>1, <2>2, <3>2, <4>1 DEF Resolved
      <4>3. auth \in Key \union {None} /\ session \in Key \union {None}
        BY <2>3, <4>1 DEF Resolve, Tab
      <4>4. /\ T \in Tab /\ T.auth = auth /\ T.session = session
            /\ T.path = U.path /\ T.phase = U.phase
            /\ T.item = U.item /\ T.passkeys = U.passkeys /\ T.reply = U.reply
        BY <2>3, <4>2, <4>3 DEF Tab
      <4> QED
        BY <4>1, <4>4 DEF Resolve
    <3> QED
      BY <3>1, <3>2
  <2>5. ASSUME NEW s \in rows', s.key = T.session
        PROVE  s \in rows /\ s.key = U.session
    BY <2>4, <2>5, KeyType DEF IInv, RowsFit, RowsType, Row
  <2>6. ASSUME NEW s \in rows', s.key = T.session,
               T.phase \in {"item", "passkeys", "shown", "waiting"}
        PROVE  SessionFits(T, s)
    <3>1. s \in rows /\ SessionFits(U, s)
      BY <2>3, <2>4, <2>5, <2>6 DEF Fits
    <3>2. ASSUME s.key[1] \in
                   VerifyingTables \union {"identity_verification_session"}
          PROVE  s.of = T.auth
      <4>1. s.of = U.auth
        BY <3>1, <3>2 DEF SessionFits
      <4>2. s.of \in {"auth_session"} \X RowIds
        BY <3>1, <3>2 DEF IInv, RowsFit, Shaped
      <4>3. s.of # None
        BY <4>2, KeyType DEF Tables
      <4>4. Live(s.of)
        BY <3>1, <4>3 DEF IInv, RowsFit, References
      <4> QED
        BY <2>4, <4>1, <4>4
    <3> QED
      BY <2>4, <3>1, <3>2 DEF SessionFits
  <2>7. ASSUME NEW r \in rows', r.key = T.auth,
               T.path = "/account", T.phase \in {"item", "passkeys"}
        PROVE  r.of = T.item
    <3>1. r \in rows /\ r.key # None
      BY KeyType DEF IInv, RowsFit, RowsType, Row
    <3> QED
      BY <2>3, <2>4, <2>7, <3>1 DEF Fits
  <2>8. Fits(T)'
    BY <2>3, <2>4, <2>6, <2>7 DEF Fits
  <2>9. DOMAIN tabs = {t} => Undisturbed(T)'
    BY <2>3, <2>4, <2>5 DEF Undisturbed
  <2> QED
    BY <2>2, <2>4, <2>8, <2>9 DEF Fits, Undisturbed
<1>3. tabs' \in [habit.tabs -> Tab]
  BY <1>1, <1>2 DEF IInv, TypeOK, Resolved
<1>4. TypeOK'
  BY <1>3 DEF IInv, TypeOK, RowsFit, RowsType, JarOK
<1> QED
  BY <1>1, <1>2, <1>4 DEF IInv

\* A cookie expires.
LEMMA ExpireCookieFits ==
  ASSUME IInv, UNCHANGED habit, NEW c \in Cookies, ExpireCookie(c)
  PROVE  IInv'
<1>1. RowsFit'
  BY DEF ExpireCookie, IInv, RowsFit, RowsType, Live
<1>2. JarOK(cookies)'
  BY BlankJar DEF ExpireCookie, IInv, JarOK
<1> QED
  BY <1>1, <1>2, LettingGo DEF ExpireCookie

\* Rows disappear with what references them.
LEMMA VanishFits ==
  ASSUME IInv, UNCHANGED habit, Vanish
  PROVE  IInv'
<1>1. PICK r \in rows : Delete({r} \union VerificationsOf(r))
  BY DEF Vanish
<1>2. {r} \union VerificationsOf(r) \in SUBSET rows
  BY DEF VerificationsOf, RowsIn
<1>3. RowsFit' /\ rows' \subseteq rows
  BY <1>1, <1>2, DeleteFits DEF IInv
<1>4. JarOK(cookies)'
  BY DEF Vanish, IInv, TypeOK, JarOK
<1> QED
  BY <1>3, <1>4, LettingGo DEF Vanish

\* What is forgotten is what nothing references.
LEMMA ForgetFits ==
  ASSUME IInv, UNCHANGED habit, Forget
  PROVE  IInv'
<1>1. rows' = rows \ Unnamed /\ rows' \subseteq rows
  BY DEF Forget
<1>2. ASSUME NEW r \in rows', NEW k \in References(r) \ {None}
      PROVE  k \in Keys(rows')
  <2>1. PICK q \in rows : q.key = k
    BY <1>1 DEF IInv, RowsFit, Live, Keys
  <2>2. q.key \in Named \union {s.of : s \in rows}
    BY <1>1, <2>1 DEF References, Named
  <2>3. q \in rows'
    BY <1>1, <2>1, <2>2 DEF Unnamed
  <2> QED
    BY <2>1, <2>3 DEF Keys
<1>3. RowsFit'
  <2>1. IsFiniteSet(rows')
    BY <1>1, FS_Subset DEF IInv, RowsFit
  <2> QED
    BY <1>1, <1>2, <2>1 DEF IInv, RowsFit, RowsType, Live
<1>4. JarOK(cookies)'
  BY DEF Forget, IInv, TypeOK, JarOK, Resolve
<1> QED
  BY <1>1, <1>3, <1>4, LettingGo DEF Forget

-----------------------------------------------------------------------------
(* The invariant. *)

\* One account, with a passkey or none, and tabs that have sent a request.
LEMMA InitFits == Init => IInv
<1> SUFFICES ASSUME Init
             PROVE  IInv
  OBVIOUS
<1> DEFINE user == <<"user", 1>>
           passkey == <<"passkey", 1>>
<1>1. user \in Key /\ passkey \in Key /\ user # None /\ passkey # None
  BY RowIdsAssumption, KeyType DEF Tables
<1>2. PICK passkeys \in SUBSET {passkey} :
        rows = {NewRow(user, None, None)}
               \union {NewRow(p, user, None) : p \in passkeys}
  BY DEF Init
<1>3. /\ NewRow(user, None, None) \in Row
      /\ NewRow(user, None, None).key = user
      /\ NewRow(user, None, None).of = None
      /\ NewRow(passkey, user, None) \in Row
      /\ NewRow(passkey, user, None).key = passkey
      /\ NewRow(passkey, user, None).of = user
  BY <1>1, NewRowType
<1>4. \/ rows = {NewRow(user, None, None)}
      \/ rows = {NewRow(user, None, None), NewRow(passkey, user, None)}
  <2>1. passkeys = {} \/ passkeys = {passkey}
    OBVIOUS
  <2> QED
    BY <1>2, <2>1
<1>5. RowsFit
  <2>1. IsFiniteSet(rows)
    <3>1. PICK a, b : a = NewRow(user, None, None)
                      /\ b = NewRow(passkey, user, None)
      OBVIOUS
    <3>2. IsFiniteSet({a}) /\ IsFiniteSet({b})
      BY FS_Singleton
    <3>3. IsFiniteSet({a} \union {b})
      BY <3>2, FS_Union
    <3>4. rows = {a} \/ rows = {a} \union {b}
      BY <1>4, <3>1
    <3> QED
      BY <3>2, <3>3, <3>4
  <2>2. RowsType
    BY <1>3, <1>4 DEF RowsType
  <2>3. \A r \in rows : Shaped(r)
    BY <1>3, <1>4, RowIdsAssumption DEF Shaped, VerifyingTables
  <2>4. \A r \in rows : References(r) = {r.of}
    BY <1>3, <1>4 DEF References
  <2>5. Live(user)
    BY <1>3, <1>4 DEF Live, Keys
  <2> QED
    BY <1>3, <1>4, <2>1, <2>2, <2>3, <2>4, <2>5 DEF RowsFit
<1>6. JarOK(cookies)
  BY DEF Init, JarOK
<1>7. /\ habit \in Habits /\ DOMAIN tabs = habit.tabs
      /\ \A t \in DOMAIN tabs :
           \E path \in Paths : tabs[t] = Request(path, cookies)
  BY DEF Init
<1>8. \A t \in DOMAIN tabs : Fresh(tabs[t])
  BY <1>6, <1>7, RequestIsFresh
<1>9. \A t \in DOMAIN tabs : Fits(tabs[t]) /\ Undisturbed(tabs[t])
  BY <1>5, <1>8, FreshFits DEF RowsFit
<1>10. tabs \in [habit.tabs -> Tab]
  BY <1>7, <1>8 DEF Init, Fresh
<1>11. TypeOK
  BY <1>5, <1>6, <1>7, <1>10 DEF TypeOK, RowsFit, RowsType, JarOK
<1> QED
  BY <1>5, <1>9, <1>11 DEF IInv

\* Every step keeps the invariant.
LEMMA NextFits == IInv /\ [Next]_vars => IInv'
<1> SUFFICES ASSUME IInv, [Next]_vars
             PROVE  IInv'
  OBVIOUS
<1>1. CASE UNCHANGED vars
  BY <1>1 DEF vars, IInv, TypeOK, RowsFit, RowsType, Live, Fits, SessionFits,
              Undisturbed
<1>2. CASE Next
  <2>1. UNCHANGED habit
    BY <1>2 DEF Next
  <2>2. CASE Forget
    BY <2>1, <2>2, ForgetFits
  <2>3. ASSUME NEW t \in DOMAIN tabs, NEW path \in habit.visits, Visit(t, path)
        PROVE  IInv'
    BY <2>1, <2>3, VisitFits
  <2>11. ASSUME NEW t \in DOMAIN tabs, Reload(t)
        PROVE  IInv'
    BY <2>1, <2>11, VisitFits
  <2>4. ASSUME NEW t \in DOMAIN tabs, NEW action \in habit.presses,
               Press(t, action)
        PROVE  IInv'
    BY <2>1, <2>4, PressFits
  <2>5. ASSUME NEW t \in DOMAIN tabs, PageRoute(t)
        PROVE  IInv'
    BY <2>1, <2>5, RouteFits
  <2>6. ASSUME NEW t \in DOMAIN tabs, Script(t)
        PROVE  IInv'
    BY <2>1, <2>6, ScriptFits
  <2>7. ASSUME NEW t \in DOMAIN tabs, LoseAnswer(t)
        PROVE  IInv'
    BY <2>1, <2>7, LoseAnswerFits
  <2>8. ASSUME NEW t \in DOMAIN tabs, PressOldPage(t)
        PROVE  IInv'
    BY <2>1, <2>8, PressOldPageFits
  <2>9. ASSUME NEW c \in Cookies, ExpireCookie(c)
        PROVE  IInv'
    BY <2>1, <2>9, ExpireCookieFits
  <2>10. CASE Vanish
    BY <2>1, <2>10, VanishFits
  <2> QED
    BY <1>2, <2>2, <2>3, <2>4, <2>5, <2>6, <2>7, <2>8, <2>9, <2>10, <2>11
       DEF Next
<1> QED
  BY <1>1, <1>2

\* Whatever the tabs, the ids and the habits: the rows fit the schema and each
\* other, and the tabs fit the rows.
THEOREM BrowserInvariant == Spec => []IInv
BY InitFits, NextFits, PTL DEF Spec

\* Whatever the tabs, the ids and the habits: rows, cookies and tabs are of
\* their types, a key is the key of one row, and a cookie holds a token of its
\* own table (TypeOK).
THEOREM BrowserTypeCorrect == Spec => []TypeOK
<1>1. IInv => TypeOK
  BY DEF IInv
<1> QED
  BY <1>1, BrowserInvariant, PTL

\* Whatever the tabs, the ids and the habits: the tokens embedded in a page fit
\* each other and fit the page (ShownPagesFit), although tabs share cookies, go
\* through their flows in any order and read rows one after the other.
THEOREM TokensFit == Spec => []ShownPagesFit
<1>1. IInv => ShownPagesFit
  BY DEF IInv, Fits, SessionFits, ShownPagesFit
<1> QED
  BY <1>1, BrowserInvariant, PTL

-----------------------------------------------------------------------------
(* Pages offer what handlers accept. *)

\* What is so of a tab when its page appears.  alone: no other tab revokes the
\* code or sets the credential while the route reads the last row.
Appears(T, alone) ==
  /\ \A s \in rows : s.key = T.session =>
       /\ Seen(T, "shown", s)
       /\ alone /\ T.path = "/verify-identity/verify-email-code" => s.filled
       /\ alone /\ T.path = "/register-passkey/create-passkey" => ~s.filled
  /\ T.path = "/account" => \A r \in rows : r.key = T.auth =>
       T.passkeys = Keys(PasskeysOf(r.of))

\* The codes of OffersAreAccepted.
Allowed(path, alone) ==
  {"none", "invalid_auth_session_token", "invalid_session_token"}
  \union (IF path = "/register-passkey/set-passkey-name"
          THEN {"passkey_limit_reached"} ELSE {})
  \union (IF alone THEN {} ELSE AnotherTabMay(path))

\* Passkeys are counted by their keys.
LEMMA KeysCounted ==
  ASSUME RowsFit, NEW user
  PROVE  /\ Cardinality(PasskeysOf(user)) \in Nat
         /\ Cardinality(Keys(PasskeysOf(user))) = Cardinality(PasskeysOf(user))
<1> DEFINE S == PasskeysOf(user)
           f == [r \in S |-> r.key]
<1>1. S \subseteq rows
  BY DEF PasskeysOf, RowsIn
<1>2. IsFiniteSet(S)
  BY <1>1, FS_Subset DEF RowsFit
<1>3. f \in Bijection(S, Keys(S))
  BY <1>1 DEF Bijection, Injection, IsInjective, Surjection, Keys, RowsFit,
              RowsType
<1>4. ExistsBijection(S, Keys(S))
  BY <1>3 DEF ExistsBijection
<1> QED
  BY <1>2, <1>4, FS_Bijection, FS_CardinalityType

\* The buttons of a page act on the session of the page.
LEMMA ButtonsActOn ==
  ASSUME NEW path \in Paths, NEW action \in Buttons[path]
  PROVE  /\ action \in Actions
         /\ ActsOn[action] \in {"none", PageSession(path)}
         /\ action = "start_passkey_registration" => path = "/account"
         /\ action = "set_passkey_registration_passkey_name" =>
              path = "/register-passkey/set-passkey-name"
BY DEF Buttons, Paths, ActsOn, PageSession, SessionOf, Actions, Starts, SignupActions,
       EmailCodeSigninActions, IdentityVerificationActions,
       EmailAddressUpdateActions, PasskeyRegistrationActions,
       PasskeyDeletionActions, AccountDeletionActions

\* Actions of users that are called with the token of a session are about
\* sessions of users.
LEMMA SessionActions ==
  ASSUME NEW action \in ActionsOfUsers, ActsOn[action] # "none"
  PROVE  ActsOn[action] \in
           VerifyingTables \union {"identity_verification_session"}
<1>1. \A a \in DOMAIN Starts \union {"sign_out", "sign_out_all_devices"} :
        a \in Actions /\ ActsOn[a] = "none"
  BY DEF ActsOn, Actions, Starts, SignupActions, EmailCodeSigninActions,
         IdentityVerificationActions, EmailAddressUpdateActions,
         PasskeyRegistrationActions, PasskeyDeletionActions,
         AccountDeletionActions
<1> QED
  BY <1>1 DEF ActionsOfUsers

\* The buttons of a page fit how far its flow has come.
LEMMA ButtonsFit ==
  ASSUME NEW T, T.path \in Paths, NEW action \in Buttons[T.path],
         NEW s, s.key[1] = PageSession(T.path), Seen(T, "shown", s)
  PROVE  /\ EmailCodeNotIssued(action, s) =>
              T.path = "/verify-identity/verify-email-code" /\ ~s.filled
         /\ Refuses(action, s) =>
              T.path = "/register-passkey/create-passkey" /\ s.filled
<1>1. EmailCodeNotIssued(action, s) =>
        T.path = "/verify-identity/verify-email-code" /\ ~s.filled
  BY DEF EmailCodeNotIssued, Buttons, Paths, Starts
<1>2. /\ T.path \in VerifiedPages => s.verified
      /\ T.path \in FilledPages => s.filled
      /\ T.path = "/sign-up/verify-email-address" => ~s.verified
      /\ T.path \in {"/sign-up/register-passkey",
                     "/update-email-address/set-new-email-address"}
           => ~s.filled
  BY DEF Seen, SessionFits
<1>3. CASE PageSession(T.path) = "signup_session"
  <2>1. CASE T.path = "/sign-up/verify-email-address"
    <3>1. action \in {"verify_signup_email_address_verification_code",
                      "send_signup_email_address_verification_code",
                      "cancel_signup"}
      BY <2>1 DEF Buttons
    <3>2. ~s.verified
      BY <1>2, <2>1
    <3>3. ~SignupRefuses(action, s)
      BY <3>1, <3>2 DEF SignupRefuses
    <3> QED
      BY <1>1, <1>3, <3>3 DEF Refuses
  <2>2. CASE T.path = "/sign-up/register-passkey"
    <3>1. action \in {"set_signup_passkey_webauthn_credential",
                      "complete_signup_without_passkey_registration"}
      BY <2>2 DEF Buttons
    <3>2. s.verified /\ ~s.filled
      BY <1>2, <2>2 DEF VerifiedPages
    <3>3. ~SignupRefuses(action, s)
      BY <3>1, <3>2 DEF SignupRefuses
    <3> QED
      BY <1>1, <1>3, <3>3 DEF Refuses
  <2>3. CASE T.path = "/sign-up/register-passkey/set-passkey-name"
    <3>1. action = "set_signup_passkey_name"
      BY <2>3 DEF Buttons
    <3>2. s.verified /\ s.filled
      BY <1>2, <2>3 DEF VerifiedPages, FilledPages
    <3>3. ~SignupRefuses(action, s)
      BY <3>1, <3>2 DEF SignupRefuses
    <3> QED
      BY <1>1, <1>3, <3>3 DEF Refuses
  <2> QED
    BY <1>3, <2>1, <2>2, <2>3 DEF PageSession, SessionOf
<1>4. ASSUME PageSession(T.path) \in VerifyingTables
      PROVE  s.verified
  BY <1>2, <1>4 DEF VerifiedPages, FlowPages, PageSession, VerifyingTables
<1>5. CASE PageSession(T.path) = "email_address_update_session"
  <2>1. CASE T.path = "/update-email-address/set-new-email-address"
    <3>1. action \in {"set_email_address_update_new_email_address",
                      "cancel_email_address_update"}
      BY <2>1 DEF Buttons
    <3>2. s.verified /\ ~s.filled
      BY <1>2, <1>4, <1>5, <2>1 DEF VerifyingTables
    <3>3. ~EmailAddressUpdateRefuses(action, s)
      BY <3>1, <3>2 DEF EmailAddressUpdateRefuses
    <3> QED
      BY <1>1, <1>5, <3>3 DEF Refuses
  <2>2. CASE T.path = "/update-email-address/verify-new-email-address"
    <3>1. action \in
            {"verify_email_address_update_new_email_address_verification_code",
             "send_email_address_update_new_email_address_verification_code",
             "cancel_email_address_update"}
      BY <2>2 DEF Buttons
    <3>2. s.verified /\ s.filled
      BY <1>2, <1>4, <1>5, <2>2 DEF VerifyingTables, FilledPages
    <3>3. ~EmailAddressUpdateRefuses(action, s)
      BY <3>1, <3>2 DEF EmailAddressUpdateRefuses
    <3> QED
      BY <1>1, <1>5, <3>3 DEF Refuses
  <2> QED
    BY <1>5, <2>1, <2>2 DEF PageSession, SessionOf
<1>6. CASE PageSession(T.path) = "passkey_registration_session"
  <2>1. CASE T.path = "/register-passkey/create-passkey"
    <3>1. action \in {"set_passkey_registration_passkey_webauthn_credential",
                      "cancel_passkey_registration"}
      BY <2>1 DEF Buttons
    <3>2. s.verified
      BY <1>4, <1>6 DEF VerifyingTables
    <3>3. PasskeyRegistrationRefuses(action, s) => s.filled
      BY <3>1, <3>2 DEF PasskeyRegistrationRefuses
    <3> QED
      BY <1>1, <1>6, <2>1, <3>3 DEF Refuses
  <2>2. CASE T.path = "/register-passkey/set-passkey-name"
    <3>1. action = "set_passkey_registration_passkey_name"
      BY <2>2 DEF Buttons
    <3>2. s.verified /\ s.filled
      BY <1>2, <1>4, <1>6, <2>2 DEF VerifyingTables, FilledPages
    <3>3. ~PasskeyRegistrationRefuses(action, s)
      BY <3>1, <3>2 DEF PasskeyRegistrationRefuses
    <3> QED
      BY <1>1, <1>6, <3>3 DEF Refuses
  <2> QED
    BY <1>6, <2>1, <2>2 DEF PageSession, SessionOf
<1>7. CASE PageSession(T.path) \in
             {"passkey_deletion_session", "account_deletion_session"}
  <2>1. s.verified
    BY <1>4, <1>7 DEF VerifyingTables
  <2> QED
    BY <1>1, <1>7, <2>1 DEF Refuses
<1>8. CASE PageSession(T.path) \notin VerifyingTables \union {"signup_session"}
  BY <1>1, <1>8 DEF Refuses, VerifyingTables
<1> QED
  BY <1>1, <1>3, <1>5, <1>6, <1>7, <1>8 DEF VerifyingTables

\* Of a page that has just appeared, no button is refused for another reason.
OffersKept ==
  RowsFit => \A T, alone : \A action \in Buttons[T.path] :
    /\ T.path \in Paths /\ T.phase = "shown" /\ Fits(T) /\ Appears(T, alone)
    /\ action = "start_passkey_registration" =>
         Cardinality(T.passkeys) < maxPasskeyCountLimit
    => Refusal(action, T.auth, T.session) \in Allowed(T.path, alone)

\* The checks of a handler in turn.
LEMMA AppearingPage == OffersKept
<1> SUFFICES ASSUME RowsFit, NEW T, NEW alone, NEW action \in Buttons[T.path],
                    T.path \in Paths, T.phase = "shown", Fits(T),
                    Appears(T, alone),
                    action = "start_passkey_registration" =>
                      Cardinality(T.passkeys) < maxPasskeyCountLimit
             PROVE  Refusal(action, T.auth, T.session) \in Allowed(T.path, alone)
  BY DEF OffersKept
<1>1. PICK s : s = RowAt(T.session)
  OBVIOUS
<1>2. PICK code : code = Refusal(action, T.auth, T.session)
  OBVIOUS
<1>3. CASE action \in ActionsOfUsers /\ ~Live(T.auth)
  BY <1>3 DEF Refusal, Allowed
<1>4. CASE ActsOn[action] # "none" /\ ~Live(T.session)
  BY <1>4 DEF Refusal, Allowed
<1>5. ASSUME ActsOn[action] # "none", Live(T.session)
      PROVE  /\ s \in rows /\ s.key = T.session
             /\ s.key[1] = PageSession(T.path) /\ SessionFits(T, s)
             /\ action \in ActionsOfUsers => s.of = T.auth
             /\ EmailCodeNotIssued(action, s) =>
                  T.path = "/verify-identity/verify-email-code" /\ ~alone
             /\ Refuses(action, s) =>
                  T.path = "/register-passkey/create-passkey" /\ ~alone
  <2>1. s \in rows /\ s.key = T.session /\ s.key \in Key
    BY <1>1, <1>5, RowAtLive DEF RowsFit
  <2>2. s.key # None
    BY <2>1, KeyType
  <2>3. s.key[1] = PageSession(T.path) /\ SessionFits(T, s)
    BY <2>1, <2>2 DEF Fits
  <2>4. s.key[1] = ActsOn[action]
    BY <1>5, <2>3, ButtonsActOn
  <2>5. action \in ActionsOfUsers => s.of = T.auth
    BY <2>3, <2>4, <1>5, SessionActions DEF SessionFits
  <2>6. Seen(T, "shown", s)
    BY <2>1 DEF Appears
  <2> QED
    BY <2>1, <2>3, <2>5, <2>6, ButtonsFit DEF Appears
<1>6. ASSUME AtPasskeyLimit(action, T.auth), action \in ActionsOfUsers => Live(T.auth)
      PROVE  T.path = "/register-passkey/set-passkey-name"
  <2>1. CASE action = "set_passkey_registration_passkey_name"
    BY <2>1, ButtonsActOn
  <2>2. CASE action = "start_passkey_registration"
    <3>1. action \in ActionsOfUsers
      BY <2>2 DEF ActionsOfUsers, Starts
    <3>2. T.path = "/account" /\ Live(T.auth)
      BY <1>6, <2>2, <3>1, ButtonsActOn
    <3>3. PICK r : r = RowAt(T.auth)
      OBVIOUS
    <3>4. r \in rows /\ r.key = T.auth
      BY <3>2, <3>3, RowAtLive DEF RowsFit
    <3>5. T.passkeys = Keys(PasskeysOf(r.of))
      BY <3>2, <3>4 DEF Appears
    <3>6. /\ Cardinality(T.passkeys) = Cardinality(PasskeysOf(r.of))
          /\ Cardinality(PasskeysOf(r.of)) \in Nat
      BY <3>5, KeysCounted
    <3>7. /\ Cardinality(PasskeysOf(r.of)) >= maxPasskeyCountLimit
          /\ Cardinality(PasskeysOf(r.of)) < maxPasskeyCountLimit
      BY <1>6, <2>2, <3>3, <3>6 DEF AtPasskeyLimit
    <3> QED
      BY <3>6, <3>7, PasskeyLimitAssumption
  <2> QED
    BY <1>6, <2>1, <2>2 DEF AtPasskeyLimit
<1> QED
  BY <1>1, <1>3, <1>4, <1>5, <1>6 DEF Refusal, Allowed, AnotherTabMay

\* A tab of which a route shows the page has just read the last row it needs.
LEMMA LastRead ==
  ASSUME NEW t \in DOMAIN tabs, tabs[t] \in Tab, PageRoute(t),
         tabs'[t].phase = "shown", tabs'[t].path = tabs[t].path
  PROVE  /\ tabs[t].path = "/account" => ShowsPasskeys(t)
         /\ tabs[t].path \in {"/verify-identity/verify-email-code",
                              "/register-passkey/create-passkey"}
              => tabs[t].phase = "item"
<1>1. \A path \in Paths : \A tables :
        Redirect(t, path, tables) => tabs'[t].phase = "auth"
  BY DEF Redirect, Go, Request
<1>2. \A phase, item : Continue(t, phase, item) => tabs'[t].phase = phase
  BY DEF Continue, Tab
<1>3. /\ {"/account", "/sign-in", "/verify-identity"} \subseteq Paths
      /\ "/register-passkey/set-passkey-name" \in Paths
  BY DEF Paths
<1>4. ASSUME tabs[t].path = "/account"
      PROVE  ShowsPasskeys(t)
  <2>1. accountPageRoute(t)
    BY <1>4
    DEF PageRoute, homePageRoute, signUpPageRoute,
        signUpVerifyEmailAddressPageRoute, signUpRegisterPasskeyPageRoute,
        signUpRegisterPasskeySetPasskeyNamePageRoute, signInPageRoute,
        signInVerifyEmailCodePageRoute, verifyIdentityPageRoute,
        verifyIdentityVerifyEmailCodePageRoute,
        updateEmailAddressSetNewEmailAddressPageRoute,
        updateEmailAddressVerifyNewEmailAddressPageRoute,
        registerPasskeyCreatePasskeyPageRoute,
        registerPasskeySetPasskeyNamePageRoute, deletePasskeyConfirmPageRoute,
        deleteAccountConfirmPageRoute
  <2> QED
    BY <1>1, <1>2, <1>3, <1>4, <2>1
    DEF accountPageRoute, SignedIn, WithItem, ShowsPasskeys
<1>5. ASSUME tabs[t].path = "/verify-identity/verify-email-code"
      PROVE  tabs[t].phase = "item"
  <2>1. verifyIdentityVerifyEmailCodePageRoute(t)
    BY <1>5
    DEF PageRoute, homePageRoute, accountPageRoute, signUpPageRoute,
        signUpVerifyEmailAddressPageRoute, signUpRegisterPasskeyPageRoute,
        signUpRegisterPasskeySetPasskeyNamePageRoute, signInPageRoute,
        signInVerifyEmailCodePageRoute, verifyIdentityPageRoute,
        updateEmailAddressSetNewEmailAddressPageRoute,
        updateEmailAddressVerifyNewEmailAddressPageRoute,
        registerPasskeyCreatePasskeyPageRoute,
        registerPasskeySetPasskeyNamePageRoute, deletePasskeyConfirmPageRoute,
        deleteAccountConfirmPageRoute
  <2>2. CASE SignedIn(t, "session")
    BY <1>1, <1>2, <1>3, <2>2 DEF SignedIn
  <2>3. CASE WithOwnSession(t, "/sign-in",
               LAMBDA s : IF s.filled THEN Continue(t, "item", None)
                          ELSE Redirect(t, "/verify-identity", {}))
    BY <1>1, <1>2, <1>3, <2>3 DEF WithOwnSession, WithSession, WithoutSession
  <2> QED
    BY <2>1, <2>2, <2>3 DEF verifyIdentityVerifyEmailCodePageRoute, WithItem
<1>6. ASSUME tabs[t].path = "/register-passkey/create-passkey"
      PROVE  tabs[t].phase = "item"
  <2>1. registerPasskeyCreatePasskeyPageRoute(t)
    BY <1>6
    DEF PageRoute, homePageRoute, accountPageRoute, signUpPageRoute,
        signUpVerifyEmailAddressPageRoute, signUpRegisterPasskeyPageRoute,
        signUpRegisterPasskeySetPasskeyNamePageRoute, signInPageRoute,
        signInVerifyEmailCodePageRoute, verifyIdentityPageRoute,
        verifyIdentityVerifyEmailCodePageRoute,
        updateEmailAddressSetNewEmailAddressPageRoute,
        updateEmailAddressVerifyNewEmailAddressPageRoute,
        registerPasskeySetPasskeyNamePageRoute, deletePasskeyConfirmPageRoute,
        deleteAccountConfirmPageRoute
  <2>2. CASE SignedIn(t, "session")
    BY <1>1, <1>2, <1>3, <2>2 DEF SignedIn
  <2>3. CASE WithOwnSession(t, "/account",
               LAMBDA s :
                 IF ~s.verified THEN Redirect(t, "/verify-identity", {})
                 ELSE IF s.filled
                 THEN Redirect(t, "/register-passkey/set-passkey-name", {})
                 ELSE Continue(t, "item", tabs[t].item))
    BY <1>1, <1>2, <1>3, <2>3 DEF WithOwnSession, WithSession, WithoutSession
  <2> QED
    BY <2>1, <2>2, <2>3 DEF registerPasskeyCreatePasskeyPageRoute, WithItem
<1> QED
  BY <1>4, <1>5, <1>6

\* When a page appears it has come through its route.
LEMMA AppearsByRoute ==
  ASSUME IInv, Next, NEW t \in DOMAIN tabs, Loads(t), tabs'[t].phase = "shown"
  PROVE  PageRoute(t)
<1>1. /\ tabs[t].phase \notin {"shown", "waiting", "stuck"}
      /\ tabs'[t].phase # tabs[t].phase
  BY DEF Loads, InPhase
<1>2. ASSUME NEW u \in DOMAIN tabs,
             \A v \in DOMAIN tabs : v # u => tabs'[v] = tabs[v]
      PROVE  u = t
  BY <1>1, <1>2
<1>3. ASSUME NEW u \in DOMAIN tabs,
             tabs[u].phase \in {"shown", "waiting", "stuck"},
             \A v \in DOMAIN tabs : v # u => tabs'[v] = tabs[v]
      PROVE  FALSE
  BY <1>1, <1>2, <1>3
<1>4. ASSUME NEW u \in DOMAIN tabs, NEW path, Visit(u, path)
      PROVE  FALSE
  BY <1>3, <1>4 DEF Visit, Go
<1>5. ASSUME NEW u \in DOMAIN tabs, NEW action, Press(u, action)
      PROVE  FALSE
  <2>1. action \in Actions /\ tabs[u].phase = "shown"
    BY <1>5, OffersType DEF Press
  <2>2. ASSUME NEW code, NEW tokens, NEW about,
               Answer(u, action, code, tokens, about)
        PROVE  FALSE
    BY <1>3, <2>1, <2>2 DEF Answer
  <2>3. CASE Accepts(u, action)
    <3>1. Answered(u, action)
      BY <2>1, <2>3, AcceptsCommitted DEF Committed, IInv
    <3> QED
      BY <2>2, <3>1 DEF Answered
  <2> QED
    BY <1>5, <2>2, <2>3 DEF Press, Rejects, Fails, Taken
<1>6. ASSUME NEW u \in DOMAIN tabs, Script(u)
      PROVE  FALSE
  <2>1. tabs[u].phase = "waiting"
    BY <1>6 DEF Script
  <2>2. ASSUME Stay(u) \/ Stuck(u)
        PROVE  FALSE
    BY <1>3, <2>1, <2>2 DEF Stay, Stuck
  <2>3. ASSUME NEW path, NEW jar, Go(u, path, jar)
        PROVE  FALSE
    BY <1>3, <2>1, <2>3 DEF Go
  <2>4. CASE Succeed(u, tabs[u].reply)
    BY <2>2, <2>3, <2>4 DEF Succeed
  <2>5. CASE Recover(u, tabs[u].reply)
    BY <2>2, <2>3, <2>5, RecoverOutcome DEF Leave, Redirect
  <2> QED
    BY <1>6, <2>4, <2>5 DEF Script
<1>7. ASSUME NEW u \in DOMAIN tabs, LoseAnswer(u) \/ PressOldPage(u)
      PROVE  FALSE
  BY <1>3, <1>7, OffersType DEF LoseAnswer, PressOldPage, Stuck
<1>8. ~Forget
  <2>1. PICK U : U = tabs[t]
    OBVIOUS
  <2>2. U \in Tab
    BY <2>1 DEF IInv, TypeOK
  <2>3. ASSUME tabs' = Resolved
        PROVE  tabs'[t].phase = U.phase
    <3>1. tabs'[t] = [U EXCEPT !.auth = Resolve(@), !.session = Resolve(@)]
      BY <2>1, <2>3 DEF Resolved
    <3> QED
      BY <2>2, <3>1 DEF Tab
  <2> QED
    BY <1>1, <2>1, <2>3 DEF Forget
<1>9. ASSUME NEW u \in DOMAIN tabs, PageRoute(u)
      PROVE  u = t
  <2>1. Outcome(u)
    BY <1>9, RouteOutcome DEF IInv, RowsFit, TypeOK
  <2>2. CASE Redirects(u)
    BY <1>2, <2>2 DEF Redirects, Redirect, Go
  <2>3. ASSUME NEW phase, NEW item, Continue(u, phase, item)
        PROVE  u = t
    BY <1>2, <2>3 DEF Continue
  <2>4. CASE ShowsPasskeys(u)
    BY <1>2, <2>4 DEF ShowsPasskeys
  <2>5. CASE MakesAttempt(u)
    BY <1>2, <2>5 DEF MakesAttempt
  <2> QED
    BY <2>1, <2>2, <2>3, <2>4, <2>5 DEF Outcome, Proceeds
<1> QED
  BY <1>1, <1>4, <1>5, <1>6, <1>7, <1>8, <1>9
     DEF Next, Reload, ExpireCookie, Vanish

\* The rows a page has been made from are still there, and as they were read.
LEMMA RouteAppears ==
  ASSUME IInv, IInv', UNCHANGED habit, NEW t \in DOMAIN tabs, PageRoute(t),
         NEW T, T = tabs'[t], T.phase = "shown", T.path \in Paths,
         NEW alone, alone => DOMAIN tabs = {t}
  PROVE  T.path = tabs[t].path /\ Fits(T)' /\ Appears(T, alone)'
<1>1. PICK U : U = tabs[t]
  OBVIOUS
<1>2. U \in Tab /\ Fits(U) /\ RowsType /\ (alone => Undisturbed(U))
  BY <1>1 DEF IInv, TypeOK, RowsFit
<1>3. Fits(T)'
  <2>1. t \in DOMAIN tabs'
    BY DEF IInv, TypeOK
  <2>2. Fits(tabs[t])'
    BY <2>1 DEF IInv
  <2> QED
    BY <2>2 DEF Fits
<1>4. \A s \in rows' : s.key = T.session => SessionFits(T, s)
  BY <1>3 DEF Fits
<1>5. CASE Redirects(t)
  BY <1>5 DEF Redirects, Redirect, Go, Request
<1>6. CASE ShowsPasskeys(t)
  <2>1. PICK passkeys : passkeys = Keys(PasskeysOf(U.item))
    OBVIOUS
  <2>2. T = [U EXCEPT !.phase = "shown", !.item = None, !.passkeys = passkeys]
        /\ UNCHANGED rows
    BY <1>1, <1>6, <2>1 DEF ShowsPasskeys
  <2>3. /\ T.path = U.path /\ T.auth = U.auth /\ T.passkeys = passkeys
        /\ U.path \in {"/account", "/verify-identity"} /\ U.phase = "passkeys"
    BY <1>1, <1>2, <1>6, <2>2 DEF ShowsPasskeys, Tab
  <2>4. \A s \in rows' : s.key = T.session => Seen(T, "shown", s)
    BY <1>4, <2>3 DEF Seen
  <2>5. T.path = "/account" =>
          \A r \in rows' : r.key = T.auth => r.of = U.item
    BY <1>2, <2>2, <2>3 DEF Fits
  <2>6. passkeys = Keys(PasskeysOf(U.item))'
    BY <2>1, <2>2 DEF Keys, PasskeysOf, RowsIn
  <2> QED
    BY <1>1, <1>3, <2>3, <2>4, <2>5, <2>6 DEF Appears
<1>7. ASSUME NEW phase, NEW item, Proceeds(t, phase, item), ~ShowsPasskeys(t)
      PROVE  T.path = U.path /\ Appears(T, alone)'
  <2>1. PICK next : next = IF phase = "shown" THEN None ELSE item
    OBVIOUS
  <2>2. T = [U EXCEPT !.phase = phase, !.item = next] /\ UNCHANGED rows
    BY <1>1, <1>7, <2>1 DEF Proceeds, Continue
  <2>3. /\ phase = "shown" /\ T.path = U.path /\ T.session = U.session
    BY <1>2, <2>2 DEF Tab
  <2>4. /\ U.path # "/account"
        /\ U.path \in {"/verify-identity/verify-email-code",
                       "/register-passkey/create-passkey"} => U.phase = "item"
    BY <1>1, <1>2, <1>7, <2>3, LastRead
  <2>5. ASSUME NEW s \in rows', s.key = T.session
        PROVE  /\ Seen(T, "shown", s)
               /\ alone /\ T.path = "/verify-identity/verify-email-code"
                    => s.filled
               /\ alone /\ T.path = "/register-passkey/create-passkey"
                    => ~s.filled
    <3>1. Seen(U, "shown", s)
      BY <1>1, <1>7, <2>2, <2>3, <2>5 DEF Proceeds
    <3>2. Seen(T, "shown", s)
      BY <1>4, <2>3, <2>5, <3>1 DEF Seen
    <3> QED
      BY <1>2, <2>2, <2>3, <2>4, <2>5, <3>2 DEF Undisturbed
  <2> QED
    BY <2>3, <2>4, <2>5 DEF Appears
<1>8. CASE MakesAttempt(t)
  <2>1. PICK attempt : T = [U EXCEPT !.phase = "shown", !.session = attempt]
    BY <1>1, <1>8 DEF MakesAttempt
  <2>2. T.path = "/sign-in" /\ U.path = "/sign-in"
    BY <1>1, <1>2, <1>8, <2>1 DEF MakesAttempt, Tab
  <2>3. \A s \in rows' : s.key = T.session => Seen(T, "shown", s)
    BY <1>4, <2>2 DEF Seen
  <2> QED
    BY <1>1, <1>3, <2>2, <2>3 DEF Appears
<1>9. Outcome(t)
  BY <1>1, <1>2, RouteOutcome
<1> QED
  BY <1>1, <1>3, <1>5, <1>6, <1>7, <1>8, <1>9 DEF Outcome

\* Every step in which a page appears.
LEMMA StepAccepts ==
  ASSUME IInv, IInv', Next, OffersKept',
         NEW t \in DOMAIN tabs, Loads(t), tabs'[t].phase = "shown",
         NEW action \in Offers(t)'
  PROVE  Refusal(action, tabs[t].auth, tabs[t].session)'
           \in Allowed(tabs[t].path, DOMAIN tabs = {t})
<1>1. PICK T : T = tabs'[t]
  OBVIOUS
<1>2. PICK alone : alone = (DOMAIN tabs = {t})
  OBVIOUS
<1>3. /\ T.path \in Paths /\ action \in Buttons[T.path]
      /\ action = "start_passkey_registration" =>
           Cardinality(T.passkeys) < maxPasskeyCountLimit
  BY <1>1 DEF Offers
<1>4. PageRoute(t) /\ UNCHANGED habit
  BY AppearsByRoute DEF Next
<1>5. T.path = tabs[t].path /\ Fits(T)' /\ Appears(T, alone)'
  BY <1>1, <1>2, <1>3, <1>4, RouteAppears
<1>6. RowsFit'
  BY DEF IInv
<1>7. Refusal(action, T.auth, T.session)' \in Allowed(T.path, alone)
  BY <1>1, <1>3, <1>5, <1>6 DEF OffersKept
<1> QED
  BY <1>1, <1>2, <1>5, <1>7 DEF Refusal

\* Whatever the tabs, the ids and the habits: when a page appears, none of its
\* buttons is refused because of how far the flow has come, whose it is, or how
\* many passkeys there are (OffersAreAccepted): the checks of routes.go are
\* those of actions.go.
THEOREM PagesOfferWhatIsAccepted == Spec => OffersAreAccepted
<1>1. OffersKept'
  BY AppearingPage, PTL
<1>2. ASSUME IInv, IInv', [Next]_vars, OffersKept'
      PROVE  [\A t \in DOMAIN tabs : Loads(t) /\ tabs'[t].phase = "shown" =>
                \A action \in Offers(t)' :
                  Refusal(action, tabs[t].auth, tabs[t].session)'
                    \in {"none", "invalid_auth_session_token", "invalid_session_token"}
                         \union (IF tabs[t].path = "/register-passkey/set-passkey-name"
                                 THEN {"passkey_limit_reached"} ELSE {})
                         \union (IF DOMAIN tabs = {t} THEN {}
                                 ELSE AnotherTabMay(tabs[t].path))]_vars
  BY <1>2, StepAccepts DEF Allowed
<1> QED
  BY <1>1, <1>2, BrowserInvariant, PTL DEF Spec, OffersAreAccepted

=============================================================================
