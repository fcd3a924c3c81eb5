------------------------------- MODULE Pages -------------------------------
(***************************************************************************)
(* The pages of the website (routes.go) as tabs of one browser load them.  *)
(*                                                                         *)
(* The tabs share their cookies, which hold the tokens of sessions; a      *)
(* token is the key of its row.  A request carries the cookies the browser *)
(* has when it is sent.  The page route then reads the auth session, the   *)
(* session of the flow and what else it shows, one query after the other,  *)
(* and answers with a page, in which the tokens are embedded, or with a    *)
(* redirect, which may blank a cookie that another tab has set meanwhile.  *)
(***************************************************************************)
EXTENDS Sessions, TLC

CONSTANT Tabs

VARIABLES
  cookies,  \* the token of each cookie
  tabs      \* what each tab loads or shows

Cookies == Tables \ {"user", "passkey", "passkey_signin_attempt"}

\* handleRequest has a route for these paths and answers 404 to others.
Paths ==
  {"/", "/sign-up", "/sign-up/verify-email-address",
   "/sign-up/register-passkey", "/sign-up/register-passkey/set-passkey-name",
   "/sign-in", "/sign-in/verify-email-code", "/account",
   "/verify-identity", "/verify-identity/verify-email-code",
   "/update-email-address/set-new-email-address",
   "/update-email-address/verify-new-email-address",
   "/register-passkey/create-passkey", "/register-passkey/set-passkey-name",
   "/delete-passkey/confirm", "/delete-account/confirm"}

\* The session a page is about (validateRequest...SessionToken), if any.
SessionOf ==
  [path \in Paths |->
     CASE path \in {"/sign-up/verify-email-address",
                    "/sign-up/register-passkey",
                    "/sign-up/register-passkey/set-passkey-name"} ->
            "signup_session"
       [] path = "/sign-in/verify-email-code" -> "email_code_signin_session"
       [] path \in {"/verify-identity", "/verify-identity/verify-email-code"} ->
            "identity_verification_session"
       [] path \in {"/update-email-address/set-new-email-address",
                    "/update-email-address/verify-new-email-address"} ->
            "email_address_update_session"
       [] path \in {"/register-passkey/create-passkey",
                    "/register-passkey/set-passkey-name"} ->
            "passkey_registration_session"
       [] path = "/delete-passkey/confirm" -> "passkey_deletion_session"
       [] path = "/delete-account/confirm" -> "account_deletion_session"
       [] OTHER -> "none"]

NoReply == [action |-> "none", code |-> "none", tokens |-> {}, about |-> "none"]

\* The state of a tab that has sent a request, or that shows the text of a 404.
Request(path, sent) ==
  [path |-> path,
   phase |-> IF path \in Paths THEN "auth" ELSE "shown",
   auth |-> sent["auth_session"],
   session |-> IF path \in Paths /\ SessionOf[path] # "none"
               THEN sent[SessionOf[path]] ELSE None,
   item |-> None, passkeys |-> {}, reply |-> NoReply]

Blank(tables) ==
  [c \in Cookies |-> IF c \in tables THEN None ELSE cookies[c]]

\* Tab t goes to path; the browser has deleted or set cookies first.
Go(t, path, jar) ==
  /\ cookies' = jar
  /\ tabs' = [tabs EXCEPT ![t] = Request(path, jar)]

\* setBlank...TokenCookie for the tables, then 303.
Redirect(t, path, tables) == Go(t, path, Blank(tables)) /\ UNCHANGED rows

\* The route goes on to its next read, or shows the page.
Continue(t, phase, item) ==
  /\ tabs' = [tabs EXCEPT ![t].phase = phase,
                          ![t].item = IF phase = "shown" THEN None ELSE item]
  /\ UNCHANGED <<rows, cookies>>

\* What cookies and tabs name, and what a row is about.
Named ==
  {cookies[c] : c \in Cookies} \union {r.about : r \in rows}
  \union UNION {{tabs[t].auth, tabs[t].session, tabs[t].item}
                 \union tabs[t].passkeys \union tabs[t].reply.tokens :
                   t \in DOMAIN tabs}

\* The key of a new row: any that was never used.  The least one that nothing
\* names any more is as good.
FreshKeys(table) ==
  LET free == NewKeys(table) \ Named
  IN {k \in free : \A other \in free : k[2] <= other[2]}

-----------------------------------------------------------------------------
(* What routes share. *)

\* A page for who is signed in: validateRequestAuthSessionToken, then next.
SignedIn(t, next) ==
  /\ tabs[t].phase = "auth"
  /\ IF Live(tabs[t].auth)
     THEN Continue(t, next, RowAt(tabs[t].auth).of)
     ELSE Redirect(t, "/sign-in", {"auth_session"})

\* A page for who is not.
SignedOut(t, next) ==
  /\ tabs[t].phase = "auth"
  /\ IF Live(tabs[t].auth) THEN Redirect(t, "/account", {})
     ELSE Continue(t, next, None)

\* validateRequest...SessionToken, for the session of the page.
HasSession(t) == Live(tabs[t].session)

WithoutSession(t, fallback) ==
  Redirect(t, fallback, {SessionOf[tabs[t].path]})

\* Where the route goes depends on the row, next being the rest of the route.
WithSession(t, fallback, next(_)) ==
  /\ tabs[t].phase = "session"
  /\ IF HasSession(t) THEN next(RowAt(tabs[t].session))
     ELSE WithoutSession(t, fallback)

\* mutant: whose session it is does not matter
AnySession(t, s) == TRUE

SameAuthSession(t, s) == s.of = tabs[t].auth

\* The same for sessions that belong to an auth session.
WithOwnSession(t, fallback, next(_)) ==
  WithSession(t, fallback,
    LAMBDA s : IF SameAuthSession(t, s) THEN next(s)
               ELSE Redirect(t, "/account", {SessionOf[tabs[t].path]}))

\* The last reads of a route: the row it needs, or a redirect.
WithItem(t, key, next, path, tables) ==
  /\ tabs[t].phase = "item"
  /\ IF Live(key) THEN Continue(t, next, key) ELSE Redirect(t, path, tables)

-----------------------------------------------------------------------------
(* The page routes, in the order of routes.go. *)

homePageRoute(t) == tabs[t].path = "/" /\ SignedOut(t, "shown")

\* getUserPasskeys: buttons to delete each, and to register one more.
accountPageRoute(t) ==
  /\ tabs[t].path = "/account"
  /\ \/ SignedIn(t, "item")
     \/ WithItem(t, tabs[t].item, "passkeys", "/sign-in", {"auth_session"})
     \/ /\ tabs[t].phase = "passkeys"
        /\ tabs' = [tabs EXCEPT ![t].phase = "shown", ![t].item = None,
                                ![t].passkeys = Keys(PasskeysOf(tabs[t].item))]
        /\ UNCHANGED <<rows, cookies>>

signUpPageRoute(t) == tabs[t].path = "/sign-up" /\ SignedOut(t, "shown")

signUpVerifyEmailAddressPageRoute(t) ==
  /\ tabs[t].path = "/sign-up/verify-email-address"
  /\ \/ SignedOut(t, "session")
     \/ WithSession(t, "/sign-up", LAMBDA s :
          IF s.verified THEN Redirect(t, "/sign-up/register-passkey", {})
          ELSE Continue(t, "shown", None))

\* mutant: the test of the credential is the wrong way round
signUpRegisterPasskeyTwice(t) ==
  /\ tabs[t].path = "/sign-up/register-passkey"
  /\ \/ SignedOut(t, "session")
     \/ WithSession(t, "/sign-up", LAMBDA s :
          IF ~s.verified THEN Redirect(t, "/sign-up/verify-email-address", {})
          ELSE IF ~s.filled
          THEN Redirect(t, "/sign-up/register-passkey/set-passkey-name", {})
          ELSE Continue(t, "shown", None))

signUpRegisterPasskeyPageRoute(t) ==
  /\ tabs[t].path = "/sign-up/register-passkey"
  /\ \/ SignedOut(t, "session")
     \/ WithSession(t, "/sign-up", LAMBDA s :
          IF ~s.verified THEN Redirect(t, "/sign-up/verify-email-address", {})
          ELSE IF s.filled
          THEN Redirect(t, "/sign-up/register-passkey/set-passkey-name", {})
          ELSE Continue(t, "shown", None))

signUpRegisterPasskeySetPasskeyNamePageRoute(t) ==
  /\ tabs[t].path = "/sign-up/register-passkey/set-passkey-name"
  /\ \/ SignedOut(t, "session")
     \/ WithSession(t, "/sign-up", LAMBDA s :
          IF ~s.verified THEN Redirect(t, "/sign-up/verify-email-address", {})
          ELSE IF ~s.filled THEN Redirect(t, "/sign-up/register-passkey", {})
          ELSE Continue(t, "shown", None))

\* Loading the page creates the sign-in attempt it embeds.
signInPageRoute(t) ==
  /\ tabs[t].path = "/sign-in"
  /\ \/ SignedOut(t, "item")
     \/ /\ tabs[t].phase = "item"
        /\ \E attempt \in FreshKeys("passkey_signin_attempt") :
             /\ createSession(attempt)
             /\ tabs' = [tabs EXCEPT ![t].phase = "shown",
                                     ![t].session = attempt]
        /\ UNCHANGED cookies

signInVerifyEmailCodePageRoute(t) ==
  /\ tabs[t].path = "/sign-in/verify-email-code"
  /\ \/ SignedOut(t, "session")
     \/ WithSession(t, "/sign-in", LAMBDA s : Continue(t, "item", None))
     \/ WithItem(t, tabs[t].session, "shown", "/sign-in",
                 {"email_code_signin_session"})

\* getUserPasskeyCount: a button to verify with one, if there is one.
verifyIdentityPageRoute(t) ==
  /\ tabs[t].path = "/verify-identity"
  /\ \/ SignedIn(t, "session")
     \/ WithOwnSession(t, "/sign-in",
          LAMBDA s : Continue(t, "passkeys", tabs[t].item))
     \/ /\ tabs[t].phase = "passkeys"
        /\ tabs' = [tabs EXCEPT ![t].phase = "shown", ![t].item = None,
                                ![t].passkeys = Keys(PasskeysOf(tabs[t].item))]
        /\ UNCHANGED <<rows, cookies>>

verifyIdentityVerifyEmailCodePageRoute(t) ==
  /\ tabs[t].path = "/verify-identity/verify-email-code"
  /\ \/ SignedIn(t, "session")
     \/ WithOwnSession(t, "/sign-in",
          LAMBDA s : IF s.filled THEN Continue(t, "item", None)
                     ELSE Redirect(t, "/verify-identity", {}))
     \/ WithItem(t, tabs[t].session, "shown", "/sign-in",
                 {"identity_verification_session"})

\* mutant: a session whose new address is set stays on this page
updateEmailAddressAgain(t) ==
  /\ tabs[t].path = "/update-email-address/set-new-email-address"
  /\ \/ SignedIn(t, "session")
     \/ WithOwnSession(t, "/account",
          LAMBDA s : IF ~s.verified THEN Redirect(t, "/verify-identity", {})
                     ELSE Continue(t, "shown", None))

updateEmailAddressSetNewEmailAddressPageRoute(t) ==
  /\ tabs[t].path = "/update-email-address/set-new-email-address"
  /\ \/ SignedIn(t, "session")
     \/ WithOwnSession(t, "/account",
          LAMBDA s :
            IF ~s.verified THEN Redirect(t, "/verify-identity", {})
            ELSE IF s.filled
            THEN Redirect(t,
                   "/update-email-address/verify-new-email-address", {})
            ELSE Continue(t, "shown", None))

\* There is no page at the path it redirects to without a new address.
updateEmailAddressVerifyNewEmailAddressPageRoute(t) ==
  /\ tabs[t].path = "/update-email-address/verify-new-email-address"
  /\ \/ SignedIn(t, "session")
     \/ WithOwnSession(t, "/account",
          LAMBDA s :
            IF ~s.verified THEN Redirect(t, "/verify-identity", {})
            ELSE IF ~s.filled THEN Redirect(t, "/update-email-address", {})
            ELSE Continue(t, "shown", None))

registerPasskeyCreatePasskeyPageRoute(t) ==
  /\ tabs[t].path = "/register-passkey/create-passkey"
  /\ \/ SignedIn(t, "session")
     \/ WithOwnSession(t, "/account",
          LAMBDA s :
            IF ~s.verified THEN Redirect(t, "/verify-identity", {})
            ELSE IF s.filled
            THEN Redirect(t, "/register-passkey/set-passkey-name", {})
            ELSE Continue(t, "item", tabs[t].item))
     \/ WithItem(t, tabs[t].item, "shown", "/sign-in",
                 {"auth_session", "passkey_registration_session"})

registerPasskeySetPasskeyNamePageRoute(t) ==
  /\ tabs[t].path = "/register-passkey/set-passkey-name"
  /\ \/ SignedIn(t, "session")
     \/ WithOwnSession(t, "/account",
          LAMBDA s :
            IF ~s.verified THEN Redirect(t, "/verify-identity", {})
            ELSE IF ~s.filled
            THEN Redirect(t, "/register-passkey/create-passkey", {})
            ELSE Continue(t, "shown", None))

\* Without the passkey the cookie of registrations is blanked, not the one of
\* deletions.
deletePasskeyConfirmPageRoute(t) ==
  /\ tabs[t].path = "/delete-passkey/confirm"
  /\ \/ SignedIn(t, "session")
     \/ WithOwnSession(t, "/account",
          LAMBDA s : IF ~s.verified THEN Redirect(t, "/verify-identity", {})
                     ELSE Continue(t, "item", s.about))
     \/ WithItem(t, tabs[t].item, "shown", "/account",
                 {"passkey_registration_session"})

deleteAccountConfirmPageRoute(t) ==
  /\ tabs[t].path = "/delete-account/confirm"
  /\ \/ SignedIn(t, "session")
     \/ WithOwnSession(t, "/account",
          LAMBDA s : IF ~s.verified THEN Redirect(t, "/verify-identity", {})
                     ELSE Continue(t, "shown", None))

\* The next step of the route of tab t.
PageRoute(t) ==
  \/ homePageRoute(t)
  \/ accountPageRoute(t)
  \/ signUpPageRoute(t)
  \/ signUpVerifyEmailAddressPageRoute(t)
  \/ signUpRegisterPasskeyPageRoute(t)
  \/ signUpRegisterPasskeySetPasskeyNamePageRoute(t)
  \/ signInPageRoute(t)
  \/ signInVerifyEmailCodePageRoute(t)
  \/ verifyIdentityPageRoute(t)
  \/ verifyIdentityVerifyEmailCodePageRoute(t)
  \/ updateEmailAddressSetNewEmailAddressPageRoute(t)
  \/ updateEmailAddressVerifyNewEmailAddressPageRoute(t)
  \/ registerPasskeyCreatePasskeyPageRoute(t)
  \/ registerPasskeySetPasskeyNamePageRoute(t)
  \/ deletePasskeyConfirmPageRoute(t)
  \/ deleteAccountConfirmPageRoute(t)
=============================================================================
