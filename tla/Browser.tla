------------------------------ MODULE Browser ------------------------------
(***************************************************************************)
(* A browser with some tabs: a user visits pages and presses buttons, the  *)
(* server answers (Pages.tla, Answers.tla), and the scripts of             *)
(* frontend_assets act on the answers.  Answers are lost, cookies expire,  *)
(* and rows disappear: a session expires, an account or a passkey is       *)
(* deleted, someone signs out elsewhere.                                   *)
(*                                                                         *)
(* A tab waits for one answer at a time.  Time is left out: sessions and   *)
(* pages grow old at any moment.                                           *)
(***************************************************************************)
EXTENDS Answers

\* What users do and what befalls them, of the fields
\*   tabs       the tabs in use
\*   visits     paths entered in the address bar
\*   presses    actions whose buttons are pressed
\*   vanishing  tables whose rows disappear for reasons outside the browser
\*   mishaps    some of "lose" (an answer), "expire" (a cookie), "age" (of a
\*              page), "take" (an address), and "reload": the user reloads pages
CONSTANT Habits

VARIABLE habit  \* one of Habits

\* Other paths would be answered with 404, as this one is to which a route
\* redirects.
NoPage == "/update-email-address"

ASSUME HabitsAssumption ==
  \A h \in Habits : h.tabs \subseteq Tabs /\ h.visits \subseteq Paths \union {NoPage}

ASSUME NoneAssumption == None \notin Key

\* The account of the initial states has an id.
ASSUME RowIdsAssumption == 1 \in RowIds

ASSUME PasskeyLimitAssumption == maxPasskeyCountLimit \in Nat

vars == <<rows, cookies, tabs, habit>>

-----------------------------------------------------------------------------
(* Buttons *)

\* The buttons of a page.  Those of /account depend on what the page lists.
Buttons ==
  [path \in Paths |->
     CASE path = "/" -> {}
       [] path = "/sign-up" -> {"start_signup"}
       [] path = "/sign-up/verify-email-address" ->
            {"verify_signup_email_address_verification_code",
             "send_signup_email_address_verification_code", "cancel_signup"}
       [] path = "/sign-up/register-passkey" ->
            {"set_signup_passkey_webauthn_credential",
             "complete_signup_without_passkey_registration"}
       [] path = "/sign-up/register-passkey/set-passkey-name" ->
            {"set_signup_passkey_name"}
       [] path = "/sign-in" ->
            {"start_email_code_signin",
             "verify_passkey_signin_webauthn_signature"}
       [] path = "/sign-in/verify-email-code" ->
            {"verify_email_code_signin_email_code", "cancel_email_code_signin"}
       [] path = "/account" ->
            DOMAIN Starts \union {"sign_out", "sign_out_all_devices"}
       [] path = "/verify-identity" ->
            {"verify_identity_verification_passkey_webauthn_signature",
             "issue_identity_verification_email_code",
             "cancel_identity_verification"}
       [] path = "/verify-identity/verify-email-code" ->
            {"verify_identity_verification_email_code",
             "revoke_identity_verification_email_code"}
       [] path = "/update-email-address/set-new-email-address" ->
            {"set_email_address_update_new_email_address",
             "cancel_email_address_update"}
       [] path = "/update-email-address/verify-new-email-address" ->
            {"verify_email_address_update_new_email_address_verification_code",
             "send_email_address_update_new_email_address_verification_code",
             "cancel_email_address_update"}
       [] path = "/register-passkey/create-passkey" ->
            {"set_passkey_registration_passkey_webauthn_credential",
             "cancel_passkey_registration"}
       [] path = "/register-passkey/set-passkey-name" ->
            {"set_passkey_registration_passkey_name"}
       [] path = "/delete-passkey/confirm" ->
            {"confirm_passkey_deletion", "cancel_passkey_deletion"}
       [] path = "/delete-account/confirm" ->
            {"confirm_account_deletion", "cancel_account_deletion"}]

\* What tab t offers: a passkey to use or to delete is one that is listed.
Offers(t) ==
  IF tabs[t].phase # "shown" \/ tabs[t].path \notin Paths THEN {}
  ELSE {action \in Buttons[tabs[t].path] :
          /\ action \in
               {"start_passkey_deletion",
                "verify_identity_verification_passkey_webauthn_signature"}
               => tabs[t].passkeys # {}
          /\ action = "start_passkey_registration"
               => Cardinality(tabs[t].passkeys) < maxPasskeyCountLimit}

Press(t, action) ==
  /\ action \in Offers(t)
  /\ \/ Accepts(t, action)
     \/ Rejects(t, action)
     \/ Fails(t, action)
     \/ "take" \in habit.mishaps /\ Taken(t, action)

Visit(t, path) ==
  /\ tabs[t].phase \in {"shown", "stuck"}
  /\ Go(t, path, cookies)
  /\ UNCHANGED rows

Reload(t) == Visit(t, tabs[t].path)

-----------------------------------------------------------------------------
(* Scripts *)

Stay(t) ==
  /\ tabs' = [tabs EXCEPT ![t].phase = "shown", ![t].reply = NoReply]
  /\ UNCHANGED <<rows, cookies>>

\* The script has thrown with the button disabled: it does nothing until the
\* page is loaded again.
Stuck(t) ==
  /\ tabs' = [tabs EXCEPT ![t].phase = "stuck", ![t].reply = NoReply]
  /\ UNCHANGED <<rows, cookies>>

\* The script deletes the cookies of the tables and goes to path.
Leave(t, path, tables) == Redirect(t, path, tables)

FlowPage ==
  [email_address_update_session |->
     "/update-email-address/set-new-email-address",
   passkey_registration_session |-> "/register-passkey/create-passkey",
   passkey_deletion_session |-> "/delete-passkey/confirm",
   account_deletion_session |-> "/delete-account/confirm"]

\* mutant: a deletion of a passkey goes on where a registration would
NextFlowPage(about) ==
  IF about = "passkey_deletion_session" THEN "/register-passkey/create-passkey"
  ELSE FlowPage[about]

PageOfFlow(about) == FlowPage[about]

\* Where an accepted action leads, and "" for an alert on the same page.
NextPage(action, about) ==
  CASE action = "start_signup" -> "/sign-up/verify-email-address"
    [] action = "cancel_signup" -> "/sign-up"
    [] action = "verify_signup_email_address_verification_code" ->
         "/sign-up/register-passkey"
    [] action = "set_signup_passkey_webauthn_credential" ->
         "/sign-up/register-passkey/set-passkey-name"
    [] action = "start_email_code_signin" -> "/sign-in/verify-email-code"
    [] action \in {"cancel_email_code_signin", "sign_out",
                   "sign_out_all_devices"} -> "/sign-in"
    [] action \in DOMAIN Starts \union
                  {"revoke_identity_verification_email_code"} ->
         "/verify-identity"
    [] action = "issue_identity_verification_email_code" ->
         "/verify-identity/verify-email-code"
    [] action \in {"verify_identity_verification_email_code",
                   "verify_identity_verification_passkey_webauthn_signature"} ->
         PageOfFlow(about)
    [] action = "set_email_address_update_new_email_address" ->
         "/update-email-address/verify-new-email-address"
    [] action = "set_passkey_registration_passkey_webauthn_credential" ->
         "/register-passkey/set-passkey-name"
    [] action \in
         {"send_signup_email_address_verification_code",
          "send_email_address_update_new_email_address_verification_code"} -> ""
    [] OTHER -> "/account"

\* The cookies an accepted action deletes: the flow it ends, and the sessions
\* it has signed out.
EndedBy(action, about) ==
  (IF action \in {"cancel_signup", "cancel_email_code_signin",
                  "complete_signup_without_passkey_registration",
                  "set_signup_passkey_name",
                  "verify_email_code_signin_email_code",
                  "cancel_email_address_update",
                  "verify_email_address_update_new_email_address_verification_code",
                  "cancel_passkey_registration",
                  "set_passkey_registration_passkey_name",
                  "cancel_passkey_deletion", "confirm_passkey_deletion",
                  "cancel_account_deletion", "confirm_account_deletion",
                  "cancel_identity_verification",
                  "verify_identity_verification_email_code",
                  "verify_identity_verification_passkey_webauthn_signature"}
   THEN {ActsOn[action]} ELSE {})
  \union (IF action = "cancel_identity_verification" THEN {about} ELSE {})
  \union (IF action \in {"sign_out", "sign_out_all_devices",
                         "confirm_account_deletion"}
          THEN {"auth_session"} ELSE {})

\* mutant: one token is set as both cookies
KeepOne(jar, tokens) ==
  [c \in Cookies |-> IF \E token \in tokens : token[1] = c
                     THEN CHOOSE token \in tokens : TRUE ELSE jar[c]]

\* set...TokenCookie for each token of the answer.
Keep(jar, tokens) ==
  [c \in Cookies |-> IF \E token \in tokens : token[1] = c
                     THEN CHOOSE token \in tokens : token[1] = c ELSE jar[c]]

Succeed(t, reply) ==
  LET path == NextPage(reply.action, reply.about)
  IN IF path = "" THEN Stay(t)
     ELSE /\ Go(t, path, Keep(Blank(EndedBy(reply.action, reply.about)),
                              reply.tokens))
          /\ UNCHANGED rows

\* Scripts that call deleteSessionToken(), which base.js does not define.
CallsUndefined(t, action) ==
  \/ action = "start_email_address_update"
  \/ tabs[t].path \in {"/verify-identity", "/verify-identity/verify-email-code",
                       "/update-email-address/set-new-email-address"}

\* The cookie of the session a page is about.
OwnCookie(t) == {SessionOf[tabs[t].path]} \ {"none"}

\* "Your session has expired.", of the auth session.
SessionExpired(t, action) ==
  IF CallsUndefined(t, action) THEN Stuck(t)
  ELSE Leave(t, "/sign-in", {"auth_session"} \union OwnCookie(t))

\* The same of the session of the page, or of a session of another auth session.
OwnSessionExpired(t, reply) ==
  IF reply.action = "verify_passkey_signin_webauthn_signature" THEN Stay(t)
  ELSE IF /\ reply.action = "cancel_email_address_update"
          /\ tabs[t].path = "/update-email-address/verify-new-email-address"
  THEN IF reply.code = "session_mismatch" THEN Stay(t)
       ELSE Leave(t, "/sign-in", {"auth_session"} \union OwnCookie(t))
  ELSE Leave(t, IF OwnCookie(t) = {"signup_session"} THEN "/sign-up"
                ELSE "/account", OwnCookie(t))

\* "This email address is already linked to an existing account."
AddressTaken(t, action) ==
  IF action \in {"complete_signup_without_passkey_registration",
                 "set_signup_passkey_name"}
  THEN Leave(t, "/sign-up", {"signup_session"})
  ELSE IF action =
            "verify_email_address_update_new_email_address_verification_code"
  THEN Stuck(t)
  ELSE Stay(t)

Recover(t, reply) ==
  CASE reply.code = "invalid_auth_session_token" ->
         SessionExpired(t, reply.action)
    [] reply.code \in {"invalid_session_token", "session_mismatch"} ->
         OwnSessionExpired(t, reply)
    [] reply.code = "email_code_not_issued" -> Leave(t, "/verify-identity", {})
    [] reply.code = "email_address_already_used" ->
         AddressTaken(t, reply.action)
    [] /\ reply.code = "passkey_limit_reached"
       /\ reply.action = "set_passkey_registration_passkey_name" ->
         Leave(t, "/account", OwnCookie(t))
    [] /\ reply.code = "lost"
       /\ reply.action = "verify_passkey_signin_webauthn_signature" -> Stuck(t)
    [] OTHER -> Stay(t)

Script(t) ==
  /\ tabs[t].phase = "waiting"
  /\ IF tabs[t].reply.code = "ok" THEN Succeed(t, tabs[t].reply)
     ELSE Recover(t, tabs[t].reply)

\* A page of 50 minutes asks for a new attempt, with a variable that
\* handleSignInWithPasskeyButtonClickEvent does not have.
PressOldPage(t) ==
  /\ "verify_passkey_signin_webauthn_signature" \in Offers(t)
  /\ Stuck(t)

-----------------------------------------------------------------------------
(* Mishaps *)

\* fetch throws, after the request has been handled or without.
LoseAnswer(t) ==
  /\ tabs[t].phase = "waiting"
  /\ tabs' = [tabs EXCEPT ![t].reply =
                [NoReply EXCEPT !.action = tabs[t].reply.action,
                                !.code = "lost"]]
  /\ UNCHANGED <<rows, cookies>>

\* Max-Age=86400
ExpireCookie(c) ==
  /\ cookies[c] # None
  /\ cookies' = Blank({c})
  /\ UNCHANGED <<rows, tabs>>

Vanish ==
  /\ \E r \in rows : r.key[1] \in habit.vanishing /\ Delete({r} \union VerificationsOf(r))
  /\ UNCHANGED <<cookies, tabs>>

\* Sessions that neither a cookie, a tab nor another row names, and names whose
\* row is gone: nothing the browser can do tells whether they are there.
Unnamed ==
  {r \in rows : /\ r.key[1] \notin {"user", "passkey"}
                /\ r.key \notin Named \union {s.of : s \in rows}}

Resolve(key) == IF Live(key) THEN key ELSE None

Resolved ==
  [t \in DOMAIN tabs |-> [tabs[t] EXCEPT !.auth = Resolve(@), !.session = Resolve(@)]]

Tidy ==
  /\ Unnamed = {}
  /\ tabs = Resolved
  /\ \A c \in Cookies : cookies[c] = Resolve(cookies[c])

\* Keeps the states few: it comes before anything else.
Forget ==
  /\ ~Tidy
  /\ rows' = rows \ Unnamed
  /\ cookies' = [c \in Cookies |-> Resolve(cookies[c])]
  /\ tabs' = Resolved

-----------------------------------------------------------------------------

\* A browser without cookies opens any pages; one account, with or without a
\* passkey.
Init ==
  /\ \E passkeys \in SUBSET {<<"passkey", 1>>} :
       rows = {NewRow(<<"user", 1>>, None, None)}
              \union {NewRow(p, <<"user", 1>>, None) : p \in passkeys}
  /\ cookies = [c \in Cookies |-> None]
  /\ habit \in Habits
  /\ tabs \in [habit.tabs -> {Request(path, cookies) : path \in Paths}]

Next ==
  /\ \/ Forget
     \/ /\ Tidy
        /\ \/ \E t \in DOMAIN tabs :
                \/ \E path \in habit.visits : Visit(t, path)
                \/ "reload" \in habit.mishaps /\ Reload(t)
                \/ \E action \in habit.presses : Press(t, action)
                \/ PageRoute(t)
                \/ Script(t)
                \/ "lose" \in habit.mishaps /\ LoseAnswer(t)
                \/ "age" \in habit.mishaps /\ PressOldPage(t)
           \/ "expire" \in habit.mishaps /\ \E c \in Cookies : ExpireCookie(c)
           \/ Vanish
  /\ UNCHANGED habit

\* A browser that waits for a page gets it, and runs its scripts.
Fairness ==
  /\ WF_vars(Forget /\ UNCHANGED habit)
  /\ \A t \in Tabs :
       WF_vars(t \in DOMAIN tabs /\ (PageRoute(t) \/ Script(t))
                 /\ UNCHANGED habit)

\* The user goes on pressing buttons that are there, no error lasts, and now and
\* then the user reloads the page.
Persistence ==
  \A t \in Tabs :
    /\ SF_vars(/\ t \in DOMAIN tabs
               /\ \E action \in habit.presses :
                    action \in Offers(t) /\ Accepts(t, action)
               /\ tabs'[t].reply.code = "ok"
               /\ UNCHANGED habit)
    /\ SF_vars(/\ t \in DOMAIN tabs
               /\ "reload" \in habit.mishaps /\ Reload(t)
               /\ UNCHANGED habit)

Spec == Init /\ [][Next]_vars /\ Fairness

PersistentSpec == Spec /\ Persistence
-----------------------------------------------------------------------------

\* The error codes the scripts tell apart.
Codes ==
  {"none", "ok", "failed", "email_failed", "lost", "invalid_auth_session_token",
   "invalid_session_token", "session_mismatch", "email_code_not_issued",
   "not_now", "passkey_limit_reached", "email_address_already_used"}

Tab == [path : Paths \union {NoPage},
        phase : {"auth", "session", "item", "passkeys", "shown", "waiting",
                 "stuck"},
        auth : Key \union {None}, session : Key \union {None},
        item : Key \union {None}, passkeys : SUBSET Key,
        reply : [action : Actions \union {"none"}, code : Codes,
                 tokens : SUBSET Key, about : VerifyingTables \union {"none"}]]

\* Types, and rows whose keys and references are those of their tables.
TypeOK ==
  /\ rows \subseteq Row
  /\ \A r, s \in rows : r.key = s.key => r = s
  /\ cookies \in [Cookies -> Key \union {None}]
  /\ \A c \in Cookies : cookies[c] # None => cookies[c][1] = c
  /\ habit \in Habits
  /\ tabs \in [habit.tabs -> Tab]

InPhase(t, phases) == t \in DOMAIN tabs /\ tabs[t].phase \in phases

Loads(t) == InPhase(t, {"auth", "session", "item", "passkeys"})

\* A request for any page ends with a page, however the routes redirect to each
\* other, whatever cookies there are and whatever rows disappear between two
\* reads of a route or two redirects.  (The two pages of a registration redirect
\* to each other for as long as another tab sets the credential of one
\* registration after the other, between any two requests.)
NavigationEnds ==
  \A t \in Tabs :
    Loads(t) ~>
      \/ InPhase(t, {"shown"})
      \/ \E u \in Tabs \ {t} :
           /\ InPhase(u, {"waiting"})
           /\ tabs[u].reply.action = "start_passkey_registration"

\* What another tab may do to the session of a page while the route reads
\* something else: revoke the code, or set the credential.
AnotherTabMay(path) ==
  CASE path = "/verify-identity/verify-email-code" -> {"email_code_not_issued"}
    [] path = "/register-passkey/create-passkey" -> {"not_now"}
    [] OTHER -> {}

\* A page and the handlers behind its buttons look at the session separately,
\* in routes.go and in actions.go.  They agree: when a page appears, none of its
\* buttons is refused because of how far the flow has come, whose it is, or how
\* many passkeys there are.  (Sessions that end meanwhile are another matter.
\* Passkeys are not counted again when the last one is to be named, so another
\* flow may have taken its place.)
OffersAreAccepted ==
  [][\A t \in DOMAIN tabs : Loads(t) /\ tabs'[t].phase = "shown" =>
       \A action \in Offers(t)' :
         Refusal(action, tabs[t].auth, tabs[t].session)'
           \in {"none", "invalid_auth_session_token", "invalid_session_token"}
                \union (IF tabs[t].path = "/register-passkey/set-passkey-name"
                        THEN {"passkey_limit_reached"} ELSE {})
                \union (IF DOMAIN tabs = {t} THEN {}
                        ELSE AnotherTabMay(tabs[t].path))
    ]_vars

\* What a page is shown for.
FlowPages == {path \in Paths : SessionOf[path] \in VerifyingTables}
FilledPages == {"/update-email-address/verify-new-email-address",
                "/register-passkey/set-passkey-name",
                "/sign-up/register-passkey/set-passkey-name"}
VerifiedPages == FlowPages \union {"/sign-up/register-passkey"} \union FilledPages

\* Whatever other tabs do to the cookies they share: the tokens embedded in a
\* page fit each other and fit the page.  A session that is still there belongs
\* to the auth session, its identity or address is verified, and what the page
\* is about has been set.
ShownPagesFit ==
  \A t \in DOMAIN tabs : \A s \in rows :
    tabs[t].phase \in {"shown", "waiting"} /\ s.key = tabs[t].session =>
      /\ s.key[1] \in VerifyingTables \union {"identity_verification_session"}
           => s.of = tabs[t].auth
      /\ tabs[t].path \in VerifiedPages => s.verified
      /\ tabs[t].path \in FilledPages => s.filled

\* The actions that complete a flow.
Completes ==
  [signup_session |-> {"complete_signup_without_passkey_registration",
                       "set_signup_passkey_name"},
   email_address_update_session |->
     {"verify_email_address_update_new_email_address_verification_code"},
   passkey_registration_session |-> {"set_passkey_registration_passkey_name"},
   passkey_deletion_session |-> {"confirm_passkey_deletion"},
   account_deletion_session |-> {"confirm_account_deletion"}]

\* Tab t shows the first page of the flow of a session of the table.
Begins(t, table) ==
  /\ InPhase(t, {"shown"})
  /\ \/ table = "signup_session" /\ tabs[t].path = "/sign-up/verify-email-address"
     \/ /\ tabs[t].path = "/verify-identity"
        /\ \E v \in rows : v.key = tabs[t].session /\ v.about[1] = table

HasCompleted(t, table) ==
  /\ InPhase(t, {"waiting"})
  /\ tabs[t].reply.code \in {"ok", "email_failed"}
  /\ tabs[t].reply.action \in Completes[table]

\* Routes, scripts and handlers together lead through each flow: whoever does
\* not give up, and now and then reloads the page, gets from its first page to
\* the action that completes it, through five pages of three modules, although
\* any handler may fail before its commit, or after it for want of an email.
\* The reload is needed: when a new address is committed and its email cannot be
\* sent, the script says to try again, and every further try is refused
\* (actions.go:1396) until the route leads on.  It is for answers that arrive:
\* after a lost one to the verification of an identity the scripts lead back to
\* /account, where the user starts again.
FlowsEnd ==
  \A t \in Tabs, table \in DOMAIN Completes :
    Begins(t, table) ~> HasCompleted(t, table)

\* A script that has an answer goes on.
AnswersAreHandled == \A t \in DOMAIN tabs : tabs[t].phase # "stuck"
=============================================================================
