# Passwordless authentication example: models and proofs

This directory holds a TLA+ development of the server in this repository: a Go
program that signs users up and in without passwords (codes sent by email,
passkeys), lets them change their address, their passkeys and delete their account,
and keeps everything in SQLite. The modules model what the handlers do to the
database when many requests are in flight, what browsers make of the answers, what
requests wait for, what is read from an authenticator, and the nightly clean-up; TLC
checks small instances and TLAPS proves the safety properties for all instances.

## The system

| Part | Source | State | Operations |
|---|---|---|---|
| Store | `schema.sql`, `user.go`, `passkey.go`, `auth_session.go` | eleven tables | queries, INSERT/UPDATE/DELETE inside `BEGIN IMMEDIATE` ... `COMMIT` |
| Sign-up | `signup.go` | `signup_session` | start, cancel, resend code, verify address, set credential, complete with or without a passkey |
| Sign-in, sign-out | `passkey_signin.go`, `email_code_signin.go`, `auth_session.go` | `passkey_signin_attempt`, `email_code_signin_session`, `auth_session` | start, cancel, verify; sign out of one or all devices |
| Identity verification | `identity_verification.go` | `identity_verification_session` | issue, revoke, verify a code; verify a passkey; cancel |
| Verifying actions | `email_address_update.go`, `passkey_registration.go`, `passkey_deletion.go`, `account_deletion.go` | one session table each | start, cancel, set, complete |
| Clean-up job | `background_job.go`, `database.go` | none of its own | deletes old rows and clears rate limits at midnight UTC |
| Rate limits | `ratelimit/limit.go` | a map and a doubly linked list per limit | Consume, Delete, Clear |
| Start-up | `database.go` | the database file and the hash of its schema | resets the file when the schema changed |
| Pages | `routes.go` | the cookies of a browser | read tokens from cookies, then rows; show a page or redirect and blank cookies |
| Action route, frontend scripts | `routes.go`, `frontend_assets/` | pages in tabs, with tokens embedded in them | a button sends tokens and values, the script acts on the answer: cookies, another page, an alert |
| WebAuthn data | `webauthn/parse.go`, `webauthn/cose.go`, `webauthn.go` | none | take authenticator data apart, check a public key |
| Connections and turns to hash | `server.go`, every store function, `email_code.go` | two pools of connections, a semaphore | take, use, put back |
| Email, codes, hashing, logging | `aws_ses.go`, `email_code.go`, `hashing.go`, `logging.go` | none | pure functions and output |

Handlers (`actions.go`) all have one shape: validate tokens, read rows over a
connection of the read pool, check them, take a token of a rate limit, then call one
store function that runs one transaction on the only write connection, and finally
send email and answer. The parts meet in the tables: an identity verification row
names the session of a verifying action; the sessions of verifying actions hang on
an auth session, auth sessions and passkeys on a user, and `ON DELETE CASCADE`
removes whatever hangs on a deleted row.

What is hard is what happens between a handler's reads and its transaction: other
requests commit, users sign out or are deleted by the clean-up, the same request
arrives twice. Some checks are repeated inside the transaction, some by a constraint
of the schema, and some not at all. In a browser, a page keeps the tokens of the
moment it was loaded while its cookies are shared by all tabs, an answer may be lost
after the commit, and a session may end between a page and its button.

## Modules

| Module | Models | Reads with |
|---|---|---|
| `Tables` | the eleven tables as sets of rows, the constraints of the schema, cascading deletes, requests, ids | `schema.sql` |
| `Signup`, `Signin`, `EmailAddressUpdate`, `PasskeyRegistration`, `PasskeyDeletion`, `AccountDeletion` | the handlers and store functions of one flow | the file of that name and `actions.go` |
| `IdentityVerification` | identity verification, over the four verifying actions it completes or cancels | `identity_verification.go` |
| `Accounts` | all flows and `cleanDatabase` together: `Init`, `Next`, `Spec`, the properties | `database.go` |
| `AccountsPromise` | the abstract specification: accounts, passkeys, auth sessions and grants | - |
| `Sessions` | the database as one browser can tell it: rows, what they belong to, how far a flow is | `schema.sql`, store functions |
| `AccountsSessions` | the mapping under which `Accounts` implements `Sessions`: the rows a browser can tell, kept in `seen` | `schema.sql` |
| `Pages` | the page routes, each a sequence of reads, over cookies and tabs | `routes.go`, `session.go` |
| `Answers` | the handlers of the action route as a script sees them: accepted, refused and why | `routes.go`, `actions.go` |
| `Browser` | tabs, their buttons and scripts, what may befall them: `Spec` and the properties | `frontend_assets/` |
| `RateLimit`, `RateLimitLog` | one rate limit: buckets, their list, tokens, callers with a time they read before the mutex; the second adds a history of what was let through | `ratelimit/limit.go` |
| `LeastRecentlyUsed` | the abstract specification of the list of a rate limit | - |
| `Housekeeping` | start-up and schema reset, crashes, deployments, the midnight job, ages of rows | `database.go`, `background_job.go` |
| `Patterns` | the checks of email addresses and passkey names | `email_address.go`, `passkey.go` |
| `WebAuthn` | authenticator data byte by byte, the public key in it, what registration asks of it | `webauthn/`, `webauthn.go` |
| `Resources` | connections and turns to hash, who waits for them and who has them | `server.go`, `database.go`, `passkey.go` |
| `MCAccounts`, `MCWhole`, `MCBrowser`, `MCRateLimit`, `MCRequests` | instances for TLC; `MCRequests` takes `Patterns`, `WebAuthn` and `Resources` together, of which one moves in a behaviour | - |
| `AccountsProofs`, `PromiseProofs`, `SessionsProofs` | theorems of `Accounts`: types and invariants; action properties and the refinement of `AccountsPromise`; the refinement of `Sessions` | - |
| `BrowserProofs`, `HousekeepingProofs`, `RateLimitProofs`, `InputsProofs`, `ResourcesProofs` | theorems of `Browser`, `Housekeeping`, `RateLimit` with `RateLimitLog`, `Patterns` with `WebAuthn`, and `Resources` | - |

`Accounts` composes the flow modules, which extend one another over `Tables`.
`Browser` extends `Answers`, `Pages` and `Sessions`, and not `Accounts`: a browser
sees the database only through answers, and `AccountsSessions` states, and
`SessionsProofs` proves, that what the server does to it is what `Sessions` says.
`RateLimit`, `Housekeeping`, `Patterns`, `WebAuthn` and `Resources` stand alone:
handlers only ask a rate limit, a pattern or a parser for a verdict, what a statement
does to the tables does not depend on the connection it had to wait for, and the
midnight job meets the handlers in `cleanDatabase`, which `Accounts` has as an action
that may run at any time.

### From the code to the model of the accounts

A table is a variable of the same name that holds a set of records. A row keeps the
columns that handlers decide on. Secrets, their hashes, challenges, public keys,
names and creation times are left out: presenting the right token is choosing the
row, presenting a valid signature is choosing a passkey, and a code is represented
by the address it was sent to, since presenting it means reading that mailbox. Ids
(`generateItemId`) are drawn from counters, one per family, and never repeat;
`MaxIssued` bounds each counter, and is the only bound of the model besides the
finite sets of TLC.

Each handler is two actions. `...Action(r)` is the handler of `actions.go` up to its
transaction: it reads and checks, and stores in `request[r]` what it will go on with
(`Receive`). The action named after the store function is the transaction and the
answer (`Respond`). Between the two any other request may take steps: that is the
concurrency of the real server, where reads use other connections than the single
write connection (`server.go:83-86`) and BEGIN to COMMIT excludes other writers. A
transaction that finds a row missing or violates a constraint is rolled back;
`Rollback(r)` models this, and also any reported error and a process that stops
between the two steps, since what was committed stays and what was not is gone.

A handler reads several rows one after the other; the model reads them at one
moment. Every row but the last is either deleted together with the later one (an
auth session with the session that hangs on it), or looked up again by the
transaction, so a mixture of old and new reads commits nothing that reading at one
moment does not.

`Handlers` lists the handlers clients call in an instance, so that a run can look at
some flows in depth. Resending a code (`sendSignup...CodeAction`,
`sendEmailAddressUpdate...CodeAction`) and `getWebauthnCredentialIdsAction` change
no table and have no action here (scripts call the first two in `Answers`). Rate
limits and expiry only make checks fail: leaving them out here adds behaviours and
can hide no violation of a safety property.

`OwnPasskeysOnly` says which passkeys clients ask to delete: `TRUE`, those that the
account page of their user lists (`routes.go:1138`), as the pages of this server do;
`FALSE`, any whose id they name. No handler compares the passkey's user with the
auth session's (`actions.go:1918`, `actions.go:1928`, `passkey_deletion.go:238`), so
what is promised about passkeys rests on the first, and is said with it below;
everything else holds for either.

### Properties of the accounts

- `TypeOK`: columns, primary keys, ids within what was issued.
- `ReferentialIntegrity`: no row outlives what it references.
- `NoSharedIdentifiers`: addresses and credentials are unique although handlers
  check availability outside their transaction.
- `CodesFollowAddress`: every outstanding code was sent to the address the account
  has now. Its mutant drops the revocation in `completeEmailAddressUpdate`.
- `VerificationPairing`: an unverified session of a verifying action has exactly one
  identity verification, a verified one none. The converse fails on purpose for
  passkey deletions: when two are under way for one passkey, completing one deletes
  the session of the other by cascade and leaves its identity verification behind.
- `PasskeyLimit`: `maxPasskeyCountLimit` holds in every interleaving.
- `SignupTargetsUnused`: the user id that a sign-up will create is not in use, so a
  sign-up completes at most once and never brings a deleted account back.
- `ReadsStayTrue`: what a handler checked before its transaction, and the
  transaction does not ask again, is still so for as long as the row is there: a
  session that was found verified, an address or credential that was read. It states
  what the code relies on wherever a check is not repeated inside the transaction.
  Its mutants let an address be set again, and a deletion be confirmed before it is
  verified.
- `ChangesAreVerified` (action property): a request changes an existing account only
  by using up a verified session, of the right verifying action, of an auth session
  of that account that still exists in that step. For passkey deletions this needs
  `OwnPasskeysOnly`.
- `DeletesOwnPasskeys` (action property): its part about passkey deletions, for
  clients that may ask for any passkey; violated, see below.
- `CommitsWhatWasChecked` (action property): the address or credential that is
  committed is the one the handler checked.
- `SessionsComeFromSignin` (action property): each new auth session uses up one
  sign-up, sign-in attempt or code session.
- `KeepsPromise`: `Accounts` implements `AccountsPromise` under the mapping
  `accounts <- user, keys <- passkey, sessions <- auth_session` and `Grants`, the
  verified sessions of verifying actions. A grant changes the account of its own
  auth session only; `RemovePasskey` therefore needs `OwnPasskeysOnly`.

### From the code to the model of the browser

`rows` are the rows of all tables, without addresses, codes, credentials and
secrets: a `key`, what the row is `of`, what it is `about`, whether it is `verified`
and whether the column its flow sets is `filled`. A token names a key. `cookies` are
those of the browser; `tabs[t]` is the page of a tab, with the tokens embedded in
it, or the request it waits for.

A page route reads an auth session, then the session of the page, then a row that it
needs; each read is a step (the `phase` of the tab), since each is a transaction of
its own and the row may be gone at the next. A redirect sends the cookies of that
moment. A handler of the action route is one step (`Press`), with its answer left in
`reply` for the script: `ActsAsSeen` (below) says that each commit of a handler,
whatever happened since it read, is a step that handler could make in one go.
`Fails` is a handler that commits nothing. Nine handlers send an email after their
commit (`EmailsAfterCommit`) and answer `unexpected_error` without the new tokens
when it cannot be sent: the rows have changed then, and the answer is
`"email_failed"` (`Done`), which scripts cannot tell from `"failed"`. `LoseAnswer` is
a `fetch` that throws, before or after the request was handled. `Script` does what the script of the page
does with the answer, cookies included; a script that throws leaves its button
disabled (`"stuck"`) until the page is loaded again.

A `Habit` says what the user and the world do in an instance: the tabs in use, the
paths that are visited, the buttons that are pressed, the tables whose rows
disappear (someone signs out elsewhere, deletes the account, the clean-up runs), and
mishaps. `Forget` is not in the code: it drops rows and tokens that nothing can
reach any more, so that ids can be used again and states are few.

- `ActsAsSeen` (stated in `AccountsSessions`, checked by the run `whole`): every
  commit of `Accounts` is one step of `Sessions`, under the mapping `SeenRows`. The
  history variable `seen` holds `SeenRows` before and after each step.
- `ShownPagesFit`: the tokens embedded in a page fit each other and the page,
  although other tabs replace the cookies while it loads. Its mutant drops the
  comparison of auth session ids in the page routes.
- `OffersAreAccepted` (action property): when a page appears, no button of it is
  refused because of how far the flow has come, whose it is or how many passkeys
  there are. Page routes and handlers check this separately. Three refusals remain
  and are named in the property. The page that asks for the name of a new passkey
  does not count passkeys again, so another registration may have taken the last
  place (`passkey_limit_reached`). With several tabs, another tab may revoke the
  code of an identity verification, or set the credential of a registration, between
  the two reads of the route, and the page appears all the same (`AnotherTabMay`).
- `NavigationEnds` (liveness): however the routes redirect to each other and
  whatever disappears meanwhile, a request for a page ends with a page. The two
  pages of a passkey registration redirect to each other by whether the credential
  is set; a second tab that starts registration after registration can keep a
  request between them, and the property says that nothing else can.
- `FlowsEnd` (liveness): who does not give up, and reloads the page now and then,
  gets from the first page of each flow to the action that completes it, although a
  handler may fail at any time before its commit, or after it for want of an email.
  Without `Reload` it is false. `setEmailAddressUpdateNewEmailAddressAction` commits
  the new address (`actions.go:1419`) and answers `unexpected_error` when the email
  with its code cannot be sent (`actions.go:1426`). The page stays and says "An
  unexpected error occurred. Please try again."
  (`update_email_address_set_new_email_address.js:72`), but every further try is
  refused (`actions.go:1396`) until the page is loaded again; the route then leads
  on, to a page that can send the code once more.
- `AnswersAreHandled`: no script throws; violated, see below.

### From the code to the model of the resources

A worker is a request or the nightly job, and its `plan` the uses it has yet to make
of the three resources: a read, a statement that writes, a transaction, a hash. Each
store function takes one connection and puts it back before it returns, on every
path, and takes no second one meanwhile; this was read off all of them and is the
shape of `Fail`, `Use`, `Commit` and `Abort`. Whatever a worker does may fail. The
pools and the semaphore are libraries: `Hand` gives to who has waited longest, as
both do. A connection that is put back in a transaction would make every later
`BEGIN` fail (`Begin` needs `~open`). `ROLLBACK` is taken to fail only when SQLite
has rolled back by itself. Opening a connection may fail in the code (`Take` returns
an error); nothing is held then, as after `Fail`.

- `PutBackClean`: a transaction is that of the one worker who has the connection.
  Its mutant leaves out a `ROLLBACK`.
- `EveryoneIsAnswered` (liveness): every request that waits is answered. Its mutant
  leaves out a `Put`.

### From the code to the model of the WebAuthn data

`data` is a sequence of bytes 0..255 and offsets are those of the code. The sizes
that are fixed in the code (hashes, coordinates, moduli) are constants, so that TLC
has short texts and the proofs any. Reading beyond the end would be an error of TLC,
as it is a panic in the code. `Encode` is what an authenticator sends, from the
WebAuthn and CTAP standards: `Authenticators` are the records that can be encoded,
with every length of an identifier, any flags and a key of each of the three types
the code knows, as `EddsaKey`, `Es256Key` and `Rs256Key` write them; `Cut`,
`Lengthen` and `Change` damage it. `IsOnCurve` is the library's. Client data is left
out: it is JSON, decoded by a library. What `CanVerifyWith` says of a key is what
`VerifyAssertionSignatureWithCOSEPublicKey` demands before it verifies a signature.

- `ReadsWhatWasWritten`: undamaged data is read as exactly the fields that were
  encoded.
- `NothingIsOverlooked`: what is accepted, damaged or not, is accounted for to the
  last byte: encoding what was read gives the data again, but for the two reserved
  flags.
- `KeysStayUsable`: a key that registration stores passes every check of its form at
  sign-in. The two sets of checks are written separately, one on the rest of the
  data and one on the stored key.

### From the code to the model of the rate limits

`limit` is the struct of that name: the map and the two ends of the list. Pointers
are the keys of the buckets they point to, which loses nothing while no pointer
dangles; `ListOK` is that invariant, so the model checks its own abstraction. A
Consume is two steps, because the code reads the clock (`limit.go:40`) before it
locks (`limit.go:42`): `CallConsume` and `Consume`. Times and token counts are
integers; Go divides durations towards zero, and so does `Quotient`, which matters
when a call with an old time gets the mutex after a call with a newer one. `Delete`
is not called by the server today but is part of the component.

Where the five limits are used: `unverifiedEmailAddressEmailRateLimit` by starting a
sign-up, resending its code, starting a code sign-in and setting or resending to a
new address; `emailAddressVerificationRateLimit` by verifying codes of a sign-up or
a new address; `userEmailCodeVerificationAuthenticationRateLimit` by verifying a
code of a sign-in or of an identity verification; `userEmailRateLimit` by issuing an
identity verification code; `requestRateLimit` by every request.

- `ListOK`: no pointer that the code follows is nil or dangles.
- `KeepsRecency`: `RateLimit` implements `LeastRecentlyUsed` with the keys along the
  list as `order`: a bucket is given up only for a new key, only when the map is
  full, and it is the least recently used one.
- `WindowLimit`: what a bucket lets through, by the times callers read, stays below
  a full bucket and the refill of the window and one more, whatever the mutex does
  to the order of calls.
- `DeniedOnlyAfterUse` (action property): a denied caller had somebody let through
  less than an interval before. A limit that lost the remainder of an interval at
  each call would starve a client that asks often.

### From the code to the model of housekeeping

`hour` counts ticks of a day, `sleep` those until the job wakes up. A row is its
age. The file is `schema_hash` with its tables: `os.Create` truncates it
(`Truncate`), one transaction creates the tables and records the hash
(`CreateTables`), and `Exit` may come between, as anywhere else. SQLite itself is
trusted to make that transaction atomic. One process runs at a time: `Deploy` starts
a version, with any schema, only when none is running. What deleting a user takes
along is in `Accounts` and not repeated; `passkey_signin_attempt` ages as
`signup_session` does and is left out. `missed` is not in the code: it counts the
midnights in a row without a clean-up.

- `SchemaMatches`: a serving program never meets a row stored under another
  version's schema.
- `AccountsExpire`: with no midnight missed, accounts are gone at the first midnight
  at which they are a day old, and every midnight missed adds a day.
- `SignupsExpire`: with no midnight missed no sign-up session is from before it.
- `Expiry` (liveness): if the server stays up from some time on, every account is
  deleted some day.
- `DeletedAtMidnight`: the README's claim, which the code does not keep.

### From the code to the model of the patterns

A text is a sequence of character classes, as many as the two functions tell apart.
`Split` is `strings.Split`, character by character.
`verifyPasskeyNamePattern` has a third outcome, "panics": reading the first byte of
an empty name. `AcceptsExactlyAddresses` compares the loops and the split with a
definition by positions; `AcceptsOnlyPasskeyNames` is what the page that asks for
the name says.

## Runs

The runs of `Accounts` use two concurrent requests: the races here are between one
handler's reads and one other transaction (every transaction is a single step), and
a third request adds only repetitions of the same races. `SYMMETRY` is over
requests, or over callers and keys of a rate limit, whose identities no action and
no property distinguishes; no liveness property is checked under it. Deadlock is
checked except in `requests` and `names`, where a full field takes no more text and
damage is bounded (workers that wait for ever would violate `EveryoneIsAnswered`),
and in `finish`, where the home page has no buttons and a user
without an account has none that leads on.

| Run | Instance | What it shows |
|---|---|---|
| `email` | two accounts, four addresses, and either two verifying actions and a code sign-in or one and a sign-up (`SignupWithOneChange`) | both accounts, or one and a sign-up, go for the same free address; one changes its address while codes to sign in and to verify are out; the clean-up comes between |
| `account` | two accounts, one with a passkey, limit 2, three credentials, sign-ins of both kinds, two verifying actions | two registrations race to the limit, two deletions of one passkey, account deletions, sign-ins and sign-outs between their steps |
| `whole` | one account and one more of everything, every handler and the clean-up | either sign-ups, double and competing, or all flows of an account; the promises to the account's owner and to the browser are kept |
| `deletion` | two accounts, one with a passkey; sign-in by code, passkey deletion, `OwnPasskeysOnly` is `FALSE` | violation: an account deletes the passkey of another |
| `browser` | one passkey at most, two ids of each table; one tab that visits every page and signs up, in and out with every mishap; one tab that visits the pages of two flows and those without a session and mixes two flows of an account while any row may disappear; two tabs that sign in and update the address | pages fit their tokens, offer what handlers accept, and are reached |
| `finish` | one tab whose user goes on and reloads; emails fail | every flow can be gone through to its end |
| `handled` | one tab, the update of an address, rows disappear | violation: a script throws |
| `limits` | four keys, three buckets of one token, two callers, an interval of two ticks, waits of up to two | eviction, removal at either end and in the middle, refills from times before the last one; what is let through in any window |
| `midnight` | a day of four ticks, ages up to three days, two accounts, one sign-up, two schemas | crashes at every point of start-up, at midnight and around it; failing clean-ups; changes of schema |
| `midnight_claim` | as `midnight` | violation: an account that survives a midnight |
| `requests` | texts up to seven characters, limit six; or keys of all three kinds in authenticator data with sizes of one or two bytes and two damages; or three workers, one connection of each kind, one turn to hash | every text, accepted or not; what authenticators send, whole and damaged; two workers wait for the third, for each resource, and everything may fail |
| `names` | texts up to five characters, limit three | violation: a name over the limit is accepted |

The bounds let each hazard happen. `email` has two accounts so that a unique address
can be contended. `account` starts one below the limit of passkeys, and can open two
auth sessions and two verifying actions. `whole` can create two accounts. In
`browser` a second id of each table lets a flow be started again while a page of the
first is still shown; with a limit of one passkey both the account page that offers
a registration and the one that does not are reached; tabs share cookies in pairs,
so two show every mixture of one old and one new cookie. A list of three buckets in
`limits` has a middle, and a fourth key forces eviction; a bucket of one token is
refilled twice before `MaxTime`, and a call can wait for as long as a refill takes,
so that a refill can be computed from a time before the last. In `midnight` a day of
four ticks tells apart midnight, the first and last hour of a day, and one between;
ages stop being counted above what any property compares. The texts of `requests` hold
the shortest address and two characters more; in authenticator data of small parts
every byte meets every kind of damage, and the bytes put in place of others are
lengths, types of keys and flags. Pools of one are the worst case of `Resources`.
Each property of a passing run has a mutant of the model that TLC rejects under the
same configuration.

### Fairness

`Housekeeping`, for `Expiry`: time passes (`WF` of `Tick`). A started program gets
on with its start-up, since `main` does nothing but continue (`WF`). The clean-up is
strongly fair: each midnight with a running server enables it, and the assumption
says that it does not fail at every one for ever; the code itself gives no more,
since it does not retry before the next midnight. Nothing obliges the server to stay
up: that is the premise of `Expiry`.

`Browser`, for `NavigationEnds`: a request that was sent is answered and a script
that has its answer runs (`WF` of `PageRoute` or `Script` for each tab). The user is
not obliged to anything there. `FlowsEnd` needs a user who goes on: `PersistentSpec`
adds `SF` of pressing some button that leads on and being accepted with the answer
`ok`, and `SF` of reloading the page. They are strong because refusals and other
pages may come between, and they exclude only that every attempt, or every email
after one, fails for ever and that the user never reloads. Answers are not lost in
`finish`: after the lost answer to the verification of an identity the scripts lead
back to `/account`, and the flow that was begun is given up for a new one.

`Resources`, for `EveryoneIsAnswered`: goroutines run and statements and hashes end
(`WF` of `Step` of each worker), and the pools and the semaphore hand on what is put
back, to who has waited longest (`WF` of `Hand`). Nobody has to send a request.

### Where the code and its texts disagree

- `names`: `passkey.go:13` joins the two bounds on the length with `&&`, so no name
  is too long, against "must be 50 characters or fewer" (`routes.go:1429`,
  `routes.go:2106`).
- `handled`: when the auth session has ended, the button for a new email address
  calls `deleteSessionToken()` (`account.js:48`), which no script defines; the same
  call is in `verify_identity.js` (43, 115, 192, 244),
  `verify_identity_verify_email_code.js` (44, 126) and
  `update_email_address_set_new_email_address.js` (43, 101). The script throws
  with the button disabled and gets neither to `alert("Your session has expired.")`
  (`account.js:50`) nor to the sign-in page after it.
- `deletion`: `startPasskeyDeletionAction` looks the passkey up by its id alone
  (`actions.go:1918`), and none of the steps after it compares the passkey's user
  with the auth session's. A verified session of one account deletes a passkey of
  another, and the email about it, which goes to the first account
  (`actions.go:2054`), says that the passkey "was deleted from your account"
  (`emails.go:121`).
- `midnight_claim`: a midnight that the server misses, or at which `cleanDatabase`
  fails, is not made up for before the next one, against "All accounts older than 24
  hours are automatically deleted at midnight UTC" (`README.txt:1`).

Things that surprise, and that no text of the repository promises otherwise; all are
in `Browser` and `Pages` as the code has them:

- `routes.go:1880` redirects to `/update-email-address`, which is answered with 404:
  the page is `/update-email-address/set-new-email-address` (`server.go:281`).
- `routes.go:2175` blanks the cookie of a passkey registration where the page is
  about a passkey deletion.
- `verify_identity.js:151` deletes the cookie of an identity verification that
  another tab may have replaced by its own.
- `update_email_address_verify_new_email_address.js:178`: cancelling an update whose
  session has ended deletes the cookie of a live auth session.
- Three buttons stay disabled after an error: sign-in with a passkey when its answer
  is lost (`sign_in.js:178`) or on an old page (`sign_in.js:81` reads a variable
  that is not there), and the code of a new address that someone else has taken
  (`update_email_address_verify_new_email_address.js:77`).

## Proofs

Every safety property of a passing run is proved: its invariants, its action
properties and the three refinements (`KeepsPromise`, `ActsAsSeen`, `KeepsRecency`).

### Accounts

The theorems of `Accounts` hold for every set of requests, addresses and
credentials, every initial sequence of accounts, every limit and every bound; the
assumptions are those named in `Tables` (`MaxIssuedAssumption`, `LimitAssumption`,
`NullAssumption`, `InitialAccountsAssumption`; `OwnPasskeysOnlyAssumption` in
`PasskeyDeletion`, where a theorem says so), plus the finiteness that follows
from them.

- `TypeCorrect`: `Spec => []TypeOK`. `TypeOK` is inductive because no id lies beyond
  its counter, so a new id is unlike every other; the proof goes through lemmas that
  say what adding, replacing and deleting rows do to a table.
- `ReferencesHold`: `Spec => []ReferentialIntegrity`, inductive together with
  `TypeOK`: a transaction that inserts a row looks its target up in the same step
  (`HasRow`), and `CascadeDelete` removes every row that references what goes.
- `IdentifiersUnique`: `Spec => []NoSharedIdentifiers`, from what `Next` may do to
  `user` and to `passkey` (lemmas `UserSteps`, `PasskeySteps`).
- `SignupsCreateNewAccounts`: `Spec => []SignupTargetsUnused`; needs `TypeOK`'s
  bound on `target_user_id`.
- `PasskeysLimited`: `Spec => []PasskeyLimit`. Not inductive as stated; the
  strengthening `PasskeyCounts` says that `passkey` is finite and that every id,
  whether or not it is a user's now, has at most the limit. It needs
  `ReferentialIntegrity` for the first passkey of a new account: no passkey refers
  to the id before.
- `CodesFollow`: `Spec => []CodesFollowAddress`. Inductive given the references: a
  code is issued to the address that the same transaction reads, a change of address
  deletes the codes in the same transaction, and a new auth session or account takes
  over no old row, since ids are new.
- `VerificationsPair`: `Spec => []VerificationPairing`. That there is exactly one is
  not inductive. `PairingInv` says instead that a verification has the id of its
  session, as the transactions that start a verifying action draw one id for both,
  so that no two can be of the same session.

`Next` is split once (`NextSteps`) into reads, which change no table, commits,
rollbacks and the clean-up.

`PromiseProofs` is about steps.

- `SigninsWorkOnce`: `Spec => SessionsComeFromSignin`.
- `ReadsStay`: `Spec => []ReadsStayTrue`. `ReadsInv` adds that a request in flight
  holds an id that was issued and a value that was set (`Settled`). It is inductive
  because verification is never taken back, what is set is set once, and the id of a
  row is not used again.
- `CheckedIsCommitted`: `Spec => CommitsWhatWasChecked`, from `ReadsStayTrue`: the
  address or credential that is read again is the one that was checked.
- `ChangesVerifiedForSome`: for any clients, each change of an address, new passkey
  and deletion of an account uses up a verified session of that account, and each
  deletion of a passkey one about that passkey, of some account. Most of it is
  `ReadsStayTrue` once more, since `confirmPasskeyDeletion` and others look at
  `identity_verified` before their transaction only.
- `ChangesVerified`: `Spec => ChangesAreVerified`, assuming `OwnPasskeysOnly`. The
  invariant it adds is `DeletionsOwn` (`OwnDeletions`): a passkey deletion session,
  and a request on its way to create one, names a passkey and an auth session of one
  user. It is inductive because ids are not used again and neither a passkey nor an
  auth session changes its user.
- `PromiseKept`: `Spec => KeepsPromise`, assuming `OwnPasskeysOnly`. The initial states map to initial states.
  For each transaction one lemma says what it does to `user`, `passkey`,
  `auth_session` and `Grants`, which is one action of `AccountsPromise`, or nothing
  (`Unseen`). That a change uses up a grant is `ReadsStayTrue`, that
  it is a grant of the account that changes `DeletionsOwn`, that a new account
  is a new one `SignupTargetsUnused`, and that cascades take only the grants of what
  is gone `ReferentialIntegrity`.

`SessionsProofs` is about the steps again, as a browser sees them.

- `SessionsImplemented`: `SeenSpec => ActsAsSeen`. `SeenSpec` is `Spec` with the
  history variable `seen`, which is `SeenRows` at all times and hinders no step; it
  makes the abstract state a variable, so that a step of `Sessions` is a fact about
  `seen` and `seen'` and not about eleven tables under a mapping. For each
  transaction one lemma names the action of `Sessions` it is. The invariant is
  `SeenInv`: a key is the key of one row because ids are (`TypeOK`); the key of a
  new row is new because every id was issued by a counter (`IssuedKnown`), and within
  `RowIds` because counters are bounded (`IdsIssued`); a handler that found a row
  finds what the row belongs to because nothing outlives its owner
  (`ReferentialIntegrity`); and the passkeys that `Sessions` counts are as many as
  the code counts because there are finitely many (`PasskeyCounts`). Deleting is the
  longest part: `ON DELETE CASCADE` goes from an account to its auth sessions and
  passkeys and to the sessions that hang on these; `Sessions` takes two rounds of the
  rows that reference what goes (`With(With(S))`), and no row is further away. One
  assumption on the constants comes in: `NullIsNoKey`, that `Null` is not the key of
  a row.

### Browser

The theorems of `Browser` hold for any tabs, any ids of rows, any limit of passkeys
and any habits (`HabitsAssumption`, `NoneAssumption`, `RowIdsAssumption`,
`PasskeyLimitAssumption`).

- `BrowserInvariant`: `Spec => []IInv`, with `BrowserTypeCorrect` and `TokensFit`
  (`[]TypeOK` and `[]ShownPagesFit`) as its consequences. `ShownPagesFit` is not
  inductive: it says nothing of the reads before the page appears, of pages about
  other sessions, or of what a row may become. `IInv` adds that rows reference what
  is there and are of the tables the schema names (`RowsFit`), and what each phase
  of a route has found out (`Fits`); with one tab alone, also that nothing came in
  between (`Undisturbed`). One lemma says how rows move on (`RowsMoveOn`): nothing
  that was set or verified is undone, but for codes of identity verifications, which
  can be revoked.
- `PagesOfferWhatIsAccepted`: `Spec => OffersAreAccepted`. `RouteOutcome` says what
  the last read of a route has found for the page to appear, and `OffersKept` that
  this is what the handlers behind its buttons ask, one page after the other.

### Housekeeping, rate limits, WebAuthn, resources

The theorems of `Housekeeping` hold for any rows and schemas, days of any length and
ages counted up to two days or more (`DayAssumption`, `NullAssumption`). They share
one inductive invariant, `IInv`: `TypeOK`; the job sleeps until midnight or has just
woken up; the rows are of the schema the file records; and the two bounds on ages,
which while the job has woken up and not yet cleaned allow a day more. The last is
what makes them inductive: the age bounds as stated say nothing of that moment.

- `FileTypeCorrect`, `RunsOnItsSchema`, `AccountsGetNoOlder`, `SignupsGetNoOlder`:
  `Spec` implies `[]` of `TypeOK`, `SchemaMatches`, `AccountsExpire` and
  `SignupsExpire`.

The theorems of `RateLimit` and `RateLimitLog` hold for any keys, callers, limits,
delays and bounds (`NewLimitAssumption`, which is what `NewLimit` checks;
`NilAssumption`; `TimeAssumption`).

- `PointersSound`: `Spec => []ListOK`. `ListOK` speaks of neighbours only and is not
  inductive: it allows a cycle of buckets beside the list, and evicting the last
  bucket of the list would leave the cycle without ends. The strengthening `Sound`
  adds ranks of the buckets in which `newerNode` is always the next. Evicting is
  removing the oldest bucket (`EvictedIsRemoved`) and moving is removing and pushing
  (`MovedIsPushed`), so two lemmas about the list are enough: `RemovedOK` and
  `PushedOK`.
- `RecencyKept`: `Spec => KeepsRecency`. `Order` is defined by recursion along the
  list. `InOrder(l, s)` says without recursion that a sequence has the keys of the
  list, each once and next to its neighbours; there is one such sequence and `Order`
  is it (`OrderFound`: the first place at which two differ would follow one
  `newerNode` to two buckets). Pushing a bucket appends its key (`PushedInOrder`)
  and taking one out removes its key, wherever it is (`RemovedInOrder`), so each
  call is a step of `LeastRecentlyUsed`. `InOrder(limit, Order)` is the invariant,
  and the map is full exactly when the sequence is (`AsMany`).
- `LimitTypeCorrect`: `Spec => []TypeOK`; its hard part is that no call leaves a
  bucket full, also when a refill is computed from an old time.
- `LimitHolds`: `LogSpec => []WindowLimit`, for windows of any length and any order
  in which calls get the mutex. The invariant (`LogInv`) follows the time at which a
  bucket has no token, its last refill less an interval for each token left
  (`EmptyAt`): a call that is let through moves it on by an interval at least,
  nothing moves it back, and the calls let through from any time on are bounded by
  how far it has moved since (`Paced`).
- `DenialIsDeserved`: `LogSpec => DeniedOnlyAfterUse`, from the same time: a bucket
  without tokens was emptied by somebody less than an interval and a delay ago
  (`Emptied`), so no remainder of an interval was lost.

The theorem of `Patterns` holds for any characters and bounds on lengths
(`PatternsAssumption`).

- `AddressesAccepted`: `Spec => []AcceptsExactlyAddresses`. `Split` is defined by
  recursion; that there is a function that satisfies the recursion (`SplitExists`),
  and what it yields for the first characters of a text (`Parted`, `PartedAtAt`,
  `PartedElse`, `SplitInTwo`), is shown by taking the least number for which it
  fails. The rest is about positions (`PartsAllowed`).

The theorems of `WebAuthn` hold for any sizes, any curve, any data authenticators
send and any damage (`SizesAssumption`, which holds of the sizes in the code;
`CredProtectAssumption`; `DamagedAssumption`; `SentAssumption`, that authenticators
send encodings of `Authenticators`; `NoneAssumption`, that no credential is taken
for none).

- `DataAreBytes`: `WebAuthnSpec => [](data \in Seq(0..255))`.
- `StoredKeysUsable`: `WebAuthnSpec => []KeysStayUsable`. The rules for keys look
  only at the bytes of the key (`KeyStandsAlone`, from one lemma for each kind of
  key), and what is cut out of the data is those bytes (`KeyIsCutOut`). That `data`
  are bytes is the invariant it needs: a length of two bytes is read from them.
- `AcceptedWhole`: `WebAuthnSpec => []NothingIsOverlooked`. The parts that are read
  meet (`SlicesMeet`, `PartsMakeText`), the last ends where the text does
  (`RestIsExtension`), and each is the encoding of what was read of it
  (`CredentialWhole`, `ExtensionWhole`, `FlagsMakeByte`).
- `WrittenIsRead`: `WebAuthnSpec => []ReadsWhatWasWritten`, the other direction:
  each part of a text that was put together is found where those before it end
  (`PartFound`, `LastPartFound`), a key is told from what follows it (`EddsaRead`,
  `Es256Read`, `Rs256Read`), and so is the length of an identifier from its two
  bytes (`CredentialRead`). Together the two theorems say that reading and encoding
  undo each other.

The theorem of `Resources` holds for any finite set of workers, any plans and any
number of processors (`ResourcesAssumption`).

- `WritesStayPossible`: `ResourcesSpec => []PutBackClean`, inductive with `TypeOK` and
  `OneWriter`, which says that at most one worker has the write connection, since
  its pool holds one.

### Model-checked only

- `Expiry`, `NavigationEnds`, `FlowsEnd` and `EveryoneIsAnswered`: liveness under
  fairness, for which the installed provers have no rules (`ENABLED` is not
  expanded).
- `DeletesOwnPasskeys`, `AnswersAreHandled`, `AcceptsOnlyPasskeyNames`
  and `DeletedAtMidnight` are false of the code.

## What is not modelled

- JSON and headers of requests, client data of WebAuthn (JSON, by a library),
  signatures, hashing, random codes: pure functions; handlers are modelled with
  either verdict.
- Templates, and the page for internal errors, which has no button and no script.
- In the browser: two buttons of one page pressed at once, the dialogs of WebAuthn,
  and the requests that only fetch a challenge or ids of credentials before another
  (`start_passkey_signin`, `cancel_passkey_signin`, `get_webauthn_credential_ids`),
  which are taken together with that other.
- Email, logging, configuration: output, or read once; of an email only whether it
  could be sent is modelled, in `Answers`.
- Error codes of `Accounts`: `Rollback` is any of them.
  `sqlite.ErrCode(err).ToPrimary()` never equals an extended code, so a lost race
  for an address is reported as an unexpected error and not as a conflict; the
  transaction is rolled back either way. `Answers` tells codes apart where scripts
  do.
- The rate limits in the handlers: they only make a handler refuse.

## Plan

1. The rate limits in the handlers that check codes, so that `WindowLimit` bounds
   the attempts at one code.
2. The client data of WebAuthn, once decoded: challenge, origin and type.
