--------------------------- MODULE Housekeeping ---------------------------
(***************************************************************************)
(* The life of the server process around its database file: start-up with  *)
(* a check of the schema (database.go), the job that deletes old rows at   *)
(* midnight (background_job.go), crashes, and deployments of versions with *)
(* another schema.                                                         *)
(*                                                                         *)
(* A tick of the clock is an hour, and Day of them make a day.  A row is   *)
(* its age in ticks; ages count up to MaxAge and no further.               *)
(***************************************************************************)
EXTENDS Integers

CONSTANTS
  Users,           \* ids of accounts
  SignupSessions,  \* ids of sign-up sessions
  Schemas,         \* the schemas that the deployed versions embed
  Null,
  Day,
  MaxAge           \* bound: ages are told apart up to here

ASSUME DayAssumption ==
  Day \in Nat /\ Day > 1 /\ MaxAge \in Nat /\ MaxAge >= 2 * Day

UserRow == [age : 0..MaxAge, schema : Schemas]

ASSUME NullAssumption == Null \notin Schemas \cup UserRow \cup 0..MaxAge

VARIABLES
  hour,            \* of the day, 0 is midnight UTC
  schemaSQLScript, \* the schema of the deployed version
  schema_hash,     \* the schema recorded in the file, Null in an empty file
  process,         \* "down", "starting", "resetting" or "running"
  sleep,           \* ticks until the background job wakes up
  user,            \* user[u]: [age, schema it was stored under] or Null
  signup_session,  \* signup_session[s]: age or Null
  missed           \* history: midnights in a row without a clean-up, up to 2

file == <<schema_hash, user, signup_session>>
vars == <<hour, schemaSQLScript, schema_hash, process, sleep, user,
          signup_session, missed>>

Rows(table) == {i \in DOMAIN table : table[i] # Null}

Older(age) == IF age < MaxAge THEN age + 1 ELSE age

OneMoreMissed == IF missed < 2 THEN missed + 1 ELSE missed

\* The job has woken up at midnight.
Due == process = "running" /\ sleep = 0

-----------------------------------------------------------------------------
(* Start-up: setUpDatabase, then start. *)

Deploy(s) ==
  /\ process = "down"
  /\ schemaSQLScript' = s
  /\ process' = "starting"
  /\ UNCHANGED <<hour, file, sleep, missed>>

\* mutant: the job sleeps through the coming midnight
MidnightAfterNext(h) == 2 * Day - h

\* Ticks until the next midnight; from midnight on, a whole day.
untilNextMidnight(h) == Day - h

\* The schema of the file is that of the program: go on with the file.
StartWithFile ==
  /\ process = "starting"
  /\ schema_hash = schemaSQLScript
  /\ process' = "running"
  /\ sleep' = untilNextMidnight(hour)
  /\ UNCHANGED <<hour, schemaSQLScript, file, missed>>

\* mutant: the tables are created in the file as it is
NotTruncated == UNCHANGED <<user, signup_session>>

\* os.Create truncates the file.
Truncated ==
  /\ user' = [u \in Users |-> Null]
  /\ signup_session' = [s \in SignupSessions |-> Null]

\* Reset database file
Truncate ==
  /\ process = "starting"
  /\ schema_hash # schemaSQLScript
  /\ schema_hash' = Null
  /\ Truncated
  /\ process' = "resetting"
  /\ UNCHANGED <<hour, schemaSQLScript, sleep, missed>>

\* One transaction creates the tables and records the hash of the schema.
CreateTables ==
  /\ process = "resetting"
  /\ schema_hash' = schemaSQLScript
  /\ process' = "running"
  /\ sleep' = untilNextMidnight(hour)
  /\ UNCHANGED <<hour, schemaSQLScript, user, signup_session, missed>>

\* A panic in a handler, an error of setUpDatabase, a kill: at any moment.
Exit ==
  /\ process # "down"
  /\ process' = "down"
  /\ sleep' = 0
  /\ missed' = IF Due THEN OneMoreMissed ELSE missed
  /\ UNCHANGED <<hour, schemaSQLScript, file>>

-----------------------------------------------------------------------------
(* Requests. *)

createSignupSession(s) ==
  /\ process = "running"
  /\ signup_session[s] = Null
  /\ signup_session' = [signup_session EXCEPT ![s] = 0]
  /\ UNCHANGED <<hour, schemaSQLScript, schema_hash, process, sleep, user,
                 missed>>

\* getSignupSession refuses sessions that are a day old.
completeSignup(s, u) ==
  /\ process = "running"
  /\ signup_session[s] # Null /\ signup_session[s] < Day
  /\ user[u] = Null
  /\ user' = [user EXCEPT ![u] = [age |-> 0, schema |-> schemaSQLScript]]
  /\ signup_session' = [signup_session EXCEPT ![s] = Null]
  /\ UNCHANGED <<hour, schemaSQLScript, schema_hash, process, sleep, missed>>

-----------------------------------------------------------------------------
(* clearDataBackgroundJob. *)

\* mutant: users a day old at midnight are left for the next one
UserStrictlyOlder(age) == age > Day

\* mutant: the comparison with the threshold is turned around
UserYounger(age) == age <= Day

\* created_at <= now - 24h
UserExpired(age) == age >= Day

\* created_at <= now - 1h
SignupExpired(age) == age >= 1

cleanDatabase ==
  /\ Due
  /\ user' = [u \in Users |->
       IF user[u] # Null /\ UserExpired(user[u].age) THEN Null ELSE user[u]]
  /\ signup_session' = [s \in SignupSessions |->
       IF signup_session[s] # Null /\ SignupExpired(signup_session[s])
       THEN Null ELSE signup_session[s]]
  /\ sleep' = untilNextMidnight(hour)
  /\ missed' = 0
  /\ UNCHANGED <<hour, schemaSQLScript, schema_hash, process>>

\* The error is logged; the next attempt is at the next midnight.
cleanDatabaseFails ==
  /\ Due
  /\ sleep' = untilNextMidnight(hour)
  /\ missed' = OneMoreMissed
  /\ UNCHANGED <<hour, schemaSQLScript, file, process>>

\* The job is done, or has failed, within the hour of midnight.
Tick ==
  /\ ~Due
  /\ hour' = (hour + 1) % Day
  /\ sleep' = IF process = "running" THEN sleep - 1 ELSE sleep
  /\ user' = [u \in Users |->
       IF user[u] = Null THEN Null ELSE [user[u] EXCEPT !.age = Older(@)]]
  /\ signup_session' = [s \in SignupSessions |->
       IF signup_session[s] = Null THEN Null ELSE Older(signup_session[s])]
  /\ missed' = IF hour' = 0 /\ process # "running" THEN OneMoreMissed
               ELSE missed
  /\ UNCHANGED <<schemaSQLScript, schema_hash, process>>

-----------------------------------------------------------------------------

Init ==
  /\ hour \in 0..(Day - 1)
  /\ schemaSQLScript \in Schemas
  /\ schema_hash = Null
  /\ process = "starting"
  /\ sleep = 0
  /\ user = [u \in Users |-> Null]
  /\ signup_session = [s \in SignupSessions |-> Null]
  /\ missed = 0

Next ==
  \/ \E s \in Schemas : Deploy(s)
  \/ StartWithFile
  \/ Truncate
  \/ CreateTables
  \/ Exit
  \/ \E s \in SignupSessions : createSignupSession(s)
  \/ \E s \in SignupSessions, u \in Users : completeSignup(s, u)
  \/ cleanDatabase
  \/ cleanDatabaseFails
  \/ Tick

\* Time passes, a program that is started gets on with it, and the clean-up
\* does not fail at every midnight from some time on.
Fairness ==
  /\ WF_vars(Tick)
  /\ WF_vars(StartWithFile \/ Truncate \/ CreateTables)
  /\ SF_vars(cleanDatabase)

Spec == Init /\ [][Next]_vars /\ Fairness

-----------------------------------------------------------------------------

\* Columns, and a program that runs only on a file with its schema's tables.
TypeOK ==
  /\ hour \in 0..(Day - 1)
  /\ schemaSQLScript \in Schemas
  /\ schema_hash \in Schemas \cup {Null}
  /\ process \in {"down", "starting", "resetting", "running"}
  /\ sleep \in 0..Day
  /\ user \in [Users -> UserRow \cup {Null}]
  /\ signup_session \in [SignupSessions -> (0..MaxAge) \cup {Null}]
  /\ missed \in 0..2

\* A program that serves requests never meets a row that was stored under the
\* schema of another version, whatever crashes and deployments came before,
\* also in the middle of setUpDatabase (database.go:41-96).
SchemaMatches ==
  process = "running" =>
    /\ schema_hash = schemaSQLScript
    /\ \A u \in Rows(user) : user[u].schema = schemaSQLScript

\* Each clean-up leaves only accounts less than a day old: with no midnight
\* missed an account has seen at most one midnight and its age is below two
\* days, and each midnight that the server misses (it is down, or cleanDatabase
\* fails) adds a day and no more.
AccountsExpire ==
  ~Due /\ missed < 2 =>
    \A u \in Rows(user) : user[u].age < (missed + 1) * Day + hour

\* With no midnight missed no sign-up session is older than the day: the
\* clean-up, with its threshold of an hour, ends a sign-up before the check of
\* a day (signup.go:157) does.
SignupsExpire ==
  ~Due /\ missed = 0 =>
    \A s \in Rows(signup_session) : signup_session[s] < 1 + hour

\* README.txt:1, "All accounts older than 24 hours are automatically deleted
\* at midnight UTC": after midnight a server that runs has no account that was
\* a day old then.
DeletedAtMidnight ==
  process = "running" /\ hour > 0 =>
    \A u \in Rows(user) : user[u].age < Day + hour

\* While the server stays up every account is deleted some day, if the
\* clean-up does not fail for ever.
Expiry ==
  <>[](process = "running") => \A u \in Users : user[u] # Null ~> user[u] = Null

=============================================================================
