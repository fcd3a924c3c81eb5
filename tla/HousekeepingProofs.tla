------------------------ MODULE HousekeepingProofs ------------------------
(***************************************************************************)
(* Proofs of the safety properties of Housekeeping, for any number of rows *)
(* and schemas, and for days of any length.                                *)
(***************************************************************************)
EXTENDS Housekeeping, TLAPS

-----------------------------------------------------------------------------
(* The strengthenings. *)

\* Between midnights the job sleeps until the next one.
SleepsUntilMidnight ==
  process = "running" => sleep = Day - hour \/ (sleep = 0 /\ hour = 0)

\* All accounts were stored under the schema the file records.
FileConsistent ==
  /\ process = "resetting" => schema_hash = Null
  /\ process = "running" => schema_hash = schemaSQLScript
  /\ \A u \in Rows(user) : user[u].schema = schema_hash

\* AccountsExpire, and what accounts may be when the job has just woken up.
AgeBound ==
  missed < 2 =>
    \A u \in Rows(user) :
      user[u].age < (missed + 1) * Day + (IF Due THEN Day ELSE hour)

SignupAgeBound ==
  missed = 0 =>
    \A s \in Rows(signup_session) :
      signup_session[s] < (IF Due THEN Day ELSE hour) + 1

IInv ==
  /\ TypeOK
  /\ SleepsUntilMidnight
  /\ FileConsistent
  /\ AgeBound
  /\ SignupAgeBound

-----------------------------------------------------------------------------
(* Tables whose rows only age, or only go. *)

\* What Older does to an age.
LEMMA OlderBound ==
  ASSUME NEW age \in 0..MaxAge
  PROVE  Older(age) \in 0..MaxAge /\ Older(age) <= age + 1
BY DayAssumption DEF Older

\* What the counter of missed midnights does.
LEMMA MissedBound ==
  ASSUME missed \in 0..2
  PROVE  /\ OneMoreMissed \in 0..2
         /\ OneMoreMissed < 2 => OneMoreMissed = missed + 1
BY DEF OneMoreMissed

\* A row is a row, not Null.
LEMMA RowTypes ==
  ASSUME TypeOK
  PROVE  /\ \A u \in Rows(user) :
              /\ u \in Users /\ user[u] \in UserRow
              /\ user[u].age \in 0..MaxAge /\ user[u].schema \in Schemas
         /\ \A s \in Rows(signup_session) :
              s \in SignupSessions /\ signup_session[s] \in 0..MaxAge
BY DEF TypeOK, Rows, UserRow

\* The tables are empty in a file that was truncated.
LEMMA TruncatedRows ==
  ASSUME Truncated
  PROVE  /\ user' \in [Users -> UserRow \cup {Null}]
         /\ signup_session' \in [SignupSessions -> (0..MaxAge) \cup {Null}]
         /\ Rows(user)' = {} /\ Rows(signup_session)' = {}
BY DEF Truncated, Rows

\* The clock makes every row at most one tick older and adds none.
LEMMA TickRows ==
  ASSUME TypeOK, Tick
  PROVE  /\ user' \in [Users -> UserRow \cup {Null}]
         /\ signup_session' \in [SignupSessions -> (0..MaxAge) \cup {Null}]
         /\ \A u \in Rows(user)' :
              /\ u \in Rows(user)
              /\ user'[u].age <= user[u].age + 1
              /\ user'[u].schema = user[u].schema
         /\ \A s \in Rows(signup_session)' :
              /\ s \in Rows(signup_session)
              /\ signup_session'[s] <= signup_session[s] + 1
<1>1. ASSUME NEW u \in Users, user[u] # Null
      PROVE  /\ user'[u] = [user[u] EXCEPT !.age = Older(user[u].age)]
             /\ user'[u] \in UserRow
             /\ user'[u].age <= user[u].age + 1
             /\ user'[u].schema = user[u].schema
  <2>1. user[u] \in UserRow
    BY <1>1 DEF TypeOK
  <2>2. user[u].age \in 0..MaxAge
    BY <2>1 DEF UserRow
  <2>3. user'[u] = [user[u] EXCEPT !.age = Older(user[u].age)]
    BY <1>1 DEF Tick
  <2> QED
    BY <2>1, <2>2, <2>3, OlderBound DEF UserRow
<1>2. ASSUME NEW s \in SignupSessions, signup_session[s] # Null
      PROVE  /\ signup_session'[s] \in 0..MaxAge
             /\ signup_session'[s] <= signup_session[s] + 1
  <2>1. signup_session[s] \in 0..MaxAge
    BY <1>2 DEF TypeOK
  <2>2. signup_session'[s] = Older(signup_session[s])
    BY <1>2 DEF Tick
  <2> QED
    BY <2>1, <2>2, OlderBound
<1>3. /\ user' = [u \in Users |-> user'[u]]
      /\ \A u \in Users : user[u] = Null => user'[u] = Null
  BY DEF Tick
<1>4. /\ signup_session' = [s \in SignupSessions |-> signup_session'[s]]
      /\ \A s \in SignupSessions : signup_session[s] = Null => signup_session'[s] = Null
  BY DEF Tick
<1>5. user' \in [Users -> UserRow \cup {Null}]
  BY <1>1, <1>3
<1>6. signup_session' \in [SignupSessions -> (0..MaxAge) \cup {Null}]
  BY <1>2, <1>4
<1>7. DOMAIN user = Users /\ DOMAIN signup_session = SignupSessions
  BY DEF TypeOK
<1> QED
  BY <1>1, <1>2, <1>3, <1>4, <1>5, <1>6, <1>7 DEF Rows

\* The clean-up leaves the accounts and sign-ups that have not expired alone.
LEMMA CleanRows ==
  ASSUME TypeOK, cleanDatabase
  PROVE  /\ user' \in [Users -> UserRow \cup {Null}]
         /\ signup_session' \in [SignupSessions -> (0..MaxAge) \cup {Null}]
         /\ \A u \in Rows(user)' :
              u \in Rows(user) /\ user'[u] = user[u] /\ ~UserExpired(user[u].age)
         /\ \A s \in Rows(signup_session)' :
              /\ s \in Rows(signup_session)
              /\ signup_session'[s] = signup_session[s]
              /\ ~SignupExpired(signup_session[s])
BY DEF TypeOK, cleanDatabase, Rows

\* A completed sign-up adds one row of age 0.
LEMMA SignupRows ==
  ASSUME TypeOK,
         NEW s \in SignupSessions, NEW u \in Users, completeSignup(s, u)
  PROVE  /\ user' \in [Users -> UserRow \cup {Null}]
         /\ signup_session' \in [SignupSessions -> (0..MaxAge) \cup {Null}]
         /\ \A v \in Rows(user)' :
              \/ v \in Rows(user) /\ user'[v] = user[v]
              \/ user'[v] = [age |-> 0, schema |-> schemaSQLScript]
         /\ \A t \in Rows(signup_session)' :
              t \in Rows(signup_session) /\ signup_session'[t] = signup_session[t]
<1>1. [age |-> 0, schema |-> schemaSQLScript] \in UserRow
  BY DayAssumption DEF TypeOK, UserRow
<1> QED
  BY <1>1 DEF TypeOK, completeSignup, Rows

-----------------------------------------------------------------------------
(* The steps. *)

\* The hour after the next tick.
LEMMA NextHour ==
  ASSUME TypeOK
  PROVE  /\ (hour + 1) % Day = IF hour = Day - 1 THEN 0 ELSE hour + 1
         /\ untilNextMidnight(hour) \in 1..Day
<1>1. hour + 1 \in 1..Day
  BY DayAssumption DEF TypeOK
<1>2. CASE hour = Day - 1
  <2>1. Day % Day = 0
    BY DayAssumption
  <2> QED
    BY <1>1, <1>2, <2>1, DayAssumption DEF TypeOK, untilNextMidnight
<1>3. CASE hour # Day - 1
  BY <1>1, <1>3, DayAssumption DEF TypeOK, untilNextMidnight
<1> QED
  BY <1>2, <1>3

\* The strengthened invariant holds in an empty file.
LEMMA InitInvariant == Init => IInv
<1> SUFFICES ASSUME Init PROVE IInv
  OBVIOUS
<1>1. TypeOK
  BY DayAssumption DEF Init, TypeOK
<1>2. Rows(user) = {} /\ Rows(signup_session) = {}
  BY DEF Init, Rows
<1> QED
  BY <1>1, <1>2
  DEF Init, IInv, SleepsUntilMidnight, FileConsistent, AgeBound, SignupAgeBound

\* A crash: the rows stay, and a midnight may have been missed.
LEMMA ExitKeeps == IInv /\ Exit => IInv'
<1> SUFFICES ASSUME IInv, Exit PROVE IInv'
  OBVIOUS
<1>1. TypeOK'
  BY MissedBound, DayAssumption DEF IInv, TypeOK, Exit, file
<1>2. SleepsUntilMidnight' /\ FileConsistent'
  BY DEF IInv, SleepsUntilMidnight, FileConsistent, Exit, file, Rows
<1>3. Due => hour = 0
  BY DayAssumption DEF IInv, TypeOK, SleepsUntilMidnight, Due
<1>4. ~Due'
  BY DEF Exit, Due
<1>5. missed' = IF Due THEN OneMoreMissed ELSE missed
  BY DEF Exit
<1>6. AgeBound'
  <2> SUFFICES ASSUME missed' < 2, NEW u \in Rows(user)
               PROVE  user[u].age < (missed' + 1) * Day + hour
    BY <1>4 DEF AgeBound, Exit, file, Rows
  <2>1. user[u].age \in 0..MaxAge
    BY RowTypes DEF IInv
  <2>2. CASE Due
    <3>1. missed' = missed + 1 /\ missed = 0
      BY <1>5, <2>2, MissedBound DEF IInv, TypeOK
    <3>2. user[u].age < (missed + 1) * Day + Day
      BY <2>2, <3>1 DEF IInv, AgeBound
    <3> QED
      BY <1>3, <2>1, <2>2, <3>1, <3>2, DayAssumption
  <2>3. CASE ~Due
    BY <1>5, <2>3 DEF IInv, AgeBound
  <2> QED
    BY <2>2, <2>3
<1>7. SignupAgeBound'
  <2>1. missed' = 0 => missed = 0 /\ ~Due
    BY <1>5, MissedBound DEF IInv, TypeOK, OneMoreMissed
  <2> QED
    BY <1>4, <2>1 DEF IInv, SignupAgeBound, Exit, file, Rows
<1> QED
  BY <1>1, <1>2, <1>6, <1>7 DEF IInv

\* A failed clean-up: a midnight was missed.
LEMMA CleanFailsKeeps == IInv /\ cleanDatabaseFails => IInv'
<1> SUFFICES ASSUME IInv, cleanDatabaseFails PROVE IInv'
  OBVIOUS
<1>1. hour = 0 /\ Due
  BY DayAssumption
  DEF IInv, TypeOK, SleepsUntilMidnight, Due, cleanDatabaseFails
<1>2. sleep' = Day /\ hour' = 0 /\ ~Due'
  BY <1>1, DayAssumption DEF cleanDatabaseFails, untilNextMidnight, Due
<1>3. TypeOK'
  BY <1>2, MissedBound, DayAssumption DEF IInv, TypeOK, cleanDatabaseFails, file
<1>4. SleepsUntilMidnight' /\ FileConsistent'
  BY <1>1, <1>2, DayAssumption
  DEF IInv, SleepsUntilMidnight, FileConsistent, cleanDatabaseFails, file, Rows
<1>5. missed' = OneMoreMissed
  BY DEF cleanDatabaseFails
<1>6. AgeBound'
  <2> SUFFICES ASSUME missed' < 2, NEW u \in Rows(user)
               PROVE  user[u].age < (missed' + 1) * Day + hour'
    BY <1>2 DEF AgeBound, cleanDatabaseFails, file, Rows
  <2>1. user[u].age \in 0..MaxAge
    BY RowTypes DEF IInv
  <2>2. missed' = missed + 1 /\ missed = 0
    BY <1>5, MissedBound DEF IInv, TypeOK
  <2>3. user[u].age < (missed + 1) * Day + Day
    BY <1>1, <2>2 DEF IInv, AgeBound
  <2> QED
    BY <1>2, <2>1, <2>2, <2>3, DayAssumption
<1>7. SignupAgeBound'
  BY <1>5 DEF IInv, TypeOK, SignupAgeBound, OneMoreMissed
<1> QED
  BY <1>3, <1>4, <1>6, <1>7 DEF IInv

\* A clean-up: what is left is less than a day, or an hour, old.
LEMMA CleanKeeps == IInv /\ cleanDatabase => IInv'
<1> SUFFICES ASSUME IInv, cleanDatabase PROVE IInv'
  OBVIOUS
<1>1. hour = 0
  BY DayAssumption DEF IInv, TypeOK, SleepsUntilMidnight, Due, cleanDatabase
<1>2. sleep' = Day /\ hour' = 0 /\ missed' = 0 /\ ~Due'
  BY <1>1, DayAssumption DEF cleanDatabase, untilNextMidnight, Due
<1>3. TypeOK'
  BY <1>2, CleanRows, DayAssumption DEF IInv, TypeOK, cleanDatabase
<1>4. SleepsUntilMidnight'
  BY <1>2, DayAssumption DEF SleepsUntilMidnight
<1>5. FileConsistent'
  BY CleanRows DEF IInv, FileConsistent, cleanDatabase
<1>6. AgeBound'
  <2> SUFFICES ASSUME NEW u \in Rows(user)' PROVE user'[u].age < Day
    BY <1>2, DayAssumption DEF AgeBound
  <2>1. u \in Rows(user) /\ user'[u] = user[u] /\ ~UserExpired(user[u].age)
    BY CleanRows DEF IInv
  <2>2. user[u].age \in 0..MaxAge
    BY <2>1, RowTypes DEF IInv
  <2> QED
    BY <2>1, <2>2, DayAssumption DEF UserExpired
<1>7. SignupAgeBound'
  <2> SUFFICES ASSUME NEW s \in Rows(signup_session)' PROVE signup_session'[s] < 1
    BY <1>2, DayAssumption DEF SignupAgeBound
  <2>1. /\ s \in Rows(signup_session)
        /\ signup_session'[s] = signup_session[s]
        /\ ~SignupExpired(signup_session[s])
    BY CleanRows DEF IInv
  <2>2. signup_session[s] \in 0..MaxAge
    BY <2>1, RowTypes DEF IInv
  <2> QED
    BY <2>1, <2>2, DayAssumption DEF SignupExpired
<1> QED
  BY <1>3, <1>4, <1>5, <1>6, <1>7 DEF IInv

\* A tick: rows get one tick older, as does the day, and a midnight at which
\* the server does not run is missed.
LEMMA TickKeeps == IInv /\ Tick => IInv'
<1> SUFFICES ASSUME IInv, Tick PROVE IInv'
  OBVIOUS
<1> USE DayAssumption
<1>1. /\ hour \in 0..(Day - 1) /\ missed \in 0..2 /\ sleep \in 0..Day
      /\ hour' = IF hour = Day - 1 THEN 0 ELSE hour + 1
  BY NextHour DEF IInv, TypeOK, Tick
<1>2. process = "running" => sleep = Day - hour
  BY DEF IInv, SleepsUntilMidnight, Tick, Due
<1>3. missed' = IF hour' = 0 /\ process # "running" THEN OneMoreMissed ELSE missed
  BY DEF Tick
<1>4. sleep' = IF process = "running" THEN sleep - 1 ELSE sleep
  BY DEF Tick
<1>5. process' = process /\ schema_hash' = schema_hash
      /\ schemaSQLScript' = schemaSQLScript
  BY DEF Tick
<1>6. TypeOK'
  BY <1>1, <1>2, <1>3, <1>4, <1>5, MissedBound, TickRows DEF IInv, TypeOK
<1>7. SleepsUntilMidnight'
  BY <1>1, <1>2, <1>4, <1>5 DEF SleepsUntilMidnight
<1>8. FileConsistent'
  BY <1>5, TickRows DEF IInv, FileConsistent
<1>9. Due' <=> process = "running" /\ hour' = 0
  BY <1>1, <1>2, <1>4, <1>5 DEF Due
<1>10. ~Due
  BY DEF Tick
<1>11. AgeBound'
  <2> SUFFICES ASSUME missed' < 2, NEW u \in Rows(user)'
               PROVE  user'[u].age < (missed' + 1) * Day
                                     + (IF Due' THEN Day ELSE hour')
    BY DEF AgeBound
  <2>1. u \in Rows(user) /\ user'[u].age <= user[u].age + 1
    BY TickRows DEF IInv
  <2>2. user[u].age \in 0..MaxAge /\ user'[u].age \in 0..MaxAge
    BY <2>1, <1>6, RowTypes, TickRows DEF IInv, TypeOK, UserRow, Rows
  <2>3. missed < 2
    BY <1>1, <1>3, MissedBound DEF OneMoreMissed
  <2>4. user[u].age < (missed + 1) * Day + hour
    BY <1>10, <2>1, <2>3 DEF IInv, AgeBound
  <2>5. CASE hour' = 0 /\ process # "running"
    <3>1. missed' = 1 /\ missed = 0
      BY <1>1, <1>3, <2>5, MissedBound
    <3> QED
      BY <1>1, <1>9, <2>1, <2>2, <2>4, <2>5, <3>1
  <2>6. CASE hour' = 0 /\ process = "running"
    <3>1. missed' = missed /\ hour = Day - 1 /\ Due'
      BY <1>1, <1>3, <1>9, <2>6
    <3>2. CASE missed = 0
      BY <1>1, <2>1, <2>2, <2>4, <3>1, <3>2
    <3>3. CASE missed = 1
      BY <1>1, <2>1, <2>2, <2>4, <3>1, <3>3
    <3> QED
      BY <1>1, <2>3, <3>2, <3>3
  <2>7. CASE hour' # 0
    <3>1. missed' = missed /\ hour' = hour + 1 /\ ~Due'
      BY <1>1, <1>3, <1>9, <2>7
    <3>2. CASE missed = 0
      BY <1>1, <2>1, <2>2, <2>4, <3>1, <3>2
    <3>3. CASE missed = 1
      BY <1>1, <2>1, <2>2, <2>4, <3>1, <3>3
    <3> QED
      BY <1>1, <2>3, <3>2, <3>3
  <2> QED
    BY <2>5, <2>6, <2>7
<1>12. SignupAgeBound'
  <2> SUFFICES ASSUME missed' = 0, NEW s \in Rows(signup_session)'
               PROVE  signup_session'[s] < (IF Due' THEN Day ELSE hour') + 1
    BY DEF SignupAgeBound
  <2>1. s \in Rows(signup_session) /\ signup_session'[s] <= signup_session[s] + 1
    BY TickRows DEF IInv
  <2>2. signup_session[s] \in 0..MaxAge /\ signup_session'[s] \in 0..MaxAge
    BY <2>1, <1>6, RowTypes, TickRows DEF IInv, TypeOK, Rows
  <2>3. missed = 0 /\ (hour' = 0 => process = "running")
    BY <1>1, <1>3, MissedBound DEF OneMoreMissed
  <2>4. signup_session[s] < hour + 1
    BY <1>10, <2>1, <2>3 DEF IInv, SignupAgeBound
  <2> QED
    BY <1>1, <1>9, <2>1, <2>2, <2>3, <2>4
<1> QED
  BY <1>6, <1>7, <1>8, <1>11, <1>12 DEF IInv

\* Start-up: the program goes on with the file, or empties it first.
LEMMA StartKeeps ==
  IInv /\ ((\E s \in Schemas : Deploy(s)) \/ StartWithFile \/ Truncate \/ CreateTables)
    => IInv'
<1> SUFFICES ASSUME IInv PROVE
      /\ \A s \in Schemas : Deploy(s) => IInv'
      /\ StartWithFile \/ Truncate \/ CreateTables => IInv'
  OBVIOUS
<1>1. /\ hour \in 0..(Day - 1) /\ untilNextMidnight(hour) \in 1..Day
      /\ untilNextMidnight(hour) = Day - hour
  BY NextHour DEF IInv, TypeOK, untilNextMidnight
<1>2. ASSUME NEW s \in Schemas, Deploy(s) PROVE IInv'
  <2>1. ~Due /\ ~Due' /\ file' = file /\ hour' = hour /\ missed' = missed
    BY <1>2 DEF Deploy, Due
  <2>2. TypeOK'
    BY <1>2 DEF IInv, TypeOK, Deploy, file
  <2>3. SleepsUntilMidnight' /\ FileConsistent'
    BY <1>2 DEF IInv, SleepsUntilMidnight, FileConsistent, Deploy, file, Rows
  <2>4. AgeBound' /\ SignupAgeBound'
    BY <2>1 DEF IInv, AgeBound, SignupAgeBound, file, Rows
  <2> QED
    BY <2>2, <2>3, <2>4 DEF IInv
<1>3. ASSUME StartWithFile PROVE IInv'
  <2>1. ~Due /\ ~Due' /\ file' = file /\ hour' = hour /\ missed' = missed
    BY <1>1, <1>3 DEF StartWithFile, Due
  <2>2. TypeOK'
    BY <1>1, <1>3 DEF IInv, TypeOK, StartWithFile, file
  <2>3. SleepsUntilMidnight' /\ FileConsistent'
    BY <1>1, <1>3
    DEF IInv, SleepsUntilMidnight, FileConsistent, StartWithFile, file, Rows
  <2>4. AgeBound' /\ SignupAgeBound'
    BY <2>1 DEF IInv, AgeBound, SignupAgeBound, file, Rows
  <2> QED
    BY <2>2, <2>3, <2>4 DEF IInv
<1>4. ASSUME Truncate PROVE IInv'
  <2>1. Truncated
    BY <1>4 DEF Truncate
  <2>2. TypeOK'
    BY <1>4, <2>1, TruncatedRows DEF IInv, TypeOK, Truncate
  <2>3. SleepsUntilMidnight' /\ FileConsistent'
    BY <1>4, <2>1, TruncatedRows
    DEF IInv, SleepsUntilMidnight, FileConsistent, Truncate
  <2>4. AgeBound' /\ SignupAgeBound'
    BY <2>1, TruncatedRows DEF AgeBound, SignupAgeBound
  <2> QED
    BY <2>2, <2>3, <2>4 DEF IInv
<1>5. ASSUME CreateTables PROVE IInv'
  <2>1. /\ ~Due /\ ~Due' /\ hour' = hour /\ missed' = missed
        /\ user' = user /\ signup_session' = signup_session
    BY <1>1, <1>5 DEF CreateTables, Due
  <2>2. TypeOK'
    BY <1>1, <1>5 DEF IInv, TypeOK, CreateTables
  <2>3. SleepsUntilMidnight'
    BY <1>1, <1>5 DEF SleepsUntilMidnight, CreateTables
  <2>4. Rows(user) = {}
    <3>1. schema_hash = Null /\ Null \notin Schemas
      BY <1>5, NullAssumption DEF IInv, FileConsistent, CreateTables
    <3> QED
      BY <3>1, RowTypes DEF IInv, FileConsistent
  <2>5. FileConsistent'
    BY <1>5, <2>1, <2>4 DEF FileConsistent, CreateTables, Rows
  <2>6. AgeBound' /\ SignupAgeBound'
    BY <2>1 DEF IInv, AgeBound, SignupAgeBound, Rows
  <2> QED
    BY <2>2, <2>3, <2>5, <2>6 DEF IInv
<1> QED
  BY <1>2, <1>3, <1>4, <1>5

\* Requests: new rows have age 0 and the schema of the file.
LEMMA RequestsKeep ==
  /\ IInv /\ (\E s \in SignupSessions : createSignupSession(s)) => IInv'
  /\ IInv /\ (\E s \in SignupSessions, u \in Users : completeSignup(s, u)) => IInv'
<1> SUFFICES ASSUME IInv, NEW s \in SignupSessions
             PROVE  /\ createSignupSession(s) => IInv'
                    /\ \A u \in Users : completeSignup(s, u) => IInv'
  OBVIOUS
<1> USE DayAssumption
<1>1. ASSUME createSignupSession(s) PROVE IInv'
  <2>1. /\ user' = user /\ missed' = missed /\ hour' = hour /\ (Due' <=> Due)
    BY <1>1 DEF createSignupSession, Due
  <2>2. \A t \in Rows(signup_session)' :
          \/ t \in Rows(signup_session) /\ signup_session'[t] = signup_session[t]
          \/ signup_session'[t] = 0
    BY <1>1 DEF IInv, TypeOK, createSignupSession, Rows
  <2>3. TypeOK'
    BY <1>1 DEF IInv, TypeOK, createSignupSession
  <2>4. SleepsUntilMidnight' /\ FileConsistent'
    BY <1>1
    DEF IInv, SleepsUntilMidnight, FileConsistent, createSignupSession, Rows
  <2>5. AgeBound'
    BY <2>1 DEF IInv, AgeBound, Rows
  <2>6. SignupAgeBound'
    BY <2>1, <2>2 DEF IInv, TypeOK, SignupAgeBound
  <2> QED
    BY <2>3, <2>4, <2>5, <2>6 DEF IInv
<1>2. ASSUME NEW u \in Users, completeSignup(s, u) PROVE IInv'
  <2>1. /\ missed' = missed /\ hour' = hour /\ (Due' <=> Due)
        /\ schema_hash' = schema_hash /\ schemaSQLScript' = schemaSQLScript
        /\ schema_hash = schemaSQLScript /\ process' = process /\ sleep' = sleep
    BY <1>2 DEF IInv, FileConsistent, completeSignup, Due
  <2>2. \A v \in Rows(user)' :
          \/ v \in Rows(user) /\ user'[v] = user[v]
          \/ user'[v] = [age |-> 0, schema |-> schemaSQLScript]
    BY <1>2, SignupRows DEF IInv
  <2>3. TypeOK'
    BY <1>2, <2>1, SignupRows DEF IInv, TypeOK
  <2>4. SleepsUntilMidnight'
    BY <2>1 DEF IInv, SleepsUntilMidnight
  <2>5. FileConsistent'
    BY <2>1, <2>2 DEF IInv, FileConsistent
  <2>6. AgeBound'
    <3> SUFFICES ASSUME missed < 2, NEW v \in Rows(user)'
                 PROVE  user'[v].age < (missed + 1) * Day
                                       + (IF Due THEN Day ELSE hour)
      BY <2>1 DEF AgeBound
    <3>1. CASE v \in Rows(user) /\ user'[v] = user[v]
      BY <3>1 DEF IInv, AgeBound
    <3>2. CASE user'[v] = [age |-> 0, schema |-> schemaSQLScript]
      <4>1. missed = 0 \/ missed = 1
        BY DEF IInv, TypeOK
      <4> QED
        BY <3>2, <4>1 DEF IInv, TypeOK
    <3> QED
      BY <2>2, <3>1, <3>2
  <2>7. SignupAgeBound'
    BY <1>2, <2>1, SignupRows DEF IInv, SignupAgeBound
  <2> QED
    BY <2>3, <2>4, <2>5, <2>6, <2>7 DEF IInv
<1> QED
  BY <1>1, <1>2

\* Every step keeps the strengthened invariant.
LEMMA NextInvariant == IInv /\ [Next]_vars => IInv'
<1> SUFFICES ASSUME IInv, [Next]_vars PROVE IInv'
  OBVIOUS
<1>1. CASE Next
  BY <1>1, StartKeeps, ExitKeeps, RequestsKeep, CleanKeeps, CleanFailsKeeps,
     TickKeeps DEF Next
<1>2. CASE UNCHANGED vars
  BY <1>2
  DEF IInv, TypeOK, SleepsUntilMidnight, FileConsistent, AgeBound,
      SignupAgeBound, Due, Rows, vars, file
<1> QED
  BY <1>1, <1>2

\* The strengthened invariant holds for ever.
LEMMA Invariant == Spec => []IInv
BY InitInvariant, NextInvariant, PTL DEF Spec

-----------------------------------------------------------------------------
(* The theorems. *)

\* Rows keep their columns, and the job's sleep stays within a day.
THEOREM FileTypeCorrect == Spec => []TypeOK
<1>1. IInv => TypeOK
  BY DEF IInv
<1> QED
  BY <1>1, Invariant, PTL

\* A program that serves requests has only rows stored under its own schema,
\* also after crashes in the middle of setUpDatabase.
THEOREM RunsOnItsSchema == Spec => []SchemaMatches
<1>1. IInv => SchemaMatches
  BY DEF IInv, FileConsistent, SchemaMatches
<1> QED
  BY <1>1, Invariant, PTL

\* The ages of accounts are bounded by the midnights that were missed.
THEOREM AccountsGetNoOlder == Spec => []AccountsExpire
<1>1. IInv => AccountsExpire
  BY DEF IInv, AgeBound, AccountsExpire
<1> QED
  BY <1>1, Invariant, PTL

\* With no midnight missed a sign-up session is never from before midnight.
THEOREM SignupsGetNoOlder == Spec => []SignupsExpire
<1>1. IInv => SignupsExpire
  <2> SUFFICES ASSUME IInv, ~Due, missed = 0, NEW s \in Rows(signup_session)
               PROVE  signup_session[s] < 1 + hour
    BY DEF SignupsExpire
  <2>1. signup_session[s] < hour + 1
    BY DEF IInv, SignupAgeBound
  <2> QED
    BY <2>1, RowTypes DEF IInv, TypeOK
<1> QED
  BY <1>1, Invariant, PTL

=============================================================================
