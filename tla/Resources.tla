----------------------------- MODULE Resources -----------------------------
(***************************************************************************)
(* What requests and the nightly job wait for: connections to the          *)
(* database, of which one may write, and turns to compute a slow hash      *)
(* (server.go, email_code.go).  What the statements do to the tables is in *)
(* Accounts; here a request is the uses it makes of what is scarce, in     *)
(* turn, and everything it does may fail.                                  *)
(*                                                                         *)
(* The pools hand a resource to whoever has waited longest.                *)
(***************************************************************************)
EXTENDS Naturals, Sequences, FiniteSets

CONSTANTS
  Workers,  \* bound: requests at a time, and the job
  Plans,    \* the uses that handlers make, in order
  NumCPU    \* runtime.NumCPU()

\* How a function uses a resource: it reads, it writes with one statement or
\* in a transaction, or it hashes.
ResourceOf ==
  [ read |-> "readConnection", write |-> "writeConnection",
    transaction |-> "writeConnection", hash |-> "cpuIntensiveSemaphore" ]

Uses == DOMAIN ResourceOf

Resources == {"readConnection", "writeConnection", "cpuIntensiveSemaphore"}

PoolSize == [r \in Resources |-> IF r = "writeConnection" THEN 1 ELSE NumCPU]

ASSUME ResourcesAssumption ==
  /\ IsFiniteSet(Workers)
  /\ Plans \subseteq Seq(Uses)
  /\ NumCPU \in Nat \ {0}

VARIABLES
  plan,   \* the uses that a worker has yet to make
  queue,  \* who waits for a resource
  held,   \* who has taken it, and not put it back
  open    \* the write connection is in a transaction

resourceVars == <<plan, queue, held, open>>

Working(w) == plan[w] # <<>>

Needs(w) == ResourceOf[Head(plan[w])]

Waits(w) == \E r \in Resources : \E i \in DOMAIN queue[r] : queue[r][i] = w

Holds(w) == \E r \in Resources : w \in held[r]

\* w is in the function that makes this use, with what it takes.
Using(w, use) ==
  /\ Working(w) /\ Head(plan[w]) = use
  /\ w \in held[ResourceOf[use]]

-----------------------------------------------------------------------------

ResourcesInit ==
  /\ plan = [w \in Workers |-> <<>>]
  /\ queue = [r \in Resources |-> <<>>]
  /\ held = [r \in Resources |-> {}]
  /\ open = FALSE

Put(w) == held' = [held EXCEPT ![Needs(w)] = @ \ {w}]

\* mutant: a return without Put
PutIfOpen(w) == IF open THEN Put(w) ELSE UNCHANGED held

\* Whatever fails, the connection goes back before the function returns.
PutAfterError(w) == Put(w)

Advance(w) == plan' = [plan EXCEPT ![w] = Tail(@)]
GiveUp(w) == plan' = [plan EXCEPT ![w] = <<>>]

\* handleRequest, or the job at midnight.
Start(w) ==
  /\ ~Working(w)
  /\ \E p \in Plans : plan' = [plan EXCEPT ![w] = p]
  /\ UNCHANGED <<queue, held, open>>

\* Take and Acquire, with a context that does not end.
Take(w) ==
  /\ Working(w) /\ ~Waits(w) /\ ~Holds(w)
  /\ queue' = [queue EXCEPT ![Needs(w)] = Append(@, w)]
  /\ UNCHANGED <<plan, held, open>>

Hand(r) ==
  /\ queue[r] # <<>> /\ Cardinality(held[r]) < PoolSize[r]
  /\ queue' = [queue EXCEPT ![r] = Tail(@)]
  /\ held' = [held EXCEPT ![r] = @ \cup {Head(queue[r])}]
  /\ UNCHANGED <<plan, open>>

\* Nothing comes of a read, of a write that is one statement, or of BEGIN.
Fail(w) ==
  /\ \E use \in Uses : Using(w, use)
  /\ Head(plan[w]) = "transaction" => ~open
  /\ Head(plan[w]) # "hash"
  /\ PutAfterError(w) /\ GiveUp(w)
  /\ UNCHANGED <<queue, open>>

\* A handler that refuses what it has read goes no further.
Use(w) ==
  /\ \E use \in Uses \ {"transaction"} : Using(w, use)
  /\ Put(w)
  /\ Advance(w) \/ GiveUp(w)
  /\ UNCHANGED <<queue, open>>

\* BEGIN IMMEDIATE, which fails within a transaction.
Begin(w) ==
  /\ Using(w, "transaction") /\ ~open
  /\ open' = TRUE
  /\ UNCHANGED <<plan, queue, held>>

Commit(w) ==
  /\ Using(w, "transaction") /\ open
  /\ open' = FALSE
  /\ Put(w) /\ Advance(w)
  /\ UNCHANGED queue

\* mutant: a return without ROLLBACK
NoRollback == UNCHANGED open

\* ROLLBACK itself fails only when SQLite has rolled back already.
Rollback == open' = FALSE

\* A statement, a check of its result, or COMMIT fails.
Abort(w) ==
  /\ Using(w, "transaction") /\ open
  /\ Rollback
  /\ PutAfterError(w) /\ GiveUp(w)
  /\ UNCHANGED queue

Step(w) ==
  Take(w) \/ Fail(w) \/ Use(w) \/ Begin(w) \/ Commit(w) \/ Abort(w)

ResourcesNext ==
  \/ \E w \in Workers : Start(w) \/ Step(w)
  \/ \E r \in Resources : Hand(r)

\* Goroutines run, statements and hashes end, and what is put back is handed
\* on; nobody has to send another request.
Fairness ==
  /\ \A w \in Workers : WF_resourceVars(Step(w))
  /\ \A r \in Resources : WF_resourceVars(Hand(r))

ResourcesSpec == ResourcesInit /\ [][ResourcesNext]_resourceVars /\ Fairness

-----------------------------------------------------------------------------

TypeOK ==
  /\ plan \in [Workers -> Seq(Uses)]
  /\ queue \in [Resources -> Seq(Workers)]
  /\ held \in [Resources -> SUBSET Workers]
  /\ open \in BOOLEAN

\* A transaction is that of the one worker who has the connection, until it is
\* over.  A connection that is put back in a transaction would fail every BEGIN
\* from then on, and no one could write any more (server.go:86).
PutBackClean ==
  open => \E w \in Workers : /\ held["writeConnection"] = {w}
                             /\ Using(w, "transaction")

\* However requests fail and whatever they wait for, each is answered: there is
\* no path that keeps a connection, and no one waits while holding what another
\* waits for (server.go:86).
EveryoneIsAnswered == \A w \in Workers : Working(w) ~> ~Working(w)
=============================================================================
