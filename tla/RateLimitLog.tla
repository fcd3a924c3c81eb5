---------------------------- MODULE RateLimitLog ----------------------------
(***************************************************************************)
(* RateLimit with a history: what each bucket let through since it was     *)
(* made.  The history is not part of the program; it is what the           *)
(* properties about time are stated with.                                  *)
(***************************************************************************)
EXTENDS RateLimit, Sequences

VARIABLE log  \* log[k]: the times read by the calls that bucket k let through

\* A Consume of key k that read the time at now returns in this step.
Returns(k, now) ==
  \E c \in Callers : call[c] = [key |-> k, now |-> now] /\ call'[c] = NoCall

LogInit == Init /\ log = [k \in Keys |-> <<>>]

LogNext ==
  /\ Next
  /\ log' = [k \in Keys |->
       IF limit'.nodes[k] = nil THEN <<>>
       ELSE IF \E t \in 0..clock : Returns(k, t) /\ Allowed(k, t)
       THEN Append(log[k], CHOOSE t \in 0..clock : Returns(k, t))
       ELSE log[k]]

LogSpec == LogInit /\ [][LogNext]_<<vars, log>>

\* The calls let through whose times are from a to b.
Through(times, a, b) == {i \in DOMAIN times : times[i] \in a..b}

\* What a bucket lets through, counted by the times the calls read, in any
\* window of time: fewer than a full bucket, what is refilled in the window and
\* one more.  However long calls wait for the mutex and in whatever order they
\* get it, the limit is not exceeded.
WindowLimit ==
  \A k \in Keys : \A a \in 0..clock : \A b \in a..clock :
    refillInterval * Cardinality(Through(log[k], a, b))
      < refillInterval * (maxTokenCount + 1) + (b - a)

\* Nobody is denied for nothing: when a call is denied, its bucket let another
\* one through less than an interval before, not counting the time that calls
\* wait for the mutex.  In particular, to ask again and again while the bucket
\* is empty does not keep it empty.
DeniedOnlyAfterUse ==
  [][ \A k \in Keys, t \in 0..clock :
        Returns(k, t) /\ ~Allowed(k, t) =>
          \E i \in DOMAIN log[k] :
            log[k][i] + refillInterval + MaxDelay > t
    ]_<<vars, log>>
=============================================================================
