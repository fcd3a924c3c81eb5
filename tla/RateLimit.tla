----------------------------- MODULE RateLimit -----------------------------
(***************************************************************************)
(* A rate limit (ratelimit/limit.go): a bucket of tokens per key, at most  *)
(* maxItemCount buckets, the least recently used one making room for a new *)
(* one.  Buckets hang in a doubly linked list from oldestNode to           *)
(* newestNode and in a map from their keys.                                *)
(*                                                                         *)
(* A pointer to a bucket is represented by the bucket's key.  That is      *)
(* exact as long as every pointer is nil or points to a bucket in the map, *)
(* which ListOK states.                                                    *)
(*                                                                         *)
(* Consume reads the time before it takes the mutex; in between other      *)
(* calls take it and time passes.  What is done under the mutex is one     *)
(* step.  Each of the server's five limits is such a limit, on its own.    *)
(***************************************************************************)
EXTENDS Integers, FiniteSets

CONSTANTS
  Callers,         \* goroutines that call Consume
  Keys,            \* user ids, email addresses or client addresses
  nil,
  maxItemCount,
  maxTokenCount,
  refillInterval,
  MaxTime,         \* bound: clock ticks
  MaxDelay         \* bound: ticks a call waits for the mutex

\* NewLimit panics on other values.
ASSUME NewLimitAssumption ==
  /\ maxItemCount \in Nat \ {0}
  /\ maxTokenCount \in Nat \ {0}
  /\ refillInterval \in Nat \ {0}

ASSUME TimeAssumption == MaxTime \in Nat /\ MaxDelay \in Nat

VARIABLES
  clock,
  limit,  \* [nodes, newestNode, oldestNode]; nodes[k] is nil when k has none
  call    \* call[c]: the key and the time read by a Consume before its Lock

vars == <<clock, limit, call>>

bucketNode ==
  [newerNode : Keys \union {nil}, olderNode : Keys \union {nil},
   tokenCount : Int, lastRefilledAt : Int]

ASSUME NilAssumption == nil \notin Keys \union bucketNode

NoCall == [key |-> nil, now |-> 0]

Items(l) == {k \in Keys : l.nodes[k] # nil}

emptyLimit ==
  [nodes |-> [k \in Keys |-> nil], newestNode |-> nil, oldestNode |-> nil]

-----------------------------------------------------------------------------
(* The list. *)

\* Nothing but the new ends is updated when there is one bucket only.
Evicted(l) ==
  IF l.newestNode = l.oldestNode
  THEN [nodes |-> [l.nodes EXCEPT ![l.oldestNode] = nil],
        newestNode |-> nil, oldestNode |-> nil]
  ELSE LET newer == l.nodes[l.oldestNode].newerNode
       IN [l EXCEPT !.nodes = [@ EXCEPT ![newer].olderNode = nil,
                                        ![l.oldestNode] = nil],
                    !.oldestNode = newer]

\* Bucket b of key k becomes the newest.
Pushed(l, k, b) ==
  [nodes |-> [j \in Keys |->
     IF j = k THEN [b EXCEPT !.newerNode = nil, !.olderNode = l.newestNode]
     ELSE IF j = l.newestNode THEN [l.nodes[j] EXCEPT !.newerNode = k]
     ELSE l.nodes[j]],
   newestNode |-> k,
   oldestNode |-> IF l.oldestNode = nil THEN k ELSE l.oldestNode]

\* mutant: the older neighbour is not told
NewerJoined(nodes, newer, older) ==
  [j \in Keys |-> IF j = newer THEN [nodes[j] EXCEPT !.olderNode = older]
                  ELSE nodes[j]]

\* The neighbours newer and older, where there are any, of a bucket point to
\* each other.
Joined(nodes, newer, older) ==
  [j \in Keys |-> IF j = newer THEN [nodes[j] EXCEPT !.olderNode = older]
                  ELSE IF j = older THEN [nodes[j] EXCEPT !.newerNode = newer]
                  ELSE nodes[j]]

LostOldest(l, k, newer) == l.oldestNode  \* mutant: oldestNode is not advanced

OldestWithout(l, k, newer) == IF k = l.oldestNode THEN newer ELSE l.oldestNode

\* A bucket that is used moves to the newest end.
Moved(l, k) ==
  LET newer == l.nodes[k].newerNode
      older == IF k = l.oldestNode THEN nil ELSE l.nodes[k].olderNode
  IN IF k = l.newestNode THEN l
     ELSE Pushed([l EXCEPT !.nodes = Joined(@, newer, older),
                           !.oldestNode = OldestWithout(l, k, newer)],
                 k, l.nodes[k])

Removed(l, k) ==
  LET newer == l.nodes[k].newerNode
      older == l.nodes[k].olderNode
  IN [nodes |-> [Joined(l.nodes, newer, older) EXCEPT ![k] = nil],
      newestNode |-> IF k = l.newestNode THEN older ELSE l.newestNode,
      oldestNode |-> OldestWithout(l, k, newer)]

-----------------------------------------------------------------------------
(* The tokens. *)

\* Division of durations truncates towards zero.
Quotient(a, b) == IF a >= 0 THEN a \div b ELSE -((-a) \div b)

\* mutant: the refill is not capped
SumOfTokens(count) == count

CappedTokens(count) == IF count > maxTokenCount THEN maxTokenCount ELSE count

\* mutant: the time that has not yet made a whole token is lost at each call
RefillTimeNow(b, n, now) == now

\* Only whole intervals are used up.
RefillTime(b, n, now) == b.lastRefilledAt + refillInterval * n

Refilled(b, now) ==
  LET n == Quotient(now - b.lastRefilledAt, refillInterval)
  IN [b EXCEPT !.tokenCount = CappedTokens(@ + n),
               !.lastRefilledAt = RefillTime(b, n, now)]

Taken(b) == [b EXCEPT !.tokenCount = IF @ < 1 THEN @ ELSE @ - 1]

NewBucket(now) == [newerNode |-> nil, olderNode |-> nil,
                   tokenCount |-> maxTokenCount - 1, lastRefilledAt |-> now]

\* What Consume returns.
Allowed(k, now) ==
  \/ limit.nodes[k] = nil
  \/ Refilled(limit.nodes[k], now).tokenCount >= 1

-----------------------------------------------------------------------------

\* now := time.Now()
CallConsume(c, k) ==
  /\ call[c] = NoCall
  /\ call' = [call EXCEPT ![c] = [key |-> k, now |-> clock]]
  /\ UNCHANGED <<clock, limit>>

ConsumeNew(c) ==
  LET k == call[c].key
      room == IF Cardinality(Items(limit)) = maxItemCount
              THEN Evicted(limit) ELSE limit
  IN /\ call[c] # NoCall
     /\ limit.nodes[k] = nil
     /\ limit' = Pushed(room, k, NewBucket(call[c].now))
     /\ call' = [call EXCEPT ![c] = NoCall]
     /\ UNCHANGED clock

\* A call that is denied counts as a use of the bucket, too.
ConsumeKnown(c) ==
  LET k == call[c].key
  IN /\ call[c] # NoCall
     /\ limit.nodes[k] # nil
     /\ limit' = Moved([limit EXCEPT !.nodes[k] =
                          Taken(Refilled(@, call[c].now))], k)
     /\ call' = [call EXCEPT ![c] = NoCall]
     /\ UNCHANGED clock

Consume(c) == ConsumeNew(c) \/ ConsumeKnown(c)

Delete(k) ==
  /\ limit.nodes[k] # nil
  /\ limit' = Removed(limit, k)
  /\ UNCHANGED <<clock, call>>

\* The background job, at midnight.
Clear ==
  /\ limit' = emptyLimit
  /\ UNCHANGED <<clock, call>>

Tick ==
  /\ clock < MaxTime
  /\ \A c \in Callers : call[c] # NoCall => clock - call[c].now < MaxDelay
  /\ clock' = clock + 1
  /\ UNCHANGED <<limit, call>>

Init ==
  /\ clock = 0
  /\ limit = emptyLimit
  /\ call = [c \in Callers |-> NoCall]

Next ==
  \/ \E c \in Callers, k \in Keys : CallConsume(c, k)
  \/ \E c \in Callers : Consume(c)
  \/ \E k \in Keys : Delete(k)
  \/ Clear
  \/ Tick

Spec == Init /\ [][Next]_vars

-----------------------------------------------------------------------------
(* Properties. *)

\* The fields have their types, and a call leaves no bucket full.
TypeOK ==
  /\ clock \in 0..MaxTime
  /\ limit.nodes \in [Keys -> bucketNode \union {nil}]
  /\ limit.newestNode \in Keys \union {nil}
  /\ limit.oldestNode \in Keys \union {nil}
  /\ call \in [Callers -> [key : Keys \union {nil}, now : Nat]]
  /\ \A c \in Callers : call[c].key = nil => call[c] = NoCall
  /\ \A k \in Items(limit) : limit.nodes[k].tokenCount < maxTokenCount

\* The list has two ends, every bucket of the map is an end or has a neighbour
\* on that side, and neighbours point to each other.
Linked(l) ==
  /\ l.newestNode \in Items(l) \union {nil}
  /\ l.oldestNode \in Items(l) \union {nil}
  /\ l.newestNode = nil <=> Items(l) = {}
  /\ l.oldestNode = nil <=> Items(l) = {}
  /\ \A k \in Items(l) :
       LET b == l.nodes[k]
       IN /\ b.newerNode = nil <=> k = l.newestNode
          /\ b.olderNode = nil <=> k = l.oldestNode
          /\ b.newerNode # nil => /\ b.newerNode \in Items(l)
                                  /\ l.nodes[b.newerNode].olderNode = k
          /\ b.olderNode # nil => /\ b.olderNode \in Items(l)
                                  /\ l.nodes[b.olderNode].newerNode = k

\* No pointer dangles and no pointer that Consume or Delete follows without a
\* check is nil, after any sequence of calls that push, move, evict and remove
\* buckets (limit.go:51-72, 85-100, 122-137).
ListOK == Linked(limit)

NewerThan(l, k) == IF k \in Items(l) THEN l.nodes[k].newerNode ELSE nil

\* The keys along the list of l, from oldestNode on.
OrderOf(l) ==
  LET n == Cardinality(Items(l))
      At[i \in 1..n] ==
        IF i = 1 THEN l.oldestNode ELSE NewerThan(l, At[i - 1])
  IN [i \in 1..n |-> At[i]]

Order == OrderOf(limit)

Recency == INSTANCE LeastRecentlyUsed WITH order <- Order

\* Along the list are the keys of the map in the order of their last use; a
\* new key takes the place of the least recently used one when, and only when,
\* there are maxItemCount keys.
KeepsRecency == Recency!OrderSpec
=============================================================================
