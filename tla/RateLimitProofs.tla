-------------------------- MODULE RateLimitProofs --------------------------
(***************************************************************************)
(* Proofs about RateLimit, for any keys, callers, limits and delays of the *)
(* callers: the pointers of the list are sound, its keys are in the order  *)
(* of their last use, no call leaves a bucket full, no window of time lets *)
(* more through than the limit, and whoever is denied has used up the      *)
(* tokens.                                                                 *)
(***************************************************************************)
EXTENDS RateLimitLog, FiniteSetTheorems, SequenceTheorems, TLAPS

\* A limit, with any pointers.
LimitRecord ==
  [nodes : [Keys -> bucketNode \union {nil}],
   newestNode : Keys \union {nil}, oldestNode : Keys \union {nil}]

\* The list visits the buckets in the order of their ranks: newerNode is the
\* bucket of the next rank.  Linked alone allows a cycle of buckets that no end
\* of the list reaches, and is not inductive.
Ranked(l, rank) ==
  /\ rank \in [Keys -> Int]
  /\ \A j, k \in Items(l) : rank[j] = rank[k] => j = k
  /\ \A k \in Items(l) :
       /\ rank[l.oldestNode] <= rank[k] /\ rank[k] <= rank[l.newestNode]
       /\ k # l.newestNode => rank[k] < rank[l.nodes[k].newerNode]
  /\ \A j, k \in Items(l) :
       rank[k] < rank[j] => rank[l.nodes[k].newerNode] <= rank[j]

Sound(l) ==
  /\ l \in LimitRecord
  /\ Linked(l)
  /\ \E rank \in [Keys -> Int] : Ranked(l, rank)

CallsOK ==
  /\ call \in [Callers -> [key : Keys \union {nil}, now : Nat]]
  /\ \A c \in Callers : call[c].key = nil => call[c] = NoCall

\* No bucket has more tokens than a full one.
NoneFull(l) == \A k \in Items(l) : l.nodes[k].tokenCount < maxTokenCount

SameTokens(b, d) ==
  /\ b.tokenCount = d.tokenCount
  /\ b.lastRefilledAt = d.lastRefilledAt

\* The buckets of m, but those of the keys K, are buckets of l with the same
\* tokens.
TokensKept(l, m, K) ==
  \A j \in Items(m) \ K : j \in Items(l) /\ SameTokens(m.nodes[j], l.nodes[j])

IInv == clock \in 0..MaxTime /\ CallsOK /\ Sound(limit) /\ NoneFull(limit)

-----------------------------------------------------------------------------
(* The operations on the list. *)

\* nil is not a bucket, so buckets are what Items lists.
LEMMA ItemsOf ==
  ASSUME NEW l \in LimitRecord
  PROVE  /\ nil \notin Items(l)
         /\ \A k \in Keys : k \in Items(l) <=> l.nodes[k] # nil
         /\ \A k \in Items(l) : k \in Keys /\ l.nodes[k] \in bucketNode
BY NilAssumption DEF Items, LimitRecord

\* Taking a bucket out of the list.
LEMMA RemovedOK ==
  ASSUME NEW l, Sound(l), NEW k \in Items(l)
  PROVE  /\ Sound(Removed(l, k))
         /\ Items(Removed(l, k)) = Items(l) \ {k}
         /\ NoneFull(l) => NoneFull(Removed(l, k))
         /\ k # l.newestNode => Removed(l, k).newestNode = l.newestNode
         /\ TokensKept(l, Removed(l, k), {})
<1> DEFINE newer == l.nodes[k].newerNode
           older == l.nodes[k].olderNode
           m == Removed(l, k)
<1>1. l \in LimitRecord /\ Linked(l)
  BY DEF Sound
<1>2. PICK rank \in [Keys -> Int] : Ranked(l, rank)
  BY DEF Sound
<1>3. /\ nil \notin Items(l)
      /\ \A j \in Items(l) : j \in Keys /\ l.nodes[j] \in bucketNode
      /\ \A j \in Keys : j \in Items(l) <=> l.nodes[j] # nil
  BY <1>1, ItemsOf
<1>4. /\ newer \in Items(l) \union {nil} /\ (newer = nil <=> k = l.newestNode)
      /\ older \in Items(l) \union {nil} /\ (older = nil <=> k = l.oldestNode)
      /\ newer # nil => l.nodes[newer].olderNode = k
      /\ older # nil => l.nodes[older].newerNode = k
  BY <1>1 DEF Linked
<1>5. newer # nil => rank[k] < rank[newer]
  BY <1>2, <1>4 DEF Ranked
<1>6. older # nil => rank[older] < rank[k]
  BY <1>1, <1>2, <1>3, <1>4 DEF Ranked, Linked
<1>7. newer # k /\ older # k /\ (newer = older => newer = nil)
  BY <1>2, <1>3, <1>4, <1>5, <1>6
<1>8. /\ m.nodes = [Joined(l.nodes, newer, older) EXCEPT ![k] = nil]
      /\ m.newestNode = IF k = l.newestNode THEN older ELSE l.newestNode
      /\ m.oldestNode = IF k = l.oldestNode THEN newer ELSE l.oldestNode
  BY DEF Removed, OldestWithout
<1>9. ASSUME NEW j \in Keys, j # k
      PROVE  /\ l.nodes[j] = nil => m.nodes[j] = nil
             /\ l.nodes[j] # nil =>
                  /\ m.nodes[j] \in bucketNode
                  /\ m.nodes[j].newerNode =
                       IF j = older THEN newer ELSE l.nodes[j].newerNode
                  /\ m.nodes[j].olderNode =
                       IF j = newer THEN older ELSE l.nodes[j].olderNode
                  /\ SameTokens(m.nodes[j], l.nodes[j])
  <2>1. m.nodes[j] = IF j = newer THEN [l.nodes[j] EXCEPT !.olderNode = older]
                     ELSE IF j = older THEN [l.nodes[j] EXCEPT !.newerNode = newer]
                     ELSE l.nodes[j]
    BY <1>8, <1>9 DEF Joined
  <2>2. newer \in Keys \union {nil} /\ older \in Keys \union {nil}
    BY <1>3, <1>4
  <2>3. CASE l.nodes[j] = nil
    BY <1>3, <1>4, <2>1, <2>3, NilAssumption
  <2>4. CASE l.nodes[j] # nil
    <3>1. l.nodes[j] \in bucketNode
      BY <1>3, <2>4
    <3>2. CASE j = newer
      <4>1. j # older
        BY <1>3, <1>7, <2>4, <3>2, NilAssumption
      <4> QED
        BY <2>1, <2>2, <2>4, <3>1, <3>2, <4>1 DEF bucketNode, SameTokens
    <3>3. CASE j = older /\ j # newer
      BY <2>1, <2>2, <2>4, <3>1, <3>3 DEF bucketNode, SameTokens
    <3>4. CASE j # older /\ j # newer
      BY <2>1, <2>4, <3>1, <3>4 DEF SameTokens
    <3> QED
      BY <3>2, <3>3, <3>4
  <2> QED
    BY <2>3, <2>4
<1>10. m.nodes[k] = nil /\ DOMAIN m.nodes = Keys
  BY <1>3, <1>8 DEF Joined
<1>11. Items(m) = Items(l) \ {k}
  <2>1. \A j \in Keys : j \in Items(m) <=> m.nodes[j] # nil
    BY DEF Items
  <2>2. \A j \in Items(m) : j \in Keys
    BY DEF Items
  <2>3. \A j \in Keys \ {k} : m.nodes[j] # nil <=> l.nodes[j] # nil
    BY <1>9, NilAssumption
  <2> QED
    BY <1>3, <1>10, <2>1, <2>2, <2>3
<1>12. m \in LimitRecord
  <2>1. m.nodes \in [Keys -> bucketNode \union {nil}]
    <3>1. m.nodes = [j \in Keys |-> m.nodes[j]]
      BY <1>8 DEF Joined
    <3>2. \A j \in Keys : m.nodes[j] \in bucketNode \union {nil}
      BY <1>9, <1>10
    <3> QED
      BY <3>1, <3>2
  <2>2. m.newestNode \in Keys \union {nil} /\ m.oldestNode \in Keys \union {nil}
    BY <1>1, <1>3, <1>4, <1>8 DEF LimitRecord
  <2> QED
    BY <2>1, <2>2 DEF LimitRecord, Removed
<1>13. k = l.newestNode /\ k = l.oldestNode <=> Items(l) = {k}
  BY <1>1, <1>2, <1>3 DEF Ranked, Linked
<1>14. Linked(m)
  <2>1. /\ m.newestNode \in Items(m) \union {nil}
        /\ m.oldestNode \in Items(m) \union {nil}
    BY <1>1, <1>4, <1>7, <1>8, <1>11 DEF Linked
  <2>2. /\ m.newestNode = nil <=> Items(m) = {}
        /\ m.oldestNode = nil <=> Items(m) = {}
    BY <1>1, <1>3, <1>4, <1>8, <1>11, <1>13, <2>1 DEF Linked
  <2>3. ASSUME NEW j \in Items(m)
        PROVE  /\ m.nodes[j].newerNode = nil <=> j = m.newestNode
               /\ m.nodes[j].olderNode = nil <=> j = m.oldestNode
    BY <1>1, <1>3, <1>4, <1>7, <1>8, <1>9, <1>11 DEF Linked
  <2>4. ASSUME NEW j \in Items(m), m.nodes[j].newerNode # nil
        PROVE  /\ m.nodes[j].newerNode \in Items(m)
               /\ m.nodes[m.nodes[j].newerNode].olderNode = j
    <3>1. j \in Items(l) /\ j # k /\ j \in Keys /\ l.nodes[j] # nil
      BY <1>3, <1>11
    <3>2. CASE j = older
      BY <1>3, <1>4, <1>7, <1>9, <1>11, <2>4, <3>1, <3>2
    <3>3. CASE j # older
      <4> DEFINE i == l.nodes[j].newerNode
      <4>1. m.nodes[j].newerNode = i /\ i # nil
        BY <1>9, <2>4, <3>1, <3>3
      <4>2. i \in Items(l) /\ l.nodes[i].olderNode = j
        BY <1>1, <3>1, <4>1 DEF Linked
      <4>3. i # k /\ i # newer
        BY <1>4, <3>1, <3>3, <4>1, <4>2
      <4> QED
        BY <1>3, <1>9, <1>11, <4>1, <4>2, <4>3
    <3> QED
      BY <3>2, <3>3
  <2>5. ASSUME NEW j \in Items(m), m.nodes[j].olderNode # nil
        PROVE  /\ m.nodes[j].olderNode \in Items(m)
               /\ m.nodes[m.nodes[j].olderNode].newerNode = j
    <3>1. j \in Items(l) /\ j # k /\ j \in Keys /\ l.nodes[j] # nil
      BY <1>3, <1>11
    <3>2. CASE j = newer
      BY <1>3, <1>4, <1>7, <1>9, <1>11, <2>5, <3>1, <3>2
    <3>3. CASE j # newer
      <4> DEFINE i == l.nodes[j].olderNode
      <4>1. m.nodes[j].olderNode = i /\ i # nil
        BY <1>9, <2>5, <3>1, <3>3
      <4>2. i \in Items(l) /\ l.nodes[i].newerNode = j
        BY <1>1, <3>1, <4>1 DEF Linked
      <4>3. i # k /\ i # older
        BY <1>4, <3>1, <3>3, <4>1, <4>2
      <4> QED
        BY <1>3, <1>9, <1>11, <4>1, <4>2, <4>3
    <3> QED
      BY <3>2, <3>3
  <2> QED
    BY <2>1, <2>2, <2>3, <2>4, <2>5 DEF Linked
<1>15. Ranked(m, rank)
  <2>1. \A i, j \in Items(m) : rank[i] = rank[j] => i = j
    BY <1>2, <1>11 DEF Ranked
  <2>2. ASSUME NEW j \in Items(m), NEW i \in Items(m), rank[j] < rank[i]
        PROVE  rank[m.nodes[j].newerNode] <= rank[i]
    <3>1. j \in Items(l) /\ i \in Items(l) /\ i # k /\ j # k /\ j \in Keys
      BY <1>3, <1>11
    <3>2. CASE j = older
      <4>1. rank[k] <= rank[i]
        BY <1>2, <1>3, <1>4, <2>2, <3>1, <3>2 DEF Ranked
      <4>2. rank[k] < rank[i]
        BY <1>2, <1>3, <3>1, <4>1 DEF Ranked
      <4> QED
        BY <1>2, <1>3, <1>9, <3>1, <3>2, <4>2 DEF Ranked
    <3>3. CASE j # older
      BY <1>2, <1>3, <1>9, <2>2, <3>1, <3>3 DEF Ranked
    <3> QED
      BY <3>2, <3>3
  <2>3. ASSUME NEW j \in Items(m), j # m.newestNode
        PROVE  rank[j] < rank[m.nodes[j].newerNode]
    <3>1. j \in Items(l) /\ j # k /\ j \in Keys
      BY <1>3, <1>11
    <3>2. CASE j = older
      <4>1. newer # nil
        BY <1>4, <1>8, <2>3, <3>2
      <4> QED
        BY <1>2, <1>3, <1>4, <1>5, <1>6, <1>9, <3>1, <3>2, <4>1
    <3>3. CASE j # older
      <4>1. j # l.newestNode
        BY <1>8, <2>3, <3>1
      <4> QED
        BY <1>2, <1>3, <1>9, <3>1, <3>3, <4>1 DEF Ranked
    <3> QED
      BY <3>2, <3>3
  <2>4. ASSUME NEW j \in Items(m) PROVE rank[j] <= rank[m.newestNode]
    <3>1. j \in Items(l) /\ j # k /\ j \in Keys
      BY <1>3, <1>11
    <3>2. CASE k = l.newestNode
      <4>1. older # nil
        BY <1>4, <1>13, <3>1, <3>2
      <4>2. older \in Keys /\ k \in Keys
        BY <1>3, <1>4, <4>1
      <4>3. rank[j] \in Int /\ rank[older] \in Int /\ rank[k] \in Int
        BY <1>2, <3>1, <4>2
      <4>4. ~(rank[older] < rank[j])
        <5>1. rank[older] < rank[j] => rank[k] <= rank[j]
          BY <1>2, <1>4, <3>1, <4>1 DEF Ranked
        <5>2. rank[j] <= rank[k] /\ rank[j] # rank[k]
          BY <1>2, <3>1, <3>2 DEF Ranked
        <5> QED
          BY <4>3, <5>1, <5>2
      <4> QED
        BY <1>8, <3>2, <4>3, <4>4
    <3>3. CASE k # l.newestNode
      BY <1>2, <1>8, <3>1, <3>3 DEF Ranked
    <3> QED
      BY <3>2, <3>3
  <2>5. ASSUME NEW j \in Items(m) PROVE rank[m.oldestNode] <= rank[j]
    <3>1. j \in Items(l) /\ j # k /\ j \in Keys
      BY <1>3, <1>11
    <3>2. CASE k = l.oldestNode
      <4>1. rank[k] <= rank[j] /\ rank[k] # rank[j]
        BY <1>2, <3>1, <3>2 DEF Ranked
      <4>2. rank[k] < rank[j]
        BY <1>2, <1>3, <3>1, <4>1
      <4> QED
        BY <1>2, <1>8, <3>1, <3>2, <4>2 DEF Ranked
    <3>3. CASE k # l.oldestNode
      BY <1>2, <1>8, <3>1, <3>3 DEF Ranked
    <3> QED
      BY <3>2, <3>3
  <2> QED
    BY <1>2, <2>1, <2>2, <2>3, <2>4, <2>5 DEF Ranked
<1>16. NoneFull(l) => NoneFull(m)
  BY <1>3, <1>9, <1>11 DEF NoneFull, SameTokens
<1>17. TokensKept(l, m, {})
  BY <1>3, <1>9, <1>11 DEF TokensKept
<1> QED
  BY <1>8, <1>11, <1>12, <1>14, <1>15, <1>16, <1>17, <1>2 DEF Sound

\* Putting a bucket in as the newest.
LEMMA PushedOK ==
  ASSUME NEW l, Sound(l), NEW k \in Keys, k \notin Items(l), NEW b \in bucketNode
  PROVE  /\ Sound(Pushed(l, k, b))
         /\ NoneFull(l) /\ b.tokenCount < maxTokenCount
              => NoneFull(Pushed(l, k, b))
         /\ TokensKept(l, Pushed(l, k, b), {k})
         /\ SameTokens(Pushed(l, k, b).nodes[k], b)
         /\ Items(Pushed(l, k, b)) = Items(l) \union {k}
<1> DEFINE m == Pushed(l, k, b)
           newest == l.newestNode
<1>1. l \in LimitRecord /\ Linked(l)
  BY DEF Sound
<1>2. PICK old \in [Keys -> Int] : Ranked(l, old)
  BY DEF Sound
<1>3. /\ nil \notin Items(l) /\ k # nil
      /\ \A j \in Items(l) : j \in Keys /\ l.nodes[j] \in bucketNode
      /\ \A j \in Keys : j \in Items(l) <=> l.nodes[j] # nil
  BY <1>1, ItemsOf, NilAssumption
<1>4. /\ newest \in Items(l) \union {nil} /\ newest # k
      /\ newest = nil <=> Items(l) = {}
      /\ l.oldestNode = nil <=> Items(l) = {}
      /\ l.oldestNode \in Items(l) \union {nil} /\ l.oldestNode # k
  BY <1>1, <1>3 DEF Linked
<1>5. /\ m.newestNode = k
      /\ m.oldestNode = IF l.oldestNode = nil THEN k ELSE l.oldestNode
      /\ m.nodes = [j \in Keys |-> m.nodes[j]]
      /\ m.nodes[k] = [b EXCEPT !.newerNode = nil, !.olderNode = newest]
  BY DEF Pushed
<1>6. /\ m.nodes[k] \in bucketNode /\ m.nodes[k].newerNode = nil
      /\ m.nodes[k].olderNode = newest /\ SameTokens(m.nodes[k], b)
  BY <1>3, <1>4, <1>5 DEF bucketNode, SameTokens
<1>7. ASSUME NEW j \in Keys, j # k
      PROVE  /\ l.nodes[j] = nil => m.nodes[j] = nil
             /\ l.nodes[j] # nil =>
                  /\ m.nodes[j] \in bucketNode
                  /\ m.nodes[j].newerNode =
                       IF j = newest THEN k ELSE l.nodes[j].newerNode
                  /\ m.nodes[j].olderNode = l.nodes[j].olderNode
                  /\ SameTokens(m.nodes[j], l.nodes[j])
  <2>1. m.nodes[j] = IF j = newest THEN [l.nodes[j] EXCEPT !.newerNode = k]
                     ELSE l.nodes[j]
    BY <1>7 DEF Pushed
  <2>2. CASE l.nodes[j] = nil
    BY <1>3, <1>4, <2>1, <2>2, NilAssumption
  <2>3. CASE l.nodes[j] # nil
    <3>1. l.nodes[j] \in bucketNode
      BY <1>3, <2>3
    <3> QED
      BY <2>1, <2>3, <3>1 DEF bucketNode, SameTokens
  <2> QED
    BY <2>2, <2>3
<1>8. Items(m) = Items(l) \union {k}
  <2>1. \A j \in Keys : j \in Items(m) <=> m.nodes[j] # nil
    BY DEF Items
  <2>2. \A j \in Items(m) : j \in Keys
    BY DEF Items
  <2>3. \A j \in Keys \ {k} : m.nodes[j] # nil <=> l.nodes[j] # nil
    BY <1>7, NilAssumption
  <2> QED
    BY <1>3, <1>6, <2>1, <2>2, <2>3, NilAssumption
<1>9. m \in LimitRecord
  <2>1. m.nodes \in [Keys -> bucketNode \union {nil}]
    BY <1>5, <1>6, <1>7
  <2>2. m.newestNode \in Keys \union {nil} /\ m.oldestNode \in Keys \union {nil}
    BY <1>1, <1>5 DEF LimitRecord
  <2> QED
    BY <2>1, <2>2 DEF LimitRecord, Pushed
<1>10. Linked(m)
  <2>1. /\ m.newestNode \in Items(m) \union {nil}
        /\ m.oldestNode \in Items(m) \union {nil}
        /\ m.newestNode = nil <=> Items(m) = {}
        /\ m.oldestNode = nil <=> Items(m) = {}
    BY <1>3, <1>4, <1>5, <1>8
  <2>2. ASSUME NEW j \in Items(m)
        PROVE  /\ m.nodes[j].newerNode = nil <=> j = m.newestNode
               /\ m.nodes[j].olderNode = nil <=> j = m.oldestNode
    <3>1. CASE j = k
      BY <1>3, <1>4, <1>5, <1>6, <3>1
    <3>2. CASE j # k
      BY <1>1, <1>3, <1>4, <1>5, <1>7, <1>8, <3>2 DEF Linked
    <3> QED
      BY <3>1, <3>2
  <2>3. ASSUME NEW j \in Items(m), m.nodes[j].newerNode # nil
        PROVE  /\ m.nodes[j].newerNode \in Items(m)
               /\ m.nodes[m.nodes[j].newerNode].olderNode = j
    <3>1. j \in Items(l) /\ j # k /\ j \in Keys /\ l.nodes[j] # nil
      BY <1>3, <1>6, <1>8, <2>3
    <3>2. CASE j = newest
      BY <1>6, <1>7, <1>8, <3>1, <3>2
    <3>3. CASE j # newest
      <4> DEFINE i == l.nodes[j].newerNode
      <4>1. m.nodes[j].newerNode = i /\ i # nil
        BY <1>7, <2>3, <3>1, <3>3
      <4>2. i \in Items(l) /\ l.nodes[i].olderNode = j
        BY <1>1, <3>1, <4>1 DEF Linked
      <4>3. i \in Keys /\ i # k /\ l.nodes[i] # nil
        BY <1>3, <4>2
      <4> QED
        BY <1>7, <1>8, <4>1, <4>2, <4>3
    <3> QED
      BY <3>2, <3>3
  <2>4. ASSUME NEW j \in Items(m), m.nodes[j].olderNode # nil
        PROVE  /\ m.nodes[j].olderNode \in Items(m)
               /\ m.nodes[m.nodes[j].olderNode].newerNode = j
    <3>1. CASE j = k
      <4>1. newest # nil /\ m.nodes[j].olderNode = newest
        BY <1>6, <2>4, <3>1
      <4>2. newest \in Items(l) /\ newest \in Keys /\ l.nodes[newest] # nil
        BY <1>3, <1>4, <4>1
      <4> QED
        BY <1>4, <1>7, <1>8, <3>1, <4>1, <4>2
    <3>2. CASE j # k
      <4> DEFINE i == l.nodes[j].olderNode
      <4>1. j \in Items(l) /\ j \in Keys /\ l.nodes[j] # nil
        BY <1>3, <1>8, <3>2
      <4>2. m.nodes[j].olderNode = i /\ i # nil
        BY <1>7, <2>4, <3>2, <4>1
      <4>3. i \in Items(l) /\ l.nodes[i].newerNode = j
        BY <1>1, <4>1, <4>2 DEF Linked
      <4>4. i \in Keys /\ i # k /\ l.nodes[i] # nil
        BY <1>3, <4>3
      <4>5. i # newest
        BY <1>1, <1>3, <4>1, <4>3 DEF Linked
      <4> QED
        BY <1>7, <1>8, <4>2, <4>3, <4>4, <4>5
    <3> QED
      BY <3>1, <3>2
  <2> QED
    BY <2>1, <2>2, <2>3, <2>4 DEF Linked
<1>11. PICK rank \in [Keys -> Int] : Ranked(m, rank)
  <2> DEFINE top == IF newest = nil THEN 0 ELSE old[newest] + 1
             new == [old EXCEPT ![k] = top]
  <2>1. top \in Int
    BY <1>3, <1>4
  <2>2. /\ new \in [Keys -> Int] /\ new[k] = top
        /\ \A j \in Items(l) : new[j] = old[j] /\ new[j] \in Int
    BY <1>3, <2>1
  <2>3. \A j \in Items(l) : new[j] < top
    BY <1>2, <1>3, <1>4, <2>2 DEF Ranked
  <2>4. \A i, j \in Items(m) : new[i] = new[j] => i = j
    BY <1>2, <1>8, <2>1, <2>2, <2>3 DEF Ranked
  <2>5. ASSUME NEW j \in Items(m)
        PROVE  new[m.oldestNode] <= new[j] /\ new[j] <= new[m.newestNode]
    <3>1. new[j] <= new[m.newestNode]
      BY <1>5, <1>8, <2>1, <2>2, <2>3
    <3>2. CASE l.oldestNode = nil
      BY <1>4, <1>5, <1>8, <2>1, <2>2, <3>2
    <3>3. CASE l.oldestNode # nil
      <4>1. l.oldestNode \in Items(l) /\ m.oldestNode = l.oldestNode
        BY <1>4, <1>5, <3>3
      <4>2. CASE j = k
        BY <2>1, <2>2, <2>3, <3>1, <4>1, <4>2
      <4>3. CASE j # k
        BY <1>2, <1>8, <2>2, <3>1, <4>1, <4>3 DEF Ranked
      <4> QED
        BY <4>2, <4>3
    <3> QED
      BY <3>1, <3>2, <3>3
  <2>6. ASSUME NEW j \in Items(m), j # m.newestNode
        PROVE  new[j] < new[m.nodes[j].newerNode]
    <3>1. j \in Items(l) /\ j # k /\ j \in Keys /\ l.nodes[j] # nil
      BY <1>3, <1>5, <1>8, <2>6
    <3>2. CASE j = newest
      BY <1>7, <2>2, <2>3, <3>1, <3>2
    <3>3. CASE j # newest
      <4>1. l.nodes[j].newerNode \in Items(l)
        BY <1>1, <3>1, <3>3 DEF Linked
      <4> QED
        BY <1>2, <1>7, <2>2, <3>1, <3>3, <4>1 DEF Ranked
    <3> QED
      BY <3>2, <3>3
  <2>7. ASSUME NEW j \in Items(m), NEW i \in Items(m), new[j] < new[i]
        PROVE  new[m.nodes[j].newerNode] <= new[i]
    <3>1. j # k
      BY <1>8, <2>1, <2>2, <2>3, <2>7
    <3>2. j \in Items(l) /\ j \in Keys /\ l.nodes[j] # nil
      BY <1>3, <1>8, <3>1
    <3>3. CASE j = newest
      <4>1. i = k
        BY <1>2, <1>8, <2>2, <2>7, <3>2, <3>3 DEF Ranked
      <4> QED
        BY <1>7, <2>1, <2>2, <3>1, <3>2, <3>3, <4>1
    <3>4. CASE j # newest
      <4>1. l.nodes[j].newerNode \in Items(l)
            /\ m.nodes[j].newerNode = l.nodes[j].newerNode
        BY <1>1, <1>7, <3>1, <3>2, <3>4 DEF Linked
      <4>2. CASE i = k
        BY <2>1, <2>2, <2>3, <4>1, <4>2
      <4>3. CASE i # k
        BY <1>2, <1>8, <2>2, <2>7, <3>2, <4>1, <4>3 DEF Ranked
      <4> QED
        BY <4>2, <4>3
    <3> QED
      BY <3>3, <3>4
  <2>8. Ranked(m, new)
    <3> HIDE DEF new, m
    <3> QED
      BY <2>2, <2>4, <2>5, <2>6, <2>7 DEF Ranked
  <2> QED
    BY <2>2, <2>8
<1>12. NoneFull(l) /\ b.tokenCount < maxTokenCount => NoneFull(m)
  BY <1>3, <1>6, <1>7, <1>8 DEF NoneFull, SameTokens
<1>13. TokensKept(l, m, {k})
  BY <1>3, <1>7, <1>8 DEF TokensKept
<1> QED
  BY <1>6, <1>8, <1>9, <1>10, <1>11, <1>12, <1>13 DEF Sound

\* Evicting is removing the oldest bucket.
LEMMA EvictedIsRemoved ==
  ASSUME NEW l, Sound(l), Items(l) # {}
  PROVE  /\ l.oldestNode \in Items(l)
         /\ Evicted(l) = Removed(l, l.oldestNode)
<1> DEFINE k == l.oldestNode
           newer == l.nodes[k].newerNode
<1>1. l \in LimitRecord /\ Linked(l)
  BY DEF Sound
<1>2. nil \notin Items(l) /\ \A j \in Items(l) : j \in Keys
  BY <1>1, ItemsOf
<1>3. k \in Items(l) /\ k \in Keys /\ k # nil
  BY <1>1, <1>2 DEF Linked
<1>4. /\ l.nodes[k].olderNode = nil
      /\ newer = nil <=> k = l.newestNode
      /\ newer # nil => newer \in Keys
  BY <1>1, <1>2, <1>3 DEF Linked
<1>5. DOMAIN l.nodes = Keys /\ l.nodes = [j \in Keys |-> l.nodes[j]]
  BY <1>1 DEF LimitRecord
<1>6. nil \notin Keys
  BY NilAssumption
<1>7. CASE k = l.newestNode
  <2>1. Joined(l.nodes, newer, nil) = l.nodes
    BY <1>4, <1>5, <1>6, <1>7 DEF Joined
  <2> QED
    BY <1>3, <1>4, <1>7, <2>1 DEF Evicted, Removed, OldestWithout
<1>8. CASE k # l.newestNode
  <2>1. newer # nil /\ newer \in Keys /\ newer # k
    <3>1. newer # k
      <4>1. PICK rank \in [Keys -> Int] : Ranked(l, rank)
        BY DEF Sound
      <4>2. rank[k] < rank[newer] /\ rank[k] \in Int
        BY <1>3, <1>8, <4>1 DEF Ranked
      <4> QED
        BY <4>2
    <3> QED
      BY <1>4, <1>8, <3>1
  <2>2. [Joined(l.nodes, newer, nil) EXCEPT ![k] = nil] =
          [l.nodes EXCEPT ![newer].olderNode = nil, ![k] = nil]
    BY <1>3, <1>5, <1>6, <2>1 DEF Joined
  <2>3. Evicted(l) =
          [l EXCEPT !.nodes = [l.nodes EXCEPT ![newer].olderNode = nil, ![k] = nil],
                    !.oldestNode = newer]
    BY <1>8 DEF Evicted
  <2>4. Removed(l, k) =
          [nodes |-> [l.nodes EXCEPT ![newer].olderNode = nil, ![k] = nil],
           newestNode |-> l.newestNode, oldestNode |-> newer]
    BY <1>4, <1>8, <2>2 DEF Removed, OldestWithout
  <2> HIDE DEF newer
  <2> QED
    BY <1>1, <1>3, <2>3, <2>4 DEF LimitRecord
<1> QED
  BY <1>3, <1>7, <1>8

\* Moving a bucket is removing it and putting it in again.
LEMMA MovedIsPushed ==
  ASSUME NEW l, Sound(l), NEW k \in Items(l), k # l.newestNode
  PROVE  Moved(l, k) = Pushed(Removed(l, k), k, l.nodes[k])
<1> DEFINE newer == l.nodes[k].newerNode
           older == l.nodes[k].olderNode
           x == [l EXCEPT !.nodes = Joined(l.nodes, newer, older),
                          !.oldestNode = OldestWithout(l, k, newer)]
           y == Removed(l, k)
<1>1. l \in LimitRecord /\ Linked(l) /\ k \in Keys
  BY ItemsOf DEF Sound
<1>2. k = l.oldestNode => older = nil
  BY <1>1 DEF Linked
<1>3. Moved(l, k) = Pushed(x, k, l.nodes[k])
  BY <1>2 DEF Moved
<1>4. /\ x.newestNode = y.newestNode /\ x.oldestNode = y.oldestNode
      /\ \A j \in Keys : j # k => x.nodes[j] = y.nodes[j]
  BY <1>1 DEF Removed, Joined, LimitRecord
<1>5. Pushed(x, k, l.nodes[k]) = Pushed(y, k, l.nodes[k])
  <2> HIDE DEF x, y
  <2> QED
    BY <1>4 DEF Pushed
<1> QED
  BY <1>3, <1>5

\* Changing the tokens of a bucket leaves the list as it is.
LEMMA TokensOK ==
  ASSUME NEW l, Sound(l), NoneFull(l), NEW k \in Items(l),
         NEW b \in bucketNode, b.tokenCount < maxTokenCount,
         b.newerNode = l.nodes[k].newerNode, b.olderNode = l.nodes[k].olderNode
  PROVE  /\ Sound([l EXCEPT !.nodes[k] = b])
         /\ NoneFull([l EXCEPT !.nodes[k] = b])
         /\ Items([l EXCEPT !.nodes[k] = b]) = Items(l)
         /\ TokensKept(l, [l EXCEPT !.nodes[k] = b], {k})
<1> DEFINE m == [l EXCEPT !.nodes[k] = b]
<1>1. /\ l \in LimitRecord /\ Linked(l) /\ k \in Keys
      /\ \A j \in Items(l) : j \in Keys
  BY ItemsOf DEF Sound
<1>2. /\ m \in LimitRecord
      /\ m.newestNode = l.newestNode /\ m.oldestNode = l.oldestNode
      /\ m.nodes = [l.nodes EXCEPT ![k] = b]
  BY <1>1 DEF LimitRecord
<1>3. \A j \in Keys :
        m.nodes[j] = IF j = k THEN b ELSE l.nodes[j]
  BY <1>1, <1>2 DEF LimitRecord
<1>4. l.nodes[k] # nil /\ b # nil
  BY NilAssumption DEF Items
<1> HIDE DEF m
<1>5. Items(m) = Items(l)
  BY <1>3, <1>4 DEF Items
<1>6. \A j \in Items(l) :
        /\ m.nodes[j].newerNode = l.nodes[j].newerNode
        /\ m.nodes[j].olderNode = l.nodes[j].olderNode
  BY <1>1, <1>3
<1>7. Linked(m)
  BY <1>1, <1>2, <1>5, <1>6 DEF Linked
<1>8. PICK rank \in [Keys -> Int] : Ranked(l, rank)
  BY DEF Sound
<1>9. Ranked(m, rank)
  BY <1>2, <1>5, <1>6, <1>8 DEF Ranked
<1>10. NoneFull(m)
  BY <1>1, <1>3, <1>5 DEF NoneFull
<1>11. TokensKept(l, m, {k})
  BY <1>1, <1>3, <1>5 DEF TokensKept, SameTokens
<1> QED
  BY <1>2, <1>5, <1>7, <1>8, <1>9, <1>10, <1>11 DEF Sound, m

\* Refilling and taking a token leaves the pointers, and does not overfill.
LEMMA BucketUsed ==
  ASSUME NEW b \in bucketNode, NEW now \in Nat
  PROVE  /\ Taken(Refilled(b, now)) \in bucketNode
         /\ Taken(Refilled(b, now)).tokenCount < maxTokenCount
         /\ Taken(Refilled(b, now)).newerNode = b.newerNode
         /\ Taken(Refilled(b, now)).olderNode = b.olderNode
<1> DEFINE n == Quotient(now - b.lastRefilledAt, refillInterval)
           r == Refilled(b, now)
<1>1. /\ refillInterval \in Int /\ refillInterval > 0
      /\ maxTokenCount \in Int /\ maxTokenCount >= 1
  BY NewLimitAssumption
<1>2. b.lastRefilledAt \in Int /\ b.tokenCount \in Int
  BY DEF bucketNode
<1>3. n \in Int
  <2>1. \A a \in Int : a \div refillInterval \in Int
    BY <1>1
  <2> QED
    BY <1>2, <2>1 DEF Quotient
<1>4. /\ CappedTokens(b.tokenCount + n) \in Int
      /\ CappedTokens(b.tokenCount + n) <= maxTokenCount
      /\ RefillTime(b, n, now) \in Int
  <2> HIDE DEF n
  <2>1. refillInterval * n \in Int
    BY <1>1, <1>3
  <2> QED
    BY <1>1, <1>2, <1>3, <2>1 DEF CappedTokens, RefillTime
<1>5. r = [b EXCEPT !.tokenCount = CappedTokens(b.tokenCount + n),
                    !.lastRefilledAt = RefillTime(b, n, now)]
  BY DEF Refilled
<1>6. /\ r \in bucketNode /\ r.tokenCount <= maxTokenCount
      /\ r.newerNode = b.newerNode /\ r.olderNode = b.olderNode
  <2> HIDE DEF n, r
  <2> QED
    BY <1>4, <1>5 DEF bucketNode
<1> HIDE DEF r
<1> QED
  BY <1>1, <1>6 DEF Taken, bucketNode, r

-----------------------------------------------------------------------------
(* The steps. *)

\* An empty limit is sound.
LEMMA EmptySound == Sound(emptyLimit) /\ NoneFull(emptyLimit)
<1>1. emptyLimit \in LimitRecord
  BY DEF emptyLimit, LimitRecord
<1>2. Items(emptyLimit) = {}
  BY DEF emptyLimit, Items
<1>3. Linked(emptyLimit)
  BY <1>2 DEF Linked, emptyLimit
<1>4. [k \in Keys |-> 0] \in [Keys -> Int]
  OBVIOUS
<1>5. Ranked(emptyLimit, [k \in Keys |-> 0])
  BY <1>2, <1>4 DEF Ranked
<1> QED
  BY <1>1, <1>2, <1>3, <1>4, <1>5 DEF Sound, NoneFull

\* Consume of a key without a bucket, when there is room or not.
LEMMA ConsumeNewKeeps ==
  ASSUME IInv, NEW c \in Callers, ConsumeNew(c)
  PROVE  /\ Sound(limit') /\ NoneFull(limit')
         /\ TokensKept(limit, limit', {call[c].key})
         /\ SameTokens(limit'.nodes[call[c].key], NewBucket(call[c].now))
<1> DEFINE k == call[c].key
           room == IF Cardinality(Items(limit)) = maxItemCount
                   THEN Evicted(limit) ELSE limit
           b == NewBucket(call[c].now)
<1>1. k \in Keys /\ call[c].now \in Nat
  BY DEF IInv, CallsOK, ConsumeNew, NoCall
<1>2. b \in bucketNode /\ b.tokenCount < maxTokenCount
  BY <1>1, NewLimitAssumption DEF NewBucket, bucketNode
<1>3. /\ Sound(room) /\ NoneFull(room) /\ Items(room) \subseteq Items(limit)
      /\ TokensKept(limit, room, {})
  <2>1. CASE Cardinality(Items(limit)) = maxItemCount
    <3>1. Items(limit) # {}
      BY <2>1, FS_EmptySet, NewLimitAssumption
    <3>2. /\ room = Removed(limit, limit.oldestNode)
          /\ limit.oldestNode \in Items(limit)
      BY <2>1, <3>1, EvictedIsRemoved DEF IInv
    <3> QED
      BY <3>2, RemovedOK DEF IInv
  <2>2. CASE Cardinality(Items(limit)) # maxItemCount
    BY <2>2 DEF IInv, TokensKept, SameTokens
  <2> QED
    BY <2>1, <2>2
<1>4. k \notin Items(limit)
  BY DEF ConsumeNew, Items
<1>5. limit' = Pushed(room, k, b)
  BY DEF ConsumeNew
<1> HIDE DEF room, k, b
<1>6. k \notin Items(room)
  BY <1>3, <1>4
<1>7. /\ Sound(limit') /\ NoneFull(limit')
      /\ TokensKept(room, limit', {k}) /\ SameTokens(limit'.nodes[k], b)
  BY <1>1, <1>2, <1>3, <1>5, <1>6, PushedOK
<1>8. TokensKept(limit, limit', {k})
  BY <1>3, <1>7 DEF TokensKept, SameTokens
<1> QED
  BY <1>7, <1>8 DEF k, b

\* Consume of a key with a bucket.
LEMMA ConsumeKnownKeeps ==
  ASSUME IInv, NEW c \in Callers, ConsumeKnown(c)
  PROVE  LET k == call[c].key
         IN /\ Sound(limit') /\ NoneFull(limit')
            /\ TokensKept(limit, limit', {k})
            /\ k \in Items(limit')
            /\ SameTokens(limit'.nodes[k],
                          Taken(Refilled(limit.nodes[k], call[c].now)))
<1> DEFINE k == call[c].key
           b == Taken(Refilled(limit.nodes[k], call[c].now))
           l == [limit EXCEPT !.nodes[k] = b]
<1>1. k \in Keys /\ call[c].now \in Nat
  BY DEF IInv, CallsOK, ConsumeKnown, NoCall
<1>2. k \in Items(limit) /\ limit.nodes[k] \in bucketNode
  BY <1>1, ItemsOf DEF IInv, Sound, ConsumeKnown
<1>3. /\ b \in bucketNode /\ b.tokenCount < maxTokenCount
      /\ b.newerNode = limit.nodes[k].newerNode
      /\ b.olderNode = limit.nodes[k].olderNode
  BY <1>1, <1>2, BucketUsed
<1>4. limit' = Moved(l, k)
  BY DEF ConsumeKnown
<1> HIDE DEF b, k
<1>5. /\ Sound(l) /\ NoneFull(l) /\ k \in Items(l)
      /\ TokensKept(limit, l, {k})
  BY <1>2, <1>3, TokensOK DEF IInv
<1>6. l.nodes[k] = b
  BY <1>1 DEF IInv, Sound, LimitRecord
<1> HIDE DEF l
<1>7. CASE k = l.newestNode
  <2>1. limit' = l
    BY <1>4, <1>7 DEF Moved
  <2> QED
    BY <1>5, <1>6, <2>1 DEF SameTokens, k, b
<1>8. CASE k # l.newestNode
  <2>1. limit' = Pushed(Removed(l, k), k, b)
    BY <1>4, <1>5, <1>6, <1>8, MovedIsPushed
  <2>2. /\ Sound(Removed(l, k)) /\ NoneFull(Removed(l, k))
        /\ k \notin Items(Removed(l, k))
        /\ TokensKept(l, Removed(l, k), {})
    BY <1>5, RemovedOK
  <2>3. /\ Sound(limit') /\ NoneFull(limit') /\ k \in Items(limit')
        /\ TokensKept(Removed(l, k), limit', {k})
        /\ SameTokens(limit'.nodes[k], b)
    <3> DEFINE x == Removed(l, k)
    <3>1. /\ Sound(x) /\ NoneFull(x) /\ k \in Keys /\ k \notin Items(x)
          /\ b \in bucketNode /\ b.tokenCount < maxTokenCount
      BY <1>1, <1>3, <2>2
    <3> HIDE DEF x
    <3>2. /\ Sound(Pushed(x, k, b)) /\ NoneFull(Pushed(x, k, b))
          /\ TokensKept(x, Pushed(x, k, b), {k})
          /\ SameTokens(Pushed(x, k, b).nodes[k], b)
          /\ Items(Pushed(x, k, b)) = Items(x) \union {k}
      BY <3>1, PushedOK
    <3> QED
      BY <2>1, <3>2 DEF x
  <2>4. TokensKept(limit, limit', {k})
    BY <1>5, <2>2, <2>3 DEF TokensKept, SameTokens
  <2> QED
    BY <2>3, <2>4 DEF k, b
<1> QED
  BY <1>7, <1>8

\* Every step keeps the invariant.
LEMMA NextInvariant == IInv /\ [Next]_vars => IInv'
<1> SUFFICES ASSUME IInv, [Next]_vars PROVE IInv'
  OBVIOUS
<1>1. ASSUME NEW c \in Callers, NEW k \in Keys, CallConsume(c, k) PROVE IInv'
  <2>1. CallsOK'
    <3>1. clock \in Nat /\ k # nil
      BY NilAssumption, TimeAssumption DEF IInv
    <3> QED
      BY <1>1, <3>1 DEF IInv, CallsOK, CallConsume
  <2> QED
    BY <1>1, <2>1 DEF IInv, CallConsume
<1>2. ASSUME NEW c \in Callers, Consume(c) PROVE IInv'
  <2>1. clock' = clock /\ call' = [call EXCEPT ![c] = NoCall]
    BY <1>2 DEF Consume, ConsumeNew, ConsumeKnown
  <2>2. CallsOK'
    BY <2>1 DEF IInv, CallsOK, NoCall
  <2>3. Sound(limit') /\ NoneFull(limit')
    BY <1>2, ConsumeNewKeeps, ConsumeKnownKeeps DEF Consume
  <2> QED
    BY <2>1, <2>2, <2>3 DEF IInv
<1>3. ASSUME NEW k \in Keys, Delete(k) PROVE IInv'
  <2>1. k \in Items(limit)
    BY <1>3 DEF Delete, Items
  <2>2. Sound(limit') /\ NoneFull(limit')
    BY <1>3, <2>1, RemovedOK DEF IInv, Delete
  <2> QED
    BY <1>3, <2>2 DEF IInv, Delete, CallsOK
<1>4. CASE Clear
  BY <1>4, EmptySound DEF IInv, Clear, CallsOK
<1>5. CASE Tick
  BY <1>5, TimeAssumption DEF IInv, Tick, CallsOK
<1>6. CASE UNCHANGED vars
  BY <1>6 DEF IInv, vars, CallsOK
<1> QED
  BY <1>1, <1>2, <1>3, <1>4, <1>5, <1>6 DEF Next

\* The invariant holds for ever.
LEMMA Invariant == Spec => []IInv
<1>1. Init => IInv
  BY EmptySound, TimeAssumption DEF Init, IInv, CallsOK, NoCall
<1> QED
  BY <1>1, NextInvariant, PTL DEF Spec

-----------------------------------------------------------------------------
(* The theorems. *)

\* The fields keep their types, and no call leaves a bucket full, although a
\* refill may be computed from a time before the last one.
THEOREM LimitTypeCorrect == Spec => []TypeOK
<1>1. IInv => TypeOK
  BY DEF IInv, CallsOK, Sound, LimitRecord, NoneFull, TypeOK
<1> QED
  BY <1>1, Invariant, PTL

\* No pointer of the list ever dangles, or is nil where the code follows it.
THEOREM PointersSound == Spec => []ListOK
<1>1. IInv => ListOK
  BY DEF IInv, Sound, ListOK
<1> QED
  BY <1>1, Invariant, PTL

-----------------------------------------------------------------------------
(* The order of the list. *)

\* f gives the keys along the list of l.
Follows(l, f) ==
  f = [i \in 1..Cardinality(Items(l)) |->
         IF i = 1 THEN l.oldestNode ELSE NewerThan(l, f[i - 1])]

\* OrderOf is such a function, if there is one.
LEMMA OrderFollows ==
  ASSUME NEW l, NEW s, Follows(l, s)
  PROVE  \E f : /\ Follows(l, f)
               /\ OrderOf(l) = [i \in 1..Cardinality(Items(l)) |-> f[i]]
BY Zenon DEF OrderOf, Follows

\* s are the keys of l along its list: each once, next to its neighbours.
InOrder(l, s) ==
  /\ s \in Seq(Keys)
  /\ \A k \in Keys : k \in Items(l) <=> \E i \in 1..Len(s) : s[i] = k
  /\ \A i, j \in 1..Len(s) : s[i] = s[j] => i = j
  /\ l.oldestNode = IF Len(s) = 0 THEN nil ELSE s[1]
  /\ l.newestNode = IF Len(s) = 0 THEN nil ELSE s[Len(s)]
  /\ \A i \in 1..Len(s) :
       /\ l.nodes[s[i]].newerNode = IF i = Len(s) THEN nil ELSE s[i + 1]
       /\ l.nodes[s[i]].olderNode = IF i = 1 THEN nil ELSE s[i - 1]

\* A set of natural numbers has a least one.
LEMMA Least ==
  ASSUME NEW S \in SUBSET Nat, S # {}
  PROVE  \E m \in S : \A n \in S : m <= n
<1>1. IsWellFoundedOn(OpToRel(<, Nat), Nat)
  BY NatLessThanWellFounded
<1>2. PICK m \in S : \A n \in S : <<n, m>> \notin OpToRel(<, Nat)
  BY <1>1, WFMin
<1>3. \A n \in S : ~(n < m)
  BY <1>2 DEF OpToRel
<1> QED
  BY <1>3

\* There are as many of them as buckets.
LEMMA AsMany ==
  ASSUME NEW l, NEW s, InOrder(l, s)
  PROVE  Cardinality(Items(l)) = Len(s)
<1> DEFINE n == Len(s)
<1>1. s \in [1..n -> Items(l)] /\ n \in Nat
  <2>1. n \in Nat /\ s = [i \in 1..n |-> s[i]] /\ \A i \in 1..n : s[i] \in Keys
    BY DEF InOrder
  <2>2. \A i \in 1..n : s[i] \in Items(l)
    BY <2>1 DEF InOrder
  <2> QED
    BY <2>1, <2>2
<1>2. s \in Bijection(1..n, Items(l))
  <2>1. \A k \in Items(l) : k \in Keys
    BY DEF Items
  <2> QED
    BY <1>1, <2>1 DEF InOrder, Bijection, Injection, Surjection, IsInjective
<1> QED
  BY <1>1, <1>2, FS_CountingElements DEF ExistsBijection

\* There is one order only, and OrderOf finds it: two of them would differ first
\* somewhere, after a bucket in both that has one newerNode.
LEMMA OrderFound ==
  ASSUME NEW l, NEW s, InOrder(l, s)
  PROVE  OrderOf(l) = s
<1> DEFINE n == Len(s)
<1>1. /\ s \in Seq(Keys) /\ n \in Nat /\ s = [i \in 1..n |-> s[i]]
      /\ \A i \in 1..n : s[i] \in Items(l)
  BY DEF InOrder
<1>2. Cardinality(Items(l)) = n
  BY AsMany
<1>3. \A i \in 1..n :
        s[i] = IF i = 1 THEN l.oldestNode ELSE NewerThan(l, s[i - 1])
  <2> SUFFICES ASSUME NEW i \in 1..n
               PROVE  s[i] = IF i = 1 THEN l.oldestNode
                             ELSE NewerThan(l, s[i - 1])
    OBVIOUS
  <2>1. CASE i = 1
    BY <1>1, <2>1 DEF InOrder
  <2>2. CASE i # 1
    <3>1. i - 1 \in 1..n /\ i - 1 # n /\ (i - 1) + 1 = i
      BY <1>1, <2>2
    <3>2. s[i - 1] \in Items(l) /\ l.nodes[s[i - 1]].newerNode = s[i]
      BY <1>1, <3>1 DEF InOrder
    <3> QED
      BY <2>2, <3>2 DEF NewerThan
  <2> QED
    BY <2>1, <2>2
<1>4. Follows(l, s)
  <2> HIDE DEF n
  <2> QED
    BY <1>1, <1>2, <1>3 DEF Follows
<1>5. PICK f : Follows(l, f) /\ OrderOf(l) = [i \in 1..n |-> f[i]]
  BY <1>2, <1>4, OrderFollows
<1>6. \A i \in 1..n :
        f[i] = IF i = 1 THEN l.oldestNode ELSE NewerThan(l, f[i - 1])
  <2> DEFINE g(i) == IF i = 1 THEN l.oldestNode ELSE NewerThan(l, f[i - 1])
  <2>1. f = [i \in 1..n |-> g(i)]
    BY <1>2, <1>5 DEF Follows
  <2> HIDE DEF g
  <2>2. \A i \in 1..n : f[i] = g(i)
    BY <2>1
  <2> QED
    BY <2>2 DEF g
<1>7. \A i \in 1..n : f[i] = s[i]
  <2> DEFINE D == {i \in 1..n : f[i] # s[i]}
  <2> SUFFICES ASSUME D # {} PROVE FALSE
    OBVIOUS
  <2>1. D \in SUBSET Nat
    BY <1>1
  <2> HIDE DEF D
  <2>2. PICK m \in D : \A j \in D : m <= j
    BY <2>1, Least
  <2>3. m \in 1..n /\ f[m] # s[m] /\ m \in Nat
    BY <2>2 DEF D
  <2>4. m # 1
    BY <1>3, <1>6, <2>3
  <2>5. m - 1 \in 1..n /\ ~(m <= m - 1)
    BY <1>1, <2>3, <2>4
  <2>6. f[m - 1] = s[m - 1]
    BY <2>2, <2>5 DEF D
  <2> QED
    BY <1>3, <1>6, <2>3, <2>4, <2>6
<1> QED
  <2>1. OrderOf(l) = [i \in 1..n |-> s[i]]
    BY <1>5, <1>7
  <2> QED
    BY <1>1, <2>1

\* Putting a bucket in as the newest puts its key last.
LEMMA PushedInOrder ==
  ASSUME NEW l \in LimitRecord, NEW s, InOrder(l, s),
         NEW k \in Keys, k \notin Items(l), NEW b \in bucketNode
  PROVE  InOrder(Pushed(l, k, b), Append(s, k))
<1> DEFINE m == Pushed(l, k, b)
           t == Append(s, k)
           n == Len(s)
<1>1. /\ s \in Seq(Keys) /\ n \in Nat
      /\ \A i \in 1..n : s[i] \in Keys /\ s[i] \in Items(l) /\ s[i] # k
  BY DEF InOrder
<1>2. /\ t \in Seq(Keys) /\ Len(t) = n + 1
      /\ \A i \in 1..(n + 1) : t[i] = IF i = n + 1 THEN k ELSE s[i]
  BY <1>1
<1>3. nil \notin Keys /\ nil \notin bucketNode
  BY NilAssumption
<1>4. /\ m.newestNode = k
      /\ m.oldestNode = IF l.oldestNode = nil THEN k ELSE l.oldestNode
      /\ m.nodes = [j \in Keys |-> m.nodes[j]]
      /\ m.nodes[k] = [b EXCEPT !.newerNode = nil, !.olderNode = l.newestNode]
      /\ \A j \in Keys : j # k =>
           m.nodes[j] = IF j = l.newestNode
                        THEN [l.nodes[j] EXCEPT !.newerNode = k] ELSE l.nodes[j]
  BY DEF Pushed
<1>5. /\ l.oldestNode = IF n = 0 THEN nil ELSE s[1]
      /\ l.newestNode = IF n = 0 THEN nil ELSE s[n]
  BY DEF InOrder
<1>6. /\ m.nodes[k].newerNode = nil /\ m.nodes[k].olderNode = l.newestNode
      /\ m.nodes[k] # nil
  <2>1. l.newestNode \in Keys \union {nil}
    BY DEF LimitRecord
  <2>2. m.nodes[k] \in bucketNode
    BY <1>4, <2>1 DEF bucketNode
  <2> QED
    BY <1>3, <1>4, <2>2 DEF bucketNode
<1>7. ASSUME NEW j \in Items(l), j # k
      PROVE  /\ m.nodes[j] # nil
             /\ m.nodes[j].newerNode = IF j = l.newestNode THEN k
                                       ELSE l.nodes[j].newerNode
             /\ m.nodes[j].olderNode = l.nodes[j].olderNode
  <2>1. j \in Keys /\ l.nodes[j] \in bucketNode
    BY ItemsOf
  <2>2. [l.nodes[j] EXCEPT !.newerNode = k] \in bucketNode
    BY <2>1 DEF bucketNode
  <2> QED
    BY <1>3, <1>4, <1>7, <2>1, <2>2 DEF bucketNode
<1>8. \A j \in Keys : j \in Items(m) <=> \E i \in 1..Len(t) : t[i] = j
  <2>1. \A j \in Keys : j \in Items(m) <=> j = k \/ j \in Items(l)
    <3>1. \A j \in Keys : j # k /\ j \notin Items(l) => m.nodes[j] = nil
      <4>1. l.newestNode # nil => l.newestNode \in Items(l)
        BY <1>1, <1>5
      <4>2. \A j \in Keys : j \notin Items(l) => l.nodes[j] = nil
        BY ItemsOf
      <4> SUFFICES ASSUME NEW j \in Keys, j # k, j \notin Items(l)
                   PROVE  m.nodes[j] = nil
        OBVIOUS
      <4>3. j # l.newestNode
        BY <1>3, <4>1
      <4>4. m.nodes[j] = l.nodes[j]
        BY <1>4, <4>3
      <4> QED
        BY <4>2, <4>4
    <3> QED
      BY <1>6, <1>7, <3>1 DEF Items
  <2>2. \A j \in Keys : j \in Items(l) <=> \E i \in 1..n : s[i] = j
    BY DEF InOrder
  <2> HIDE DEF m, t
  <2> QED
    BY <1>1, <1>2, <2>1, <2>2
<1>9. \A i, j \in 1..Len(t) : t[i] = t[j] => i = j
  <2>1. \A i, j \in 1..n : s[i] = s[j] => i = j
    BY DEF InOrder
  <2> HIDE DEF t
  <2> QED
    BY <1>1, <1>2, <2>1
<1>10. /\ m.oldestNode = IF Len(t) = 0 THEN nil ELSE t[1]
       /\ m.newestNode = IF Len(t) = 0 THEN nil ELSE t[Len(t)]
  <2> HIDE DEF m, t
  <2>1. n # 0 => l.oldestNode # nil
    BY <1>1, <1>3, <1>5
  <2> QED
    BY <1>1, <1>2, <1>4, <1>5, <2>1
<1>11. ASSUME NEW i \in 1..Len(t)
       PROVE  /\ m.nodes[t[i]].newerNode = IF i = Len(t) THEN nil ELSE t[i + 1]
              /\ m.nodes[t[i]].olderNode = IF i = 1 THEN nil ELSE t[i - 1]
  <2> HIDE DEF m, t
  <2>1. CASE i = n + 1
    <3>1. t[i] = k /\ i = Len(t) /\ (i # 1 => n # 0 /\ t[i - 1] = s[n])
      BY <1>1, <1>2, <2>1
    <3>2. (i = 1 <=> n = 0)
      BY <1>1, <2>1
    <3> QED
      BY <1>5, <1>6, <3>1, <3>2
  <2>2. CASE i # n + 1
    <3>1. /\ i \in 1..n /\ t[i] = s[i] /\ i # Len(t)
          /\ i # 1 => t[i - 1] = s[i - 1]
          /\ t[i + 1] = IF i = n THEN k ELSE s[i + 1]
      BY <1>1, <1>2, <2>2
    <3>2. l.newestNode = s[n] /\ (s[i] = s[n] <=> i = n)
      BY <1>1, <1>5, <3>1 DEF InOrder
    <3>3. /\ l.nodes[s[i]].newerNode = IF i = n THEN nil ELSE s[i + 1]
          /\ l.nodes[s[i]].olderNode = IF i = 1 THEN nil ELSE s[i - 1]
      BY <3>1 DEF InOrder
    <3> QED
      BY <1>1, <1>7, <3>1, <3>2, <3>3
  <2> QED
    BY <2>1, <2>2
<1> QED
  <2> HIDE DEF m, t
  <2>1. InOrder(m, t)
    BY <1>2, <1>8, <1>9, <1>10, <1>11 DEF InOrder
  <2> QED
    BY <2>1 DEF m, t

\* What is left of a sequence without one element.
LEMMA RemovedAt ==
  ASSUME NEW S, NEW s \in Seq(S), NEW p \in 1..Len(s)
  PROVE  /\ Recency!RemoveAt(s, p) \in Seq(S)
         /\ Len(Recency!RemoveAt(s, p)) = Len(s) - 1
         /\ \A i \in 1..(Len(s) - 1) :
              Recency!RemoveAt(s, p)[i] = IF i < p THEN s[i] ELSE s[i + 1]
<1> DEFINE x == SubSeq(s, 1, p - 1)
           y == SubSeq(s, p + 1, Len(s))
<1>1. Len(s) \in Nat /\ \A i \in 1..Len(s) : s[i] \in S
  OBVIOUS
<1>2. /\ x \in Seq(S) /\ Len(x) = p - 1
      /\ \A i \in 1..(p - 1) : x[i] = s[i]
  BY <1>1
<1>3. /\ y \in Seq(S) /\ Len(y) = Len(s) - p
      /\ \A i \in 1..(Len(s) - p) : y[i] = s[i + p]
  BY <1>1
<1>4. Recency!RemoveAt(s, p) = x \o y
  BY DEF Recency!RemoveAt
<1> HIDE DEF x, y
<1>5. x \o y \in Seq(S) /\ Len(x \o y) = Len(s) - 1
  <2>1. Len(x \o y) = Len(x) + Len(y) /\ x \o y \in Seq(S)
    BY <1>2, <1>3, ConcatProperties
  <2> QED
    BY <1>1, <1>2, <1>3, <2>1
<1>6. ASSUME NEW i \in 1..(Len(s) - 1)
      PROVE  (x \o y)[i] = IF i < p THEN s[i] ELSE s[i + 1]
  <2>1. CASE i < p
    BY <1>1, <1>2, <1>3, <2>1, ConcatProperties
  <2>2. CASE ~(i < p)
    <3>1. i - (p - 1) \in 1..(Len(s) - p) /\ (i - (p - 1)) + p = i + 1
      BY <1>1, <2>2
    <3>2. (x \o y)[i] = y[i - (p - 1)]
      BY <1>1, <1>2, <1>3, <2>2, ConcatProperties
    <3> QED
      BY <1>3, <2>2, <3>1, <3>2
  <2> QED
    BY <2>1, <2>2
<1> QED
  BY <1>4, <1>5, <1>6

\* Taking a bucket out takes its key out, wherever it is.
LEMMA RemovedInOrder ==
  ASSUME NEW l \in LimitRecord, NEW s, InOrder(l, s), NEW p \in 1..Len(s)
  PROVE  InOrder(Removed(l, s[p]), Recency!RemoveAt(s, p))
<1> DEFINE n == Len(s)
           k == s[p]
           m == Removed(l, k)
           t == Recency!RemoveAt(s, p)
           newer == IF p = n THEN nil ELSE s[p + 1]
           older == IF p = 1 THEN nil ELSE s[p - 1]
<1>1. /\ s \in Seq(Keys) /\ n \in Nat /\ p \in 1..n
      /\ \A i \in 1..n : s[i] \in Keys /\ s[i] \in Items(l)
      /\ \A i, j \in 1..n : s[i] = s[j] => i = j
      /\ nil \notin Keys
  BY NilAssumption DEF InOrder
<1>2. /\ t \in Seq(Keys) /\ Len(t) = n - 1
      /\ \A i \in 1..(n - 1) : t[i] = IF i < p THEN s[i] ELSE s[i + 1]
  BY <1>1, RemovedAt
<1>3. /\ k \in Keys /\ l.nodes[k].newerNode = newer
      /\ l.nodes[k].olderNode = older
  BY <1>1 DEF InOrder
<1>4. /\ m.nodes = [Joined(l.nodes, newer, older) EXCEPT ![k] = nil]
      /\ m.newestNode = IF k = l.newestNode THEN older ELSE l.newestNode
      /\ m.oldestNode = IF k = l.oldestNode THEN newer ELSE l.oldestNode
  <2> HIDE DEF newer, older, k
  <2> QED
    BY <1>3 DEF Removed, OldestWithout, m
<1>5. /\ m.nodes[k] = nil
      /\ \A j \in Keys : j # k =>
           m.nodes[j] = IF j = newer THEN [l.nodes[j] EXCEPT !.olderNode = older]
                        ELSE IF j = older
                        THEN [l.nodes[j] EXCEPT !.newerNode = newer]
                        ELSE l.nodes[j]
  <2> HIDE DEF newer, older, k, m
  <2> QED
    BY <1>3, <1>4 DEF Joined
<1>6. newer \in Keys \union {nil} /\ older \in Keys \union {nil}
  BY <1>1
<1>7. newer = older => newer = nil
  BY <1>1
<1>8. \A j \in Keys : (j = newer \/ j = older) => j \in Items(l)
  BY <1>1
<1> HIDE DEF t, m
<1>9. ASSUME NEW j \in Items(l), j # k
      PROVE  /\ m.nodes[j] # nil
             /\ m.nodes[j].newerNode = IF j = older THEN newer
                                       ELSE l.nodes[j].newerNode
             /\ m.nodes[j].olderNode = IF j = newer THEN older
                                       ELSE l.nodes[j].olderNode
  <2> HIDE DEF newer, older, k
  <2>1. j \in Keys /\ l.nodes[j] \in bucketNode /\ nil \notin bucketNode
    BY ItemsOf, NilAssumption
  <2>2. /\ [l.nodes[j] EXCEPT !.olderNode = older] \in bucketNode
        /\ [l.nodes[j] EXCEPT !.newerNode = newer] \in bucketNode
    BY <1>6, <2>1 DEF bucketNode
  <2>3. j # nil
    BY <1>1, <2>1
  <2> QED
    BY <1>5, <1>7, <1>9, <2>1, <2>2, <2>3 DEF bucketNode
<1>10. \A j \in Keys : j \in Items(m) <=> j \in Items(l) /\ j # k
  <2> HIDE DEF newer, older, k
  <2> SUFFICES ASSUME NEW j \in Keys
               PROVE  j \in Items(m) <=> j \in Items(l) /\ j # k
    OBVIOUS
  <2>1. j \in Items(m) <=> m.nodes[j] # nil
    BY DEF Items
  <2>2. j \notin Items(l) => l.nodes[j] = nil
    BY ItemsOf
  <2>3. j \notin Items(l) /\ j # k => m.nodes[j] = nil
    BY <1>5, <1>8, <2>2
  <2> QED
    BY <1>5, <1>9, <2>1, <2>3
<1>11. \A j \in Keys : j \in Items(m) <=> \E i \in 1..Len(t) : t[i] = j
  <2> SUFFICES ASSUME NEW j \in Keys
               PROVE  j \in Items(m) <=> \E i \in 1..Len(t) : t[i] = j
    OBVIOUS
  <2>1. j \in Items(l) <=> \E i \in 1..n : s[i] = j
    BY DEF InOrder
  <2>2. ASSUME NEW i \in 1..n, i # p PROVE \E h \in 1..Len(t) : t[h] = s[i]
    <3>1. CASE i < p
      BY <1>1, <1>2, <2>2, <3>1
    <3>2. CASE ~(i < p)
      <4>1. i - 1 \in 1..(n - 1) /\ ~(i - 1 < p) /\ (i - 1) + 1 = i
        BY <1>1, <2>2, <3>2
      <4> QED
        BY <1>2, <4>1
    <3> QED
      BY <3>1, <3>2
  <2>3. ASSUME NEW h \in 1..Len(t)
        PROVE  \E i \in 1..n : i # p /\ t[h] = s[i]
    BY <1>1, <1>2
  <2>4. \A i \in 1..n : s[i] = k <=> i = p
    BY <1>1
  <2> HIDE DEF k, newer, older
  <2> QED
    BY <1>10, <2>1, <2>2, <2>3, <2>4
<1>12. \A i, j \in 1..Len(t) : t[i] = t[j] => i = j
  <2> SUFFICES ASSUME NEW i \in 1..Len(t), NEW j \in 1..Len(t), t[i] = t[j]
               PROVE  i = j
    OBVIOUS
  <2> DEFINE q(h) == IF h < p THEN h ELSE h + 1
  <2>1. \A h \in 1..Len(t) : q(h) \in 1..n /\ t[h] = s[q(h)]
    BY <1>1, <1>2
  <2>2. q(i) = q(j)
    <3> HIDE DEF q
    <3> QED
      BY <1>1, <2>1
  <2> QED
    BY <1>1, <1>2, <2>2
<1>13. /\ m.oldestNode = IF Len(t) = 0 THEN nil ELSE t[1]
       /\ m.newestNode = IF Len(t) = 0 THEN nil ELSE t[Len(t)]
  <2>1. l.oldestNode = s[1] /\ l.newestNode = s[n] /\ 1 \in 1..n /\ n \in 1..n
    BY <1>1 DEF InOrder
  <2>2. (k = l.oldestNode <=> p = 1) /\ (k = l.newestNode <=> p = n)
    BY <1>1, <2>1
  <2> QED
    BY <1>1, <1>2, <1>4, <2>1, <2>2
<1>14. ASSUME NEW i \in 1..Len(t)
       PROVE  /\ m.nodes[t[i]].newerNode = IF i = Len(t) THEN nil ELSE t[i + 1]
              /\ m.nodes[t[i]].olderNode = IF i = 1 THEN nil ELSE t[i - 1]
  <2> DEFINE q == IF i < p THEN i ELSE i + 1
  <2>1. q \in 1..n /\ q # p /\ t[i] = s[q] /\ i \in Nat
    BY <1>1, <1>2
  <2>2. s[q] \in Items(l) /\ s[q] # k
    BY <1>1, <2>1
  <2>3. /\ m.nodes[s[q]].newerNode = IF s[q] = older THEN newer
                                     ELSE l.nodes[s[q]].newerNode
        /\ m.nodes[s[q]].olderNode = IF s[q] = newer THEN older
                                     ELSE l.nodes[s[q]].olderNode
    <3> HIDE DEF newer, older, q
    <3> QED
      BY <1>9, <2>2
  <2>4. /\ l.nodes[s[q]].newerNode = IF q = n THEN nil ELSE s[q + 1]
        /\ l.nodes[s[q]].olderNode = IF q = 1 THEN nil ELSE s[q - 1]
    BY <2>1 DEF InOrder
  <2>5. (s[q] = older <=> q = p - 1) /\ (s[q] = newer <=> q = p + 1)
    <3> HIDE DEF q
    <3> QED
      BY <1>1, <2>1
  <2>6. i # n - 1 => t[i + 1] = IF i + 1 < p THEN s[i + 1] ELSE s[i + 2]
    BY <1>1, <1>2
  <2>7. i # 1 => t[i - 1] = IF i - 1 < p THEN s[i - 1] ELSE s[i]
    BY <1>1, <1>2
  <2>8. m.nodes[t[i]].newerNode = IF i = Len(t) THEN nil ELSE t[i + 1]
    <3>1. CASE q = p - 1
      BY <1>1, <1>2, <2>1, <2>3, <2>5, <2>6, <3>1
    <3>2. CASE q # p - 1
      <4>1. m.nodes[t[i]].newerNode = IF q = n THEN nil ELSE s[q + 1]
        BY <2>1, <2>3, <2>4, <2>5, <3>2
      <4>2. q = n <=> i = n - 1
        BY <1>1, <1>2, <3>2
      <4>3. i # n - 1 => t[i + 1] = s[q + 1]
        BY <1>1, <1>2, <2>6, <3>2
      <4> QED
        BY <1>2, <4>1, <4>2, <4>3
    <3> QED
      BY <3>1, <3>2
  <2>9. m.nodes[t[i]].olderNode = IF i = 1 THEN nil ELSE t[i - 1]
    <3>1. CASE q = p + 1
      BY <1>1, <1>2, <2>1, <2>3, <2>5, <2>7, <3>1
    <3>2. CASE q # p + 1
      <4>1. m.nodes[t[i]].olderNode = IF q = 1 THEN nil ELSE s[q - 1]
        BY <2>1, <2>3, <2>4, <2>5, <3>2
      <4>2. q = 1 <=> i = 1
        BY <1>1, <1>2, <2>1, <3>2
      <4>3. i # 1 => t[i - 1] = s[q - 1]
        BY <1>1, <1>2, <2>1, <2>7, <3>2
      <4> QED
        BY <1>2, <4>1, <4>2, <4>3
    <3> QED
      BY <3>1, <3>2
  <2> QED
    BY <2>8, <2>9
<1> QED
  <2>1. InOrder(m, t)
    BY <1>2, <1>11, <1>12, <1>13, <1>14 DEF InOrder
  <2> QED
    BY <2>1 DEF m, t

\* Changing the tokens of a bucket leaves the keys where they are.
LEMMA TokensInOrder ==
  ASSUME NEW l \in LimitRecord, NEW s, InOrder(l, s),
         NEW k \in Items(l), NEW b \in bucketNode,
         b.newerNode = l.nodes[k].newerNode, b.olderNode = l.nodes[k].olderNode
  PROVE  InOrder([l EXCEPT !.nodes[k] = b], s)
<1> DEFINE m == [l EXCEPT !.nodes[k] = b]
<1>1. k \in Keys /\ l.nodes[k] # nil /\ b # nil
  BY ItemsOf, NilAssumption
<1>2. /\ m.newestNode = l.newestNode /\ m.oldestNode = l.oldestNode
      /\ \A j \in Keys : m.nodes[j] = IF j = k THEN b ELSE l.nodes[j]
  BY <1>1 DEF LimitRecord
<1> HIDE DEF m
<1>3. Items(m) = Items(l)
  BY <1>1, <1>2 DEF Items
<1>4. \A i \in 1..Len(s) : s[i] \in Keys
  BY DEF InOrder
<1>5. InOrder(m, s)
  BY <1>2, <1>3, <1>4 DEF InOrder
<1> QED
  BY <1>5 DEF m

\* No keys, no list.
LEMMA EmptyInOrder == InOrder(emptyLimit, <<>>)
BY DEF InOrder, emptyLimit, Items

\* The keys along the list are all there are.
Listed == InOrder(limit, Order)

\* What a sequence of keys must be to be the order after a step.
LEMMA OrderAfter ==
  ASSUME NEW t, InOrder(limit', t)
  PROVE  Order' = t /\ Listed'
<1>1. Order' = t
  BY OrderFound DEF Order
<1> QED
  BY <1>1 DEF Listed

\* Consume of a key without a bucket.
LEMMA NewKeyIsUsed ==
  ASSUME IInv, Listed, NEW c \in Callers, ConsumeNew(c)
  PROVE  Listed' /\ Recency!OrderNext
<1> DEFINE s == Order
           k == call[c].key
           full == Cardinality(Items(limit)) = maxItemCount
           room == IF full THEN Evicted(limit) ELSE limit
           rest == IF full THEN Tail(s) ELSE s
           b == NewBucket(call[c].now)
<1>1. k \in Keys /\ call[c].now \in Nat
  BY DEF IInv, CallsOK, ConsumeNew, NoCall
<1>2. b \in bucketNode
  BY <1>1, NewLimitAssumption DEF NewBucket, bucketNode
<1>3. k \notin Items(limit)
  BY DEF ConsumeNew, Items
<1>4. InOrder(limit, s) /\ s \in Seq(Keys) /\ Cardinality(Items(limit)) = Len(s)
  BY AsMany DEF Listed, InOrder
<1>5. Sound(limit) /\ limit \in LimitRecord
  BY DEF IInv, Sound
<1>6. /\ room \in LimitRecord /\ Items(room) \subseteq Items(limit)
      /\ InOrder(room, rest)
  <2>1. CASE full
    <3>1. Items(limit) # {} /\ Len(s) # 0
      BY <1>4, <2>1, FS_EmptySet, NewLimitAssumption
    <3>2. /\ room = Removed(limit, limit.oldestNode)
          /\ limit.oldestNode \in Items(limit)
      BY <1>5, <2>1, <3>1, EvictedIsRemoved
    <3>3. 1 \in 1..Len(s) /\ limit.oldestNode = s[1]
      BY <1>4, <3>1 DEF InOrder
    <3>4. InOrder(Removed(limit, s[1]), Recency!RemoveAt(s, 1))
      <4> HIDE DEF s
      <4> QED
        BY <1>4, <1>5, <3>3, RemovedInOrder
    <3>5. Recency!RemoveAt(s, 1) = Tail(s)
      <4> HIDE DEF s
      <4> QED
        BY <1>4, <3>1 DEF Recency!RemoveAt
    <3>6. /\ Sound(Removed(limit, limit.oldestNode))
          /\ Items(Removed(limit, limit.oldestNode)) \subseteq Items(limit)
      BY <1>5, <3>2, RemovedOK
    <3> QED
      BY <2>1, <3>2, <3>3, <3>4, <3>5, <3>6 DEF Sound
  <2>2. CASE ~full
    BY <1>4, <1>5, <2>2
  <2> QED
    BY <2>1, <2>2
<1>7. limit' = Pushed(room, k, b)
  BY DEF ConsumeNew
<1>8. InOrder(limit', Append(rest, k))
  <2> HIDE DEF room, rest, k, b, full
  <2> QED
    BY <1>1, <1>2, <1>3, <1>6, <1>7, PushedInOrder
<1>9. Order' = Append(rest, k) /\ Listed'
  <2> HIDE DEF rest
  <2> QED
    BY <1>8, OrderAfter
<1>10. ~Recency!Contains(s, k)
  BY <1>1, <1>3, <1>4 DEF InOrder, Recency!Contains
<1>11. Recency!Use(k)
  BY <1>4, <1>9, <1>10 DEF Recency!Use
<1> QED
  BY <1>1, <1>9, <1>11 DEF Recency!OrderNext

\* Consume of a key with a bucket.
LEMMA KnownKeyIsUsed ==
  ASSUME IInv, Listed, NEW c \in Callers, ConsumeKnown(c)
  PROVE  Listed' /\ Recency!OrderNext
<1> DEFINE s == Order
           k == call[c].key
           b == Taken(Refilled(limit.nodes[k], call[c].now))
           l == [limit EXCEPT !.nodes[k] = b]
<1>1. k \in Keys /\ call[c].now \in Nat
  BY DEF IInv, CallsOK, ConsumeKnown, NoCall
<1>2. k \in Items(limit) /\ limit.nodes[k] \in bucketNode
  BY <1>1, ItemsOf DEF IInv, Sound, ConsumeKnown
<1>3. /\ b \in bucketNode /\ b.tokenCount < maxTokenCount
      /\ b.newerNode = limit.nodes[k].newerNode
      /\ b.olderNode = limit.nodes[k].olderNode
  BY <1>1, <1>2, BucketUsed
<1>4. limit' = Moved(l, k)
  BY DEF ConsumeKnown
<1>5. InOrder(limit, s) /\ s \in Seq(Keys) /\ limit \in LimitRecord
  BY DEF Listed, InOrder, IInv, Sound
<1> HIDE DEF b, k, s
<1>6. Sound(l) /\ k \in Items(l) /\ l.nodes[k] = b
  <2>1. Sound(l) /\ k \in Items(l)
    BY <1>2, <1>3, TokensOK DEF IInv
  <2> QED
    BY <1>1, <1>5, <2>1 DEF LimitRecord
<1>7. InOrder(l, s)
  BY <1>2, <1>3, <1>5, TokensInOrder
<1> HIDE DEF l
<1>8. PICK p \in 1..Len(s) : s[p] = k
  BY <1>1, <1>6, <1>7 DEF InOrder
<1> DEFINE t == Append(Recency!RemoveAt(s, p), k)
<1>9. InOrder(limit', t)
  <2>1. CASE k = l.newestNode
    <3>1. limit' = l
      BY <1>4, <2>1 DEF Moved
    <3>2. p = Len(s)
      <4>1. Len(s) # 0 /\ l.newestNode = s[Len(s)] /\ Len(s) \in 1..Len(s)
        BY <1>5, <1>7, <1>8 DEF InOrder
      <4> QED
        BY <1>7, <1>8, <2>1, <4>1 DEF InOrder
    <3>3. t = s
      <4>1. /\ Recency!RemoveAt(s, p) \in Seq(Keys)
            /\ Len(Recency!RemoveAt(s, p)) = Len(s) - 1
            /\ \A i \in 1..(Len(s) - 1) : Recency!RemoveAt(s, p)[i] =
                 IF i < p THEN s[i] ELSE s[i + 1]
        BY <1>5, RemovedAt
      <4>2. t \in Seq(Keys) /\ Len(t) = Len(s)
        BY <1>1, <1>5, <4>1
      <4>3. \A i \in 1..Len(s) : t[i] = s[i]
        BY <1>1, <1>5, <1>8, <3>2, <4>1
      <4> HIDE DEF t
      <4> QED
        BY <1>5, <4>2, <4>3
    <3> QED
      BY <1>7, <3>1, <3>3
  <2>2. CASE k # l.newestNode
    <3>1. limit' = Pushed(Removed(l, k), k, b)
      BY <1>4, <1>6, <2>2, MovedIsPushed
    <3>2. Sound(Removed(l, k)) /\ k \notin Items(Removed(l, k))
      BY <1>6, RemovedOK
    <3>3. InOrder(Removed(l, k), Recency!RemoveAt(s, p))
      BY <1>6, <1>7, <1>8, RemovedInOrder DEF Sound
    <3> DEFINE x == Removed(l, k)
               r == Recency!RemoveAt(s, p)
    <3>4. x \in LimitRecord /\ k \notin Items(x) /\ InOrder(x, r)
      BY <3>2, <3>3 DEF Sound
    <3> HIDE DEF x, r
    <3>5. InOrder(Pushed(x, k, b), Append(r, k))
      BY <1>1, <1>3, <3>4, PushedInOrder
    <3> QED
      BY <3>1, <3>5 DEF x, r
  <2> QED
    BY <2>1, <2>2
<1>10. Order' = t /\ Listed'
  <2> HIDE DEF t
  <2> QED
    BY <1>9, OrderAfter
<1>11. Recency!Use(k)
  BY <1>8, <1>10 DEF Recency!Use, s
<1> QED
  BY <1>1, <1>10, <1>11 DEF Recency!OrderNext

\* Every step is one of LeastRecentlyUsed, or leaves the order as it is.
LEMMA StepsKeepRecency ==
  ASSUME IInv, Listed, [Next]_vars
  PROVE  Listed' /\ [Recency!OrderNext]_Order
<1>1. ASSUME NEW k \in Keys, Delete(k) PROVE Listed' /\ Recency!OrderNext
  <2>1. limit' = Removed(limit, k) /\ k \in Items(limit)
    BY <1>1 DEF Delete, Items
  <2>2. /\ InOrder(limit, Order) /\ Order \in Seq(Keys)
        /\ limit \in LimitRecord
    BY DEF Listed, InOrder, IInv, Sound
  <2>3. PICK p \in 1..Len(Order) : Order[p] = k
    BY <2>1, <2>2 DEF InOrder
  <2>4. InOrder(limit', Recency!RemoveAt(Order, p))
    BY <2>1, <2>2, <2>3, RemovedInOrder
  <2>5. Order' = Recency!RemoveAt(Order, p) /\ Listed'
    BY <2>4, OrderAfter
  <2>6. Recency!Forget(k)
    BY <2>3, <2>5 DEF Recency!Forget
  <2> QED
    BY <1>1, <2>5, <2>6 DEF Recency!OrderNext
<1>2. CASE Clear
  <2>1. InOrder(limit', <<>>)
    BY <1>2, EmptyInOrder DEF Clear
  <2>2. Order' = <<>> /\ Listed'
    BY <2>1, OrderAfter
  <2> QED
    BY <2>2 DEF Recency!OrderNext, Recency!ForgetAll
<1>3. ASSUME UNCHANGED limit PROVE Listed' /\ Order' = Order
  BY <1>3 DEF Listed, Order
<1> QED
  BY <1>1, <1>2, <1>3, NewKeyIsUsed, KnownKeyIsUsed
     DEF Next, vars, CallConsume, Consume, Tick

\* The list of a limit implements LeastRecentlyUsed: its keys are in the order
\* of their last use, and a new key takes the place of the least recently used
\* one when, and only when, the map is full.
THEOREM RecencyKept == Spec => KeepsRecency
<1>1. Init => IInv /\ Listed /\ Recency!OrderInit
  <2> SUFFICES ASSUME Init PROVE IInv /\ Listed /\ Recency!OrderInit
    OBVIOUS
  <2>1. IInv
    BY EmptySound, TimeAssumption DEF Init, IInv, CallsOK, NoCall
  <2>2. InOrder(limit, <<>>)
    BY EmptyInOrder DEF Init
  <2>3. Order = <<>>
    BY <2>2, OrderFound DEF Order
  <2> QED
    BY <2>1, <2>2, <2>3 DEF Listed, Recency!OrderInit
<1>2. IInv /\ Listed /\ [Next]_vars
        => IInv' /\ Listed' /\ [Recency!OrderNext]_Order
  BY NextInvariant, StepsKeepRecency
<1> QED
  BY <1>1, <1>2, PTL DEF Spec, KeepsRecency, Recency!OrderSpec

-----------------------------------------------------------------------------
(* The tokens of a bucket in time. *)

\* The time at which the bucket had no token, or will have had none, if its
\* tokens are taken as refilled one after the other.  What a call does to a
\* bucket it does to this time: it never goes back, and a call that is let
\* through moves it on by an interval at least.
EmptyAt(b) == b.lastRefilledAt - refillInterval * b.tokenCount

\* Of the calls that bucket n let through, count read a time from a to b.  They
\* are fewer than the time it is empty at has moved on since, from a full bucket
\* at the start of this window.  That is one interval less for a window that the
\* bucket was last refilled after (a call that waited for the mutex comes late),
\* or the bucket is empty for such calls.
PacedIn(n, count, a, b) ==
  /\ refillInterval * count < EmptyAt(n) - a + refillInterval * (maxTokenCount + 1)
  /\ n.lastRefilledAt > b =>
       \/ refillInterval * count <= EmptyAt(n) - a + refillInterval * maxTokenCount
       \/ EmptyAt(n) > b

\* The limit for a window from a to b.
LimitedIn(count, a, b) ==
  refillInterval * count < refillInterval * (maxTokenCount + 1) + (b - a)

Paced(n, times) ==
  \A a, b \in Int : a <= b /\ Through(times, a, b) # {} =>
    PacedIn(n, Cardinality(Through(times, a, b)), a, b)

\* WindowLimit, for one bucket and all windows.
Limited(times) ==
  \A a, b \in Int : a <= b => LimitedIn(Cardinality(Through(times, a, b)), a, b)

\* An empty bucket was emptied by a call it let through.
Emptied(n, times) == \E i \in DOMAIN times : EmptyAt(n) <= times[i] + MaxDelay

\* Division towards zero loses less than a divisor.
LEMMA QuotientIs ==
  ASSUME NEW d \in Int
  PROVE  /\ Quotient(d, refillInterval) \in Int
         /\ d >= 0 => /\ refillInterval * Quotient(d, refillInterval) <= d
                      /\ d < refillInterval * Quotient(d, refillInterval)
                               + refillInterval
         /\ d < 0 => /\ d <= refillInterval * Quotient(d, refillInterval)
                     /\ refillInterval * Quotient(d, refillInterval)
                          < d + refillInterval
                     /\ refillInterval * Quotient(d, refillInterval) <= 0
<1> DEFINE I == refillInterval
<1>1. I \in Int /\ I > 0
  BY NewLimitAssumption
<1>2. ASSUME NEW a \in Int
      PROVE  /\ a \div I \in Int
             /\ I * (a \div I) <= a /\ a < I * (a \div I) + I
  BY <1>1
<1>3. CASE d >= 0
  BY <1>2, <1>3 DEF Quotient
<1>4. CASE d < 0
  <2> DEFINE q == (-d) \div I
  <2>1. -d \in Int /\ -d > 0
    BY <1>4
  <2>2. q \in Int /\ I * q <= -d /\ -d < I * q + I
    BY <1>2, <2>1
  <2>3. Quotient(d, I) = -q
    BY <1>4 DEF Quotient
  <2> HIDE DEF q
  <2>4. q >= 0
    <3>1. q < 0 => I * q + I <= 0
      BY <1>1, <2>2
    <3> QED
      BY <1>1, <2>1, <2>2, <3>1
  <2>5. I * (-q) = -(I * q) /\ I * q >= 0
    BY <1>1, <2>2, <2>4
  <2> HIDE DEF I
  <2> QED
    BY <1>1, <1>4, <2>2, <2>3, <2>5 DEF I
<1> QED
  BY <1>3, <1>4

\* What a call that reads the time t does to a bucket.
LEMMA UseMovesOn ==
  ASSUME NEW n \in bucketNode, NEW t \in Nat
  PROVE  LET r == Refilled(n, t)
             u == Taken(r)
         IN /\ u \in bucketNode /\ EmptyAt(u) \in Int /\ EmptyAt(n) \in Int
            /\ t - refillInterval < u.lastRefilledAt
            /\ u.lastRefilledAt < t + refillInterval
            /\ \/ u.lastRefilledAt <= t
               \/ u.lastRefilledAt <= n.lastRefilledAt /\ t < n.lastRefilledAt
            /\ r.tokenCount >= 1 =>
                 /\ EmptyAt(n) + refillInterval <= EmptyAt(u)
                 /\ EmptyAt(u) <= u.lastRefilledAt
                 /\ u.lastRefilledAt + refillInterval
                      <= EmptyAt(u) + refillInterval * maxTokenCount
            /\ r.tokenCount < 1 =>
                 EmptyAt(u) = EmptyAt(n) /\ u.lastRefilledAt <= EmptyAt(u)
<1> DEFINE I == refillInterval
           L == n.lastRefilledAt
           q == Quotient(t - L, I)
           r == Refilled(n, t)
           u == Taken(r)
           c == CappedTokens(n.tokenCount + q)
<1>1. /\ I \in Int /\ I > 0 /\ maxTokenCount \in Int /\ maxTokenCount >= 1
      /\ L \in Int /\ n.tokenCount \in Int /\ t - L \in Int
  BY NewLimitAssumption DEF bucketNode
<1>2. /\ q \in Int
      /\ t - L >= 0 => I * q <= t - L /\ t - L < I * q + I
      /\ t - L < 0 => /\ t - L <= I * q /\ I * q < t - L + I
                      /\ I * q <= 0
  BY <1>1, QuotientIs
<1>3. u \in bucketNode
  BY BucketUsed
<1>4. /\ r.tokenCount = c /\ r.lastRefilledAt = L + I * q
      /\ u.lastRefilledAt = L + I * q
      /\ u.tokenCount = IF c < 1 THEN c ELSE c - 1
  BY DEF Refilled, Taken, RefillTime, bucketNode
<1> HIDE DEF q
<1>5. /\ c \in Int /\ c <= maxTokenCount /\ c <= n.tokenCount + q
      /\ c < 1 => c = n.tokenCount + q
  BY <1>1, <1>2 DEF CappedTokens
<1>6. /\ I * q \in Int /\ I * c \in Int /\ I * n.tokenCount \in Int
      /\ I * maxTokenCount \in Int
  BY <1>1, <1>2, <1>5
<1>7. I * c <= I * n.tokenCount + I * q
  <2>1. I * c <= I * (n.tokenCount + q)
    BY <1>1, <1>2, <1>5
  <2>2. I * (n.tokenCount + q) = I * n.tokenCount + I * q
    BY <1>1, <1>2
  <2> QED
    BY <2>1, <2>2
<1>8. c < 1 => I * c = I * n.tokenCount + I * q /\ I * c <= 0
  BY <1>1, <1>2, <1>5
<1>9. I * c <= I * maxTokenCount /\ (c >= 1 => I * c >= I)
  BY <1>1, <1>5
<1>10. I * (c - 1) = I * c - I
  BY <1>1, <1>5
<1>11. /\ EmptyAt(n) = L - I * n.tokenCount
       /\ EmptyAt(u) = (L + I * q) - IF c < 1 THEN I * c ELSE I * c - I
  BY <1>4, <1>10 DEF EmptyAt
<1> HIDE DEF r, u, c, I, L
<1>12. /\ t - I < u.lastRefilledAt /\ u.lastRefilledAt < t + I
       /\ \/ u.lastRefilledAt <= t
          \/ u.lastRefilledAt <= L /\ t < L
  BY <1>1, <1>2, <1>4, <1>6
<1>13. EmptyAt(u) \in Int /\ EmptyAt(n) \in Int
  BY <1>1, <1>6, <1>11
<1>14. c >= 1 => /\ EmptyAt(n) + I <= EmptyAt(u)
                 /\ EmptyAt(u) <= u.lastRefilledAt
                 /\ u.lastRefilledAt + I <= EmptyAt(u) + I * maxTokenCount
  BY <1>1, <1>4, <1>5, <1>6, <1>7, <1>9, <1>11
<1>15. c < 1 => EmptyAt(u) = EmptyAt(n) /\ u.lastRefilledAt <= EmptyAt(u)
  BY <1>1, <1>4, <1>5, <1>6, <1>8, <1>11
<1> QED
  BY <1>3, <1>4, <1>12, <1>13, <1>14, <1>15 DEF r, u, I, L

\* The calls let through in a window are finitely many, and one more counts if
\* its time is in the window.
LEMMA ThroughAppended ==
  ASSUME NEW times \in Seq(Nat), NEW t \in Nat, NEW a \in Int, NEW b \in Int
  PROVE  /\ Cardinality(Through(times, a, b)) \in Nat
         /\ Through(times, a, b) = {} <=> Cardinality(Through(times, a, b)) = 0
         /\ Cardinality(Through(Append(times, t), a, b)) =
              IF t \in a..b THEN Cardinality(Through(times, a, b)) + 1
              ELSE Cardinality(Through(times, a, b))
<1> DEFINE T == Through(times, a, b)
           m == Len(times) + 1
<1>1. /\ DOMAIN times = 1..Len(times) /\ Len(times) \in Nat
      /\ DOMAIN Append(times, t) = 1..m /\ m \notin DOMAIN times
      /\ \A i \in DOMAIN times : Append(times, t)[i] = times[i]
      /\ Append(times, t)[m] = t
  OBVIOUS
<1>2. IsFiniteSet(T) /\ m \notin T
  <2>1. IsFiniteSet(1..Len(times)) /\ T \subseteq 1..Len(times)
    BY <1>1, FS_Interval DEF Through
  <2> QED
    BY <1>1, <2>1, FS_Subset DEF Through
<1>3. Cardinality(T) \in Nat /\ (T = {} <=> Cardinality(T) = 0)
  BY <1>2, FS_CardinalityType, FS_EmptySet
<1>4. DOMAIN Append(times, t) = DOMAIN times \union {m}
  BY <1>1
<1> HIDE DEF m
<1>5. Through(Append(times, t), a, b) = IF t \in a..b THEN T \union {m} ELSE T
  BY <1>1, <1>4 DEF Through
<1>6. Cardinality(T \union {m}) = Cardinality(T) + 1
  BY <1>2, FS_AddElement
<1> QED
  BY <1>3, <1>5, <1>6

\* A new bucket has let one call through.
LEMMA PacedFromStart ==
  ASSUME NEW t \in Nat, NEW n, SameTokens(n, NewBucket(t))
  PROVE  Paced(n, <<t>>) /\ Emptied(n, <<t>>) /\ Limited(<<t>>)
<1> DEFINE I == refillInterval
           M == maxTokenCount
<1>1. I \in Int /\ I > 0 /\ M \in Int /\ M >= 1 /\ I * M \in Int
  BY NewLimitAssumption
<1>2. n.lastRefilledAt = t /\ n.tokenCount = M - 1
  BY DEF SameTokens, NewBucket
<1>3. EmptyAt(n) = t - I * M + I
  <2>1. I * (M - 1) = I * M - I
    BY <1>1
  <2> QED
    BY <1>1, <1>2, <2>1 DEF EmptyAt
<1>4. I * (M + 1) = I * M + I /\ I * M >= I
  BY <1>1
<1>5. ASSUME NEW a \in Int, NEW b \in Int
      PROVE  /\ Cardinality(Through(<<t>>, a, b)) = IF t \in a..b THEN 1 ELSE 0
             /\ Through(<<t>>, a, b) # {} => t \in a..b
  <2>1. <<>> \in Seq(Nat) /\ Append(<<>>, t) = <<t>>
    OBVIOUS
  <2>2. Through(<<>>, a, b) = {}
    BY DEF Through
  <2>3. Cardinality(Through(Append(<<>>, t), a, b)) = IF t \in a..b THEN 1 ELSE 0
    <3>1. Cardinality(Through(<<>>, a, b)) = 0
      BY <2>2, FS_EmptySet
    <3>2. Cardinality(Through(Append(<<>>, t), a, b)) =
            IF t \in a..b THEN Cardinality(Through(<<>>, a, b)) + 1
            ELSE Cardinality(Through(<<>>, a, b))
      BY <2>1, ThroughAppended
    <3> QED
      BY <3>1, <3>2
  <2>4. Through(<<t>>, a, b) # {} => t \in a..b
    BY DEF Through
  <2> QED
    BY <2>1, <2>3, <2>4
<1>6. I * 1 = I /\ I * 0 = 0
  BY <1>1
<1> HIDE DEF I, M
<1>7. Paced(n, <<t>>)
  <2> SUFFICES ASSUME NEW a \in Int, NEW b \in Int, a <= b,
                      Through(<<t>>, a, b) # {}
               PROVE  /\ I * Cardinality(Through(<<t>>, a, b))
                           < EmptyAt(n) - a + I * (M + 1)
                      /\ n.lastRefilledAt <= b
    BY <1>1, <1>2 DEF Paced, PacedIn, I, M
  <2>1. t \in a..b /\ Cardinality(Through(<<t>>, a, b)) = 1
    BY <1>5
  <2> QED
    BY <1>1, <1>2, <1>3, <1>4, <1>6, <2>1
<1>8. Emptied(n, <<t>>)
  <2>1. 1 \in DOMAIN <<t>> /\ <<t>>[1] = t
    OBVIOUS
  <2>2. EmptyAt(n) <= t + MaxDelay
    BY <1>1, <1>3, <1>4, TimeAssumption
  <2> QED
    BY <2>1, <2>2 DEF Emptied
<1>9. Limited(<<t>>)
  <2> SUFFICES ASSUME NEW a \in Int, NEW b \in Int, a <= b
               PROVE  I * Cardinality(Through(<<t>>, a, b)) < I * (M + 1) + (b - a)
    BY DEF Limited, LimitedIn, I, M
  <2>1. CASE t \in a..b
    BY <1>1, <1>4, <1>5, <1>6, <2>1
  <2>2. CASE t \notin a..b
    BY <1>1, <1>4, <1>5, <1>6, <2>2
  <2> QED
    BY <2>1, <2>2
<1> QED
  BY <1>7, <1>8, <1>9

\* What is said of a bucket and its calls is said of its tokens.
LEMMA OfTokens ==
  ASSUME NEW n, NEW m, SameTokens(n, m), NEW times
  PROVE  /\ Paced(m, times) => Paced(n, times)
         /\ Emptied(m, times) => Emptied(n, times)
         /\ n.lastRefilledAt = m.lastRefilledAt
<1>1. EmptyAt(n) = EmptyAt(m) /\ n.lastRefilledAt = m.lastRefilledAt
  BY DEF SameTokens, EmptyAt
<1> QED
  BY <1>1 DEF Paced, PacedIn, Emptied

\* A call that is let through keeps the pace and the limit, in any window.
LEMMA WindowMovesOn ==
  ASSUME NEW n \in bucketNode, NEW t \in Nat, Refilled(n, t).tokenCount >= 1,
         NEW a \in Int, NEW b \in Int, a <= b, NEW c \in Nat,
         c # 0 => PacedIn(n, c, a, b), LimitedIn(c, a, b)
  PROVE  LET u == Taken(Refilled(n, t))
         IN /\ t \in a..b => PacedIn(u, c + 1, a, b) /\ LimitedIn(c + 1, a, b)
            /\ t \notin a..b /\ c # 0 => PacedIn(u, c, a, b)
<1> DEFINE I == refillInterval
           M == maxTokenCount
           u == Taken(Refilled(n, t))
           C == I * c
<1>1. /\ I \in Int /\ I > 0 /\ M \in Int /\ M >= 1 /\ I * M \in Int /\ C \in Int
  BY NewLimitAssumption
<1>2. /\ EmptyAt(n) \in Int /\ EmptyAt(u) \in Int
      /\ u.lastRefilledAt \in Int /\ n.lastRefilledAt \in Int
      /\ t - I < u.lastRefilledAt /\ u.lastRefilledAt < t + I
      /\ \/ u.lastRefilledAt <= t
         \/ u.lastRefilledAt <= n.lastRefilledAt /\ t < n.lastRefilledAt
      /\ EmptyAt(n) + I <= EmptyAt(u)
      /\ EmptyAt(u) <= u.lastRefilledAt
      /\ u.lastRefilledAt + I <= EmptyAt(u) + I * M
  BY UseMovesOn DEF bucketNode
<1>3. /\ I * (M + 1) = I * M + I /\ I * M >= I
      /\ I * (c + 1) = C + I /\ (c = 0 => C = 0)
  BY <1>1
<1>4. c # 0 => /\ C < EmptyAt(n) - a + I * M + I
               /\ n.lastRefilledAt > b =>
                    \/ C <= EmptyAt(n) - a + I * M
                    \/ EmptyAt(n) > b
  BY <1>1, <1>2, <1>3 DEF PacedIn
<1> HIDE DEF u, I, M, C
\* The first conjunct of PacedIn.
<1>5. t \in a..b => C + I < EmptyAt(u) - a + I * M + I
  BY <1>1, <1>2, <1>3, <1>4
\* Its second conjunct: the bucket is not empty for a call that is let through.
<1>6. t \in a..b /\ u.lastRefilledAt > b =>
        C + I <= EmptyAt(u) - a + I * M
  <2> SUFFICES ASSUME t \in a..b, u.lastRefilledAt > b
               PROVE  C + I <= EmptyAt(u) - a + I * M
    OBVIOUS
  <2>1. t <= b /\ a <= t /\ n.lastRefilledAt > b
    BY <1>1, <1>2
  <2>2. EmptyAt(n) < b
    BY <1>1, <1>2, <2>1
  <2> QED
    BY <1>1, <1>2, <1>3, <1>4, <2>1, <2>2
\* The limit.
<1>7. t \in a..b => C + I < I * M + I + (b - a)
  <2> SUFFICES ASSUME t \in a..b PROVE C + I < I * M + I + (b - a)
    OBVIOUS
  <2>1. CASE u.lastRefilledAt <= b
    BY <1>1, <1>2, <1>5, <2>1
  <2>2. CASE u.lastRefilledAt > b
    BY <1>1, <1>2, <1>6, <2>2
  <2> QED
    BY <1>2, <2>1, <2>2
<1>8. t \in a..b => PacedIn(u, c + 1, a, b) /\ LimitedIn(c + 1, a, b)
  BY <1>1, <1>2, <1>3, <1>5, <1>6, <1>7 DEF PacedIn, LimitedIn, I, M, C
\* Outside the window the time the bucket is empty at moves on all the same.
<1>9. c # 0 => PacedIn(u, c, a, b)
  <2>1. c # 0 => C < EmptyAt(u) - a + I * M
    BY <1>1, <1>2, <1>4
  <2> QED
    BY <1>1, <1>2, <1>3, <2>1 DEF PacedIn, I, M, C
<1> QED
  BY <1>8, <1>9 DEF u

\* A call that is let through keeps the pace and the limit.
LEMMA LetThrough ==
  ASSUME NEW n \in bucketNode, NEW times \in Seq(Nat), NEW t \in Nat,
         Paced(n, times), Limited(times), Refilled(n, t).tokenCount >= 1
  PROVE  /\ Paced(Taken(Refilled(n, t)), Append(times, t))
         /\ Limited(Append(times, t))
<1> DEFINE u == Taken(Refilled(n, t))
           after == Append(times, t)
<1>1. after \in Seq(Nat)
  OBVIOUS
<1> HIDE DEF u, after
<1>2. ASSUME NEW a \in Int, NEW b \in Int, a <= b
      PROVE  /\ Through(after, a, b) # {} =>
                  PacedIn(u, Cardinality(Through(after, a, b)), a, b)
             /\ LimitedIn(Cardinality(Through(after, a, b)), a, b)
  <2> DEFINE c == Cardinality(Through(times, a, b))
             d == Cardinality(Through(after, a, b))
  <2>1. /\ c \in Nat /\ (Through(times, a, b) = {} <=> c = 0)
        /\ d = IF t \in a..b THEN c + 1 ELSE c
    BY ThroughAppended DEF after
  <2>2. Through(after, a, b) = {} <=> d = 0
    BY <1>1, ThroughAppended
  <2>3. (c # 0 => PacedIn(n, c, a, b)) /\ LimitedIn(c, a, b)
    BY <1>2, <2>1 DEF Paced, Limited
  <2> HIDE DEF c, d
  <2>4. /\ t \in a..b => PacedIn(u, c + 1, a, b) /\ LimitedIn(c + 1, a, b)
        /\ t \notin a..b /\ c # 0 => PacedIn(u, c, a, b)
    BY <1>2, <2>1, <2>3, WindowMovesOn DEF u
  <2>5. (d # 0 => PacedIn(u, d, a, b)) /\ LimitedIn(d, a, b)
    BY <2>1, <2>3, <2>4
  <2> QED
    BY <2>2, <2>5 DEF d
<1> QED
  BY <1>2 DEF Paced, Limited, u, after

\* A call that is denied keeps the pace.
LEMMA Denied ==
  ASSUME NEW n \in bucketNode, NEW times \in Seq(Nat), NEW t \in Nat,
         Paced(n, times), Emptied(n, times), Refilled(n, t).tokenCount < 1
  PROVE  /\ Paced(Taken(Refilled(n, t)), times)
         /\ Emptied(Taken(Refilled(n, t)), times)
         /\ \E i \in DOMAIN times : times[i] + refillInterval + MaxDelay > t
<1> DEFINE u == Taken(Refilled(n, t))
<1>1. /\ refillInterval \in Int /\ refillInterval > 0 /\ MaxDelay \in Int
      /\ maxTokenCount \in Int /\ refillInterval * (maxTokenCount + 1) \in Int
  BY NewLimitAssumption, TimeAssumption
<1>2. /\ EmptyAt(u) = EmptyAt(n) /\ u.lastRefilledAt <= EmptyAt(u)
      /\ t - refillInterval < u.lastRefilledAt
      /\ EmptyAt(u) \in Int /\ u.lastRefilledAt \in Int
  BY UseMovesOn DEF bucketNode
<1> HIDE DEF u
<1>3. Paced(u, times)
  <2> SUFFICES ASSUME NEW a \in Int, NEW b \in Int, a <= b,
                      PacedIn(n, Cardinality(Through(times, a, b)), a, b)
               PROVE  PacedIn(u, Cardinality(Through(times, a, b)), a, b)
    BY DEF Paced
  <2> QED
    BY <1>1, <1>2 DEF PacedIn
<1>4. Emptied(u, times)
  BY <1>2 DEF Emptied
<1>5. PICK i \in DOMAIN times : EmptyAt(n) <= times[i] + MaxDelay
  BY DEF Emptied
<1>6. times[i] \in Int
  <2>1. times \in [1..Len(times) -> Nat]
    OBVIOUS
  <2> QED
    BY <1>5, <2>1
<1>7. times[i] + refillInterval + MaxDelay > t
  BY <1>1, <1>2, <1>5, <1>6
<1> QED
  BY <1>3, <1>4, <1>7 DEF u

-----------------------------------------------------------------------------
(* The history. *)

\* The clock waits for the calls that wait for the mutex.
Waiting ==
  \A c \in Callers : call[c] # NoCall =>
    call[c].now <= clock /\ clock <= call[c].now + MaxDelay

LogInv ==
  /\ IInv
  /\ Waiting
  /\ log \in [Keys -> Seq(Nat)]
  /\ \A k \in Keys \ Items(limit) : log[k] = <<>>
  /\ \A k \in Keys : Limited(log[k])
  /\ \A k \in Items(limit) :
       /\ limit.nodes[k].lastRefilledAt <= clock
       /\ Paced(limit.nodes[k], log[k])
       /\ Emptied(limit.nodes[k], log[k])

\* The call of key k that returns in a step read the time t, and no other.
OnlyReturn(k, t) ==
  /\ t \in 0..clock /\ Returns(k, t)
  /\ \A s \in Int : Returns(k, s) => s = t

\* What a step does to the bucket of key k.
LEMMA BucketAfter ==
  ASSUME LogInv, Next, NEW k \in Keys, k \in Items(limit')
  PROVE  \/ /\ \A s \in Int : ~Returns(k, s)
            /\ k \in Items(limit)
            /\ SameTokens(limit'.nodes[k], limit.nodes[k])
         \/ \E t \in 0..clock :
              /\ OnlyReturn(k, t) /\ t <= clock /\ clock <= t + MaxDelay
              /\ k \notin Items(limit)
              /\ SameTokens(limit'.nodes[k], NewBucket(t))
         \/ \E t \in 0..clock :
              /\ OnlyReturn(k, t) /\ t <= clock /\ clock <= t + MaxDelay
              /\ k \in Items(limit)
              /\ SameTokens(limit'.nodes[k], Taken(Refilled(limit.nodes[k], t)))
<1>1. /\ call \in [Callers -> [key : Keys \union {nil}, now : Nat]]
      /\ k # nil /\ NoCall.key = nil /\ clock \in Nat /\ IInv /\ Waiting
  BY NilAssumption, TimeAssumption DEF LogInv, IInv, CallsOK, NoCall
<1>2. ASSUME NEW c \in Callers, NEW j \in Keys, CallConsume(c, j) PROVE
        /\ \A s \in Int : ~Returns(k, s)
        /\ k \in Items(limit)
        /\ SameTokens(limit'.nodes[k], limit.nodes[k])
  <2>1. limit' = limit /\ call[c] = NoCall
        /\ \A d \in Callers : call'[d] = NoCall => d # c /\ call[d] = NoCall
    <3>1. nil \notin Keys
      BY NilAssumption
    <3> QED
      BY <1>1, <1>2, <3>1 DEF CallConsume, NoCall
  <2>2. \A s \in Int : ~Returns(k, s)
    BY <1>1, <2>1 DEF Returns
  <2> QED
    BY <2>1, <2>2 DEF SameTokens
<1>3. ASSUME NEW c \in Callers, Consume(c), call[c].key = k
      PROVE  LET t == call[c].now
             IN t \in 0..clock /\ OnlyReturn(k, t) /\ clock <= t + MaxDelay
  <2>1. call[c] # NoCall /\ call' = [call EXCEPT ![c] = NoCall]
    BY <1>3 DEF Consume, ConsumeNew, ConsumeKnown
  <2>2. /\ call[c].now \in Nat /\ call[c].now <= clock
        /\ clock <= call[c].now + MaxDelay
        /\ call[c] = [key |-> k, now |-> call[c].now]
    BY <1>1, <1>3, <2>1 DEF Waiting
  <2>3. \A d \in Callers : call'[d] = NoCall => d = c \/ call[d] = NoCall
    BY <1>1, <2>1
  <2>4. \A s \in Int : Returns(k, s) => s = call[c].now
    BY <1>1, <2>2, <2>3 DEF Returns
  <2>5. Returns(k, call[c].now)
    BY <1>1, <2>1, <2>2 DEF Returns
  <2> QED
    BY <1>1, <2>2, <2>4, <2>5 DEF OnlyReturn
<1>4. ASSUME NEW c \in Callers, Consume(c), call[c].key # k PROVE
        /\ \A s \in Int : ~Returns(k, s)
        /\ k \in Items(limit)
        /\ SameTokens(limit'.nodes[k], limit.nodes[k])
  <2>1. call' = [call EXCEPT ![c] = NoCall]
    BY <1>4 DEF Consume, ConsumeNew, ConsumeKnown
  <2>2. \A s \in Int : ~Returns(k, s)
    BY <1>1, <1>4, <2>1 DEF Returns
  <2>3. TokensKept(limit, limit', {call[c].key})
    BY <1>1, <1>4, ConsumeNewKeeps, ConsumeKnownKeeps DEF Consume
  <2> QED
    BY <1>4, <2>2, <2>3 DEF TokensKept
<1>5. ASSUME NEW c \in Callers, ConsumeNew(c), call[c].key = k PROVE
        \E t \in 0..clock :
          /\ OnlyReturn(k, t) /\ t <= clock /\ clock <= t + MaxDelay
          /\ k \notin Items(limit)
          /\ SameTokens(limit'.nodes[k], NewBucket(t))
  <2>1. SameTokens(limit'.nodes[k], NewBucket(call[c].now))
    BY <1>1, <1>5, ConsumeNewKeeps
  <2>2. k \notin Items(limit)
    BY <1>5 DEF ConsumeNew, Items
  <2> QED
    BY <1>1, <1>3, <1>5, <2>1, <2>2 DEF Consume
<1>6. ASSUME NEW c \in Callers, ConsumeKnown(c), call[c].key = k PROVE
        \E t \in 0..clock :
          /\ OnlyReturn(k, t) /\ t <= clock /\ clock <= t + MaxDelay
          /\ k \in Items(limit)
          /\ SameTokens(limit'.nodes[k], Taken(Refilled(limit.nodes[k], t)))
  <2>1. SameTokens(limit'.nodes[k], Taken(Refilled(limit.nodes[k], call[c].now)))
    BY <1>1, <1>6, ConsumeKnownKeeps
  <2>2. k \in Items(limit)
    BY <1>6 DEF ConsumeKnown, Items
  <2> QED
    BY <1>1, <1>3, <1>6, <2>1, <2>2 DEF Consume
<1>7. ASSUME UNCHANGED call, TokensKept(limit, limit', {}) PROVE
        /\ \A s \in Int : ~Returns(k, s)
        /\ k \in Items(limit)
        /\ SameTokens(limit'.nodes[k], limit.nodes[k])
  <2>1. \A s \in Int : ~Returns(k, s)
    BY <1>1, <1>7 DEF Returns
  <2> QED
    BY <1>7, <2>1 DEF TokensKept
<1>8. ASSUME NEW j \in Keys, Delete(j)
      PROVE  UNCHANGED call /\ TokensKept(limit, limit', {})
  <2>1. j \in Items(limit) /\ Sound(limit)
    BY <1>1, <1>8 DEF Delete, Items, IInv
  <2> QED
    BY <1>8, <2>1, RemovedOK DEF Delete
<1>9. ASSUME Clear PROVE FALSE
  BY <1>9 DEF Clear, emptyLimit, Items
<1>10. ASSUME Tick PROVE UNCHANGED call /\ TokensKept(limit, limit', {})
  BY <1>10 DEF Tick, TokensKept, SameTokens
<1>11. CASE \E c \in Callers, j \in Keys : CallConsume(c, j)
  BY <1>2, <1>11
<1>12. CASE \E c \in Callers : Consume(c)
  BY <1>4, <1>5, <1>6, <1>12 DEF Consume
<1>13. CASE \E j \in Keys : Delete(j)
  BY <1>7, <1>8, <1>13
<1> QED
  BY <1>7, <1>9, <1>10, <1>11, <1>12, <1>13 DEF Next

\* The tokens of a refilled bucket are a number.
LEMMA RefilledType ==
  ASSUME NEW n \in bucketNode, NEW t \in Nat
  PROVE  Refilled(n, t).tokenCount \in Int
<1>1. Refilled(n, t).tokenCount =
        CappedTokens(n.tokenCount
                     + Quotient(t - n.lastRefilledAt, refillInterval))
  BY DEF Refilled, bucketNode
<1>2. n.tokenCount \in Int /\ t - n.lastRefilledAt \in Int
  BY DEF bucketNode
<1>3. Quotient(t - n.lastRefilledAt, refillInterval) \in Int
  BY <1>2, QuotientIs
<1> QED
  BY <1>1, <1>2, <1>3, NewLimitAssumption DEF CappedTokens

\* A bucket that let no call through exceeds no limit.
LEMMA EmptyLimited == Limited(<<>>)
<1>1. ASSUME NEW a \in Int, NEW b \in Int, a <= b
      PROVE  LimitedIn(Cardinality(Through(<<>>, a, b)), a, b)
  <2>1. Through(<<>>, a, b) = {}
    BY DEF Through
  <2>2. Cardinality(Through(<<>>, a, b)) = 0
    BY <2>1, FS_EmptySet
  <2>3. refillInterval * (maxTokenCount + 1) > 0 /\ refillInterval * 0 = 0
    BY NewLimitAssumption
  <2> QED
    BY <1>1, <2>2, <2>3, NewLimitAssumption DEF LimitedIn
<1> QED
  BY <1>1 DEF Limited

\* A bucket that was not used, and its history, are as they were; so are those
\* of a call that is denied, but for its bucket.
LEMMA HistoryAfter ==
  ASSUME LogInv, LogNext, NEW k \in Keys
  PROVE  /\ log'[k] \in Seq(Nat) /\ Limited(log'[k])
         /\ k \notin Items(limit') => log'[k] = <<>>
         /\ k \in Items(limit') =>
              /\ limit'.nodes[k].lastRefilledAt <= clock
              /\ Paced(limit'.nodes[k], log'[k])
              /\ Emptied(limit'.nodes[k], log'[k])
<1>1. /\ clock \in Nat /\ log \in [Keys -> Seq(Nat)] /\ MaxDelay \in Int
      /\ log[k] \in Seq(Nat) /\ Limited(log[k]) /\ IInv /\ limit \in LimitRecord
      /\ k \notin Items(limit) => log[k] = <<>>
      /\ k \in Items(limit) =>
           /\ limit.nodes[k].lastRefilledAt <= clock
           /\ Paced(limit.nodes[k], log[k])
           /\ Emptied(limit.nodes[k], log[k])
  BY TimeAssumption DEF LogInv, IInv, Sound
<1>2. log'[k] =
        IF limit'.nodes[k] = nil THEN <<>>
        ELSE IF \E t \in 0..clock : Returns(k, t) /\ Allowed(k, t)
        THEN Append(log[k], CHOOSE t \in 0..clock : Returns(k, t))
        ELSE log[k]
  BY DEF LogNext
<1>3. /\ k \in Items(limit) <=> limit.nodes[k] # nil
      /\ k \in Items(limit') <=> limit'.nodes[k] # nil
      /\ k \in Items(limit) => limit.nodes[k] \in bucketNode
  BY <1>1, ItemsOf DEF Items
<1>4. ASSUME NEW t \in 0..clock, OnlyReturn(k, t), k \in Items(limit')
      PROVE  log'[k] = IF Allowed(k, t) THEN Append(log[k], t) ELSE log[k]
  <2>1. \A s \in 0..clock : Returns(k, s) <=> s = t
    BY <1>1, <1>4 DEF OnlyReturn
  <2>2. (CHOOSE s \in 0..clock : Returns(k, s)) = t
    BY <2>1
  <2> QED
    BY <1>2, <1>3, <1>4, <2>1, <2>2
<1>5. CASE k \notin Items(limit')
  <2>1. log'[k] = <<>>
    BY <1>2, <1>3, <1>5
  <2>2. <<>> \in Seq(Nat) /\ Limited(<<>>)
    BY EmptyLimited
  <2> QED
    BY <1>5, <2>1, <2>2
<1>6. CASE k \in Items(limit') /\ \A s \in Int : ~Returns(k, s)
  <2>1. SameTokens(limit'.nodes[k], limit.nodes[k]) /\ k \in Items(limit)
    BY <1>6, BucketAfter DEF LogNext, OnlyReturn
  <2>2. log'[k] = log[k]
    BY <1>1, <1>2, <1>3, <1>6
  <2> QED
    BY <1>1, <1>6, <2>1, <2>2, OfTokens
<1>7. ASSUME NEW t \in 0..clock, OnlyReturn(k, t), k \in Items(limit'),
             k \notin Items(limit), SameTokens(limit'.nodes[k], NewBucket(t))
      PROVE  /\ log'[k] \in Seq(Nat) /\ Limited(log'[k])
             /\ limit'.nodes[k].lastRefilledAt <= clock
             /\ Paced(limit'.nodes[k], log'[k])
             /\ Emptied(limit'.nodes[k], log'[k])
  <2>1. log'[k] = <<t>> /\ <<t>> \in Seq(Nat) /\ t \in Nat /\ t <= clock
    <3>1. Allowed(k, t)
      BY <1>3, <1>7 DEF Allowed
    <3>2. log'[k] = Append(<<>>, t)
      BY <1>1, <1>4, <1>7, <3>1
    <3> QED
      BY <1>1, <3>2
  <2>2. limit'.nodes[k].lastRefilledAt = t
    BY <1>7 DEF SameTokens, NewBucket
  <2> QED
    BY <1>7, <2>1, <2>2, PacedFromStart
<1>8. ASSUME NEW t \in 0..clock, OnlyReturn(k, t), k \in Items(limit'),
             clock <= t + MaxDelay, k \in Items(limit),
             SameTokens(limit'.nodes[k], Taken(Refilled(limit.nodes[k], t)))
      PROVE  /\ log'[k] \in Seq(Nat) /\ Limited(log'[k])
             /\ limit'.nodes[k].lastRefilledAt <= clock
             /\ Paced(limit'.nodes[k], log'[k])
             /\ Emptied(limit'.nodes[k], log'[k])
  <2> DEFINE n == limit.nodes[k]
             r == Refilled(n, t)
             u == Taken(r)
  <2>1. /\ n \in bucketNode /\ t \in Nat /\ t <= clock
        /\ n.lastRefilledAt \in Int /\ u.lastRefilledAt \in Int
        /\ u \in bucketNode
    <3>1. n \in bucketNode /\ t \in Nat /\ t <= clock
      BY <1>1, <1>3, <1>8
    <3>2. u \in bucketNode
      BY <3>1, UseMovesOn
    <3> QED
      BY <3>1, <3>2 DEF bucketNode
  <2>2. \/ u.lastRefilledAt <= t
        \/ u.lastRefilledAt <= n.lastRefilledAt /\ t < n.lastRefilledAt
    BY <2>1, UseMovesOn
  <2>3. u.lastRefilledAt <= clock
    BY <1>1, <1>8, <2>1, <2>2
  <2>4. r.tokenCount \in Int
    BY <2>1, RefilledType
  <2>5. Allowed(k, t) <=> r.tokenCount >= 1
    BY <1>3, <1>8 DEF Allowed
  <2>6. /\ log[k] \in Seq(Nat) /\ Limited(log[k])
        /\ Paced(n, log[k]) /\ Emptied(n, log[k])
    BY <1>1, <1>8
  <2>7. CASE r.tokenCount >= 1
    <3>1. log'[k] = Append(log[k], t) /\ Append(log[k], t) \in Seq(Nat)
      <4>1. Allowed(k, t)
        BY <2>5, <2>7
      <4>2. log'[k] = Append(log[k], t)
        BY <1>4, <1>8, <4>1
      <4> QED
        BY <2>1, <2>6, <4>2
    <3>2. Paced(u, Append(log[k], t)) /\ Limited(Append(log[k], t))
      BY <2>1, <2>6, <2>7, LetThrough
    <3>3. Emptied(u, Append(log[k], t))
      <4>1. /\ Len(log[k]) + 1 \in DOMAIN Append(log[k], t)
            /\ Append(log[k], t)[Len(log[k]) + 1] = t
        BY <2>6
      <4>2. EmptyAt(u) <= u.lastRefilledAt /\ EmptyAt(u) \in Int
        BY <2>1, <2>7, UseMovesOn
      <4>3. EmptyAt(u) <= t + MaxDelay
        <5> HIDE DEF n, r, u
        <5> QED
          BY <1>1, <1>8, <2>1, <2>3, <4>2
      <4> QED
        BY <4>1, <4>3 DEF Emptied
    <3> QED
      BY <1>8, <2>3, <3>1, <3>2, <3>3, OfTokens
  <2>8. CASE r.tokenCount < 1
    <3>1. log'[k] = log[k]
      BY <1>4, <1>8, <2>4, <2>5, <2>8
    <3>2. Paced(u, log[k]) /\ Emptied(u, log[k])
      BY <2>1, <2>6, <2>8, Denied
    <3> QED
      BY <1>8, <2>3, <2>6, <3>1, <3>2, OfTokens
  <2> QED
    BY <2>4, <2>7, <2>8
<1> QED
  BY <1>5, <1>6, <1>7, <1>8, BucketAfter DEF LogNext

\* Every step keeps the invariant of the history.
LEMMA LogNextInvariant == LogInv /\ [LogNext]_<<vars, log>> => LogInv'
<1> SUFFICES ASSUME LogInv, [LogNext]_<<vars, log>> PROVE LogInv'
  OBVIOUS
<1>1. CASE LogNext
  <2>1. Next /\ IInv'
    BY <1>1, NextInvariant DEF LogNext, LogInv
  <2>2. clock \in Nat /\ clock' \in Nat /\ clock <= clock'
    <3>1. clock \in Nat /\ clock' \in Nat
      BY <2>1, TimeAssumption DEF LogInv, IInv
    <3>2. clock' = clock \/ clock' = clock + 1
      BY <2>1 DEF Next, CallConsume, Consume, ConsumeNew, ConsumeKnown, Delete,
         Clear, Tick
    <3> QED
      BY <3>1, <3>2
  <2>3. Waiting'
    <3>1. /\ call \in [Callers -> [key : Keys \union {nil}, now : Nat]]
          /\ MaxDelay \in Nat /\ Waiting
      BY TimeAssumption DEF LogInv, IInv, CallsOK
    <3>2. ASSUME NEW c \in Callers, NEW k \in Keys, CallConsume(c, k)
          PROVE  Waiting'
      BY <2>2, <3>1, <3>2 DEF CallConsume, Waiting
    <3>3. ASSUME NEW c \in Callers, Consume(c) PROVE Waiting'
      <4>1. clock' = clock /\ call' = [call EXCEPT ![c] = NoCall]
        BY <3>3 DEF Consume, ConsumeNew, ConsumeKnown
      <4> QED
        BY <3>1, <4>1 DEF Waiting
    <3>4. ASSUME NEW k \in Keys, Delete(k) PROVE Waiting'
      BY <3>1, <3>4 DEF Delete, Waiting
    <3>5. CASE Clear
      BY <3>1, <3>5 DEF Clear, Waiting
    <3>6. CASE Tick
      BY <2>2, <3>1, <3>6 DEF Tick, Waiting
    <3> QED
      BY <2>1, <3>2, <3>3, <3>4, <3>5, <3>6 DEF Next
  <2>4. ASSUME NEW k \in Keys
        PROVE  /\ log'[k] \in Seq(Nat) /\ Limited(log'[k])
               /\ k \notin Items(limit') => log'[k] = <<>>
               /\ k \in Items(limit') =>
                    /\ limit'.nodes[k].lastRefilledAt <= clock'
                    /\ Paced(limit'.nodes[k], log'[k])
                    /\ Emptied(limit'.nodes[k], log'[k])
    <3>1. k \in Items(limit') => limit'.nodes[k].lastRefilledAt \in Int
      <4>1. limit' \in LimitRecord
        BY <2>1 DEF IInv, Sound
      <4> QED
        BY <4>1, ItemsOf DEF bucketNode
    <3> QED
      BY <1>1, <2>2, <3>1, HistoryAfter
  <2>5. log' \in [Keys -> Seq(Nat)]
    <3>1. log' = [k \in Keys |-> log'[k]]
      BY <1>1 DEF LogNext
    <3> QED
      BY <2>4, <3>1
  <2>6. \A k \in Items(limit') : k \in Keys
    BY DEF Items
  <2> QED
    BY <2>1, <2>3, <2>4, <2>5, <2>6 DEF LogInv
<1>2. CASE UNCHANGED <<vars, log>>
  <2>1. IInv'
    BY <1>2, NextInvariant DEF LogInv
  <2>2. UNCHANGED <<clock, limit, call, log>>
    BY <1>2 DEF vars
  <2>3. Waiting'
    BY <2>2 DEF LogInv, Waiting
  <2> QED
    BY <2>1, <2>2, <2>3 DEF LogInv
<1> QED
  BY <1>1, <1>2

\* The invariant of the history holds for ever.
LEMMA LogInvariant == LogSpec => []LogInv
<1>1. LogInit => LogInv
  <2> SUFFICES ASSUME LogInit PROVE LogInv
    OBVIOUS
  <2>1. Init /\ log = [k \in Keys |-> <<>>]
    BY DEF LogInit
  <2>2. IInv /\ Waiting /\ Items(limit) = {}
    BY <2>1, EmptySound, TimeAssumption
       DEF Init, IInv, CallsOK, NoCall, Waiting, Items, emptyLimit
  <2>3. log \in [Keys -> Seq(Nat)]
    <3>1. <<>> \in Seq(Nat)
      OBVIOUS
    <3> QED
      BY <2>1, <3>1
  <2>4. Limited(<<>>)
    BY EmptyLimited
  <2> QED
    BY <2>1, <2>2, <2>3, <2>4 DEF LogInv
<1> QED
  BY <1>1, LogNextInvariant, PTL DEF LogSpec

\* However long calls wait for the mutex, and in whatever order they get it, no
\* window of time sees more calls let through than a full bucket, its refill in
\* that time and one more.
THEOREM LimitHolds == LogSpec => []WindowLimit
<1>1. LogInv => WindowLimit
  <2> SUFFICES ASSUME LogInv, NEW k \in Keys, NEW a \in 0..clock, NEW b \in a..clock
               PROVE  LimitedIn(Cardinality(Through(log[k], a, b)), a, b)
    BY DEF WindowLimit, LimitedIn
  <2>1. clock \in Int /\ Limited(log[k])
    BY TimeAssumption DEF LogInv, IInv
  <2> QED
    BY <2>1 DEF Limited
<1> QED
  BY <1>1, LogInvariant, PTL

\* Whoever is denied was let through less than an interval, and the time a call
\* waits for the mutex, before: nobody is denied for asking.
THEOREM DenialIsDeserved == LogSpec => DeniedOnlyAfterUse
<1>1. LogInv /\ [LogNext]_<<vars, log>> =>
        [ \A k \in Keys, t \in 0..clock :
            Returns(k, t) /\ ~Allowed(k, t) =>
              \E i \in DOMAIN log[k] :
                log[k][i] + refillInterval + MaxDelay > t
        ]_<<vars, log>>
  <2> SUFFICES ASSUME LogInv, NEW k \in Keys, NEW t \in 0..clock, ~Allowed(k, t)
               PROVE  \E i \in DOMAIN log[k] :
                        log[k][i] + refillInterval + MaxDelay > t
    OBVIOUS
  <2> DEFINE n == limit.nodes[k]
  <2>1. /\ limit \in LimitRecord /\ n # nil /\ clock \in Nat
        /\ ~(Refilled(n, t).tokenCount >= 1)
    BY TimeAssumption DEF Allowed, LogInv, IInv, Sound
  <2>2. k \in Items(limit) /\ n \in bucketNode /\ t \in Nat
    BY <2>1, ItemsOf
  <2>3. log[k] \in Seq(Nat) /\ Paced(n, log[k]) /\ Emptied(n, log[k])
    BY <2>2 DEF LogInv
  <2>4. Refilled(n, t).tokenCount < 1
    BY <2>1, <2>2, RefilledType
  <2> QED
    BY <2>2, <2>3, <2>4, Denied
<1>2. DeniedOnlyAfterUse <=>
        [][ \A k \in Keys, t \in 0..clock :
              Returns(k, t) /\ ~Allowed(k, t) =>
                \E i \in DOMAIN log[k] :
                  log[k][i] + refillInterval + MaxDelay > t
          ]_<<vars, log>>
  BY DEF DeniedOnlyAfterUse
<1> QED
  BY <1>1, <1>2, LogInvariant, PTL DEF LogSpec

=============================================================================
