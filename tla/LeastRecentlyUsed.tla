------------------------- MODULE LeastRecentlyUsed -------------------------
(***************************************************************************)
(* What the list of a rate limit is for: to remember at most maxItemCount  *)
(* keys, in the order of their last use, and to forget the least recently  *)
(* used one when there is no room for another.                             *)
(***************************************************************************)
EXTENDS Naturals, Sequences, SequencesExt

CONSTANTS Keys, maxItemCount

VARIABLE order  \* the keys remembered, the least recently used one first

\* Key k is used.
Use(k) ==
  \/ \E i \in 1..Len(order) :
       order[i] = k /\ order' = Append(RemoveAt(order, i), k)
  \/ /\ ~Contains(order, k)
     /\ order' = Append(IF Len(order) = maxItemCount THEN Tail(order)
                        ELSE order, k)

Forget(k) ==
  \E i \in 1..Len(order) : order[i] = k /\ order' = RemoveAt(order, i)

ForgetAll == order' = <<>>

OrderInit == order = <<>>

OrderNext ==
  \/ \E k \in Keys : Use(k) \/ Forget(k)
  \/ ForgetAll

OrderSpec == OrderInit /\ [][OrderNext]_order
=============================================================================
