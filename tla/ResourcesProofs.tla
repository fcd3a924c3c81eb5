-------------------------- MODULE ResourcesProofs --------------------------
(***************************************************************************)
(* Any number of workers with any plans put the write connection back      *)
(* clean.  That nobody else is within a transaction needs that nobody else *)
(* has the connection, which is what the size of its pool gives.           *)
(***************************************************************************)
EXTENDS Resources, FiniteSetTheorems, SequenceTheorems, TLAPS

OneWriter == \A v, w \in held["writeConnection"] : v = w

IInv == TypeOK /\ OneWriter /\ PutBackClean

LEMMA InitIInv == ResourcesInit => IInv
<1> SUFFICES ASSUME ResourcesInit PROVE IInv
  OBVIOUS
<1>1. TypeOK
  <2>1. plan \in [Workers -> Seq(Uses)]
    BY DEF ResourcesInit
  <2>2. queue \in [Resources -> Seq(Workers)]
    BY DEF ResourcesInit
  <2>3. held \in [Resources -> SUBSET Workers] /\ open \in BOOLEAN
    BY DEF ResourcesInit
  <2> QED
    BY <2>1, <2>2, <2>3 DEF TypeOK
<1>2. held["writeConnection"] = {}
  BY DEF ResourcesInit, Resources
<1>3. ~open
  BY DEF ResourcesInit
<1> QED
  BY <1>1, <1>2, <1>3 DEF IInv, OneWriter, PutBackClean

-----------------------------------------------------------------------------

LEMMA NeedsType ==
  ASSUME TypeOK, NEW w \in Workers, Working(w)
  PROVE  Needs(w) \in Resources /\ Head(plan[w]) \in Uses
<1>1. plan[w] \in Seq(Uses) /\ plan[w] # <<>>
  BY DEF TypeOK, Working
<1>2. Head(plan[w]) \in Uses
  BY <1>1
<1>3. \A use \in Uses : ResourceOf[use] \in Resources
  BY DEF Uses, ResourceOf, Resources
<1> QED
  BY <1>2, <1>3 DEF Needs

LEMMA TypeOKStep ==
  ASSUME TypeOK, [ResourcesNext]_resourceVars
  PROVE  TypeOK'
<1> USE DEF TypeOK
<1>1. ASSUME NEW w \in Workers, Start(w)
      PROVE  TypeOK'
  BY <1>1, ResourcesAssumption DEF Start
<1>2. ASSUME NEW w \in Workers, Take(w)
      PROVE  TypeOK'
  BY <1>2, NeedsType DEF Take
<1>3. ASSUME NEW w \in Workers, Working(w), Put(w)
      PROVE  held' \in [Resources -> SUBSET Workers]
  BY <1>3, NeedsType DEF Put
<1>4. ASSUME NEW w \in Workers, Working(w), Advance(w) \/ GiveUp(w)
      PROVE  plan' \in [Workers -> Seq(Uses)]
  <2>1. plan[w] \in Seq(Uses) /\ Tail(plan[w]) \in Seq(Uses) /\ <<>> \in Seq(Uses)
    BY <1>4 DEF Working
  <2> QED
    BY <1>4, <2>1 DEF Advance, GiveUp
<1>5. ASSUME NEW w \in Workers, Fail(w) \/ Use(w) \/ Begin(w) \/ Commit(w) \/ Abort(w)
      PROVE  TypeOK'
  <2>1. Working(w)
    BY <1>5 DEF Fail, Use, Begin, Commit, Abort, Using
  <2> QED
    BY <1>5, <1>3, <1>4, <2>1
    DEF Fail, Use, Begin, Commit, Abort, Rollback, PutAfterError
<1>6. ASSUME NEW r \in Resources, Hand(r)
      PROVE  TypeOK'
  <2>1. queue[r] \in Seq(Workers) /\ queue[r] # <<>>
    BY <1>6 DEF Hand
  <2>2. Head(queue[r]) \in Workers /\ Tail(queue[r]) \in Seq(Workers)
    BY <2>1
  <2> QED
    BY <1>6, <2>2 DEF Hand
<1>7. CASE UNCHANGED resourceVars
  BY <1>7 DEF resourceVars
<1> QED
  BY <1>1, <1>2, <1>5, <1>6, <1>7 DEF ResourcesNext, Step

-----------------------------------------------------------------------------

\* The write connection is handed on only when nobody has it.
LEMMA HandsToOne ==
  ASSUME TypeOK, Hand("writeConnection")
  PROVE  /\ held["writeConnection"] = {}
         /\ held'["writeConnection"] = {Head(queue["writeConnection"])}
<1> DEFINE writers == held["writeConnection"]
<1>1. "writeConnection" \in Resources /\ PoolSize["writeConnection"] = 1
  BY DEF Resources, PoolSize
<1>2. IsFiniteSet(writers)
  BY <1>1, ResourcesAssumption, FS_Subset DEF TypeOK
<1>3. Cardinality(writers) \in Nat /\ Cardinality(writers) < 1
  BY <1>1, <1>2, FS_CardinalityType DEF Hand
<1>4. Cardinality(writers) = 0
  BY <1>3
<1>5. writers = {}
  BY <1>2, <1>4, FS_EmptySet
<1> QED
  BY <1>1, <1>5 DEF Hand, TypeOK

\* Steps but Hand only take from those who have the write connection.
LEMMA WritersOnlyLeave ==
  ASSUME TypeOK, NEW w \in Workers, Start(w) \/ Step(w)
  PROVE  held'["writeConnection"] \in
           {held["writeConnection"], held["writeConnection"] \ {w}}
<1>1. CASE UNCHANGED held
  BY <1>1
<1>2. CASE Put(w)
  BY <1>2 DEF Put, TypeOK, Resources
<1> QED
  BY <1>1, <1>2
  DEF Start, Step, Take, Fail, Use, Begin, Commit, Abort, PutAfterError

LEMMA OneWriterStep ==
  ASSUME IInv, [ResourcesNext]_resourceVars
  PROVE  OneWriter'
<1> USE DEF IInv, OneWriter
<1>1. ASSUME NEW w \in Workers, Start(w) \/ Step(w)
      PROVE  OneWriter'
  BY <1>1, WritersOnlyLeave
<1>2. ASSUME NEW r \in Resources, Hand(r)
      PROVE  OneWriter'
  <2>1. CASE r = "writeConnection"
    BY <1>2, <2>1, HandsToOne
  <2>2. CASE r # "writeConnection"
    BY <1>2, <2>2 DEF Hand, TypeOK, Resources
  <2> QED
    BY <2>1, <2>2
<1>3. CASE UNCHANGED resourceVars
  BY <1>3 DEF resourceVars
<1> QED
  BY <1>1, <1>2, <1>3 DEF ResourcesNext

\* While w is in a transaction, what others do leaves it there.
LEMMA OthersLeaveTransaction ==
  ASSUME TypeOK, NEW w \in Workers, NEW v \in Workers, v # w,
         held["writeConnection"] = {w}, Using(w, "transaction"),
         Start(v) \/ Step(v)
  PROVE  held'["writeConnection"] = {w} /\ Using(w, "transaction")'
<1>1. held'["writeConnection"] = {w}
  BY WritersOnlyLeave
<1>2. plan'[w] = plan[w]
  BY DEF Start, Step, Take, Fail, Use, Begin, Commit, Abort, Advance, GiveUp, TypeOK
<1> QED
  BY <1>1, <1>2 DEF Using, Working, ResourceOf

LEMMA PutBackCleanStep ==
  ASSUME IInv, [ResourcesNext]_resourceVars
  PROVE  PutBackClean'
<1> SUFFICES ASSUME open'
             PROVE  \E w \in Workers : /\ held'["writeConnection"] = {w}
                                       /\ Using(w, "transaction")'
  BY DEF PutBackClean
<1> USE DEF IInv
<1>1. CASE ~open
  <2>1. PICK w \in Workers : Begin(w)
    BY <1>1 DEF ResourcesNext, Step, Start, Take, Fail, Use, Commit, Abort, Hand,
                Rollback, resourceVars
  <2>2. Using(w, "transaction") /\ UNCHANGED <<plan, held>>
    BY <2>1 DEF Begin
  <2>3. held["writeConnection"] = {w}
    BY <2>2 DEF Using, OneWriter, ResourceOf
  <2> QED
    BY <2>2, <2>3 DEF Using, Working
<1>2. CASE open
  <2>1. PICK w \in Workers : /\ held["writeConnection"] = {w}
                             /\ Using(w, "transaction")
    BY <1>2 DEF PutBackClean
  <2>2. ASSUME NEW v \in Workers, v # w, Start(v) \/ Step(v)
        PROVE  held'["writeConnection"] = {w} /\ Using(w, "transaction")'
    BY <2>1, <2>2, OthersLeaveTransaction
  <2>3. ~(Start(w) \/ Step(w))
    <3>1. ~Start(w) /\ ~Take(w)
      BY <2>1 DEF Start, Take, Using, Holds, Resources
    <3>2. ~Fail(w) /\ ~Begin(w)
      BY <1>2, <2>1 DEF Fail, Begin, Using
    <3>3. ~Use(w)
      BY <2>1 DEF Use, Using
    <3>4. ~Commit(w) /\ ~Abort(w)
      BY DEF Commit, Abort, Rollback
    <3> QED
      BY <3>1, <3>2, <3>3, <3>4 DEF Step
  <2>4. ASSUME NEW r \in Resources, Hand(r)
        PROVE  held'["writeConnection"] = {w} /\ Using(w, "transaction")'
    <3>1. r # "writeConnection"
      BY <2>1, <2>4, HandsToOne
    <3>2. held'["writeConnection"] = {w} /\ plan' = plan
      BY <2>1, <2>4, <3>1 DEF Hand, TypeOK, Resources
    <3> QED
      BY <2>1, <3>2 DEF Using, Working, ResourceOf
  <2>5. CASE UNCHANGED resourceVars
    BY <2>1, <2>5 DEF resourceVars, Using, Working
  <2> QED
    BY <2>2, <2>3, <2>4, <2>5 DEF ResourcesNext
<1> QED
  BY <1>1, <1>2

-----------------------------------------------------------------------------

\* However many requests run and whatever fails, no connection goes back to its
\* pool in a transaction.
THEOREM WritesStayPossible == ResourcesSpec => []PutBackClean
<1>1. IInv /\ [ResourcesNext]_resourceVars => IInv'
  BY TypeOKStep, OneWriterStep, PutBackCleanStep DEF IInv
<1>2. IInv => PutBackClean
  BY DEF IInv
<1> QED
  BY InitIInv, <1>1, <1>2, PTL DEF ResourcesSpec
=============================================================================
