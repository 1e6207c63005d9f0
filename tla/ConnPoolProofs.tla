---------------------------- MODULE ConnPoolProofs --------------------------
(* Theorems about ConnPool, for a pool of any size and any number of        *)
(* handlers with any number of queries.                                     *)
EXTENDS ConnPool, FiniteSetTheorems, TLAPS

InTx == {"acquire", "query", "row", "work"}

\* Where a handler stands says which connections it holds; the row belongs to
\* one that has nothing left to read.
Seated ==
    /\ \A h \in TxRequests : /\ h \in inTx <=> pc[h] \in InTx
                             /\ pc[h] \in {"acquire", "query"} => left[h] > 0
                             /\ rowLock = h => pc[h] = "work"
    /\ \A h \in Handlers : h \in inQuery <=> pc[h] = "query"
    /\ \A h \in Queries : pc[h] \in {"idle", "acquire", "query"}

PoolInv == TypeOK /\ Seated

LEMMA Pool ==
    /\ MaxConns \in Nat /\ MaxConns > 0 /\ PoolReads \in Nat /\ PoolReads > 0
    /\ IsFiniteSet(Handlers)
    /\ TxRequests \subseteq Handlers /\ Queries \subseteq Handlers
    /\ \A h \in Handlers : h \in Queries <=> h \notin TxRequests
    /\ \A h \in Handlers : h # Nobody
  BY ConnPoolAssumption DEF Handlers

\* The connections of finitely many handlers can be counted.
LEMMA Countable ==
    ASSUME NEW S \in SUBSET Handlers
    PROVE  IsFiniteSet(S) /\ Cardinality(S) \in Nat
  BY Pool, FS_Subset, FS_CardinalityType

LEMMA Adding ==
    ASSUME NEW S \in SUBSET Handlers, NEW h
    PROVE  Cardinality(S \cup {h}) <= Cardinality(S) + 1 /\ Cardinality(S \cup {h}) \in Nat
  <1>1. IsFiniteSet(S) /\ Cardinality(S) \in Nat
    BY Countable
  <1>2. CASE h \in S
    <2>1. S \cup {h} = S
      BY <1>2
    <2> QED
      BY <1>1, <2>1
  <1>3. CASE h \notin S
    <2>1. Cardinality(S \cup {h}) = Cardinality(S) + 1
      BY <1>1, <1>3, FS_AddElement
    <2> QED
      BY <1>1, <2>1
  <1> QED
    BY <1>2, <1>3

LEMMA Removing ==
    ASSUME NEW S \in SUBSET Handlers, NEW h
    PROVE  Cardinality(S \ {h}) <= Cardinality(S) /\ Cardinality(S \ {h}) \in Nat
  <1>1. IsFiniteSet(S) /\ Cardinality(S) \in Nat
    BY Countable
  <1>2. S \ {h} \subseteq S
    OBVIOUS
  <1>3. IsFiniteSet(S \ {h}) /\ Cardinality(S \ {h}) <= Cardinality(S)
    BY <1>1, <1>2, FS_Subset
  <1> QED
    BY <1>3, FS_CardinalityType

LEMMA InitPoolInv == Init => PoolInv
  <1> SUFFICES ASSUME Init PROVE PoolInv
    OBVIOUS
  <1>1. Busy = 0
    BY FS_EmptySet DEF Init, Busy
  <1>2. TypeOK
    BY <1>1, Pool DEF Init, TypeOK
  <1>3. Seated
    BY Pool DEF Init, Seated, InTx
  <1> QED
    BY <1>2, <1>3 DEF PoolInv

\* A handler that goes on takes one connection more than is busy, if that.
LEMMA StepPoolInv ==
    ASSUME PoolInv, NEW h \in Handlers, Arrive(h) \/ Step(h) \/ Timeout(h)
    PROVE  PoolInv'
  <1>0. TypeOK /\ Seated
    BY DEF PoolInv
  <1>1. inTx \in SUBSET Handlers /\ inQuery \in SUBSET Handlers
    BY <1>0, Pool DEF TypeOK
  <1>2. /\ Cardinality(inTx) \in Nat /\ Cardinality(inQuery) \in Nat
        /\ Cardinality(inTx) + Cardinality(inQuery) <= MaxConns
    BY <1>0, <1>1, Countable DEF TypeOK, Busy
  <1>3. CASE Arrive(h)
    <2>1. UNCHANGED <<inTx, inQuery, left, rowLock>> /\ pc[h] = "idle"
      BY <1>3 DEF Arrive
    <2>2. pc' = [pc EXCEPT ![h] = IF h \in TxRequests THEN "begin" ELSE "acquire"]
      BY <1>3 DEF Arrive, Goto
    <2>3. TypeOK'
      BY <1>0, <2>1, <2>2 DEF TypeOK, Busy
    <2>4. Seated'
      BY <1>0, <2>1, <2>2, Pool DEF TypeOK, Seated, InTx
    <2> QED
      BY <2>3, <2>4 DEF PoolInv
  <1>4. CASE h \in TxRequests /\ Begin(h)
    <2>1. /\ pc[h] = "begin" /\ Busy < MaxConns
          /\ inTx' = inTx \cup {h} /\ left' = [left EXCEPT ![h] = PoolReads]
          /\ pc' = [pc EXCEPT ![h] = "acquire"] /\ UNCHANGED <<inQuery, rowLock>>
      BY <1>4 DEF Begin, Goto, Free
    <2>2. Busy' <= MaxConns
      <3>1. Cardinality(inTx') <= Cardinality(inTx) + 1 /\ Cardinality(inTx') \in Nat
        BY <1>1, <2>1, Adding
      <3>2. Cardinality(inQuery') = Cardinality(inQuery)
        BY <2>1
      <3> QED
        BY <1>2, <2>1, <3>1, <3>2, Pool DEF Busy
    <2>3. TypeOK'
      BY <1>0, <1>4, <2>1, <2>2, Pool DEF TypeOK
    <2>4. Seated'
      BY <1>0, <1>4, <2>1, Pool DEF TypeOK, Seated, InTx
    <2> QED
      BY <2>3, <2>4 DEF PoolInv
  <1>5. CASE Acquire(h)
    <2>1. /\ pc[h] = "acquire" /\ Busy < MaxConns
          /\ inQuery' = inQuery \cup {h}
          /\ pc' = [pc EXCEPT ![h] = "query"] /\ UNCHANGED <<inTx, left, rowLock>>
      BY <1>5 DEF Acquire, Goto, Free
    <2>2. Busy' <= MaxConns
      <3>1. Cardinality(inQuery') <= Cardinality(inQuery) + 1 /\ Cardinality(inQuery') \in Nat
        BY <1>1, <2>1, Adding
      <3>2. Cardinality(inTx') = Cardinality(inTx)
        BY <2>1
      <3> QED
        BY <1>2, <2>1, <3>1, <3>2, Pool DEF Busy
    <2>3. TypeOK'
      BY <1>0, <2>1, <2>2 DEF TypeOK
    <2>4. Seated'
      BY <1>0, <2>1, Pool DEF TypeOK, Seated, InTx
    <2> QED
      BY <2>3, <2>4 DEF PoolInv
  <1>6. CASE QueryDone(h)
    <2>1. /\ pc[h] = "query" /\ inQuery' = inQuery \ {h} /\ UNCHANGED <<inTx, rowLock>>
          /\ IF h \in Queries
             THEN pc' = [pc EXCEPT ![h] = "idle"] /\ left' = left
             ELSE /\ left' = [left EXCEPT ![h] = left[h] - 1]
                  /\ pc' = [pc EXCEPT ![h] = IF left[h] > 1 THEN "acquire" ELSE "row"]
      BY <1>6 DEF QueryDone, Goto
    <2>2. Busy' <= MaxConns
      <3>1. Cardinality(inQuery') <= Cardinality(inQuery) /\ Cardinality(inQuery') \in Nat
        BY <1>1, <2>1, Removing
      <3>2. Cardinality(inTx') = Cardinality(inTx)
        BY <2>1
      <3> QED
        BY <1>2, <3>1, <3>2, Pool DEF Busy
    <2>3. CASE h \in Queries
      <3>1. TypeOK'
        BY <1>0, <2>1, <2>2, <2>3 DEF TypeOK
      <3>2. Seated'
        BY <1>0, <2>1, <2>3, Pool DEF TypeOK, Seated, InTx
      <3> QED
        BY <3>1, <3>2 DEF PoolInv
    <2>4. CASE h \in TxRequests
      <3>1. left[h] \in 1 .. PoolReads /\ h \notin Queries
        BY <1>0, <2>1, <2>4, Pool DEF TypeOK, Seated
      <3>2. left[h] - 1 \in 0 .. PoolReads
        BY <3>1, Pool
      <3>3. TypeOK'
        BY <1>0, <2>1, <2>2, <2>4, <3>1, <3>2 DEF TypeOK
      <3>4. \A g \in Handlers \ {h} : pc'[g] = pc[g]
        BY <1>0, <2>1, <3>1 DEF TypeOK
      <3>5. \A g \in TxRequests \ {h} : left'[g] = left[g]
        BY <1>0, <2>1, <3>1 DEF TypeOK
      <3>6. /\ pc'[h] \in {"acquire", "row"} /\ (pc'[h] = "acquire" => left'[h] > 0)
        BY <1>0, <2>1, <2>4, <3>1 DEF TypeOK
      <3>7. Seated'
        BY <1>0, <2>1, <2>4, <3>1, <3>4, <3>5, <3>6, Pool DEF Seated, InTx
      <3> QED
        BY <3>3, <3>7 DEF PoolInv
    <2> QED
      BY <2>3, <2>4, Pool
  <1>7. CASE h \in TxRequests /\ LockRow(h)
    <2>1. /\ pc[h] = "row" /\ rowLock = Nobody /\ rowLock' = h
          /\ pc' = [pc EXCEPT ![h] = "work"] /\ UNCHANGED <<inTx, inQuery, left>>
      BY <1>7 DEF LockRow, Goto
    <2>2. TypeOK'
      BY <1>0, <1>7, <2>1 DEF TypeOK, Busy
    <2>3. Seated'
      BY <1>0, <1>7, <2>1, Pool DEF TypeOK, Seated, InTx
    <2> QED
      BY <2>2, <2>3 DEF PoolInv
  <1>8. CASE End(h)
    <2>1. /\ inTx' = inTx \ {h} /\ inQuery' = inQuery \ {h}
          /\ rowLock' = IF rowLock = h THEN Nobody ELSE rowLock
          /\ left' = IF h \in TxRequests THEN [left EXCEPT ![h] = 0] ELSE left
          /\ pc' = [pc EXCEPT ![h] = "idle"]
      BY <1>8 DEF End, Goto
    <2>2. Busy' <= MaxConns
      <3>1. Cardinality(inQuery') <= Cardinality(inQuery) /\ Cardinality(inQuery') \in Nat
        BY <1>1, <2>1, Removing
      <3>2. Cardinality(inTx') <= Cardinality(inTx) /\ Cardinality(inTx') \in Nat
        BY <1>1, <2>1, Removing
      <3> QED
        BY <1>2, <3>1, <3>2, Pool DEF Busy
    <2>3. left' \in [TxRequests -> 0 .. PoolReads]
      BY <1>0, <2>1, Pool DEF TypeOK
    <2>4. TypeOK'
      BY <1>0, <2>1, <2>2, <2>3 DEF TypeOK
    <2>5. \A g \in Handlers : pc'[g] = IF g = h THEN "idle" ELSE pc[g]
      BY <1>0, <2>1 DEF TypeOK
    <2>6. \A g \in TxRequests \ {h} : left'[g] = left[g]
      BY <1>0, <2>1 DEF TypeOK
    <2>7. Seated'
      BY <1>0, <2>1, <2>5, <2>6, Pool DEF Seated, InTx
    <2> QED
      BY <2>4, <2>7 DEF PoolInv
  <1> QED
    BY <1>3, <1>4, <1>5, <1>6, <1>7, <1>8 DEF Step, Commit, Timeout

LEMMA PoolInvariant == Spec => []PoolInv
  <1>1. PoolInv /\ UNCHANGED vars => PoolInv'
    BY DEF vars, PoolInv, TypeOK, Busy, Seated
  <1>2. PoolInv /\ [Next]_vars => PoolInv'
    BY <1>1, StepPoolInv DEF Next
  <1> QED
    BY <1>2, InitPoolInv, PTL DEF Spec
-----------------------------------------------------------------------------
(* The theorems.                                                            *)

\* The pool never hands out more connections than it has (pgxpool's MaxConns),
\* and a handler holds what its place says.
THEOREM PoolIsBounded == Spec => []TypeOK
  <1>1. PoolInv => TypeOK
    BY DEF PoolInv
  <1> QED
    BY <1>1, PoolInvariant, PTL

\* No transaction waits for a connection while it holds the row the others wait
\* for (createOrderTx, CancelOrder, AdminUpdateStatus).
THEOREM StarvedAreHarmless == Spec => []StarvedHoldNoRow
  <1>1. PoolInv => StarvedHoldNoRow
    BY DEF PoolInv, Seated, StarvedHoldNoRow
  <1> QED
    BY <1>1, PoolInvariant, PTL

\* A stall needs as many waiting transactions as the pool has connections.
THEOREM StallNeedsFullPool == Spec => []StallTakesAFullPool
  <1>1. PoolInv => StallTakesAFullPool
    <2> SUFFICES ASSUME PoolInv, Stalled
                 PROVE  Cardinality({h \in inTx : pc[h] = "acquire"}) = MaxConns
      BY DEF StallTakesAFullPool
    <2>1. \A h \in Handlers : pc[h] \in {"idle", "begin", "acquire"}
      BY DEF Stalled
    <2>2. inQuery = {}
      BY <2>1 DEF PoolInv, TypeOK, Seated
    <2>3. {h \in inTx : pc[h] = "acquire"} = inTx
      BY <2>1, Pool DEF PoolInv, TypeOK, Seated, InTx
    <2>4. Cardinality(inTx) \in Nat
      BY Countable, Pool DEF PoolInv, TypeOK
    <2>5. Cardinality(inQuery) = 0
      BY <2>2, FS_EmptySet
    <2>6. Busy <= MaxConns /\ ~(Busy < MaxConns)
      BY DEF Stalled, Free, PoolInv, TypeOK
    <2> QED
      BY <2>3, <2>4, <2>5, <2>6, Pool DEF Busy
  <1> QED
    BY <1>1, PoolInvariant, PTL
=============================================================================
