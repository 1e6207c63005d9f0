------------------------------ MODULE ConnPool ------------------------------
(* How the order handlers use the connection pool (internal/platform/db:    *)
(* MaxConns = 10).                                                          *)
(*                                                                          *)
(* createOrderTx, CancelOrder and AdminUpdateStatus take a connection with  *)
(* Begin and, while they hold it, send further queries through the pool,    *)
(* each of which takes a second connection for its own duration.  With as   *)
(* many of them as the pool has connections, each holding its first and     *)
(* waiting for its second, nobody moves until the router's Timeout (30 s)   *)
(* cancels a request.  The row lock comes after the last pool query.        *)
EXTENDS Integers, FiniteSets

CONSTANTS
    TxRequests,  \* handlers that open a transaction
    Queries,     \* handlers that only query through the pool (GetOrder, lists)
    PoolReads,   \* pool queries a transactional handler makes inside its transaction
    MaxConns,
    Nobody

Handlers == TxRequests \cup Queries

ASSUME ConnPoolAssumption ==
    /\ TxRequests \cap Queries = {} /\ IsFiniteSet(Handlers)
    /\ PoolReads \in Nat \ {0} /\ MaxConns \in Nat \ {0}
    /\ Nobody \notin Handlers

VARIABLES
    pc,       \* where each handler stands
    inTx,     \* the handlers whose transaction holds a connection
    inQuery,  \* the handlers whose pool query holds a connection
    left,     \* pool queries still to make inside the transaction
    rowLock   \* the transaction that holds the contended row (a slot, an order)

vars == <<pc, inTx, inQuery, left, rowLock>>

Busy == Cardinality(inTx) + Cardinality(inQuery)
Free == Busy < MaxConns

Init ==
    /\ pc = [h \in Handlers |-> "idle"]
    /\ inTx = {} /\ inQuery = {}
    /\ left = [h \in TxRequests |-> 0]
    /\ rowLock = Nobody

TypeOK ==
    /\ pc \in [Handlers -> {"idle", "begin", "acquire", "query", "row", "work"}]
    /\ inTx \subseteq TxRequests
    /\ inQuery \subseteq Handlers
    /\ left \in [TxRequests -> 0 .. PoolReads]
    /\ rowLock \in TxRequests \cup {Nobody}
    /\ Busy <= MaxConns

Goto(h, l) == pc' = [pc EXCEPT ![h] = l]

\* A request arrives.
Arrive(h) ==
    /\ pc[h] = "idle"
    /\ Goto(h, IF h \in TxRequests THEN "begin" ELSE "acquire")
    /\ UNCHANGED <<inTx, inQuery, left, rowLock>>

\* Defect: the slot row is locked before the flags are read.
Begin_RowFirst(h) ==
    /\ pc[h] = "begin" /\ Free /\ rowLock = Nobody
    /\ inTx' = inTx \cup {h}
    /\ rowLock' = h
    /\ left' = [left EXCEPT ![h] = PoolReads]
    /\ Goto(h, "acquire")
    /\ UNCHANGED inQuery

\* s.db.Begin: the transaction's connection.
Begin(h) ==
    /\ pc[h] = "begin" /\ Free
    /\ inTx' = inTx \cup {h}
    /\ left' = [left EXCEPT ![h] = PoolReads]
    /\ Goto(h, "acquire")
    /\ UNCHANGED <<inQuery, rowLock>>

\* A pool query starts: a second connection for a handler with a transaction.
Acquire(h) ==
    /\ pc[h] = "acquire" /\ Free
    /\ inQuery' = inQuery \cup {h}
    /\ Goto(h, "query")
    /\ UNCHANGED <<inTx, left, rowLock>>

\* Its rows are read and its connection goes back.
QueryDone(h) ==
    /\ pc[h] = "query"
    /\ inQuery' = inQuery \ {h}
    /\ IF h \in Queries
       THEN Goto(h, "idle") /\ UNCHANGED left
       ELSE /\ left' = [left EXCEPT ![h] = @ - 1]
            /\ Goto(h, IF left[h] > 1 THEN "acquire" ELSE "row")
    /\ UNCHANGED <<inTx, rowLock>>

\* The first statement of the transaction that locks a row.
LockRow(h) ==
    /\ pc[h] = "row" /\ rowLock = Nobody
    /\ rowLock' = h
    /\ Goto(h, "work")
    /\ UNCHANGED <<inTx, inQuery, left>>

\* Defect: an early return without Rollback keeps the connection.
End_Leaks(h) ==
    /\ inQuery' = inQuery \ {h}
    /\ rowLock' = IF rowLock = h THEN Nobody ELSE rowLock
    /\ Goto(h, "idle")
    /\ UNCHANGED <<inTx, left>>

\* Commit or the deferred Rollback: the connections and the row are given back.
End(h) ==
    /\ inTx' = inTx \ {h}
    /\ inQuery' = inQuery \ {h}
    /\ rowLock' = IF rowLock = h THEN Nobody ELSE rowLock
    /\ left' = IF h \in TxRequests THEN [left EXCEPT ![h] = 0] ELSE left
    /\ Goto(h, "idle")

Commit(h) == pc[h] = "work" /\ End(h)

\* Defect: no deadline on a request that waits for a connection.
Timeout_NotInPool(h) == pc[h] \in {"query", "row", "work"} /\ End(h)

\* The router's Timeout, or the client's departure, cancels the context: every
\* wait returns an error and the handler rolls back.
Timeout(h) == pc[h] # "idle" /\ End(h)

Step(h) ==
    \/ h \in TxRequests /\ (Begin(h) \/ LockRow(h) \/ Commit(h))
    \/ Acquire(h) \/ QueryDone(h)

Next == \E h \in Handlers : Arrive(h) \/ Step(h) \/ Timeout(h)

Spec == Init /\ [][Next]_vars

\* Everybody who is being served waits for a connection and none is left.
Stalled ==
    /\ ~Free
    /\ \A h \in Handlers : pc[h] \in {"idle", "begin", "acquire"}

\* A handler whose query or row is available goes on; the pool serves its
\* waiters in turn, so a connection that is free again and again reaches each
\* of them (SF).  Of the deadline only this is used: a request that the others
\* can no longer help is ended by it.
FairSpec ==
    /\ Spec
    /\ \A h \in Handlers : SF_vars(Step(h))
    /\ \A h \in Handlers : WF_vars(Stalled /\ Timeout(h))
-----------------------------------------------------------------------------
\* Nobody who waits for a pool connection holds the row others wait for: a pool
\* that is exhausted never blocks the transactions that are past their reads.
StarvedHoldNoRow == \A h \in TxRequests :
    pc[h] \in {"begin", "acquire", "query"} => rowLock # h

\* The handlers can stall only when transactions that wait for a second
\* connection hold the whole pool: one connection more than there are order
\* transactions, and nobody ever waits for a deadline.
StallTakesAFullPool == Stalled =>
    Cardinality({h \in inTx : pc[h] = "acquire"}) = MaxConns

\* Every request is answered.  A deadline is needed to break a stall only:
\* without it the handlers that hold a connection and wait for another would
\* wait for ever.
EveryRequestAnswered == \A h \in Handlers : pc[h] # "idle" ~> pc[h] = "idle"
=============================================================================
