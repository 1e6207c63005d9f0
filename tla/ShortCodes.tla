----------------------------- MODULE ShortCodes -----------------------------
(* How an order gets its short code: the per-day counter of NextShortCodeTx *)
(* (internal/repo/order.go) and the UNIQUE index on orders.short_code.      *)
(*                                                                          *)
(* The counter row of a day is locked from the upsert to the end of the     *)
(* transaction that also inserts the order, so a number is used up only if  *)
(* the order commits.  The code carries a letter and a two-digit number but *)
(* no date.                                                                 *)
EXTENDS Integers, FiniteSets

CONSTANTS
    Callers,     \* clients placing orders, one at a time each, again and again
    Letters,     \* length of the alphabet of the code (24 in the code)
    PerLetter,   \* numbers per letter (100 in the code)
    MaxDay,      \* bound: the days that pass
    Nobody

ASSUME ShortCodesAssumption ==
    /\ Letters \in Nat \ {0} /\ PerLetter \in Nat \ {0} /\ MaxDay \in Nat \ {0}
    /\ Nobody \notin Callers

Days  == 1 .. MaxDay
Codes == [letter : 0 .. Letters - 1, number : 0 .. PerLetter - 1]

VARIABLES
    today,       \* time.Now().UTC(), as a date
    sequence,    \* committed daily_order_counters; 0 where a day has no row
    rowLock,     \* the transaction that holds the counter row of a day
    placed,      \* the committed orders: the day and number their code came from
    pc, day, seq \* per caller: position, date read, number drawn

vars == <<today, sequence, rowLock, placed, pc, day, seq>>

\* Defect: the letter is not taken modulo the alphabet.
ShortCode_NoWrap(n) ==
    [letter |-> (n - 1) \div PerLetter, number |-> (n - 1) % PerLetter]

\* "RIT-", letters[(seq-1)/100 % len(letters)], (seq-1) % 100.
ShortCode(n) ==
    [letter |-> ((n - 1) \div PerLetter) % Letters, number |-> (n - 1) % PerLetter]

UsedCodes == {ShortCode(o.seq) : o \in placed}

TypeOK ==
    /\ today \in Days
    /\ sequence \in [Days -> Nat]
    /\ rowLock \in [Days -> Callers \cup {Nobody}]
    /\ placed \subseteq [day : Days, seq : Nat \ {0}]
    /\ pc \in [Callers -> {"idle", "upsert", "insert", "commit"}]
    /\ day \in [Callers -> Days]
    /\ seq \in [Callers -> Nat]
    /\ \A r \in Callers : pc[r] \in {"insert", "commit"} => ShortCode(seq[r]) \in Codes

Init ==
    /\ today = 1
    /\ sequence = [d \in Days |-> 0]
    /\ rowLock = [d \in Days |-> Nobody]
    /\ placed = {}
    /\ pc = [r \in Callers |-> "idle"]
    /\ day = [r \in Callers |-> 1]
    /\ seq = [r \in Callers |-> 0]

\* The date is formatted before the statement that may have to wait.
ReadDate(r) ==
    /\ pc[r] = "idle"
    /\ day' = [day EXCEPT ![r] = today]
    /\ pc' = [pc EXCEPT ![r] = "upsert"]
    /\ UNCHANGED <<today, sequence, rowLock, placed, seq>>

\* Defect: the counter is raised in a transaction of its own.
NextShortCodeTx_Autocommit(r) ==
    /\ pc[r] = "upsert"
    /\ rowLock[day[r]] = Nobody
    /\ seq' = [seq EXCEPT ![r] = sequence[day[r]] + 1]
    /\ sequence' = [sequence EXCEPT ![day[r]] = @ + 1]
    /\ pc' = [pc EXCEPT ![r] = "insert"]
    /\ UNCHANGED <<today, rowLock, placed, day>>

\* INSERT ... ON CONFLICT DO UPDATE SET sequence = sequence + 1 RETURNING.
NextShortCodeTx(r) ==
    /\ pc[r] = "upsert"
    /\ rowLock[day[r]] = Nobody
    /\ rowLock' = [rowLock EXCEPT ![day[r]] = r]
    /\ seq' = [seq EXCEPT ![r] = sequence[day[r]] + 1]
    /\ pc' = [pc EXCEPT ![r] = "insert"]
    /\ UNCHANGED <<today, sequence, placed, day>>

\* The rollback takes the raised counter back and frees its row.
Rollback(r) ==
    /\ rowLock' = [d \in Days |-> IF rowLock[d] = r THEN Nobody ELSE rowLock[d]]
    /\ pc' = [pc EXCEPT ![r] = "idle"]
    /\ UNCHANGED <<today, sequence, placed, day, seq>>

\* Defect: short_code without its UNIQUE index.
InsertTx_NoIndex(r) ==
    /\ pc[r] = "insert"
    /\ pc' = [pc EXCEPT ![r] = "commit"]
    /\ UNCHANGED <<today, sequence, rowLock, placed, day, seq>>

\* The unique index waits for an uncommitted row with the same code and refuses
\* the code of a committed one.
InsertTx(r) ==
    /\ pc[r] = "insert"
    /\ \A q \in Callers \ {r} :
          pc[q] = "commit" => ShortCode(seq[q]) # ShortCode(seq[r])
    /\ IF ShortCode(seq[r]) \in UsedCodes
       THEN Rollback(r)
       ELSE /\ pc' = [pc EXCEPT ![r] = "commit"]
            /\ UNCHANGED <<today, sequence, rowLock, placed, day, seq>>

Commit(r) ==
    /\ pc[r] = "commit"
    /\ placed' = placed \cup {[day |-> day[r], seq |-> seq[r]]}
    /\ sequence' = [sequence EXCEPT ![day[r]] = seq[r]]
    /\ rowLock' = [d \in Days |-> IF rowLock[d] = r THEN Nobody ELSE rowLock[d]]
    /\ pc' = [pc EXCEPT ![r] = "idle"]
    /\ UNCHANGED <<today, day, seq>>

\* A later statement fails, the request is cancelled or the process dies.
Fail(r) == pc[r] # "idle" /\ Rollback(r)

Midnight ==
    /\ today < MaxDay
    /\ today' = today + 1
    /\ UNCHANGED <<sequence, rowLock, placed, pc, day, seq>>

Next ==
    \/ \E r \in Callers : \/ ReadDate(r) \/ NextShortCodeTx(r) \/ InsertTx(r)
                          \/ Commit(r) \/ Fail(r)
    \/ Midnight

Spec == Init /\ [][Next]_vars
-----------------------------------------------------------------------------
\* The index keeps its promise: no two orders bear the same code, on whatever
\* days they were placed.
CodesUnique == \A o, q \in placed : ShortCode(o.seq) = ShortCode(q.seq) => o = q

\* Numbers leave no gap: a day's counter is the number of orders placed with it,
\* however many transactions drew a number and failed.
SequenceCountsOrders == \A d \in Days :
    /\ sequence[d] = Cardinality({o \in placed : o.day = d})
    /\ \A n \in 1 .. sequence[d] : [day |-> d, seq |-> n] \in placed

\* Two open transactions of a day never hold the same number.
DrawnNumbersDiffer == \A r, q \in Callers :
    (/\ r # q /\ day[r] = day[q]
     /\ {pc[r], pc[q]} \subseteq {"insert", "commit"}) => seq[r] # seq[q]

\* "NextShortCode generates the next RIT-XXX code": the code it generates is not
\* one that an earlier order already has.
NextCodeIsFresh == \A r \in Callers :
    pc[r] = "insert" => ShortCode(seq[r]) \notin UsedCodes
=============================================================================
