-------------------------- MODULE OrderServiceProofs ------------------------
(* Theorems about OrderService, for every number of requests and slots.     *)
(*                                                                          *)
(*   1. types and seats: TypeOK, and what keeps a slot within its capacity; *)
(*   2. records: what the requests lock, write and answer, whatever the     *)
(*      interleaving;                                                       *)
(*   3. one editor per order: SerialSpec, in which the stale read of        *)
(*      ReadOrder is still true at the commit, and the order book that is   *)
(*      then implemented.                                                   *)
EXTENDS OrderService, FiniteSetTheorems, TLAPS

\* A decremented booked_count is a natural number that is not larger.
LEMMA DecrementedFact ==
    ASSUME NEW n \in Nat
    PROVE  Decremented(n) \in Nat /\ Decremented(n) <= n
  BY DEF Decremented

\* What the statements of a transaction do to its record leaves it a record.
LEMMA TxUpdates ==
    ASSUME NEW t \in Txs
    PROVE  /\ \A v \in Statuses \cup {Absent} : [t EXCEPT !.seen = v] \in Txs
           /\ \A v \in Nat \cup {NoWrite} : [t EXCEPT !.booked = v] \in Txs
           /\ \A v \in Rows : [t EXCEPT !.row = v] \in Txs
           /\ \A v \in Events : [t EXCEPT !.event = v] \in Txs
           /\ \A v \in BOOLEAN : [t EXCEPT !.broken = v] \in Txs
  BY DEF Txs

\* The same of the rows of slots and of what a read request shows.
LEMMA SlotUpdates ==
    ASSUME NEW q \in SlotRows
    PROVE  /\ \A n \in Nat : [q EXCEPT !.booked = n] \in SlotRows
           /\ \A n \in Nat, a \in BOOLEAN :
                 [q EXCEPT !.cap = n, !.active = a] \in SlotRows
  BY DEF SlotRows

LEMMA ViewUpdates ==
    ASSUME NEW v \in Views
    PROVE  /\ \A status \in Statuses \cup {Absent} : [v EXCEPT !.status = status] \in Views
           /\ \A shown \in SUBSET (Statuses \cup {Absent}), all \in BOOLEAN :
                 [v EXCEPT !.timeline = shown, !.whole = all] \in Views
  BY DEF Views

\* An order service that starts is well typed.
LEMMA InitTypeOK == Init => TypeOK
  <1> SUFFICES ASSUME Init PROVE TypeOK
    OBVIOUS
  <1>1. EmptyTx \in Txs
    BY DEF EmptyTx, Txs, NoRow, NoEvent, Rows, Events
  <1>2. "PLACED" \in Statuses /\ "CANCELLED_BY_USER" \in Statuses
    BY DEF Statuses
  <1>3. (CHOOSE s \in Slots : TRUE) \in Slots /\ (CHOOSE l \in Locations : TRUE) \in Locations
    BY InputsAssumption
  <1> QED
    BY <1>1, <1>2, <1>3, InputsAssumption
    DEF Init, TypeOK, NoRow, Rows, SlotRows, Views, Positions, Requests, Writers

\* The deferred Rollback keeps every variable in its type.
LEMMA RefuseTypeOK ==
    ASSUME TypeOK, NEW r \in Writers, Refuse(r)
    PROVE  TypeOK'
  <1>1. EmptyTx \in Txs
    BY DEF EmptyTx, Txs, NoRow, NoEvent, Rows, Events
  <1> QED
    BY <1>1 DEF TypeOK, Refuse, Release, Goto, Requests, Positions, store, gates, input

\* Every step keeps every variable in its type.
LEMMA StepTypeOK ==
    ASSUME TypeOK, [Next]_vars
    PROVE  TypeOK'
  <1> USE DEF Goto, LockSlotRow, LockOrderRow, FreeFor, Positions
  <1>1. ASSUME NEW r \in Creates, CreateStep(r) PROVE TypeOK'
    <2>1. CASE CheckDelivery(r)
      <3>1. CASE Refuse(r)
        BY <3>1, RefuseTypeOK DEF Writers
      <3>2. CASE ~Refuse(r)
        <4>1. PICK s \in Slots, l \in Locations :
                 /\ slot' = [slot EXCEPT ![r] = s]
                 /\ loc' = [loc EXCEPT ![r] = l]
                 /\ Goto(r, "location")
                 /\ UNCHANGED <<store, gates, locks, target, to, tx, view, resp>>
          BY <2>1, <3>2 DEF CheckDelivery
        <4> QED
          BY <4>1 DEF TypeOK, Writers, Requests, store, gates, locks
      <3> QED
        BY <3>1, <3>2
    <2>2. CASE CheckLocation(r)
      <3>1. CASE Refuse(r)
        BY <3>1, RefuseTypeOK DEF Writers
      <3>2. CASE ~Refuse(r)
        BY <2>2, <3>2 DEF CheckLocation, TypeOK, Writers, Requests, store, gates, locks, input
      <3> QED
        BY <3>1, <3>2
    <2>3. CASE LockSlot(r)
      <3>1. CASE Refuse(r)
        BY <3>1, RefuseTypeOK DEF Writers
      <3>2. CASE ~Refuse(r)
        <4>1. /\ LockSlotRow(r, slot[r]) /\ Goto(r, "code") /\ pc[r] = "lock"
              /\ UNCHANGED <<store, gates, orderLock, counterLock, input, tx, view, resp>>
          BY <2>3, <3>2 DEF LockSlot
        <4> QED
          BY <4>1 DEF TypeOK, Writers, Requests, store, gates, input
      <3> QED
        BY <3>1, <3>2
    <2>4. CASE TakeCode(r)
      BY <2>4 DEF TakeCode, TypeOK, Writers, Requests, store, gates, input
    <2>5. CASE InsertOrder(r)
      <3>1. tx' \in [Writers -> Txs]
        BY <2>5, TxUpdates DEF InsertOrder, TypeOK, Writers, Rows, Statuses
      <3> QED
        BY <2>5, <3>1 DEF InsertOrder, TypeOK, Writers, Requests, store, gates, input
    <2>6. CASE TakeSeat(r)
      <3>1. CASE Refuse(r)
        BY <3>1, RefuseTypeOK DEF Writers
      <3>2. CASE ~Refuse(r)
        <4>1. slots[slot[r]].booked + 1 \in Nat
          BY DEF TypeOK, SlotRows
        <4>2. [tx[r] EXCEPT !.booked = slots[slot[r]].booked + 1] \in Txs
          BY <4>1, TxUpdates DEF TypeOK, Writers
        <4>3. tx' \in [Writers -> Txs]
          BY <2>6, <3>2, <4>2 DEF TakeSeat, TypeOK
        <4> QED
          BY <2>6, <3>2, <4>3 DEF TakeSeat, TypeOK, Writers, Requests, store, gates, input
      <3> QED
        BY <3>1, <3>2
    <2> QED
      BY <1>1, <2>1, <2>2, <2>3, <2>4, <2>5, <2>6 DEF CreateStep
  <1>2. ASSUME NEW r \in Edits, EditStep(r) PROVE TypeOK'
    <2>1. CASE ReadOrder(r)
      <3>1. TargetsOf(r) \subseteq Statuses
        BY InputsAssumption DEF TargetsOf, Statuses
      <3>2. CASE Refuse(r)
        BY <3>2, RefuseTypeOK DEF Writers
      <3>3. ASSUME NEW o \in Creates, NEW next \in TargetsOf(r),
                   target' = [target EXCEPT ![r] = o],
                   to' = [to EXCEPT ![r] = next],
                   tx' = [tx EXCEPT ![r].seen = orders[o].status],
                   Goto(r, "write"),
                   UNCHANGED <<store, gates, locks, slot, loc, view, resp>>
            PROVE  TypeOK'
        <4>1. orders[o].status \in Statuses \cup {Absent}
          BY DEF TypeOK, Rows
        <4>2. tx' \in [Writers -> Txs]
          BY <3>3, <4>1, TxUpdates DEF TypeOK, Writers
        <4> QED
          BY <3>1, <3>3, <4>2, RequestsAssumption
          DEF TypeOK, Writers, Requests, store, gates, locks
      <3> QED
        BY <2>1, <3>2, <3>3 DEF ReadOrder
    <2>2. CASE WriteOrder(r)
      <3>1. Written(orders[target[r]], to[r]) \in Rows
        BY <2>2 DEF WriteOrder, Written, TypeOK, Writers, Requests, Rows
      <3>2. tx' \in [Writers -> Txs]
        BY <2>2, <3>1, TxUpdates DEF WriteOrder, TypeOK, Writers
      <3> QED
        BY <2>2, <3>2 DEF WriteOrder, TypeOK, Writers, Requests, store, gates, input
    <2>3. CASE FreeSeat(r)
      <3>1. Decremented(slots[SlotFor(r)].booked) \in Nat
        BY <2>3, DecrementedFact DEF FreeSeat, SlotFor, TypeOK, Writers, Requests, SlotRows
      <3>2. tx' \in [Writers -> Txs]
        BY <2>3, <3>1, TxUpdates DEF FreeSeat, TypeOK, Writers
      <3>3. SlotFor(r) \in Slots
        BY <2>3 DEF FreeSeat, SlotFor, TypeOK, Writers, Requests
      <3> QED
        BY <2>3, <3>2, <3>3 DEF FreeSeat, TypeOK, Writers, Requests, store, gates, input
    <2>4. CASE FreeSeatFails(r)
      <3>1. tx' \in [Writers -> Txs]
        BY <2>4, TxUpdates DEF FreeSeatFails, TypeOK, Writers
      <3> QED
        BY <2>4, <3>1 DEF FreeSeatFails, TypeOK, Writers, Requests, store, gates, locks, input
    <2> QED
      BY <1>2, <2>1, <2>2, <2>3, <2>4 DEF EditStep
  <1>3. ASSUME NEW r \in Writers, FinishStep(r) PROVE TypeOK'
    <2>1. CASE RecordEvent(r)
      <3>1. [from |-> tx[r].seen, to |-> to[r]] \in Events
        BY DEF TypeOK, Txs, Events
      <3>2. /\ [tx[r] EXCEPT !.event = [from |-> tx[r].seen, to |-> to[r]]] \in Txs
            /\ [tx[r] EXCEPT !.broken = TRUE] \in Txs
        BY <3>1, TxUpdates DEF TypeOK
      <3>3. tx' \in [Writers -> Txs]
        BY <2>1, <3>2 DEF RecordEvent, TypeOK
      <3> QED
        BY <2>1, <3>3 DEF RecordEvent, TypeOK, Writers, Requests, store, gates, locks, input
    <2>2. CASE Commit(r)
      <3>1. CASE Refuse(r)
        BY <3>1, RefuseTypeOK
      <3>2. CASE Apply(r) /\ ~Refuse(r)
        <4>1. EmptyTx \in Txs
          BY DEF EmptyTx, Txs, NoRow, NoEvent, Rows, Events
        <4>2. slots' \in [Slots -> SlotRows]
          <5>1. SlotFor(r) \in Slots
            BY <2>2 DEF Commit, SlotFor, TypeOK, Writers, Requests
          <5>2. CASE tx[r].booked = NoWrite
            BY <3>2, <5>2 DEF Apply, TypeOK
          <5>3. CASE tx[r].booked # NoWrite
            <6>1. tx[r].booked \in Nat
              BY <5>3 DEF TypeOK, Txs
            <6>2. [slots[SlotFor(r)] EXCEPT !.booked = tx[r].booked] \in SlotRows
              BY <5>1, <6>1, SlotUpdates DEF TypeOK
            <6>3. slots' = [slots EXCEPT ![SlotFor(r)] =
                               [slots[SlotFor(r)] EXCEPT !.booked = tx[r].booked]]
              BY <3>2, <5>3 DEF Apply
            <6> QED
              BY <6>2, <6>3 DEF TypeOK
          <5> QED
            BY <5>2, <5>3
        <4>3. orders' \in [Creates -> Rows]
          BY <3>2 DEF Apply, TypeOK, Txs
        <4>4. events' \in [Creates -> Seq(Events)]
          <5>1. CASE tx[r].event = NoEvent
            BY <3>2, <5>1 DEF Apply, TypeOK
          <5>2. CASE tx[r].event # NoEvent
            <6>1. tx[r].event \in Events /\ target[r] \in Creates
              BY <2>2 DEF Commit, TypeOK, Txs, Writers, Requests
            <6>2. Append(events[target[r]], tx[r].event) \in Seq(Events)
              BY <6>1 DEF TypeOK
            <6>3. events' = [events EXCEPT ![target[r]] =
                                Append(events[target[r]], tx[r].event)]
              BY <3>2, <5>2 DEF Apply
            <6> QED
              BY <6>2, <6>3 DEF TypeOK
          <5> QED
            BY <5>1, <5>2
        <4>5. /\ Release(r)
              /\ tx' = [tx EXCEPT ![r] = EmptyTx]
              /\ pc' = [pc EXCEPT ![r] = "done"]
              /\ \E answer \in {"ok", "err"} : resp' = [resp EXCEPT ![r] = answer]
              /\ UNCHANGED <<gates, input, view>>
          BY <2>2, <3>2 DEF Commit
        <4> QED
          BY <4>1, <4>2, <4>3, <4>4, <4>5
          DEF Release, TypeOK, Writers, Requests, gates, input
      <3> QED
        BY <2>2, <3>1, <3>2 DEF Commit
    <2> QED
      BY <1>3, <2>1, <2>2 DEF FinishStep
  <1>4. ASSUME NEW r \in Reads, ReadStep(r) PROVE TypeOK'
    <2>1. CASE ReadStatus(r)
      <3>1. CASE Reject(r)
        BY <3>1 DEF Reject, TypeOK, Requests, store, gates, locks, input
      <3>2. CASE ~Reject(r)
        <4>1. \A o \in Creates : [view[r] EXCEPT !.status = orders[o].status] \in Views
          <5>1. \A o \in Creates : orders[o].status \in Statuses \cup {Absent}
            BY DEF TypeOK, Rows
          <5> QED
            BY <5>1, ViewUpdates DEF TypeOK
        <4>2. PICK o \in Creates :
                 /\ target' = [target EXCEPT ![r] = o]
                 /\ view' = [view EXCEPT ![r].status = orders[o].status]
                 /\ Goto(r, "timeline")
                 /\ UNCHANGED <<store, gates, locks, to, slot, loc, tx, resp>>
          BY <2>1, <3>2 DEF ReadStatus
        <4>3. view' \in [Reads -> Views]
          BY <4>1, <4>2 DEF TypeOK
        <4> QED
          BY <4>2, <4>3, RequestsAssumption
          DEF TypeOK, Writers, Requests, store, gates, locks
      <3> QED
        BY <3>1, <3>2
    <2>2. CASE ReadTimeline(r)
      <3>1. view' \in [Reads -> Views]
        <4>1. PICK got \in SUBSET DOMAIN events[target[r]] :
                 view' = [view EXCEPT ![r].timeline = {events[target[r]][i].to : i \in got},
                                      ![r].whole = (got = DOMAIN events[target[r]])]
          BY <2>2 DEF ReadTimeline
        <4>2. {events[target[r]][i].to : i \in got} \in SUBSET (Statuses \cup {Absent})
          <5>1. events[target[r]] \in Seq(Events)
            BY <2>2 DEF ReadTimeline, TypeOK, Requests
          <5>2. \A i \in DOMAIN events[target[r]] : events[target[r]][i] \in Events
            BY <5>1
          <5> QED
            BY <5>2 DEF Events
        <4>3. (got = DOMAIN events[target[r]]) \in BOOLEAN
          OBVIOUS
        <4>4. [view[r] EXCEPT !.timeline = {events[target[r]][i].to : i \in got},
                              !.whole = (got = DOMAIN events[target[r]])] \in Views
          BY <4>2, <4>3, ViewUpdates DEF TypeOK
        <4> QED
          BY <4>1, <4>4 DEF TypeOK
      <3> QED
        BY <2>2, <3>1 DEF ReadTimeline, TypeOK, Requests, store, gates, locks, input
    <2> QED
      BY <1>4, <2>1, <2>2 DEF ReadStep
  <1>5. ASSUME NEW r \in Requests, Fail(r) PROVE TypeOK'
    BY <1>5, RefuseTypeOK
    DEF Fail, Reject, TypeOK, Requests, store, gates, locks, input
  <1>6. ASSUME Environment PROVE TypeOK'
    <2>1. ASSUME NEW s \in Slots, AdminUpdateSlot(s) PROVE TypeOK'
      <3>1. slots' \in [Slots -> SlotRows]
        <4>1. PICK e \in SlotEdits :
                 slots' = [slots EXCEPT ![s].cap = e.cap, ![s].active = e.active]
          BY <2>1 DEF AdminUpdateSlot
        <4>2. e.cap \in Nat /\ e.active \in BOOLEAN
          BY InputsAssumption
        <4>3. [slots[s] EXCEPT !.cap = e.cap, !.active = e.active] \in SlotRows
          BY <4>2, SlotUpdates DEF TypeOK
        <4> QED
          BY <4>1, <4>3 DEF TypeOK
      <3> QED
        BY <2>1, <3>1 DEF AdminUpdateSlot, TypeOK, locks, input
    <2>2. ASSUME NEW s \in Slots, CutoffPasses(s) PROVE TypeOK'
      BY <2>2 DEF CutoffPasses, TypeOK, store, locks, input
    <2>3. ASSUME NEW r \in Regulars, SendAgain(r) PROVE TypeOK'
      BY <2>3, InputsAssumption, RequestsAssumption DEF SendAgain, TypeOK, Writers, Requests, Statuses, store, gates, locks
    <2>4. CASE AdminSetDelivery
      BY <2>4, InputsAssumption DEF AdminSetDelivery, TypeOK, store, locks, input
    <2>5. ASSUME NEW l \in Locations, AdminSetLocation(l) PROVE TypeOK'
      BY <2>5, InputsAssumption DEF AdminSetLocation, TypeOK, store, locks, input
    <2>6. ASSUME NEW o \in Creates, DeadlinePasses(o) PROVE TypeOK'
      BY <2>6 DEF DeadlinePasses, TypeOK, store, locks, input
    <2> QED
      BY <1>6, <2>1, <2>2, <2>3, <2>4, <2>5, <2>6 DEF Environment
  <1>7. CASE UNCHANGED vars
    BY <1>7 DEF TypeOK, vars, store, gates, locks, input
  <1> QED
    BY <1>1, <1>2, <1>3, <1>4, <1>5, <1>6, <1>7 DEF Next, Progress

\* Type correctness: whatever requests, admins, the clock and failures do, every
\* variable keeps its type; in particular no booked_count goes below zero and a
\* request that is past its first read has a target.
THEOREM TypeCorrect == Spec => []TypeOK
  <1>1. Init => TypeOK
    BY InitTypeOK
  <1>2. TypeOK /\ [Next]_vars => TypeOK'
    BY StepTypeOK
  <1> QED
    BY <1>1, <1>2, PTL DEF Spec
-----------------------------------------------------------------------------
(* The ledger of seats.                                                     *)

\* A create request that is done has placed its order or never will; an edit
\* works on an order that is there.
Targets ==
    /\ \A o \in Creates : Placed(o) => pc[o] = "done"
    /\ \A r \in Edits : pc[r] \notin {"new", "done"} => Placed(target[r])

\* Past its write, a transaction has an order row to commit.
RowsWritten == \A r \in Writers :
    pc[r] \in {"seat", "free", "event", "commit"} => tx[r].row.status # Absent

\* A booked_count that waits for its commit is that of a slot the transaction
\* has locked, and fits its capacity.
PendingFits == \A r \in Writers : tx[r].booked # NoWrite =>
    /\ pc[r] \in {"event", "commit"}
    /\ slotLock[SlotFor(r)] = r
    /\ tx[r].booked <= slots[SlotFor(r)].cap

\* An order that is about to commit has counted itself in.
PendingSeat == \A r \in Creates : pc[r] \in {"event", "commit"} =>
    tx[r].booked = slots[slot[r]].booked + 1

SeatInv == Targets /\ RowsWritten /\ PendingFits /\ PendingSeat /\ WithinCapacity

\* EmptyTx has no booked_count to write.
LEMMA EmptyTxFacts == EmptyTx.booked = NoWrite
  BY DEF EmptyTx

\* A statement of a transaction touches one field of its record.
LEMMA TxFields ==
    ASSUME NEW t \in Txs, NEW v
    PROVE  /\ [t EXCEPT !.seen = v].booked = t.booked
           /\ [t EXCEPT !.seen = v].row = t.row
           /\ [t EXCEPT !.booked = v].booked = v
           /\ [t EXCEPT !.booked = v].row = t.row
           /\ [t EXCEPT !.row = v].booked = t.booked
           /\ [t EXCEPT !.row = v].row = v
           /\ [t EXCEPT !.event = v].booked = t.booked
           /\ [t EXCEPT !.event = v].row = t.row
           /\ [t EXCEPT !.broken = v].booked = t.booked
           /\ [t EXCEPT !.broken = v].row = t.row
  BY DEF Txs

\* What the ledger asks of the request r that has just made a step.
ActorKeeps(r) ==
    /\ r \in Creates => pc[r] # "done"
    /\ r \in Edits => (pc'[r] \notin {"new", "done"} => Placed(target'[r]))
    /\ r \in Writers =>
          /\ pc'[r] \in {"seat", "free", "event", "commit"} => tx'[r].row.status # Absent
          /\ tx'[r].booked # NoWrite =>
                /\ pc'[r] \in {"event", "commit"}
                /\ slotLock'[SlotFor(r)'] = r
                /\ tx'[r].booked <= slots'[SlotFor(r)'].cap
    /\ r \in Creates => (pc'[r] \in {"event", "commit"} =>
                            tx'[r].booked = slots'[slot'[r]].booked + 1)

\* A step of r takes no lock from another and gives it none.
OthersHold(r) ==
    /\ \A s \in Slots : slotLock'[s] # slotLock[s] =>
          slotLock[s] \in {r, Nobody} /\ slotLock'[s] \in {r, Nobody}
    /\ \A o \in Creates : orderLock'[o] # orderLock[o] => orderLock'[o] \in {r, Nobody}
    /\ counterLock' # counterLock => counterLock' \in {r, Nobody}

\* A step of r before its commit: the store stays, and so does what belongs to
\* the other requests.
OthersKeep(r) ==
    /\ UNCHANGED store
    /\ \A q \in Requests \ {r} : /\ pc'[q] = pc[q] /\ target'[q] = target[q]
                                 /\ resp'[q] = resp[q]
    /\ \A q \in Writers \ {r} : tx'[q] = tx[q] /\ to'[q] = to[q]
    /\ \A q \in Creates \ {r} : slot'[q] = slot[q]
    /\ \A q \in Reads \ {r} : view'[q] = view[q]
    /\ slot' = slot \/ pc[r] # "done"
    /\ OthersHold(r)

\* The steps of a request other than a successful commit.
QuietStep(r) ==
    \/ r \in Creates /\ CreateStep(r)
    \/ r \in Edits /\ EditStep(r)
    \/ r \in Writers /\ (RecordEvent(r) \/ (pc[r] # "done" /\ Refuse(r)))
    \/ r \in Reads /\ (ReadStep(r) \/ (pc[r] # "done" /\ Reject(r)))

\* None of them is a step of a request that has its answer.
LEMMA QuietActive ==
    ASSUME NEW r, QuietStep(r)
    PROVE  pc[r] # "done"
  BY DEF QuietStep, CreateStep, CheckDelivery, CheckLocation, LockSlot, TakeCode, InsertOrder,
         TakeSeat, EditStep, ReadOrder, WriteOrder, FreeSeat, FreeSeatFails, RecordEvent,
         ReadStep, ReadStatus, ReadTimeline

\* Before its commit a request takes rows that are free and gives back its own.
LEMMA QuietHold ==
    ASSUME TypeOK, NEW r \in Requests, QuietStep(r)
    PROVE  OthersHold(r)
  <1> USE DEF LockSlotRow, LockOrderRow, FreeFor
  <1>1. CASE UNCHANGED locks
    BY <1>1 DEF OthersHold, locks
  <1>2. CASE Refuse(r)
    <2>1. Release(r)
      BY <1>2 DEF Refuse
    <2> QED
      BY <2>1 DEF Release, OthersHold, TypeOK
  <1>3. ASSUME NEW s \in Slots, FreeFor(r, slotLock[s]), LockSlotRow(r, s),
               UNCHANGED <<orderLock, counterLock>>
        PROVE  OthersHold(r)
    BY <1>3 DEF OthersHold, TypeOK
  <1>4. ASSUME NEW o \in Creates, orderLock[o] \in {Nobody, r}, LockOrderRow(r, o),
               UNCHANGED <<slotLock, counterLock>>
        PROVE  OthersHold(r)
    BY <1>4 DEF OthersHold, TypeOK
  <1>5. CASE TakeCode(r)
    BY <1>5 DEF TakeCode, OthersHold
  <1>6. CASE r \in Creates /\ CreateStep(r)
    <2>1. slot[r] \in Slots
      BY <1>6 DEF TypeOK
    <2>2. CASE InsertOrder(r)
      BY <1>6, <2>2 DEF InsertOrder, OthersHold, TypeOK
    <2> QED
      BY <1>1, <1>2, <1>3, <1>5, <1>6, <2>1, <2>2
      DEF CreateStep, CheckDelivery, CheckLocation, LockSlot, TakeSeat
  <1>7. CASE r \in Edits /\ EditStep(r)
    <2>1. CASE WriteOrder(r)
      <3>1. target[r] \in Creates
        BY <2>1 DEF WriteOrder, TypeOK
      <3> QED
        BY <1>4, <2>1, <3>1 DEF WriteOrder
    <2>2. CASE FreeSeat(r)
      <3>1. SlotFor(r) \in Slots
        BY <2>2 DEF FreeSeat, SlotFor, TypeOK
      <3> QED
        BY <1>3, <2>2, <3>1 DEF FreeSeat
    <2> QED
      BY <1>1, <1>2, <1>7, <2>1, <2>2 DEF EditStep, ReadOrder, FreeSeatFails, locks
  <1> QED
    BY <1>1, <1>2, <1>6, <1>7
    DEF QuietStep, Reject, RecordEvent, ReadStep, ReadStatus, ReadTimeline, locks

\* They are all of that kind.
LEMMA BeforeCommit ==
    ASSUME TypeOK, NEW r \in Requests, QuietStep(r)
    PROVE  OthersKeep(r)
  <1> USE QuietHold DEF OthersKeep, Goto
  <1>1. CASE Refuse(r)
    BY <1>1 DEF Refuse, Release, TypeOK, Requests, Writers, store, gates, input
  <1>2. CASE Reject(r)
    BY <1>2 DEF Reject, TypeOK, Requests, Writers, store, locks, input
  <1>3. CASE r \in Creates /\ CreateStep(r) /\ ~Refuse(r)
    <2>1. CASE CheckDelivery(r)
      BY <1>3, <2>1 DEF CheckDelivery, TypeOK, Requests, Writers, store, gates, locks
    <2>2. CASE CheckLocation(r)
      BY <1>3, <2>2 DEF CheckLocation, TypeOK, Requests, Writers, store, locks, input
    <2>3. CASE LockSlot(r)
      BY <1>3, <2>3 DEF LockSlot, TypeOK, Requests, Writers, store, input
    <2>4. CASE TakeCode(r)
      BY <2>4 DEF TakeCode, TypeOK, Requests, Writers, store, input
    <2>5. CASE InsertOrder(r)
      BY <2>5 DEF InsertOrder, TypeOK, Requests, Writers, store, input
    <2>6. CASE TakeSeat(r)
      BY <1>3, <2>6 DEF TakeSeat, TypeOK, Requests, Writers, store, input
    <2> QED
      BY <1>3, <2>1, <2>2, <2>3, <2>4, <2>5, <2>6 DEF CreateStep
  <1>4. CASE r \in Edits /\ EditStep(r) /\ ~Refuse(r)
    <2>1. CASE ReadOrder(r)
      <3>1. PICK o \in Creates, next \in TargetsOf(r) :
               /\ pc[r] = "new"
               /\ target' = [target EXCEPT ![r] = o]
               /\ to' = [to EXCEPT ![r] = next]
               /\ tx' = [tx EXCEPT ![r].seen = orders[o].status]
               /\ Goto(r, "write")
               /\ UNCHANGED <<store, gates, locks, slot, loc, view, resp>>
        BY <1>4, <2>1 DEF ReadOrder
      <3> QED
        BY <3>1 DEF TypeOK, Requests, Writers, store, locks
    <2>2. CASE WriteOrder(r)
      BY <2>2 DEF WriteOrder, TypeOK, Requests, Writers, store, input
    <2>3. CASE FreeSeat(r)
      BY <2>3 DEF FreeSeat, TypeOK, Requests, Writers, store, input
    <2>4. CASE FreeSeatFails(r)
      BY <2>4 DEF FreeSeatFails, TypeOK, Requests, Writers, store, locks, input
    <2> QED
      BY <1>4, <2>1, <2>2, <2>3, <2>4 DEF EditStep
  <1>5. CASE r \in Writers /\ RecordEvent(r)
    BY <1>5 DEF RecordEvent, TypeOK, Requests, Writers, store, locks, input
  <1>6. CASE r \in Reads /\ ReadStep(r) /\ ~Reject(r)
    BY <1>6 DEF ReadStep, ReadStatus, ReadTimeline, TypeOK, Requests, Writers,
                store, locks, input
  <1> QED
    BY <1>1, <1>2, <1>3, <1>4, <1>5, <1>6 DEF QuietStep

\* A caller that sends the next request is another such step.
LEMMA AgainKeeps ==
    ASSUME TypeOK, NEW r \in Regulars, SendAgain(r)
    PROVE  OthersKeep(r)
  <1>1. r \in Edits /\ r \in Requests /\ r \notin Reads
    BY RequestsAssumption, InputsAssumption DEF Requests, Writers
  <1>2. OthersHold(r)
    BY DEF SendAgain, OthersHold, locks
  <1> QED
    BY <1>1, <1>2 DEF OthersKeep, SendAgain, Goto, TypeOK, Requests, Writers

\* Such a step preserves the ledger as soon as its actor does.
LEMMA StepKeepsLedger ==
    ASSUME TypeOK, SeatInv, NEW r \in Requests, OthersKeep(r), ActorKeeps(r)
    PROVE  SeatInv'
  <1> USE DEF OthersKeep, OthersHold, ActorKeeps, store
  <1>1. Targets'
    BY DEF SeatInv, Targets, Placed, Requests, Writers
  <1>2. RowsWritten'
    BY DEF SeatInv, RowsWritten, Requests, Writers
  <1>3. PendingFits'
    <2> SUFFICES ASSUME NEW q \in Writers, tx'[q].booked # NoWrite
                 PROVE  /\ pc'[q] \in {"event", "commit"}
                        /\ slotLock'[SlotFor(q)'] = q
                        /\ tx'[q].booked <= slots'[SlotFor(q)'].cap
      BY DEF PendingFits
    <2>1. CASE q = r
      BY <2>1
    <2>2. CASE q # r
      <3>1. /\ pc[q] \in {"event", "commit"} /\ pc'[q] = pc[q]
            /\ slotLock[SlotFor(q)] = q
            /\ tx'[q] = tx[q] /\ tx[q].booked <= slots[SlotFor(q)].cap
            /\ target'[q] = target[q] /\ target[q] \in Creates
        BY <2>2 DEF SeatInv, PendingFits, TypeOK, Requests, Writers
      <3>2. slot'[target[q]] = slot[target[q]]
        BY <2>2, <3>1 DEF SeatInv, Targets, TypeOK, Requests, Writers
      <3>3. SlotFor(q)' = SlotFor(q) /\ SlotFor(q) \in Slots
        BY <3>1, <3>2 DEF SlotFor, TypeOK
      <3> QED
        BY <2>2, <3>1, <3>3, RequestsAssumption DEF Requests, Writers
    <2> QED
      BY <2>1, <2>2
  <1>4. PendingSeat'
    BY DEF SeatInv, PendingSeat, Requests, Writers
  <1>5. WithinCapacity'
    BY DEF SeatInv, WithinCapacity
  <1> QED
    BY <1>1, <1>2, <1>3, <1>4, <1>5 DEF SeatInv

\* The deferred Rollback does.
LEMMA RefuseKeepsLedger ==
    ASSUME TypeOK, SeatInv, NEW r \in Writers, pc[r] # "done", Refuse(r)
    PROVE  SeatInv'
  <1>1. OthersKeep(r)
    BY BeforeCommit DEF QuietStep, Requests
  <1>2. ActorKeeps(r)
    BY EmptyTxFacts DEF ActorKeeps, Refuse, Goto, TypeOK, Requests, Writers
  <1> QED
    BY <1>1, <1>2, StepKeepsLedger DEF Requests

\* The steps of a placement before its commit preserve the ledger.
LEMMA CreateKeepsLedger ==
    ASSUME TypeOK, SeatInv, NEW r \in Creates, CreateStep(r)
    PROVE  SeatInv'
  <1> USE DEF Goto, LockSlotRow, LockOrderRow, FreeFor
  <1>1. r \in Requests /\ r \in Writers /\ r \notin Edits
    BY RequestsAssumption DEF Requests, Writers
  <1>2. pc[r] # "done"
    BY DEF CreateStep, CheckDelivery, CheckLocation, LockSlot, TakeCode, InsertOrder, TakeSeat
  <1>3. CASE Refuse(r)
    BY <1>1, <1>2, <1>3, RefuseKeepsLedger
  <1>4. CASE CheckDelivery(r) /\ ~Refuse(r)
    <2>1. OthersKeep(r)
      BY <1>1, BeforeCommit DEF QuietStep
    <2>2. ActorKeeps(r)
      BY <1>1, <1>2, <1>4 DEF ActorKeeps, CheckDelivery, SeatInv, PendingFits, TypeOK, store, locks
    <2> QED
      BY <1>1, <2>1, <2>2, StepKeepsLedger
  <1>5. CASE CheckLocation(r) /\ ~Refuse(r)
    <2>1. OthersKeep(r)
      BY <1>1, BeforeCommit DEF QuietStep
    <2>2. ActorKeeps(r)
      BY <1>1, <1>2, <1>5 DEF ActorKeeps, CheckLocation, SeatInv, PendingFits, TypeOK, store, locks
    <2> QED
      BY <1>1, <2>1, <2>2, StepKeepsLedger
  <1>6. CASE LockSlot(r) /\ ~Refuse(r)
    <2>1. OthersKeep(r)
      BY <1>1, BeforeCommit DEF QuietStep
    <2>2. ActorKeeps(r)
      BY <1>1, <1>2, <1>6 DEF ActorKeeps, LockSlot, SeatInv, PendingFits, TypeOK, store
    <2> QED
      BY <1>1, <2>1, <2>2, StepKeepsLedger
  <1>7. CASE TakeCode(r)
    <2>1. OthersKeep(r)
      BY <1>1, BeforeCommit DEF QuietStep
    <2>2. ActorKeeps(r)
      BY <1>1, <1>2, <1>7 DEF ActorKeeps, TakeCode, SeatInv, PendingFits, TypeOK, store
    <2> QED
      BY <1>1, <2>1, <2>2, StepKeepsLedger
  <1>8. CASE InsertOrder(r)
    <2>1. OthersKeep(r)
      BY <1>1, BeforeCommit DEF QuietStep
    <2>2. ActorKeeps(r)
      <3>1. tx'[r] = [tx[r] EXCEPT !.row = [status |-> "PLACED", paid |-> FALSE]]
        BY <1>1, <1>8 DEF InsertOrder, TypeOK
      <3>2. tx'[r].booked = tx[r].booked /\ tx'[r].row.status # Absent
        BY <1>1, <3>1, TxFields DEF TypeOK, Absent
      <3> QED
        BY <1>1, <1>2, <1>8, <3>2
        DEF ActorKeeps, InsertOrder, SeatInv, PendingFits, TypeOK, Requests, Writers
    <2> QED
      BY <1>1, <2>1, <2>2, StepKeepsLedger
  <1>9. CASE TakeSeat(r) /\ ~Refuse(r)
    <2>1. OthersKeep(r)
      BY <1>1, BeforeCommit DEF QuietStep
    <2>2. ActorKeeps(r)
      <3>1. tx'[r] = [tx[r] EXCEPT !.booked = slots[slot[r]].booked + 1]
        BY <1>1, <1>9 DEF TakeSeat, TypeOK
      <3>2. tx'[r].booked = slots[slot[r]].booked + 1 /\ tx'[r].row = tx[r].row
        BY <1>1, <3>1, TxFields DEF TypeOK
      <3>3. slots[slot[r]].booked + 1 <= slots[slot[r]].cap
        BY <1>9 DEF TakeSeat, TypeOK, SlotRows
      <3>4. tx[r].row.status # Absent
        BY <1>1, <1>9 DEF TakeSeat, SeatInv, RowsWritten
      <3>5. SlotFor(r)' = slot[r] /\ slots' = slots /\ slot' = slot
        BY <1>9 DEF TakeSeat, SlotFor, TypeOK, store, input
      <3>6. pc'[r] = "event" /\ slotLock'[slot[r]] = r
        BY <1>1, <1>9 DEF TakeSeat, TypeOK
      <3> QED
        BY <1>1, <1>2, <3>2, <3>3, <3>4, <3>5, <3>6 DEF ActorKeeps
    <2> QED
      BY <1>1, <2>1, <2>2, StepKeepsLedger
  <1> QED
    BY <1>3, <1>4, <1>5, <1>6, <1>7, <1>8, <1>9 DEF CreateStep

\* The steps of an edit before its commit preserve the ledger.
LEMMA EditKeepsLedger ==
    ASSUME TypeOK, SeatInv, NEW r \in Edits, EditStep(r)
    PROVE  SeatInv'
  <1> USE DEF Goto, LockSlotRow, LockOrderRow, FreeFor
  <1>1. r \in Requests /\ r \in Writers /\ r \notin Creates
    BY RequestsAssumption DEF Requests, Writers
  <1>2. pc[r] # "done"
    BY DEF EditStep, ReadOrder, WriteOrder, FreeSeat, FreeSeatFails
  <1>3. CASE Refuse(r)
    BY <1>1, <1>2, <1>3, RefuseKeepsLedger
  <1>4. CASE ReadOrder(r) /\ ~Refuse(r)
    <2>1. PICK o \in Creates, next \in TargetsOf(r) :
             /\ pc[r] = "new" /\ Placed(o)
             /\ target' = [target EXCEPT ![r] = o]
             /\ to' = [to EXCEPT ![r] = next]
             /\ tx' = [tx EXCEPT ![r].seen = orders[o].status]
             /\ Goto(r, "write")
             /\ UNCHANGED <<store, gates, locks, slot, loc, view, resp>>
      BY <1>4 DEF ReadOrder
    <2>2. OthersKeep(r)
      BY <1>1, BeforeCommit DEF QuietStep
    <2>3. tx'[r] = [tx[r] EXCEPT !.seen = orders[o].status]
      BY <1>1, <2>1 DEF TypeOK
    <2>4. tx'[r].booked = tx[r].booked
      BY <1>1, <2>3, TxFields DEF TypeOK
    <2>5. ActorKeeps(r)
      BY <1>1, <2>1, <2>4 DEF ActorKeeps, SeatInv, PendingFits, TypeOK
    <2> QED
      BY <1>1, <2>2, <2>5, StepKeepsLedger
  <1>5. CASE WriteOrder(r)
    <2>1. OthersKeep(r)
      BY <1>1, BeforeCommit DEF QuietStep
    <2>2. tx'[r] = [tx[r] EXCEPT !.row = Written(orders[target[r]], to[r])]
      BY <1>1, <1>5 DEF WriteOrder, TypeOK
    <2>3. tx'[r].booked = tx[r].booked /\ tx'[r].row.status = to[r]
      BY <1>1, <2>2, TxFields DEF TypeOK, Written
    <2>4. to[r] # Absent
      BY <1>1 DEF TypeOK, Statuses, Absent
    <2>5. Placed(target'[r])
      BY <1>1, <1>5 DEF WriteOrder, SeatInv, Targets, input
    <2>6. ActorKeeps(r)
      BY <1>1, <1>5, <2>3, <2>4, <2>5 DEF ActorKeeps, WriteOrder, SeatInv, PendingFits, TypeOK
    <2> QED
      BY <1>1, <2>1, <2>6, StepKeepsLedger
  <1>6. CASE FreeSeat(r)
    <2>1. OthersKeep(r)
      BY <1>1, BeforeCommit DEF QuietStep
    <2>2. tx'[r] = [tx[r] EXCEPT !.booked = Decremented(slots[SlotFor(r)].booked)]
      BY <1>1, <1>6 DEF FreeSeat, TypeOK
    <2>3. tx'[r].booked = Decremented(slots[SlotFor(r)].booked) /\ tx'[r].row = tx[r].row
      BY <1>1, <2>2, TxFields DEF TypeOK
    <2>4. tx[r].row.status # Absent /\ Placed(target[r])
      BY <1>1, <1>6 DEF FreeSeat, SeatInv, RowsWritten, Targets
    <2>5. SlotFor(r)' = SlotFor(r) /\ slots' = slots /\ target' = target
      BY <1>6 DEF FreeSeat, SlotFor, store, input
    <2>6. SlotFor(r) \in Slots
      BY <1>1, <1>6 DEF FreeSeat, SlotFor, TypeOK
    <2>7. Decremented(slots[SlotFor(r)].booked) <= slots[SlotFor(r)].cap
      <3>1. /\ slots[SlotFor(r)].booked \in Nat /\ slots[SlotFor(r)].cap \in Nat
            /\ slots[SlotFor(r)].booked <= slots[SlotFor(r)].cap
        BY <2>6 DEF SeatInv, WithinCapacity, TypeOK, SlotRows
      <3>2. /\ Decremented(slots[SlotFor(r)].booked) \in Nat
            /\ Decremented(slots[SlotFor(r)].booked) <= slots[SlotFor(r)].booked
        BY <3>1, DecrementedFact
      <3> QED
        BY <3>1, <3>2
    <2>8. pc'[r] = "event" /\ slotLock'[SlotFor(r)] = r
      BY <1>1, <1>6, <2>6 DEF FreeSeat, TypeOK
    <2>9. ActorKeeps(r)
      BY <1>1, <2>3, <2>4, <2>5, <2>7, <2>8 DEF ActorKeeps, Placed
    <2> QED
      BY <1>1, <2>1, <2>9, StepKeepsLedger
  <1>7. CASE FreeSeatFails(r)
    <2>1. OthersKeep(r)
      BY <1>1, BeforeCommit DEF QuietStep
    <2>2. tx'[r] = [tx[r] EXCEPT !.broken = TRUE]
      BY <1>1, <1>7 DEF FreeSeatFails, TypeOK
    <2>3. tx'[r].booked = tx[r].booked /\ tx'[r].row = tx[r].row
      BY <1>1, <2>2, TxFields DEF TypeOK
    <2>4. tx[r].row.status # Absent /\ Placed(target'[r])
      BY <1>1, <1>7 DEF FreeSeatFails, SeatInv, RowsWritten, Targets, input
    <2>5. ActorKeeps(r)
      BY <1>1, <1>7, <2>3, <2>4 DEF ActorKeeps, FreeSeatFails, SeatInv, PendingFits, TypeOK
    <2> QED
      BY <1>1, <2>1, <2>5, StepKeepsLedger
  <1> QED
    BY <1>3, <1>4, <1>5, <1>6, <1>7 DEF EditStep

\* RecordEvent preserves the ledger, with or without its error.
LEMMA RecordKeepsLedger ==
    ASSUME TypeOK, SeatInv, NEW r \in Writers, RecordEvent(r)
    PROVE  SeatInv'
  <1>1. r \in Requests
    BY DEF Requests
  <1>2. OthersKeep(r)
    BY <1>1, BeforeCommit DEF QuietStep
  <1>3. \/ tx'[r] = [tx[r] EXCEPT !.event = [from |-> tx[r].seen, to |-> to[r]]]
        \/ tx'[r] = [tx[r] EXCEPT !.broken = TRUE]
    BY DEF RecordEvent, TypeOK
  <1>4. tx'[r].booked = tx[r].booked /\ tx'[r].row = tx[r].row
    <2>1. tx[r] \in Txs
      BY DEF TypeOK
    <2>2. CASE tx'[r] = [tx[r] EXCEPT !.event = [from |-> tx[r].seen, to |-> to[r]]]
      BY <2>1, <2>2, TxFields
    <2>3. CASE tx'[r] = [tx[r] EXCEPT !.broken = TRUE]
      BY <2>1, <2>3, TxFields
    <2> QED
      BY <1>3, <2>2, <2>3
  <1>5. /\ tx[r].row.status # Absent
        /\ r \in Edits => Placed(target'[r])
        /\ SlotFor(r)' = SlotFor(r)
    BY DEF RecordEvent, SeatInv, RowsWritten, Targets, SlotFor, input
  <1>6. pc'[r] = "commit" /\ UNCHANGED <<slots, slotLock, slot>>
    BY <1>1 DEF RecordEvent, Goto, TypeOK, store, locks, input
  <1>7. ActorKeeps(r)
    BY <1>4, <1>5, <1>6 DEF ActorKeeps, RecordEvent, SeatInv, PendingFits, PendingSeat
  <1> QED
    BY <1>1, <1>2, <1>7, StepKeepsLedger

\* What a commit that is not refused does to the store.
LEMMA CommitEffect ==
    ASSUME TypeOK, SeatInv, NEW r \in Writers, Commit(r), ~Refuse(r)
    PROVE  /\ pc[r] = "commit" /\ pc' = [pc EXCEPT ![r] = "done"]
           /\ target[r] \in Creates /\ SlotFor(r) \in Slots
           /\ orders' = [orders EXCEPT ![target[r]] = tx[r].row]
           /\ tx[r].row.status # Absent
           /\ \A s \in Slots : /\ slots'[s].cap = slots[s].cap
                               /\ s # SlotFor(r) => slots'[s] = slots[s]
           /\ IF tx[r].booked = NoWrite THEN slots' = slots
              ELSE /\ slotLock[SlotFor(r)] = r
                   /\ slots'[SlotFor(r)].booked = tx[r].booked
                   /\ tx[r].booked <= slots[SlotFor(r)].cap
           /\ tx' = [tx EXCEPT ![r] = EmptyTx]
           /\ UNCHANGED input
           /\ \A s \in Slots : slotLock[s] # r => slotLock'[s] = slotLock[s]
  <1>1. /\ pc[r] = "commit" /\ Apply(r) /\ Release(r)
        /\ tx' = [tx EXCEPT ![r] = EmptyTx]
        /\ pc' = [pc EXCEPT ![r] = "done"]
        /\ UNCHANGED input
    BY DEF Commit, Goto
  <1>2. target[r] \in Creates /\ SlotFor(r) \in Slots
    BY <1>1 DEF TypeOK, SlotFor, Requests
  <1>3. tx[r].row.status # Absent
    BY <1>1 DEF SeatInv, RowsWritten
  <1>4. \A s \in Slots : slotLock[s] # r => slotLock'[s] = slotLock[s]
    BY <1>1 DEF Release
  <1>5. CASE tx[r].booked = NoWrite
    BY <1>1, <1>2, <1>3, <1>4, <1>5 DEF Apply
  <1>6. CASE tx[r].booked # NoWrite
    <2>1. slotLock[SlotFor(r)] = r /\ tx[r].booked <= slots[SlotFor(r)].cap
      BY <1>6 DEF SeatInv, PendingFits
    <2>2. slots' = [slots EXCEPT ![SlotFor(r)] =
                       [slots[SlotFor(r)] EXCEPT !.booked = tx[r].booked]]
      BY <1>1, <1>6 DEF Apply
    <2>3. /\ [slots[SlotFor(r)] EXCEPT !.booked = tx[r].booked].booked = tx[r].booked
          /\ [slots[SlotFor(r)] EXCEPT !.booked = tx[r].booked].cap = slots[SlotFor(r)].cap
      BY <1>2 DEF TypeOK, SlotRows
    <2> QED
      BY <1>1, <1>2, <1>3, <1>4, <1>6, <2>1, <2>2, <2>3 DEF Apply, TypeOK
  <1> QED
    BY <1>5, <1>6

\* A commit preserves the ledger: the slot it writes is locked by nobody else, so
\* no other pending booked_count is about it.
LEMMA CommitKeepsLedger ==
    ASSUME TypeOK, SeatInv, NEW r \in Writers, Commit(r)
    PROVE  SeatInv'
  <1>1. CASE Refuse(r)
    BY <1>1, RefuseKeepsLedger DEF Commit
  <1>2. CASE ~Refuse(r)
    <2>1. /\ pc[r] = "commit" /\ pc' = [pc EXCEPT ![r] = "done"]
          /\ target[r] \in Creates /\ SlotFor(r) \in Slots
          /\ orders' = [orders EXCEPT ![target[r]] = tx[r].row]
          /\ tx[r].row.status # Absent
          /\ \A s \in Slots : /\ slots'[s].cap = slots[s].cap
                              /\ s # SlotFor(r) => slots'[s] = slots[s]
          /\ IF tx[r].booked = NoWrite THEN slots' = slots
             ELSE /\ slotLock[SlotFor(r)] = r
                  /\ slots'[SlotFor(r)].booked = tx[r].booked
                  /\ tx[r].booked <= slots[SlotFor(r)].cap
          /\ tx' = [tx EXCEPT ![r] = EmptyTx]
          /\ UNCHANGED input
          /\ \A s \in Slots : slotLock[s] # r => slotLock'[s] = slotLock[s]
      BY <1>2, CommitEffect
    <2>2. Targets'
      <3>1. target' = target
        BY <2>1 DEF input
      <3>2. \A o \in Creates : Placed(o) => Placed(o)'
        BY <2>1 DEF Placed, TypeOK
      <3>3. ASSUME NEW o \in Creates, Placed(o)' PROVE pc'[o] = "done"
        <4>1. CASE o = target[r]
          BY <2>1, <4>1 DEF SeatInv, Targets, TypeOK, Requests, Writers
        <4>2. CASE o # target[r]
          BY <2>1, <3>3, <4>2 DEF SeatInv, Targets, Placed, TypeOK, Requests, Writers
        <4> QED
          BY <4>1, <4>2
      <3>4. ASSUME NEW q \in Edits, pc'[q] \notin {"new", "done"} PROVE Placed(target[q])'
        <4>1. pc[q] \notin {"new", "done"}
          BY <2>1, <3>4 DEF TypeOK, Requests, Writers
        <4>2. Placed(target[q]) /\ target[q] \in Creates
          BY <4>1 DEF SeatInv, Targets, TypeOK, Requests, Writers
        <4> QED
          BY <3>1, <3>2, <4>2 DEF Placed
      <3> QED
        BY <3>3, <3>4 DEF Targets
    <2>3. RowsWritten'
      BY <2>1 DEF SeatInv, RowsWritten, TypeOK, Requests, Writers
    <2>4. PendingFits'
      <3> SUFFICES ASSUME NEW q \in Writers, tx'[q].booked # NoWrite
                   PROVE  /\ pc'[q] \in {"event", "commit"}
                          /\ slotLock'[SlotFor(q)'] = q
                          /\ tx'[q].booked <= slots'[SlotFor(q)'].cap
        BY DEF PendingFits
      <3>1. q # r /\ tx'[q] = tx[q]
        BY <2>1, EmptyTxFacts DEF TypeOK
      <3>2. /\ pc[q] \in {"event", "commit"} /\ slotLock[SlotFor(q)] = q
            /\ tx[q].booked <= slots[SlotFor(q)].cap
        BY <3>1 DEF SeatInv, PendingFits
      <3>3. SlotFor(q)' = SlotFor(q)
        BY <2>1 DEF SlotFor, input
      <3>4. SlotFor(q) \in Slots
        BY <3>2 DEF SlotFor, TypeOK, Requests, Writers
      <3>5. pc'[q] = pc[q]
        BY <2>1, <3>1 DEF TypeOK, Requests
      <3> QED
        BY <2>1, <3>1, <3>2, <3>3, <3>4, <3>5
    <2>5. PendingSeat'
      <3> SUFFICES ASSUME NEW q \in Creates, pc'[q] \in {"event", "commit"}
                   PROVE  tx'[q].booked = slots'[slot'[q]].booked + 1
        BY DEF PendingSeat
      <3>1. q # r /\ q \in Writers /\ pc'[q] = pc[q] /\ tx'[q] = tx[q]
        BY <2>1 DEF TypeOK, Requests, Writers
      <3>2. tx[q].booked = slots[slot[q]].booked + 1
        BY <3>1 DEF SeatInv, PendingSeat
      <3>3. SlotFor(q) = slot[q] /\ slot[q] \in Slots /\ slot' = slot
        BY <2>1 DEF SlotFor, TypeOK, input
      <3>4. tx[q].booked # NoWrite
        BY <3>2, <3>3 DEF TypeOK, SlotRows, NoWrite
      <3>5. slotLock[slot[q]] = q
        BY <3>1, <3>3, <3>4 DEF SeatInv, PendingFits
      <3>6. slots'[slot[q]] = slots[slot[q]]
        BY <2>1, <3>1, <3>3, <3>5
      <3> QED
        BY <3>1, <3>2, <3>3, <3>6
    <2>6. WithinCapacity'
      BY <2>1 DEF SeatInv, WithinCapacity
    <2> QED
      BY <2>2, <2>3, <2>4, <2>5, <2>6 DEF SeatInv
  <1> QED
    BY <1>1, <1>2

\* Reads, failures and what happens around the handlers preserve the ledger.
LEMMA ReadKeepsLedger ==
    ASSUME TypeOK, SeatInv, NEW r \in Reads, ReadStep(r) \/ (pc[r] # "done" /\ Reject(r))
    PROVE  SeatInv'
  <1>1. r \in Requests /\ r \notin Writers /\ r \notin Edits /\ r \notin Creates
    BY RequestsAssumption DEF Requests, Writers
  <1>2. OthersKeep(r)
    BY <1>1, BeforeCommit DEF QuietStep
  <1>3. ActorKeeps(r)
    BY <1>1 DEF ActorKeeps
  <1> QED
    BY <1>1, <1>2, <1>3, StepKeepsLedger

LEMMA EnvironmentKeepsLedger ==
    ASSUME TypeOK, SeatInv, Environment
    PROVE  SeatInv'
  <1>1. ASSUME NEW s \in Slots, AdminUpdateSlot(s) PROVE SeatInv'
    <2>1. PICK e \in SlotEdits :
             /\ slots[s].booked <= e.cap
             /\ slots' = [slots EXCEPT ![s].cap = e.cap, ![s].active = e.active]
      BY <1>1 DEF AdminUpdateSlot
    <2>2. /\ slotLock[s] = Nobody
          /\ UNCHANGED <<orders, slotLock, target, slot, pc, tx>>
      BY <1>1 DEF AdminUpdateSlot, locks, input
    <2>3. /\ slots'[s].booked = slots[s].booked /\ slots'[s].cap = e.cap
          /\ \A q \in Slots : q # s => slots'[q] = slots[q]
      BY <2>1 DEF TypeOK, SlotRows
    <2>4. Targets' /\ RowsWritten'
      BY <2>2 DEF SeatInv, Targets, RowsWritten, Placed
    <2>5. PendingFits'
      <3> SUFFICES ASSUME NEW q \in Writers, tx'[q].booked # NoWrite
                   PROVE  /\ pc'[q] \in {"event", "commit"}
                          /\ slotLock'[SlotFor(q)'] = q
                          /\ tx'[q].booked <= slots'[SlotFor(q)'].cap
        BY DEF PendingFits
      <3>1. /\ pc[q] \in {"event", "commit"} /\ slotLock[SlotFor(q)] = q
            /\ tx[q].booked <= slots[SlotFor(q)].cap
        BY <2>2 DEF SeatInv, PendingFits
      <3>2. SlotFor(q)' = SlotFor(q) /\ SlotFor(q) \in Slots
        BY <2>2, <3>1 DEF SlotFor, TypeOK, Requests, Writers
      <3>3. SlotFor(q) # s
        BY <2>2, <3>1, RequestsAssumption DEF Requests
      <3> QED
        BY <2>2, <2>3, <3>1, <3>2, <3>3
    <2>6. PendingSeat'
      <3>1. \A q \in Slots : slots'[q].booked = slots[q].booked
        BY <2>3
      <3>2. \A q \in Creates : slot[q] \in Slots
        BY DEF TypeOK
      <3> QED
        BY <2>2, <3>1, <3>2 DEF SeatInv, PendingSeat
    <2>7. WithinCapacity'
      BY <2>1, <2>3 DEF SeatInv, WithinCapacity
    <2> QED
      BY <2>4, <2>5, <2>6, <2>7 DEF SeatInv
  <1>2. ASSUME NEW r \in Regulars, SendAgain(r) PROVE SeatInv'
    <2>1. r \in Edits /\ r \in Writers /\ r \in Requests /\ r \notin Creates
      BY RequestsAssumption, InputsAssumption DEF Requests, Writers
    <2>2. OthersKeep(r)
      BY <1>2, AgainKeeps
    <2>3. ActorKeeps(r)
      BY <1>2, <2>1 DEF ActorKeeps, SendAgain, Goto, SeatInv, PendingFits, TypeOK
    <2> QED
      BY <2>1, <2>2, <2>3, StepKeepsLedger
  <1>3. ASSUME UNCHANGED <<slots, orders, slotLock, target, slot, pc, tx>> PROVE SeatInv'
    BY <1>3 DEF SeatInv, Targets, RowsWritten, PendingFits, PendingSeat, WithinCapacity,
                Placed, SlotFor
  <1> QED
    BY <1>1, <1>2, <1>3
    DEF Environment, CutoffPasses, AdminSetDelivery, AdminSetLocation, DeadlinePasses,
        store, locks, input

\* The ledger of seats is inductive.
LEMMA StepSeatInv ==
    ASSUME TypeOK, SeatInv, [Next]_vars
    PROVE  SeatInv'
  <1>1. ASSUME NEW r \in Requests, Progress(r) PROVE SeatInv'
    BY <1>1, CreateKeepsLedger, EditKeepsLedger, RecordKeepsLedger, CommitKeepsLedger,
       ReadKeepsLedger DEF Progress, FinishStep
  <1>2. ASSUME NEW r \in Requests, Fail(r) PROVE SeatInv'
    BY <1>2, RefuseKeepsLedger, ReadKeepsLedger DEF Fail, Requests
  <1>3. CASE UNCHANGED vars
    BY <1>3 DEF SeatInv, Targets, RowsWritten, PendingFits, PendingSeat, WithinCapacity,
                Placed, SlotFor, vars, store, locks, input
  <1> QED
    BY <1>1, <1>2, <1>3, EnvironmentKeepsLedger DEF Next

LEMMA InitSeatInv == Init => SeatInv
  <1> SUFFICES ASSUME Init PROVE SeatInv
    OBVIOUS
  <1>1. Targets /\ RowsWritten
    BY DEF Init, Targets, RowsWritten, Placed, NoRow, Requests, Writers
  <1>2. PendingFits /\ PendingSeat
    BY EmptyTxFacts DEF Init, PendingFits, PendingSeat, Requests, Writers
  <1>3. WithinCapacity
    BY InputsAssumption DEF Init, WithinCapacity
  <1> QED
    BY <1>1, <1>2, <1>3 DEF SeatInv

\* No interleaving of placements, cancellations, failures and admin edits ever
\* commits more booked seats than a slot has (the row lock and the WHERE clause of
\* IncrementBookedTx), for any number of requests and slots.
THEOREM CapacityKept == Spec => []WithinCapacity
  <1>1. Init => TypeOK /\ SeatInv
    BY InitTypeOK, InitSeatInv
  <1>2. TypeOK /\ SeatInv /\ [Next]_vars => TypeOK' /\ SeatInv'
    BY StepTypeOK, StepSeatInv
  <1>3. SeatInv => WithinCapacity
    BY DEF SeatInv
  <1> QED
    BY <1>1, <1>2, <1>3, PTL DEF Spec

\* The commit that makes an order visible also adds exactly one to the booked_count
\* of its slot as the others know it: no placement is lost under another.
THEOREM PlacementCounted == Spec => PlacementTakesSeat
  <1> DEFINE Counted == \A o \in Creates : ~Placed(o) /\ Placed(o)' =>
                           slots'[slot[o]].booked = slots[slot[o]].booked + 1
  <1>1. Init => TypeOK /\ SeatInv
    BY InitTypeOK, InitSeatInv
  <1>2. TypeOK /\ SeatInv /\ [Next]_vars => TypeOK' /\ SeatInv'
    BY StepTypeOK, StepSeatInv
  <1>3. TypeOK /\ SeatInv /\ [Next]_vars => [Counted]_vars
    <2> SUFFICES ASSUME TypeOK, SeatInv, [Next]_vars,
                        NEW o \in Creates, ~Placed(o), Placed(o)'
                 PROVE  slots'[slot[o]].booked = slots[slot[o]].booked + 1
      OBVIOUS
    <2>1. orders' # orders
      BY DEF Placed
    <2>2. PICK r \in Writers : Commit(r) /\ ~Refuse(r)
      BY <2>1
      DEF Next, Progress, CreateStep, CheckDelivery, CheckLocation, LockSlot, TakeCode,
          InsertOrder, TakeSeat, EditStep, ReadOrder, WriteOrder, FreeSeat, FreeSeatFails,
          FinishStep, RecordEvent, ReadStep, ReadStatus, ReadTimeline, Fail, Refuse, Reject,
          Environment, AdminUpdateSlot, CutoffPasses, SendAgain, AdminSetDelivery,
          AdminSetLocation, DeadlinePasses, vars, store
    <2>3. /\ pc[r] = "commit"
          /\ orders' = [orders EXCEPT ![target[r]] = tx[r].row]
          /\ tx[r].booked # NoWrite => slots'[SlotFor(r)].booked = tx[r].booked
      BY <2>2, CommitEffect
    <2>4. target[r] = o
      BY <2>3 DEF Placed, TypeOK
    <2>5. r \in Creates /\ r = o
      BY <2>3, <2>4 DEF SeatInv, Targets, TypeOK, Writers
    <2>6. tx[r].booked = slots[slot[o]].booked + 1
      BY <2>3, <2>5 DEF SeatInv, PendingSeat
    <2>7. slots[slot[o]].booked \in Nat
      BY DEF TypeOK, SlotRows
    <2> QED
      BY <2>3, <2>4, <2>6, <2>7 DEF SlotFor, NoWrite
  <1> QED
    BY <1>1, <1>2, <1>3, PTL DEF Spec, PlacementTakesSeat
-----------------------------------------------------------------------------
(* Part 2.  Records: locks, pending rows and events, answers, for every     *)
(* interleaving.                                                            *)

\* A step of r leaves the other requests as they were.
OthersApart(r) ==
    /\ \A q \in Requests \ {r} : /\ pc'[q] = pc[q] /\ target'[q] = target[q]
                                 /\ resp'[q] = resp[q]
    /\ \A q \in Writers \ {r} : tx'[q] = tx[q] /\ to'[q] = to[q]
    /\ \A q \in Creates \ {r} : slot'[q] = slot[q]
    /\ \A q \in Reads \ {r} : view'[q] = view[q]
    /\ slot' = slot \/ pc[r] # "done"
    /\ OthersHold(r)

\* What a commit that is not refused does.
LEMMA CommitRecords ==
    ASSUME TypeOK, NEW r \in Writers, Commit(r), ~Refuse(r)
    PROVE  /\ pc[r] = "commit" /\ ~tx[r].broken /\ target[r] \in Creates
           /\ Apply(r) /\ Release(r)
           /\ tx'[r] = EmptyTx /\ pc'[r] = "done"
           /\ UNCHANGED input /\ UNCHANGED view
           /\ OthersApart(r)
  <1>1. r \in Requests /\ r \notin Reads
    BY RequestsAssumption DEF Requests
  <1>2. /\ pc[r] = "commit" /\ ~tx[r].broken /\ target[r] \in Creates
        /\ Apply(r) /\ Release(r)
        /\ tx' = [tx EXCEPT ![r] = EmptyTx] /\ pc' = [pc EXCEPT ![r] = "done"]
        /\ \E answer \in {"ok", "err"} : resp' = [resp EXCEPT ![r] = answer]
        /\ UNCHANGED input /\ UNCHANGED view
    BY <1>1 DEF Commit, Goto, TypeOK
  <1>3. OthersHold(r)
    BY <1>2 DEF Release, OthersHold, TypeOK
  <1> QED
    BY <1>1, <1>2, <1>3 DEF OthersApart, TypeOK, Requests, Writers, input

\* Every step is one of four kinds: of a request before its commit, a commit,
\* the next request of a caller, or none that the requests notice.
LEMMA StepKinds ==
    ASSUME TypeOK, [Next]_vars
    PROVE  \/ \E r \in Requests : /\ QuietStep(r) \/ (r \in Regulars /\ SendAgain(r))
                                  /\ OthersApart(r) /\ UNCHANGED store
           \/ \E r \in Writers : Commit(r) /\ ~Refuse(r)
           \/ /\ UNCHANGED <<orders, events, locks, input, pc, tx, view, resp>>
              /\ \A s \in Slots : slots'[s].booked = slots[s].booked
              /\ slots' = slots \/ \E s \in Slots : AdminUpdateSlot(s)
  <1>1. ASSUME NEW r \in Requests, QuietStep(r)
        PROVE  OthersApart(r) /\ UNCHANGED store
    BY <1>1, BeforeCommit DEF OthersKeep, OthersApart
  <1>2. ASSUME NEW r \in Regulars, SendAgain(r)
        PROVE  r \in Requests /\ OthersApart(r) /\ UNCHANGED store
    BY <1>2, AgainKeeps, InputsAssumption DEF OthersKeep, OthersApart, Requests, Writers
  <1>3. ASSUME NEW s \in Slots, AdminUpdateSlot(s)
        PROVE  /\ UNCHANGED <<orders, events, locks, input, pc, tx, view, resp>>
               /\ \A q \in Slots : slots'[q].booked = slots[q].booked
    <2>1. PICK e \in SlotEdits : slots' = [slots EXCEPT ![s].cap = e.cap, ![s].active = e.active]
      BY <1>3 DEF AdminUpdateSlot
    <2> QED
      BY <1>3, <2>1 DEF AdminUpdateSlot, TypeOK, SlotRows
  <1>4. ASSUME Environment
        PROVE  \/ \E r \in Regulars : SendAgain(r)
               \/ /\ UNCHANGED <<orders, events, locks, input, pc, tx, view, resp>>
                  /\ \A s \in Slots : slots'[s].booked = slots[s].booked
                  /\ slots' = slots \/ \E s \in Slots : AdminUpdateSlot(s)
    BY <1>3, <1>4
    DEF Environment, CutoffPasses, AdminSetDelivery, AdminSetLocation, DeadlinePasses, store
  <1>5. ASSUME NEW r \in Requests, Progress(r) \/ Fail(r)
        PROVE  QuietStep(r) \/ (r \in Writers /\ Commit(r) /\ ~Refuse(r))
    BY <1>5 DEF Progress, Fail, FinishStep, Commit, QuietStep, Requests
  <1>6. CASE UNCHANGED vars
    BY <1>6 DEF vars, store
  <1> QED
    BY <1>1, <1>2, <1>4, <1>5, <1>6 DEF Next
-----------------------------------------------------------------------------
(* Row locks.                                                               *)

\* A request holds a row no earlier than it takes it and no longer than its
\* transaction lives; a placement holds its slot from the first lock on.
LocksOf(r) ==
    /\ IF r \in Creates THEN pc[r] \notin {"write", "free", "timeline"}
                        ELSE pc[r] \in {"new", "write", "free", "event", "commit", "done"}
    /\ \A s \in Slots : slotLock[s] = r =>
          IF r \in Creates THEN pc[r] \in {"code", "insert", "seat", "event", "commit"}
                           ELSE pc[r] \in {"event", "commit"}
    /\ \A o \in Creates : orderLock[o] = r =>
          IF r \in Creates THEN o = r /\ pc[r] \in {"seat", "event", "commit"}
                           ELSE pc[r] \in {"free", "event", "commit"}
    /\ counterLock = r => pc[r] \in {"insert", "seat", "event", "commit"}
    /\ r \in Creates /\ pc[r] \in {"code", "insert", "seat", "event", "commit"} =>
          slotLock[slot[r]] = r

LockInv == \A r \in Writers : LocksOf(r)

LEMMA InitLockInv == Init => LockInv
  BY RequestsAssumption DEF Init, LockInv, LocksOf, Requests, Writers

\* Rows change hands only to and from the request that makes the step.
LEMMA StepKeepsLocks ==
    ASSUME TypeOK, LockInv, NEW r \in Requests, OthersApart(r),
           r \in Writers => LocksOf(r)'
    PROVE  LockInv'
  <1> SUFFICES ASSUME NEW q \in Writers, q # r PROVE LocksOf(q)'
    BY DEF LockInv
  <1>1. q \in Requests /\ q # Nobody /\ LocksOf(q)
    BY RequestsAssumption DEF LockInv, Requests
  <1>2. pc'[q] = pc[q] /\ (q \in Creates => slot'[q] = slot[q])
    BY <1>1 DEF OthersApart
  <1>3. /\ \A s \in Slots : slotLock'[s] = q <=> slotLock[s] = q
        /\ \A o \in Creates : orderLock'[o] = q => orderLock[o] = q
        /\ counterLock' = q => counterLock = q
    BY <1>1 DEF OthersApart, OthersHold
  <1>4. q \in Creates => slot[q] \in Slots
    BY DEF TypeOK
  <1> QED
    BY <1>1, <1>2, <1>3, <1>4 DEF LocksOf

\* A rollback and a commit leave no row behind.
LEMMA ReleasedLocks ==
    ASSUME TypeOK, NEW r \in Writers, Release(r), pc'[r] = "done"
    PROVE  LocksOf(r)'
  <1>1. r # Nobody
    BY RequestsAssumption DEF Requests
  <1> QED
    BY <1>1 DEF Release, LocksOf, TypeOK

\* The steps before the commit take the rows in the order LocksOf tells.
LEMMA QuietLocks ==
    ASSUME TypeOK, SeatInv, LockInv, NEW r \in Writers, QuietStep(r)
    PROVE  LocksOf(r)'
  <1> USE DEF Goto, LockSlotRow, LockOrderRow, FreeFor
  <1>1. r \in Requests /\ r \notin Reads /\ r # Nobody /\ LocksOf(r)
    BY RequestsAssumption DEF Requests, LockInv
  <1>2. CASE Refuse(r)
    BY <1>1, <1>2, ReleasedLocks DEF Refuse, TypeOK
  <1>3. CASE RecordEvent(r)
    BY <1>1, <1>3 DEF RecordEvent, LocksOf, locks, input, TypeOK
  <1>4. CASE r \in Creates /\ CreateStep(r) /\ ~Refuse(r)
    <2>1. slot[r] \in Slots
      BY <1>4 DEF TypeOK
    <2>2. CASE CheckDelivery(r) \/ CheckLocation(r)
      BY <1>1, <1>4, <2>2 DEF CheckDelivery, CheckLocation, LocksOf, locks, TypeOK
    <2>3. CASE LockSlot(r)
      BY <1>1, <1>4, <2>1, <2>3 DEF LockSlot, LocksOf, input, TypeOK
    <2>4. CASE TakeCode(r)
      BY <1>1, <1>4, <2>1, <2>4 DEF TakeCode, LocksOf, input, TypeOK
    <2>5. CASE InsertOrder(r)
      BY <1>1, <1>4, <2>1, <2>5 DEF InsertOrder, LocksOf, input, TypeOK
    <2>6. CASE TakeSeat(r)
      BY <1>1, <1>4, <2>1, <2>6 DEF TakeSeat, LocksOf, input, TypeOK
    <2> QED
      BY <1>4, <2>2, <2>3, <2>4, <2>5, <2>6 DEF CreateStep
  <1>5. CASE r \in Edits /\ EditStep(r) /\ ~Refuse(r)
    <2>1. r \notin Creates
      BY <1>5, RequestsAssumption
    <2>2. CASE ReadOrder(r) \/ FreeSeatFails(r)
      BY <1>1, <1>5, <2>1, <2>2 DEF ReadOrder, FreeSeatFails, LocksOf, locks, TypeOK
    <2>3. CASE WriteOrder(r)
      BY <1>1, <2>1, <2>3 DEF WriteOrder, LocksOf, TypeOK
    <2>4. CASE FreeSeat(r)
      BY <1>1, <2>1, <2>4 DEF FreeSeat, LocksOf, TypeOK
    <2> QED
      BY <1>5, <2>2, <2>3, <2>4 DEF EditStep
  <1> QED
    BY <1>1, <1>2, <1>3, <1>4, <1>5 DEF QuietStep

LEMMA StepLockInv ==
    ASSUME TypeOK, SeatInv, LockInv, [Next]_vars
    PROVE  LockInv'
  <1>1. ASSUME NEW r \in Requests, QuietStep(r) \/ (r \in Regulars /\ SendAgain(r)),
               OthersApart(r)
        PROVE  LockInv'
    <2>1. CASE r \in Writers /\ QuietStep(r)
      BY <1>1, <2>1, QuietLocks, StepKeepsLocks
    <2>2. CASE r \in Regulars /\ SendAgain(r)
      <3>1. r \in Writers /\ r \notin Creates /\ r \in Edits
        BY <2>2, InputsAssumption, RequestsAssumption DEF Writers
      <3>2. LocksOf(r)
        BY <3>1 DEF LockInv
      <3>3. LocksOf(r)'
        BY <1>1, <2>2, <3>1, <3>2 DEF SendAgain, Goto, locks, LocksOf, TypeOK
      <3> QED
        BY <1>1, <3>3, StepKeepsLocks
    <2>3. CASE r \notin Writers
      BY <1>1, <2>3, StepKeepsLocks
    <2> QED
      BY <1>1, <2>1, <2>2, <2>3, InputsAssumption DEF Writers
  <1>2. ASSUME NEW r \in Writers, Commit(r), ~Refuse(r)
        PROVE  LockInv'
    BY <1>2, CommitRecords, ReleasedLocks, StepKeepsLocks DEF Requests
  <1>3. ASSUME UNCHANGED <<locks, input, pc>>
        PROVE  LockInv'
    BY <1>3 DEF LockInv, LocksOf, locks, input
  <1> QED
    BY <1>1, <1>2, <1>3, StepKinds

\* The rows are ranked: an order, its slot, the counter.  Who waits for a row waits
\* for requests that have that row and so wait, if at all, for one of a higher rank.
LEMMA BlockersAreAhead ==
    ASSUME TypeOK, Targets, LockInv, NEW r \in Writers, NEW q \in BlockersOf(r)
    PROVE  LET ahead == {"insert", "seat", "event", "commit"} IN
           \/ pc[r] = "code" /\ pc[q] \in ahead
           \/ pc[r] \in {"lock", "free"} /\ pc[q] \in ahead \cup {"code"}
           \/ pc[r] = "write" /\ pc[q] \in ahead \cup {"free"}
  <1>1. q \in Writers /\ q # r /\ LocksOf(q) /\ LocksOf(r) /\ r \in Requests
    BY DEF BlockersOf, LockInv, Requests
  <1>2. pc[r] \notin {"new", "done"} => target[r] \in Creates /\ SlotFor(r) \in Slots
    BY <1>1 DEF TypeOK, SlotFor
  <1>3. CASE pc[r] \in {"lock", "seat"} /\ slotLock[slot[r]] = q
    <2>1. r \in Creates /\ slot[r] \in Slots
      BY <1>1, <1>3 DEF LocksOf, TypeOK
    <2> QED
      BY <1>1, <1>3, <2>1 DEF LocksOf
  <1>4. CASE pc[r] = "code" /\ counterLock = q
    BY <1>1, <1>4 DEF LocksOf
  <1>5. CASE pc[r] = "write" /\ orderLock[target[r]] = q
    <2>1. r \in Edits /\ Placed(target[r])
      BY <1>1, <1>5 DEF LocksOf, Targets, Writers
    <2>2. pc[target[r]] = "done"
      BY <1>2, <1>5, <2>1 DEF Targets
    <2> QED
      BY <1>1, <1>2, <1>5, <2>2 DEF LocksOf
  <1>6. CASE pc[r] = "free" /\ slotLock[SlotFor(r)] = q
    BY <1>1, <1>2, <1>6 DEF LocksOf
  <1> QED
    BY <1>3, <1>4, <1>5, <1>6 DEF BlockersOf

LEMMA LocksAreRanked ==
    ASSUME TypeOK, Targets, LockInv
    PROVE  NoLockCycle
  <1> SUFFICES ASSUME NEW group \in SUBSET Writers, group # {},
                      \A r \in group : \E q \in group : q \in BlockersOf(r)
               PROVE  FALSE
    BY DEF NoLockCycle
  <1>1. \A r \in group : \E q \in group :
           LET ahead == {"insert", "seat", "event", "commit"} IN
           \/ pc[r] = "code" /\ pc[q] \in ahead
           \/ pc[r] \in {"lock", "free"} /\ pc[q] \in ahead \cup {"code"}
           \/ pc[r] = "write" /\ pc[q] \in ahead \cup {"free"}
    BY BlockersAreAhead
  <1>2. \A r \in group : pc[r] \in {"code", "lock", "free", "write"}
    BY <1>1
  <1>3. \A r \in group : pc[r] # "code"
    BY <1>1, <1>2
  <1>4. \A r \in group : pc[r] \notin {"lock", "free"}
    BY <1>1, <1>2, <1>3
  <1> QED
    BY <1>1, <1>2, <1>3, <1>4

\* The transactions never wait in a circle: PostgreSQL has no deadlock to break,
\* whatever the number of requests, orders and slots.
THEOREM NoDeadlock == Spec => []NoLockCycle
  <1>1. Init => TypeOK /\ SeatInv /\ LockInv
    BY InitTypeOK, InitSeatInv, InitLockInv
  <1>2. TypeOK /\ SeatInv /\ LockInv /\ [Next]_vars => (TypeOK /\ SeatInv /\ LockInv)'
    BY StepTypeOK, StepSeatInv, StepLockInv
  <1>3. TypeOK /\ SeatInv /\ LockInv => NoLockCycle
    BY LocksAreRanked DEF SeatInv
  <1> QED
    BY <1>1, <1>2, <1>3, PTL DEF Spec
-----------------------------------------------------------------------------
(* What a transaction is about to write.                                    *)

\* A placement writes a new order; an edit the status it was asked for and, when
\* that is a cancellation, the seat it gives back.  Unless a statement failed, the
\* event is there when the transaction commits.
WritesOf(r) ==
    /\ r \in Creates =>
          /\ to[r] = "PLACED" /\ tx[r].seen = Absent
          /\ pc[r] \in {"seat", "event", "commit"} =>
                tx[r].row = [status |-> "PLACED", paid |-> FALSE]
    /\ r \in Edits /\ pc[r] \in {"free", "event", "commit"} =>
          /\ tx[r].row.status = to[r]
          /\ pc[r] = "free" => IsCancelled(to[r])
          /\ pc[r] # "free" /\ ~tx[r].broken =>
                tx[r].booked = IF IsCancelled(to[r])
                               THEN Decremented(slots[SlotFor(r)].booked) ELSE NoWrite
    /\ pc[r] = "commit" /\ ~tx[r].broken =>
          tx[r].event = [from |-> tx[r].seen, to |-> to[r]]

WriteInv == \A r \in Writers : WritesOf(r)

LEMMA InitWriteInv == Init => WriteInv
  BY RequestsAssumption DEF Init, WriteInv, WritesOf, EmptyTx, Requests, Writers

\* A statement of a transaction touches one field of its record.
LEMMA WrittenFields ==
    ASSUME NEW t \in Txs, NEW v
    PROVE  /\ LET u == [t EXCEPT !.seen = v] IN
              u.seen = v /\ u.row = t.row /\ u.booked = t.booked /\ u.broken = t.broken
           /\ LET u == [t EXCEPT !.booked = v] IN
              u.seen = t.seen /\ u.row = t.row /\ u.booked = v /\ u.broken = t.broken
           /\ LET u == [t EXCEPT !.row = v] IN
              u.seen = t.seen /\ u.row = v /\ u.booked = t.booked /\ u.broken = t.broken
           /\ LET u == [t EXCEPT !.event = v] IN
              /\ u.seen = t.seen /\ u.row = t.row /\ u.booked = t.booked
              /\ u.broken = t.broken /\ u.event = v
           /\ LET u == [t EXCEPT !.broken = v] IN
              u.seen = t.seen /\ u.row = t.row /\ u.booked = t.booked /\ u.broken = v
  BY DEF Txs

\* What a step changes of an order's slot is not what an edit of it is going to
\* write.
LEMMA StepKeepsWrites ==
    ASSUME TypeOK, SeatInv, WriteInv, NEW r \in Requests, OthersApart(r),
           r \in Writers => WritesOf(r)',
           \A q \in Writers \ {r} : tx[q].booked # NoWrite =>
              slots'[SlotFor(q)].booked = slots[SlotFor(q)].booked
    PROVE  WriteInv'
  <1> SUFFICES ASSUME NEW q \in Writers, q # r PROVE WritesOf(q)'
    BY DEF WriteInv
  <1>1. q \in Requests /\ WritesOf(q)
    BY DEF WriteInv, Requests
  <1>2. pc'[q] = pc[q] /\ target'[q] = target[q] /\ tx'[q] = tx[q] /\ to'[q] = to[q]
    BY <1>1 DEF OthersApart
  <1>3. CASE q \in Creates
    BY <1>1, <1>2, <1>3, RequestsAssumption DEF WritesOf
  <1>4. CASE q \in Edits /\ pc[q] \in {"free", "event", "commit"}
    <2>1. target[q] \in Creates /\ Placed(target[q]) /\ pc[target[q]] = "done"
      BY <1>1, <1>4 DEF TypeOK, SeatInv, Targets
    <2>2. SlotFor(q)' = SlotFor(q)
      BY <1>2, <2>1 DEF OthersApart, SlotFor
    <2>3. CASE tx[q].booked = NoWrite
      <3>1. ~IsCancelled(to[q]) \/ tx[q].broken \/ pc[q] = "free"
        <4>1. slots[SlotFor(q)].booked \in Nat
          BY <2>1 DEF TypeOK, SlotFor, SlotRows
        <4>2. Decremented(slots[SlotFor(q)].booked) # NoWrite
          BY <4>1, DecrementedFact DEF NoWrite
        <4> QED
          BY <1>1, <1>4, <2>3, <4>2 DEF WritesOf
      <3> QED
        BY <1>1, <1>2, <1>4, <2>2, <2>3, <3>1, RequestsAssumption DEF WritesOf
    <2>4. CASE tx[q].booked # NoWrite
      BY <1>1, <1>2, <1>4, <2>2, <2>4, RequestsAssumption DEF WritesOf
    <2> QED
      BY <2>3, <2>4
  <1>5. CASE q \in Edits /\ pc[q] \notin {"free", "event", "commit"}
    BY <1>1, <1>2, <1>5, RequestsAssumption DEF WritesOf
  <1> QED
    BY <1>3, <1>4, <1>5 DEF Writers

\* The statements of a transaction build up what WritesOf tells.
LEMMA QuietWrites ==
    ASSUME TypeOK, SeatInv, WriteInv, NEW r \in Writers, QuietStep(r)
    PROVE  WritesOf(r)'
  <1> USE DEF Goto
  <1>1. r \in Requests /\ r \notin Reads /\ WritesOf(r) /\ tx[r] \in Txs
    BY RequestsAssumption DEF Requests, WriteInv, TypeOK
  <1>2. CASE Refuse(r)
    BY <1>1, <1>2 DEF Refuse, WritesOf, EmptyTx, input, TypeOK
  <1>3. CASE RecordEvent(r)
    <2>1. CASE tx' = [tx EXCEPT ![r].broken = TRUE]
      <3>1. tx'[r] = [tx[r] EXCEPT !.broken = TRUE]
        BY <2>1 DEF TypeOK
      <3> HIDE DEF Goto
      <3>2. /\ tx'[r].seen = tx[r].seen /\ tx'[r].row = tx[r].row
            /\ tx'[r].broken = TRUE
        BY <1>1, <3>1, WrittenFields
      <3> QED
        BY <1>1, <1>3, <3>2 DEF RecordEvent, Goto, WritesOf, input, TypeOK
    <2>2. CASE ~tx[r].broken /\ tx' = [tx EXCEPT ![r].event = [from |-> tx[r].seen, to |-> to[r]]]
      <3>1. tx'[r] = [tx[r] EXCEPT !.event = [from |-> tx[r].seen, to |-> to[r]]]
        BY <2>2 DEF TypeOK
      <3>2. /\ tx'[r].seen = tx[r].seen /\ tx'[r].row = tx[r].row
            /\ tx'[r].booked = tx[r].booked
            /\ tx'[r].event = [from |-> tx[r].seen, to |-> to[r]]
        BY <1>1, <3>1, WrittenFields
      <3>3. SlotFor(r)' = SlotFor(r) /\ slots' = slots /\ to' = to /\ pc[r] = "event"
        BY <1>3 DEF RecordEvent, SlotFor, input, store
      <3>4. pc'[r] = "commit"
        BY <1>1, <1>3 DEF RecordEvent, TypeOK
      <3> QED
        BY <1>1, <2>2, <3>2, <3>3, <3>4 DEF WritesOf
    <2> QED
      BY <1>3, <2>1, <2>2 DEF RecordEvent
  <1>4. CASE r \in Creates /\ CreateStep(r) /\ ~Refuse(r)
    <2>1. r \notin Edits /\ to' = to
      BY <1>4, RequestsAssumption
      DEF CreateStep, CheckDelivery, CheckLocation, LockSlot, TakeCode, InsertOrder, TakeSeat, input
    <2>3. CASE CheckDelivery(r) \/ CheckLocation(r) \/ LockSlot(r) \/ TakeCode(r)
      <3>1. UNCHANGED tx /\ pc'[r] \in {"location", "lock", "code", "insert"}
        BY <1>1, <1>4, <2>3 DEF CheckDelivery, CheckLocation, LockSlot, TakeCode, TypeOK
      <3> QED
        BY <1>1, <2>1, <3>1 DEF WritesOf
    <2>4. CASE InsertOrder(r)
      <3>1. tx'[r] = [tx[r] EXCEPT !.row = [status |-> "PLACED", paid |-> FALSE]]
        BY <2>4 DEF InsertOrder, TypeOK
      <3>2. tx'[r].seen = tx[r].seen /\ tx'[r].row = [status |-> "PLACED", paid |-> FALSE]
        BY <1>1, <3>1, WrittenFields
      <3>3. pc'[r] = "seat"
        BY <1>1, <2>4 DEF InsertOrder, TypeOK
      <3> QED
        BY <1>1, <1>4, <2>1, <3>2, <3>3 DEF WritesOf
    <2>5. CASE TakeSeat(r)
      <3>1. tx'[r] = [tx[r] EXCEPT !.booked = slots[slot[r]].booked + 1]
        BY <1>4, <2>5 DEF TakeSeat, TypeOK
      <3>2. tx'[r].seen = tx[r].seen /\ tx'[r].row = tx[r].row
        BY <1>1, <3>1, WrittenFields
      <3>3. pc[r] = "seat" /\ pc'[r] = "event"
        BY <1>1, <1>4, <2>5 DEF TakeSeat, TypeOK
      <3> QED
        BY <1>1, <1>4, <2>1, <3>2, <3>3 DEF WritesOf
    <2> QED
      BY <1>4, <2>3, <2>4, <2>5 DEF CreateStep
  <1>5. CASE r \in Edits /\ EditStep(r) /\ ~Refuse(r)
    <2>1. r \notin Creates
      BY <1>5, RequestsAssumption
    <2>2. CASE ReadOrder(r)
      <3>1. pc'[r] = "write"
        BY <1>1, <1>5, <2>2 DEF ReadOrder, TypeOK
      <3> QED
        BY <2>1, <3>1 DEF WritesOf
    <2>3. CASE WriteOrder(r)
      <3>1. tx'[r] = [tx[r] EXCEPT !.row = Written(orders[target[r]], to[r])]
        BY <2>3 DEF WriteOrder, TypeOK
      <3>2. tx'[r].row.status = to[r] /\ tx'[r].booked = tx[r].booked
        BY <1>1, <3>1, WrittenFields DEF Written
      <3>3. /\ pc'[r] = (IF IsCancelled(to[r]) THEN "free" ELSE "event") /\ to' = to
            /\ pc[r] = "write"
        BY <1>1, <2>3 DEF WriteOrder, input, TypeOK
      <3>4. tx[r].booked = NoWrite
        BY <3>3 DEF SeatInv, PendingFits
      <3> QED
        BY <2>1, <3>2, <3>3, <3>4 DEF WritesOf
    <2>4. CASE FreeSeat(r)
      <3>1. tx'[r] = [tx[r] EXCEPT !.booked = Decremented(slots[SlotFor(r)].booked)]
        BY <2>4 DEF FreeSeat, TypeOK
      <3>2. /\ tx'[r].row = tx[r].row
            /\ tx'[r].booked = Decremented(slots[SlotFor(r)].booked)
        BY <1>1, <3>1, WrittenFields
      <3>3. pc[r] = "free" /\ pc'[r] = "event" /\ to' = to
        BY <1>1, <2>4 DEF FreeSeat, input, TypeOK
      <3>4. SlotFor(r)' = SlotFor(r) /\ slots' = slots
        BY <2>4 DEF FreeSeat, SlotFor, input, store
      <3> QED
        BY <1>1, <1>5, <2>1, <3>2, <3>3, <3>4 DEF WritesOf
    <2>5. CASE FreeSeatFails(r)
      <3>1. tx'[r] = [tx[r] EXCEPT !.broken = TRUE]
        BY <2>5 DEF FreeSeatFails, TypeOK
      <3>2. tx'[r].row = tx[r].row /\ tx'[r].broken = TRUE
        BY <1>1, <3>1, WrittenFields
      <3>3. pc[r] = "free" /\ pc'[r] = "event" /\ to' = to
        BY <1>1, <2>5 DEF FreeSeatFails, input, TypeOK
      <3> QED
        BY <1>1, <1>5, <2>1, <3>2, <3>3 DEF WritesOf
    <2> QED
      BY <1>5, <2>2, <2>3, <2>4, <2>5 DEF EditStep
  <1> QED
    BY <1>1, <1>2, <1>3, <1>4, <1>5 DEF QuietStep

\* What a commit puts into the store.
LEMMA CommitWrites ==
    ASSUME TypeOK, SeatInv, WriteInv, NEW r \in Writers, Commit(r), ~Refuse(r)
    PROVE  LET o == target[r]
               s == SlotFor(r) IN
           /\ o \in Creates /\ s \in Slots
           /\ orders' = [orders EXCEPT ![o] = tx[r].row]
           /\ tx[r].row.status = to[r] /\ to[r] \in Statuses
           /\ events' = [events EXCEPT ![o] = Append(events[o], [from |-> tx[r].seen, to |-> to[r]])]
           /\ r \in Creates => /\ o = r /\ ~Placed(o) /\ to[r] = "PLACED"
                               /\ slots'[s].booked = slots[s].booked + 1
           /\ r \in Edits => /\ Placed(o)
                             /\ slots'[s].booked = IF IsCancelled(to[r])
                                                   THEN Decremented(slots[s].booked)
                                                   ELSE slots[s].booked
           /\ \A q \in Slots : q # s => slots'[q].booked = slots[q].booked
  <1> DEFINE o == target[r]
             s == SlotFor(r)
  <1>1. /\ pc[r] = "commit" /\ ~tx[r].broken /\ o \in Creates /\ Apply(r)
        /\ WritesOf(r) /\ r \in Requests
    BY CommitRecords DEF WriteInv, Requests
  <1>2. s \in Slots /\ slots[s].booked \in Nat
    BY <1>1 DEF SlotFor, TypeOK, SlotRows
  <1>3. orders' = [orders EXCEPT ![o] = tx[r].row]
    BY <1>1 DEF Apply
  <1>4. tx[r].row.status = to[r] /\ to[r] \in Statuses
    BY <1>1 DEF WritesOf, TypeOK, Writers
  <1>5. tx[r].event = [from |-> tx[r].seen, to |-> to[r]] /\ tx[r].event # NoEvent
    BY <1>1, <1>4 DEF WritesOf, NoEvent, Statuses, Absent
  <1>6. events' = [events EXCEPT ![o] = Append(events[o], [from |-> tx[r].seen, to |-> to[r]])]
    BY <1>1, <1>5 DEF Apply
  <1>7. /\ slots'[s].booked = IF tx[r].booked = NoWrite THEN slots[s].booked ELSE tx[r].booked
        /\ \A q \in Slots : q # s => slots'[q].booked = slots[q].booked
    BY <1>1, <1>2, CommitEffect
  <1>8. ASSUME r \in Creates
        PROVE  o = r /\ ~Placed(o) /\ to[r] = "PLACED" /\ slots'[s].booked = slots[s].booked + 1
    <2>1. o = r /\ s = slot[r] /\ to[r] = "PLACED"
      BY <1>1, <1>8 DEF TypeOK, SlotFor, WritesOf
    <2>2. ~Placed(o)
      BY <1>1, <1>8, <2>1 DEF SeatInv, Targets
    <2>3. tx[r].booked = slots[s].booked + 1
      BY <1>1, <1>8, <2>1 DEF SeatInv, PendingSeat
    <2> QED
      BY <1>2, <1>7, <2>1, <2>2, <2>3 DEF NoWrite
  <1>9. ASSUME r \in Edits
        PROVE  /\ Placed(o)
               /\ slots'[s].booked = IF IsCancelled(to[r]) THEN Decremented(slots[s].booked)
                                     ELSE slots[s].booked
    <2>1. Placed(o)
      BY <1>1, <1>9 DEF SeatInv, Targets
    <2>2. tx[r].booked = IF IsCancelled(to[r]) THEN Decremented(slots[s].booked) ELSE NoWrite
      BY <1>1, <1>9 DEF WritesOf
    <2>3. Decremented(slots[s].booked) # NoWrite
      BY <1>2, DecrementedFact DEF NoWrite
    <2> QED
      BY <1>7, <2>1, <2>2, <2>3
  <1> QED
    BY <1>1, <1>2, <1>3, <1>4, <1>6, <1>7, <1>8, <1>9

LEMMA StepWriteInv ==
    ASSUME TypeOK, SeatInv, WriteInv, [Next]_vars
    PROVE  WriteInv'
  <1>1. ASSUME NEW r \in Requests, QuietStep(r) \/ (r \in Regulars /\ SendAgain(r)),
               OthersApart(r), UNCHANGED store
        PROVE  WriteInv'
    <2>1. slots' = slots
      BY <1>1 DEF store
    <2>2. CASE r \in Writers /\ QuietStep(r)
      BY <1>1, <2>1, <2>2, QuietWrites, StepKeepsWrites
    <2>3. CASE r \in Regulars /\ SendAgain(r)
      <3>1. r \in Writers /\ r \notin Creates /\ r \in Requests
        BY <2>3, InputsAssumption, RequestsAssumption DEF Writers, Requests
      <3>2. pc'[r] = "new"
        BY <2>3, <3>1 DEF SendAgain, Goto, TypeOK
      <3>3. WritesOf(r)'
        BY <3>1, <3>2 DEF WritesOf
      <3> QED
        BY <1>1, <2>1, <3>3, StepKeepsWrites
    <2>4. CASE r \notin Writers
      BY <1>1, <2>1, <2>4, StepKeepsWrites
    <2> QED
      BY <1>1, <2>2, <2>3, <2>4, InputsAssumption DEF Writers
  <1>2. ASSUME NEW r \in Writers, Commit(r), ~Refuse(r)
        PROVE  WriteInv'
    <2>1. /\ pc[r] = "commit" /\ tx'[r] = EmptyTx /\ pc'[r] = "done" /\ UNCHANGED input
          /\ OthersApart(r) /\ r \in Requests
      BY <1>2, CommitRecords DEF Requests
    <2>2. WritesOf(r)'
      <3>1. WritesOf(r) /\ to' = to /\ EmptyTx.seen = Absent
        BY <2>1 DEF WriteInv, EmptyTx, input
      <3> QED
        BY <2>1, <3>1 DEF WritesOf
    <2>3. ASSUME NEW q \in Writers \ {r}, tx[q].booked # NoWrite
          PROVE  slots'[SlotFor(q)].booked = slots[SlotFor(q)].booked
      <3>1. slotLock[SlotFor(q)] = q /\ SlotFor(q) \in Slots
        BY <2>3 DEF SeatInv, PendingFits, SlotFor, TypeOK, Requests
      <3>2. CASE SlotFor(q) = SlotFor(r)
        BY <1>2, <2>3, <3>1, <3>2, CommitEffect
      <3>3. CASE SlotFor(q) # SlotFor(r)
        BY <1>2, <3>1, <3>3, CommitEffect
      <3> QED
        BY <3>2, <3>3
    <2> QED
      BY <2>1, <2>2, <2>3, StepKeepsWrites
  <1>3. ASSUME UNCHANGED <<input, pc, tx>>,
               \A s \in Slots : slots'[s].booked = slots[s].booked
        PROVE  WriteInv'
    <2> SUFFICES ASSUME NEW r \in Writers PROVE WritesOf(r)'
      BY DEF WriteInv
    <2>1. pc[r] \in {"free", "event", "commit"} => SlotFor(r) \in Slots
      BY DEF SlotFor, TypeOK, Requests
    <2>2. SlotFor(r)' = SlotFor(r)
      BY <1>3 DEF SlotFor, input
    <2> QED
      BY <1>3, <2>1, <2>2 DEF WriteInv, WritesOf, input
  <1> QED
    BY <1>1, <1>2, <1>3, StepKinds
-----------------------------------------------------------------------------
(* The timeline and the answers.                                            *)

\* The timeline of order o says that it reached this status.
Recorded(o, status) == \E i \in DOMAIN events[o] : events[o][i].to = status

\* What a caller has been told is in the timeline.
AnswerOf(r) ==
    /\ pc[r] # "done" => resp[r] = "none"
    /\ r \in Writers /\ resp[r] = "ok" =>
          target[r] \in Creates /\ Recorded(target[r], to[r])
    /\ r \in Reads =>
          /\ pc[r] = "timeline" => Recorded(target[r], view[r].status)
          /\ resp[r] = "ok" /\ view[r].whole => view[r].status \in view[r].timeline

AnswerInv == \A r \in Requests : AnswerOf(r)

LEMMA InitRecords == Init => AuditTrail /\ AnswerInv
  <1> SUFFICES ASSUME Init PROVE AuditTrail /\ AnswerInv
    OBVIOUS
  <1>1. AuditTrail
    BY DEF Init, AuditTrail, Placed, NoRow
  <1>2. AnswerInv
    BY DEF Init, AnswerInv, AnswerOf
  <1> QED
    BY <1>1, <1>2

\* A timeline only grows.
LEMMA StepKeepsAnswers ==
    ASSUME TypeOK, AnswerInv, NEW r \in Requests, OthersApart(r), AnswerOf(r)',
           \A o \in Creates, status \in Statuses \cup {Absent} :
              Recorded(o, status) => Recorded(o, status)'
    PROVE  AnswerInv'
  <1> SUFFICES ASSUME NEW q \in Requests, q # r PROVE AnswerOf(q)'
    BY DEF AnswerInv
  <1>1. AnswerOf(q)
    BY DEF AnswerInv
  <1>2. pc'[q] = pc[q] /\ target'[q] = target[q] /\ resp'[q] = resp[q]
    BY DEF OthersApart
  <1>3. CASE q \in Writers
    <2>1. q \notin Reads /\ to'[q] = to[q] /\ to[q] \in Statuses
      BY <1>3, RequestsAssumption DEF OthersApart, TypeOK
    <2> QED
      BY <1>1, <1>2, <1>3, <2>1 DEF AnswerOf
  <1>4. CASE q \in Reads
    <2>1. q \notin Writers /\ view'[q] = view[q] /\ view[q].status \in Statuses \cup {Absent}
      BY <1>4, RequestsAssumption DEF OthersApart, TypeOK, Views
    <2>2. pc[q] = "timeline" => target[q] \in Creates
      BY DEF TypeOK
    <2> QED
      BY <1>1, <1>2, <1>4, <2>1, <2>2 DEF AnswerOf
  <1> QED
    BY <1>3, <1>4 DEF Requests

\* No step before the commit tells a caller of success; a read that saw an order
\* finds its status among the events.
LEMMA QuietAnswers ==
    ASSUME TypeOK, AuditTrail, AnswerInv, NEW r \in Requests, QuietStep(r)
    PROVE  AnswerOf(r)'
  <1> USE DEF Goto
  <1>1. AnswerOf(r) /\ pc[r] # "done" /\ resp[r] = "none"
    BY QuietActive DEF AnswerInv, AnswerOf
  <1>2. CASE r \in Writers
    <2>1. r \notin Reads
      BY <1>2, RequestsAssumption
    <2>2. CASE Refuse(r)
      BY <2>1, <2>2 DEF Refuse, AnswerOf, TypeOK
    <2>3. CASE UNCHANGED resp /\ pc'[r] # "done"
      BY <1>1, <2>1, <2>3 DEF AnswerOf
    <2>4. CASE r \in Creates /\ CreateStep(r) /\ ~Refuse(r)
      BY <1>1, <2>1, <2>3, <2>4
      DEF CreateStep, CheckDelivery, CheckLocation, LockSlot, TakeCode, InsertOrder, TakeSeat, TypeOK
    <2>5. CASE r \in Edits /\ EditStep(r) /\ ~Refuse(r)
      BY <1>1, <2>1, <2>3, <2>5
      DEF EditStep, ReadOrder, WriteOrder, FreeSeat, FreeSeatFails, TypeOK
    <2>6. CASE RecordEvent(r)
      BY <1>1, <2>1, <2>3, <2>6 DEF RecordEvent, TypeOK
    <2> QED
      BY <2>1, <2>2, <2>4, <2>5, <2>6 DEF QuietStep
  <1>3. CASE r \in Reads
    <2>1. r \notin Writers /\ r \notin Creates /\ r \notin Edits
      BY <1>3, RequestsAssumption DEF Writers
    <2>2. CASE Reject(r)
      BY <2>1, <2>2 DEF Reject, AnswerOf, TypeOK
    <2>3. CASE ReadStatus(r) /\ ~Reject(r)
      <3>1. PICK o \in Creates :
               /\ Placed(o)
               /\ target' = [target EXCEPT ![r] = o]
               /\ view' = [view EXCEPT ![r].status = orders[o].status]
               /\ pc' = [pc EXCEPT ![r] = "timeline"]
               /\ UNCHANGED <<store, resp>>
        BY <2>3 DEF ReadStatus
      <3>2. target'[r] = o /\ pc'[r] = "timeline" /\ resp'[r] = "none" /\ events' = events
        BY <1>1, <3>1 DEF TypeOK, store
      <3>3. view'[r].status = orders[o].status
        BY <1>3, <3>1 DEF TypeOK, Views
      <3>4. events[o] \in Seq(Events) /\ events[o] # <<>>
            /\ events[o][Len(events[o])].to = orders[o].status
        BY <3>1 DEF AuditTrail, TypeOK
      <3>5. Len(events[o]) \in DOMAIN events[o]
        BY <3>4
      <3> QED
        BY <2>1, <3>2, <3>3, <3>4, <3>5 DEF AnswerOf, Recorded
    <2>4. CASE ReadTimeline(r)
      <3> DEFINE recorded == events[target[r]]
      <3>1. PICK got \in SUBSET DOMAIN recorded :
               view' = [view EXCEPT ![r].timeline = {recorded[i].to : i \in got},
                                    ![r].whole = (got = DOMAIN recorded)]
        BY <2>4 DEF ReadTimeline
      <3>2. /\ view'[r].status = view[r].status
            /\ view'[r].timeline = {recorded[i].to : i \in got}
            /\ view'[r].whole = (got = DOMAIN recorded)
        BY <1>3, <3>1 DEF TypeOK, Views
      <3>3. pc'[r] = "done" /\ \E i \in DOMAIN recorded : recorded[i].to = view[r].status
        BY <1>1, <1>3, <2>4 DEF ReadTimeline, AnswerOf, Recorded, TypeOK
      <3> QED
        BY <2>1, <3>2, <3>3 DEF AnswerOf
    <2> QED
      BY <1>3, <2>1, <2>2, <2>3, <2>4 DEF QuietStep, ReadStep
  <1> QED
    BY <1>2, <1>3 DEF Requests

LEMMA AppendRecords ==
    ASSUME NEW S, NEW q \in Seq(S), NEW e \in S
    PROVE  /\ Append(q, e) # <<>> /\ Append(q, e)[Len(Append(q, e))] = e
           /\ DOMAIN Append(q, e) = DOMAIN q \cup {Len(q) + 1}
           /\ \A i \in DOMAIN q : Append(q, e)[i] = q[i]
           /\ Append(q, e)[Len(q) + 1] = e
  OBVIOUS

LEMMA StepRecords ==
    ASSUME TypeOK, SeatInv, WriteInv, AuditTrail, AnswerInv, [Next]_vars
    PROVE  AuditTrail' /\ AnswerInv'
  <1>1. ASSUME UNCHANGED <<orders, events>> PROVE AuditTrail'
    BY <1>1 DEF AuditTrail, Placed
  <1>2. ASSUME NEW r \in Requests, QuietStep(r) \/ (r \in Regulars /\ SendAgain(r)),
               OthersApart(r), UNCHANGED store
        PROVE  AuditTrail' /\ AnswerInv'
    <2>1. UNCHANGED <<orders, events>>
      BY <1>2 DEF store
    <2>2. \A o \in Creates, status \in Statuses \cup {Absent} :
             Recorded(o, status) => Recorded(o, status)'
      BY <2>1 DEF Recorded
    <2>3. CASE QuietStep(r)
      BY <1>1, <1>2, <2>1, <2>2, <2>3, QuietAnswers, StepKeepsAnswers
    <2>4. CASE r \in Regulars /\ SendAgain(r)
      <3>1. r \notin Reads
        BY <2>4, InputsAssumption, RequestsAssumption DEF Writers
      <3>2. AnswerOf(r)'
        BY <2>4, <3>1 DEF SendAgain, Goto, AnswerOf, TypeOK
      <3> QED
        BY <1>1, <1>2, <2>1, <2>2, <3>2, StepKeepsAnswers
    <2> QED
      BY <1>2, <2>3, <2>4
  <1>3. ASSUME NEW r \in Writers, Commit(r), ~Refuse(r)
        PROVE  AuditTrail' /\ AnswerInv'
    <2> DEFINE o == target[r]
               e == [from |-> tx[r].seen, to |-> to[r]]
    <2>1. /\ o \in Creates /\ tx[r].row.status = to[r] /\ to[r] \in Statuses
          /\ orders' = [orders EXCEPT ![o] = tx[r].row]
          /\ events' = [events EXCEPT ![o] = Append(events[o], e)]
      BY <1>3, CommitWrites
    <2>2. e \in Events /\ events[o] \in Seq(Events) /\ e.to = to[r]
      BY <2>1 DEF Events, TypeOK, Txs
    <2>3. /\ Append(events[o], e) # <<>>
          /\ Append(events[o], e)[Len(Append(events[o], e))] = e
          /\ DOMAIN Append(events[o], e) = DOMAIN events[o] \cup {Len(events[o]) + 1}
          /\ \A i \in DOMAIN events[o] : Append(events[o], e)[i] = events[o][i]
          /\ Append(events[o], e)[Len(events[o]) + 1] = e
      BY <2>2, AppendRecords
    <2> HIDE DEF e
    <2>4. /\ events'[o] = Append(events[o], e) /\ orders'[o] = tx[r].row
          /\ \A p \in Creates \ {o} : events'[p] = events[p] /\ orders'[p] = orders[p]
      BY <2>1 DEF TypeOK
    <2>5. AuditTrail'
      <3> SUFFICES ASSUME NEW p \in Creates
                   PROVE  IF Placed(p)'
                          THEN events'[p] # <<>> /\ events'[p][Len(events'[p])].to = orders'[p].status
                          ELSE events'[p] = <<>>
        BY DEF AuditTrail
      <3>1. CASE p = o
        BY <2>1, <2>2, <2>3, <2>4, <3>1 DEF Placed, Statuses, Absent
      <3>2. CASE p # o
        BY <2>4, <3>2 DEF AuditTrail, Placed
      <3> QED
        BY <3>1, <3>2
    <2>6. \A p \in Creates, status \in Statuses \cup {Absent} :
             Recorded(p, status) => Recorded(p, status)'
      BY <2>3, <2>4 DEF Recorded
    <2>7. \E i \in DOMAIN events'[o] : events'[o][i].to = to[r]
      BY <2>2, <2>3, <2>4
    <2>8. /\ pc'[r] = "done" /\ UNCHANGED input /\ OthersApart(r)
          /\ r \in Requests /\ r \notin Reads
      BY <1>3, CommitRecords, RequestsAssumption DEF Requests
    <2>9. AnswerOf(r)'
      BY <2>1, <2>7, <2>8 DEF AnswerOf, Recorded, input
    <2> QED
      BY <2>5, <2>6, <2>8, <2>9, StepKeepsAnswers
  <1>4. ASSUME UNCHANGED <<orders, events, input, pc, view, resp>>
        PROVE  AuditTrail' /\ AnswerInv'
    BY <1>1, <1>4 DEF AnswerInv, AnswerOf, Recorded, input
  <1> QED
    BY <1>2, <1>3, <1>4, StepKinds
-----------------------------------------------------------------------------
(* The seats.                                                               *)

SeatsFinite == \A s \in Slots : IsFiniteSet(Occupying(s))

LEMMA InitSeats == Init => SeatsFinite /\ LedgerExact
  <1> SUFFICES ASSUME Init, NEW s \in Slots
               PROVE  IsFiniteSet(Occupying(s)) /\ slots[s].booked = Cardinality(Occupying(s))
    BY DEF SeatsFinite, LedgerExact
  <1>1. Occupying(s) = {} /\ slots[s].booked = 0
    BY DEF Init, Occupying, Placed, NoRow
  <1> QED
    BY <1>1, FS_EmptySet

\* Until a commit the same orders need a seat: only a placement that nobody sees yet
\* chooses its slot.
LEMMA QuietSeats ==
    ASSUME TypeOK, SeatInv, NEW r \in Requests, OthersApart(r), UNCHANGED store, NEW s \in Slots
    PROVE  Occupying(s)' = Occupying(s)
  <1>1. \A o \in Creates : Placed(o) => slot'[o] = slot[o]
    BY DEF OthersApart, SeatInv, Targets
  <1>2. \A o \in Creates : Placed(o)' <=> Placed(o)
    BY DEF Placed, store
  <1> QED
    BY <1>1, <1>2 DEF Occupying, store

\* A placement adds itself to the orders of its slot; a cancellation takes its order
\* out of them.
LEMMA CommitSeats ==
    ASSUME TypeOK, SeatInv, WriteInv, NEW r \in Writers, Commit(r), ~Refuse(r), NEW q \in Slots
    PROVE  LET o == target[r] IN
           /\ q # SlotFor(r) => Occupying(q)' = Occupying(q)
           /\ q = SlotFor(r) =>
                 /\ r \in Creates => o \notin Occupying(q) /\ Occupying(q)' = Occupying(q) \cup {o}
                 /\ r \in Edits => Occupying(q)' = IF IsCancelled(to[r]) THEN Occupying(q) \ {o}
                                                   ELSE Occupying(q) \cup {o}
  <1> DEFINE o == target[r]
             s == SlotFor(r)
  <1>1. /\ o \in Creates /\ s \in Slots /\ s = slot[o]
        /\ orders' = [orders EXCEPT ![o] = tx[r].row]
        /\ tx[r].row.status = to[r] /\ to[r] \in Statuses
        /\ r \in Creates => ~Placed(o) /\ to[r] = "PLACED"
        /\ r \in Edits => Placed(o)
    BY CommitWrites DEF SlotFor
  <1>2. slot' = slot
    BY CommitRecords DEF input
  <1>3. /\ orders'[o].status = to[r]
        /\ \A p \in Creates \ {o} : orders'[p] = orders[p]
    BY <1>1 DEF TypeOK
  <1>4. to[r] # Absent
    BY <1>1 DEF Statuses, Absent
  <1>5. \A p \in Creates \ {o} : p \in Occupying(q)' <=> p \in Occupying(q)
    BY <1>2, <1>3 DEF Occupying, Placed
  <1>6. o \in Occupying(q)' <=> q = s /\ ~IsCancelled(to[r])
    BY <1>1, <1>2, <1>3, <1>4 DEF Occupying, Placed
  <1>7. Occupying(q) \subseteq Creates /\ Occupying(q)' \subseteq Creates
    BY DEF Occupying
  <1>8. q # s => o \notin Occupying(q)
    BY <1>1 DEF Occupying
  <1>9. r \in Creates => o \notin Occupying(q) /\ ~IsCancelled(to[r])
    BY <1>1 DEF Occupying, IsCancelled
  <1>10. o \in Creates
    BY <1>1
  <1> HIDE DEF o, s
  <1>11. q # s => Occupying(q)' = Occupying(q)
    BY <1>5, <1>6, <1>7, <1>8
  <1>12. q = s /\ IsCancelled(to[r]) => Occupying(q)' = Occupying(q) \ {o}
    BY <1>5, <1>6, <1>7, <1>10
  <1>13. q = s /\ ~IsCancelled(to[r]) => Occupying(q)' = Occupying(q) \cup {o}
    BY <1>5, <1>6, <1>7, <1>10
  <1> QED
    BY <1>9, <1>11, <1>12, <1>13 DEF o, s

\* A seat is taken with its order and given back at most with it; a cancellation
\* of a cancelled order gives back a seat that is booked for another.
LEMMA StepSeats ==
    ASSUME TypeOK, SeatInv, WriteInv, SeatsFinite, SeatsBacked, [Next]_vars
    PROVE  SeatsFinite' /\ SeatsBacked'
  <1>1. ASSUME NEW r \in Writers, Commit(r), ~Refuse(r)
        PROVE  SeatsFinite' /\ SeatsBacked'
    <2> SUFFICES ASSUME NEW q \in Slots
                 PROVE  IsFiniteSet(Occupying(q)') /\ slots'[q].booked <= Cardinality(Occupying(q)')
      BY DEF SeatsFinite, SeatsBacked
    <2> DEFINE o == target[r]
               s == SlotFor(r)
    <2>1. /\ IsFiniteSet(Occupying(q)) /\ Cardinality(Occupying(q)) \in Nat
          /\ slots[q].booked \in Nat /\ slots[q].booked <= Cardinality(Occupying(q))
      BY FS_CardinalityType DEF SeatsFinite, SeatsBacked, TypeOK, SlotRows
    <2>2. CASE q # s
      <3>1. Occupying(q)' = Occupying(q)
        BY <1>1, <2>2, CommitSeats
      <3>2. slots'[q].booked = slots[q].booked
        BY <1>1, <2>2, CommitWrites
      <3> QED
        BY <2>1, <3>1, <3>2
    <2>3. CASE q = s /\ r \in Creates
      <3>1. /\ o \notin Occupying(q) /\ Occupying(q)' = Occupying(q) \cup {o}
            /\ slots'[q].booked = slots[q].booked + 1
        BY <1>1, <2>3, CommitSeats, CommitWrites
      <3> QED
        BY <2>1, <3>1, FS_AddElement
    <2>4. CASE q = s /\ r \in Edits /\ IsCancelled(to[r])
      <3>1. /\ Occupying(q)' = Occupying(q) \ {o}
            /\ slots'[q].booked = Decremented(slots[q].booked)
        BY <1>1, <2>4, CommitSeats, CommitWrites
      <3>2. /\ IsFiniteSet(Occupying(q) \ {o}) /\ Cardinality(Occupying(q) \ {o}) \in Nat
            /\ Cardinality(Occupying(q) \ {o}) >= Cardinality(Occupying(q)) - 1
        <4>1. IsFiniteSet(Occupying(q) \ {o})
          BY <2>1, FS_RemoveElement
        <4>2. Cardinality(Occupying(q) \ {o}) =
                 IF o \in Occupying(q) THEN Cardinality(Occupying(q)) - 1 ELSE Cardinality(Occupying(q))
          BY <2>1, FS_RemoveElement
        <4> QED
          BY <2>1, <4>1, <4>2, FS_CardinalityType
      <3> QED
        BY <2>1, <3>1, <3>2 DEF Decremented
    <2>5. CASE q = s /\ r \in Edits /\ ~IsCancelled(to[r])
      <3>1. Occupying(q)' = Occupying(q) \cup {o} /\ slots'[q].booked = slots[q].booked
        BY <1>1, <2>5, CommitSeats, CommitWrites
      <3>2. /\ IsFiniteSet(Occupying(q) \cup {o})
            /\ Cardinality(Occupying(q) \cup {o}) >= Cardinality(Occupying(q))
        BY <2>1, FS_AddElement
      <3>3. Cardinality(Occupying(q) \cup {o}) \in Nat
        BY <3>2, FS_CardinalityType
      <3> QED
        BY <2>1, <3>1, <3>2, <3>3
    <2> QED
      BY <2>2, <2>3, <2>4, <2>5 DEF Writers
  <1>2. ASSUME \A s \in Slots : Occupying(s)' = Occupying(s) /\ slots'[s].booked = slots[s].booked
        PROVE  SeatsFinite' /\ SeatsBacked'
    BY <1>2 DEF SeatsFinite, SeatsBacked
  <1>3. ASSUME NEW r \in Requests, OthersApart(r), UNCHANGED store
        PROVE  SeatsFinite' /\ SeatsBacked'
    BY <1>2, <1>3, QuietSeats DEF store
  <1>4. ASSUME UNCHANGED <<orders, input>>,
               \A s \in Slots : slots'[s].booked = slots[s].booked
        PROVE  SeatsFinite' /\ SeatsBacked'
    BY <1>2, <1>4 DEF Occupying, Placed, input
  <1> QED
    BY <1>1, <1>3, <1>4, StepKinds
-----------------------------------------------------------------------------
RecordInv == WriteInv /\ AuditTrail /\ AnswerInv /\ SeatsFinite /\ SeatsBacked

LEMMA InitRecordInv == Init => RecordInv
  <1> SUFFICES ASSUME Init PROVE RecordInv
    OBVIOUS
  <1>1. SeatsFinite /\ LedgerExact
    BY InitSeats
  <1>2. SeatsBacked
    <2> SUFFICES ASSUME NEW s \in Slots PROVE slots[s].booked <= Cardinality(Occupying(s))
      BY DEF SeatsBacked
    <2>1. Cardinality(Occupying(s)) \in Nat /\ slots[s].booked = Cardinality(Occupying(s))
      BY <1>1, FS_CardinalityType DEF SeatsFinite, LedgerExact
    <2> QED
      BY <2>1
  <1> QED
    BY <1>1, <1>2, InitWriteInv, InitRecords DEF RecordInv

LEMMA StepRecordInv ==
    ASSUME TypeOK, SeatInv, RecordInv, [Next]_vars
    PROVE  RecordInv'
  BY StepWriteInv, StepRecords, StepSeats DEF RecordInv

LEMMA RecordInvariant == Spec => [](TypeOK /\ SeatInv /\ RecordInv)
  <1>1. Init => TypeOK /\ SeatInv /\ RecordInv
    BY InitTypeOK, InitSeatInv, InitRecordInv
  <1>2. TypeOK /\ SeatInv /\ RecordInv /\ [Next]_vars => (TypeOK /\ SeatInv /\ RecordInv)'
    BY StepTypeOK, StepSeatInv, StepRecordInv
  <1> QED
    BY <1>1, <1>2, PTL DEF Spec

\* No seat leaks: whatever cancellations race, fail half-way or are repeated, every
\* booked seat of a slot is backed by an order of it that needs one.
THEOREM NoSeatLeaks == Spec => []SeatsBacked
  <1>1. RecordInv => SeatsBacked
    BY DEF RecordInv
  <1> QED
    BY <1>1, RecordInvariant, PTL

\* The services ignore the error of InsertEventTx, and yet the last committed event
\* of every order leads to its committed status: a transaction whose event failed
\* does not commit.
THEOREM TimelineExplains == Spec => []AuditTrail
  <1>1. RecordInv => AuditTrail
    BY DEF RecordInv
  <1> QED
    BY <1>1, RecordInvariant, PTL

\* Who was told that an order is placed, cancelled or advanced finds that in its
\* timeline, then and ever after.
THEOREM SuccessIsRecorded == Spec => []AckedIsRecorded
  <1>1. TypeOK /\ RecordInv => AckedIsRecorded
    <2> SUFFICES ASSUME TypeOK, RecordInv, NEW r \in Writers, resp[r] = "ok"
                 PROVE  \E i \in DOMAIN events[target[r]] : events[target[r]][i].to = to[r]
      BY DEF AckedIsRecorded
    <2>1. AnswerOf(r)
      BY DEF RecordInv, AnswerInv, Requests
    <2> QED
      BY <2>1 DEF AnswerOf, Recorded
  <1> QED
    BY <1>1, RecordInvariant, PTL

\* GET /orders/{id} reads the order and its timeline in two queries, and still shows
\* no status that its timeline lacks, unless rows of it were lost on the way.
THEOREM ReadsAgree == Spec => []ViewExplained
  <1>1. RecordInv => ViewExplained
    <2> SUFFICES ASSUME RecordInv, NEW r \in Reads, resp[r] = "ok", view[r].whole
                 PROVE  view[r].status \in view[r].timeline
      BY DEF ViewExplained
    <2>1. AnswerOf(r)
      BY DEF RecordInv, AnswerInv, Requests
    <2> QED
      BY <2>1 DEF AnswerOf
  <1> QED
    BY <1>1, RecordInvariant, PTL
-----------------------------------------------------------------------------
(* Part 3.  One editor per order at a time.                                 *)

\* An edit that is under way has read the status its order still has, and was
\* allowed to leave it for the one it asks for.
FreshRead == \A r \in Edits : pc[r] \notin {"new", "done"} =>
    /\ tx[r].seen = orders[target[r]].status
    /\ CanTransitionTo(tx[r].seen, to[r])

\* The row that an edit will commit differs in its status, and is paid if it was
\* or if the status is that of a delivery.
RowIsNext == \A r \in Edits : pc[r] \in {"free", "event", "commit"} =>
    tx[r].row = Written(orders[target[r]], to[r])

SerialInv == FreshRead /\ RowIsNext /\ PaidIffDelivered

LEMMA InitSerialInv == Init => SerialInv
  BY RequestsAssumption
  DEF Init, SerialInv, FreshRead, RowIsNext, PaidIffDelivered, NoRow, Absent,
      Requests, Writers

\* What the step of r must leave true of r.
ActorFresh(r) ==
    r \in Edits =>
        /\ pc'[r] \notin {"new", "done"} =>
              /\ tx'[r].seen = orders[target'[r]].status
              /\ CanTransitionTo(tx'[r].seen, to'[r])
        /\ pc'[r] \in {"free", "event", "commit"} =>
              tx'[r].row = Written(orders[target'[r]], to'[r])

LEMMA StepKeepsFresh ==
    ASSUME SerialInv, NEW r \in Requests, OthersKeep(r), ActorFresh(r)
    PROVE  SerialInv'
  <1> USE DEF OthersKeep, ActorFresh, store
  <1>1. FreshRead'
    BY DEF SerialInv, FreshRead, Requests, Writers
  <1>2. RowIsNext'
    BY DEF SerialInv, RowIsNext, Written, Requests, Writers
  <1>3. PaidIffDelivered'
    BY DEF SerialInv, PaidIffDelivered
  <1> QED
    BY <1>1, <1>2, <1>3 DEF SerialInv

\* The seen field is written by ReadOrder only.
LEMMA SeenFields ==
    ASSUME NEW t \in Txs, NEW v
    PROVE  /\ [t EXCEPT !.seen = v].seen = v
           /\ [t EXCEPT !.booked = v].seen = t.seen
           /\ [t EXCEPT !.row = v].seen = t.seen
           /\ [t EXCEPT !.event = v].seen = t.seen
           /\ [t EXCEPT !.broken = v].seen = t.seen
  BY DEF Txs

\* A quiet step leaves the actor's read fresh.
LEMMA QuietKeepsFresh ==
    ASSUME TypeOK, SerialInv, NEW r \in Requests, QuietStep(r)
    PROVE  SerialInv'
  <1> USE DEF Goto, LockSlotRow, LockOrderRow, FreeFor
  <1>1. OthersKeep(r)
    BY BeforeCommit
  <1>2. SUFFICES ActorFresh(r)
    BY <1>1, StepKeepsFresh
  <1>3. CASE Refuse(r) \/ Reject(r)
    BY <1>3 DEF ActorFresh, Refuse, Reject, TypeOK
  <1>4. CASE r \notin Edits
    BY <1>4 DEF ActorFresh
  <1>5. CASE r \in Edits /\ EditStep(r) /\ ~Refuse(r)
    <2>1. r \in Writers /\ r \notin Creates
      BY <1>5, RequestsAssumption DEF Writers
    <2>2. CASE ReadOrder(r)
      <3>1. PICK o \in Creates, next \in TargetsOf(r) :
               /\ Placed(o) /\ Permitted(r, o, orders[o].status, next)
               /\ target' = [target EXCEPT ![r] = o]
               /\ to' = [to EXCEPT ![r] = next]
               /\ tx' = [tx EXCEPT ![r].seen = orders[o].status]
               /\ pc' = [pc EXCEPT ![r] = "write"]
        BY <1>5, <2>2 DEF ReadOrder
      <3>2. CanTransitionTo(orders[o].status, next)
        BY <3>1 DEF Permitted, TargetsOf, CanTransitionTo, AllowedTransitions, Statuses
      <3>3. tx'[r] = [tx[r] EXCEPT !.seen = orders[o].status]
        BY <2>1, <3>1 DEF TypeOK
      <3>4. tx'[r].seen = orders[o].status
        BY <2>1, <3>3, SeenFields DEF TypeOK
      <3>5. target'[r] = o /\ to'[r] = next /\ pc'[r] = "write"
        BY <2>1, <3>1 DEF TypeOK
      <3> QED
        BY <2>1, <3>2, <3>4, <3>5 DEF ActorFresh
    <2>3. CASE WriteOrder(r)
      <3>1. tx'[r] = [tx[r] EXCEPT !.row = Written(orders[target[r]], to[r])]
        BY <2>1, <2>3 DEF WriteOrder, TypeOK
      <3>2. /\ tx'[r].seen = tx[r].seen
            /\ tx'[r].row = Written(orders[target[r]], to[r])
        BY <2>1, <3>1, TxFields, SeenFields DEF TypeOK
      <3> QED
        BY <1>5, <2>1, <2>3, <3>2 DEF ActorFresh, WriteOrder, SerialInv, FreshRead, input
    <2>4. CASE FreeSeat(r) \/ FreeSeatFails(r)
      <3>1. \/ tx'[r] = [tx[r] EXCEPT !.booked = Decremented(slots[SlotFor(r)].booked)]
            \/ tx'[r] = [tx[r] EXCEPT !.broken = TRUE]
        BY <2>1, <2>4 DEF FreeSeat, FreeSeatFails, TypeOK
      <3>2. tx'[r].seen = tx[r].seen /\ tx'[r].row = tx[r].row
        <4>1. tx[r] \in Txs
          BY <2>1 DEF TypeOK
        <4>2. CASE tx'[r] = [tx[r] EXCEPT !.booked = Decremented(slots[SlotFor(r)].booked)]
          BY <4>1, <4>2, TxFields, SeenFields
        <4>3. CASE tx'[r] = [tx[r] EXCEPT !.broken = TRUE]
          BY <4>1, <4>3, TxFields, SeenFields
        <4> QED
          BY <3>1, <4>2, <4>3
      <3>3. pc[r] = "free" /\ target' = target /\ to' = to
        BY <2>4 DEF FreeSeat, FreeSeatFails, input
      <3> QED
        BY <1>5, <2>1, <3>2, <3>3 DEF ActorFresh, SerialInv, FreshRead, RowIsNext
    <2> QED
      BY <1>5, <2>2, <2>3, <2>4 DEF EditStep
  <1>6. CASE r \in Writers /\ RecordEvent(r)
    <2>1. \/ tx'[r] = [tx[r] EXCEPT !.event = [from |-> tx[r].seen, to |-> to[r]]]
          \/ tx'[r] = [tx[r] EXCEPT !.broken = TRUE]
      BY <1>6 DEF RecordEvent, TypeOK
    <2>2. tx'[r].seen = tx[r].seen /\ tx'[r].row = tx[r].row
      <3>1. tx[r] \in Txs
        BY <1>6 DEF TypeOK
      <3>2. CASE tx'[r] = [tx[r] EXCEPT !.event = [from |-> tx[r].seen, to |-> to[r]]]
        BY <3>1, <3>2, TxFields, SeenFields
      <3>3. CASE tx'[r] = [tx[r] EXCEPT !.broken = TRUE]
        BY <3>1, <3>3, TxFields, SeenFields
      <3> QED
        BY <2>1, <3>2, <3>3
    <2>3. pc[r] = "event" /\ target' = target /\ to' = to
      BY <1>6 DEF RecordEvent, input
    <2> QED
      BY <2>2, <2>3 DEF ActorFresh, SerialInv, FreshRead, RowIsNext
  <1> QED
    BY <1>3, <1>4, <1>5, <1>6, RequestsAssumption DEF QuietStep, Requests, Writers

\* With one editor per order at a time, nobody else's read is about the order that
\* a commit changes; and the change is one the table allows.
LEMMA CommitKeepsFresh ==
    ASSUME TypeOK, SeatInv, WriteInv, SerialInv, OneEditorAtATime,
           NEW r \in Writers, Commit(r), ~Refuse(r)
    PROVE  /\ SerialInv'
           /\ \A o \in Creates : orders'[o].status # orders[o].status =>
                 IF Placed(o) THEN CanTransitionTo(orders[o].status, orders'[o].status)
                              ELSE orders'[o].status = "PLACED"
  <1>1. /\ pc[r] = "commit" /\ pc' = [pc EXCEPT ![r] = "done"]
        /\ target[r] \in Creates
        /\ orders' = [orders EXCEPT ![target[r]] = tx[r].row]
        /\ tx' = [tx EXCEPT ![r] = EmptyTx]
        /\ UNCHANGED <<target, to>>
    BY CommitEffect DEF input
  <1>2. \A q \in Edits \ {r} : pc[q] \notin {"new", "done"} => target[q] # target[r]
    <2> SUFFICES ASSUME NEW q \in Edits \ {r}, pc[q] \notin {"new", "done"},
                        target[q] = target[r]
                 PROVE  FALSE
      OBVIOUS
    <2>1. CASE r \in Edits
      BY <1>1, <2>1 DEF OneEditorAtATime, Editing
    <2>2. CASE r \in Creates
      <3>1. target[q] = r /\ Placed(r)
        BY <2>2 DEF TypeOK, SeatInv, Targets
      <3> QED
        BY <1>1, <2>2, <3>1 DEF SeatInv, Targets
    <2> QED
      BY <2>1, <2>2 DEF Writers
  <1>3. \A q \in Edits \ {r} : pc[q] \notin {"new", "done"} =>
            orders'[target[q]] = orders[target[q]]
    BY <1>1, <1>2 DEF TypeOK
  <1>4. FreshRead'
    <2> SUFFICES ASSUME NEW q \in Edits, pc'[q] \notin {"new", "done"}
                 PROVE  /\ tx'[q].seen = orders'[target'[q]].status
                        /\ CanTransitionTo(tx'[q].seen, to'[q])
      BY DEF FreshRead
    <2>1. q # r /\ pc'[q] = pc[q] /\ tx'[q] = tx[q]
      BY <1>1 DEF TypeOK, Requests, Writers
    <2> QED
      BY <1>1, <1>3, <2>1 DEF SerialInv, FreshRead
  <1>5. RowIsNext'
    <2> SUFFICES ASSUME NEW q \in Edits, pc'[q] \in {"free", "event", "commit"}
                 PROVE  tx'[q].row = Written(orders'[target'[q]], to'[q])
      BY DEF RowIsNext, Written
    <2>1. q # r /\ pc'[q] = pc[q] /\ tx'[q] = tx[q]
      BY <1>1 DEF TypeOK, Requests, Writers
    <2> QED
      BY <1>1, <1>3, <2>1 DEF SerialInv, RowIsNext
  <1>7. /\ r \in Creates => /\ ~Placed(target[r])
                            /\ tx[r].row = [status |-> "PLACED", paid |-> FALSE]
        /\ r \in Edits => /\ Placed(target[r])
                          /\ CanTransitionTo(orders[target[r]].status, to[r])
                          /\ tx[r].row = Written(orders[target[r]], to[r])
    BY <1>1, RequestsAssumption
    DEF SerialInv, FreshRead, RowIsNext, WriteInv, WritesOf, Writers, SeatInv, Targets, TypeOK
  <1>8. CASE r \in Creates
    <2>1. orders'[target[r]] = [status |-> "PLACED", paid |-> FALSE]
      BY <1>1, <1>7, <1>8 DEF TypeOK
    <2>2. PaidIffDelivered'
      BY <1>1, <2>1 DEF SerialInv, PaidIffDelivered, TypeOK
    <2> QED
      BY <1>1, <1>4, <1>5, <1>7, <1>8, <2>1, <2>2 DEF SerialInv, TypeOK
  <1>9. CASE r \in Edits
    <2>1. /\ orders'[target[r]].status = to[r]
          /\ orders'[target[r]].paid = (orders[target[r]].paid \/ to[r] = "DELIVERED")
      BY <1>1, <1>7, <1>9 DEF TypeOK, Written
    <2>2. orders[target[r]].status # "DELIVERED"
      BY <1>7, <1>9 DEF CanTransitionTo, AllowedTransitions, Statuses
    <2>3. PaidIffDelivered'
      <3> SUFFICES ASSUME NEW o \in Creates
                   PROVE  orders'[o].paid <=> orders'[o].status = "DELIVERED"
        BY DEF PaidIffDelivered
      <3>1. orders[o].paid <=> orders[o].status = "DELIVERED"
        BY DEF SerialInv, PaidIffDelivered
      <3>2. CASE o = target[r]
        BY <2>1, <2>2, <3>1, <3>2
      <3>3. CASE o # target[r]
        BY <1>1, <3>1, <3>3 DEF TypeOK
      <3> QED
        BY <3>2, <3>3
    <2> QED
      BY <1>1, <1>4, <1>5, <1>7, <1>9, <2>1, <2>3 DEF SerialInv, TypeOK
  <1> QED
    BY <1>8, <1>9 DEF Writers

\* A step of the system is a successful commit, or it changes no order.
LEMMA StepSerial ==
    ASSUME TypeOK, SeatInv, WriteInv, SerialInv, OneEditorAtATime, [Next]_vars
    PROVE  /\ SerialInv'
           /\ \A o \in Creates : orders'[o].status # orders[o].status =>
                 IF Placed(o) THEN CanTransitionTo(orders[o].status, orders'[o].status)
                              ELSE orders'[o].status = "PLACED"
  <1>1. ASSUME NEW r \in Writers, Commit(r), ~Refuse(r)
        PROVE  /\ SerialInv'
               /\ \A o \in Creates : orders'[o].status # orders[o].status =>
                     IF Placed(o) THEN CanTransitionTo(orders[o].status, orders'[o].status)
                                  ELSE orders'[o].status = "PLACED"
    BY <1>1, CommitKeepsFresh
  <1>2. ASSUME NEW r \in Requests, QuietStep(r)
        PROVE  SerialInv' /\ orders' = orders
    BY <1>2, QuietKeepsFresh, BeforeCommit DEF OthersKeep, store
  <1>3. ASSUME NEW r \in Regulars, SendAgain(r)
        PROVE  SerialInv' /\ orders' = orders
    <2>1. r \in Edits /\ r \in Requests /\ r \notin Creates
      BY RequestsAssumption, InputsAssumption DEF Requests, Writers
    <2>2. OthersKeep(r)
      BY <1>3, AgainKeeps
    <2>3. ActorFresh(r)
      BY <1>3, <2>1 DEF ActorFresh, SendAgain, Goto, TypeOK
    <2> QED
      BY <2>1, <2>2, <2>3, StepKeepsFresh DEF OthersKeep, store
  <1>4. ASSUME UNCHANGED <<orders, input, pc, tx>>
        PROVE  SerialInv' /\ orders' = orders
    BY <1>4 DEF SerialInv, FreshRead, RowIsNext, PaidIffDelivered, Written, input
  <1> QED
    BY <1>1, <1>2, <1>3, <1>4, StepKinds

-----------------------------------------------------------------------------
(* The timeline and the seats.                                              *)

\* Each event starts where the one before it ended, because the status it was read
\* from is still that of the order.
LEMMA StepChained ==
    ASSUME TypeOK, SeatInv, WriteInv, AuditTrail, FreshRead, TimelineChained, [Next]_vars
    PROVE  TimelineChained'
  <1>1. ASSUME NEW r \in Writers, Commit(r), ~Refuse(r)
        PROVE  TimelineChained'
    <2> DEFINE o == target[r]
               e == [from |-> tx[r].seen, to |-> to[r]]
    <2>1. /\ o \in Creates /\ to[r] \in Statuses /\ pc[r] = "commit"
          /\ events' = [events EXCEPT ![o] = Append(events[o], e)]
          /\ r \in Creates => ~Placed(o)
          /\ r \in Edits => Placed(o)
      BY <1>1, CommitWrites, CommitRecords
    <2>2. e \in Events /\ events[o] \in Seq(Events) /\ e.from = tx[r].seen
      BY <2>1 DEF Events, TypeOK, Txs
    <2>3. e.from = IF events[o] = <<>> THEN Absent ELSE events[o][Len(events[o])].to
      <3>1. CASE r \in Creates
        BY <2>1, <2>2, <3>1 DEF AuditTrail, WriteInv, WritesOf, Writers
      <3>2. CASE r \in Edits
        BY <2>1, <2>2, <3>2 DEF AuditTrail, FreshRead
      <3> QED
        BY <3>1, <3>2 DEF Writers
    <2>4. /\ DOMAIN Append(events[o], e) = DOMAIN events[o] \cup {Len(events[o]) + 1}
          /\ \A i \in DOMAIN events[o] : Append(events[o], e)[i] = events[o][i]
          /\ Append(events[o], e)[Len(events[o]) + 1] = e
      BY <2>2, AppendRecords
    <2>5. /\ DOMAIN events[o] = 1 .. Len(events[o]) /\ Len(events[o]) \in Nat
          /\ events[o] = <<>> <=> Len(events[o]) = 0
      BY <2>2
    <2>6. /\ events'[o] = Append(events[o], e)
          /\ \A p \in Creates \ {o} : events'[p] = events[p]
      BY <2>1 DEF TypeOK
    <2> HIDE DEF e, o
    <2> SUFFICES ASSUME NEW p \in Creates, NEW i \in DOMAIN events'[p]
                 PROVE  events'[p][i].from = IF i = 1 THEN Absent ELSE events'[p][i - 1].to
      BY DEF TimelineChained
    <2>7. CASE p # o
      BY <2>6, <2>7 DEF TimelineChained
    <2>8. CASE p = o /\ i \in DOMAIN events[o]
      <3>1. i = 1 \/ i - 1 \in DOMAIN events[o]
        BY <2>5, <2>8
      <3> QED
        BY <2>1, <2>4, <2>6, <2>8, <3>1 DEF TimelineChained
    <2>9. CASE p = o /\ i = Len(events[o]) + 1
      <3>1. i = 1 <=> events[o] = <<>>
        BY <2>5, <2>9
      <3>2. i - 1 = Len(events[o]) /\ (i # 1 => i - 1 \in DOMAIN events[o])
        BY <2>5, <2>9
      <3> QED
        BY <2>3, <2>4, <2>6, <2>9, <3>1, <3>2
    <2> QED
      BY <2>4, <2>6, <2>7, <2>8, <2>9
  <1>2. ASSUME events' = events
        PROVE  TimelineChained'
    BY <1>2 DEF TimelineChained
  <1> QED
    BY <1>1, <1>2, StepKinds DEF store

\* A cancellation is of an order that still has its seat, so the seat it gives back
\* is that one.
LEMMA StepLedger ==
    ASSUME TypeOK, SeatInv, WriteInv, SeatsFinite, FreshRead, LedgerExact, [Next]_vars
    PROVE  LedgerExact'
  <1>1. ASSUME NEW r \in Writers, Commit(r), ~Refuse(r)
        PROVE  LedgerExact'
    <2> SUFFICES ASSUME NEW q \in Slots
                 PROVE  slots'[q].booked = Cardinality(Occupying(q)')
      BY DEF LedgerExact
    <2> DEFINE o == target[r]
               s == SlotFor(r)
    <2>1. /\ IsFiniteSet(Occupying(q)) /\ slots[q].booked \in Nat
          /\ slots[q].booked = Cardinality(Occupying(q))
      BY DEF SeatsFinite, LedgerExact, TypeOK, SlotRows
    <2>2. CASE q # s
      <3>1. Occupying(q)' = Occupying(q)
        BY <1>1, <2>2, CommitSeats
      <3>2. slots'[q].booked = slots[q].booked
        BY <1>1, <2>2, CommitWrites
      <3> QED
        BY <2>1, <3>1, <3>2
    <2>3. CASE q = s /\ r \in Creates
      <3>1. /\ o \notin Occupying(q) /\ Occupying(q)' = Occupying(q) \cup {o}
            /\ slots'[q].booked = slots[q].booked + 1
        BY <1>1, <2>3, CommitSeats, CommitWrites
      <3> QED
        BY <2>1, <3>1, FS_AddElement
    <2>4. CASE q = s /\ r \in Edits
      <3>1. o \in Occupying(q)
        <4>1. pc[r] = "commit" /\ o \in Creates /\ Placed(o)
          BY <1>1, <2>4, CommitRecords, CommitWrites
        <4>2. CanTransitionTo(orders[o].status, to[r])
          BY <2>4, <4>1 DEF FreshRead
        <4>3. ~IsCancelled(orders[o].status)
          BY <4>2 DEF CanTransitionTo, AllowedTransitions, Statuses, IsCancelled
        <4> QED
          BY <2>4, <4>1, <4>3 DEF Occupying, SlotFor
      <3>2. CASE IsCancelled(to[r])
        <4>1. /\ Occupying(q)' = Occupying(q) \ {o}
              /\ slots'[q].booked = Decremented(slots[q].booked)
          BY <1>1, <2>4, <3>2, CommitSeats, CommitWrites
        <4>2. Cardinality(Occupying(q) \ {o}) = Cardinality(Occupying(q)) - 1
          BY <2>1, <3>1, FS_RemoveElement
        <4>3. Occupying(q) # {}
          BY <3>1
        <4>4. slots[q].booked # 0
          BY <2>1, <4>3, FS_EmptySet
        <4> QED
          BY <2>1, <4>1, <4>2, <4>4 DEF Decremented
      <3>3. CASE ~IsCancelled(to[r])
        <4>1. /\ Occupying(q)' = Occupying(q) \cup {o}
              /\ slots'[q].booked = slots[q].booked
          BY <1>1, <2>4, <3>3, CommitSeats, CommitWrites
        <4>2. Occupying(q) \cup {o} = Occupying(q)
          BY <3>1
        <4> QED
          BY <2>1, <4>1, <4>2
      <3> QED
        BY <3>2, <3>3
    <2> QED
      BY <2>2, <2>3, <2>4 DEF Writers
  <1>2. ASSUME \A s \in Slots : Occupying(s)' = Occupying(s) /\ slots'[s].booked = slots[s].booked
        PROVE  LedgerExact'
    BY <1>2 DEF LedgerExact
  <1>3. ASSUME NEW r \in Requests, OthersApart(r), UNCHANGED store
        PROVE  LedgerExact'
    BY <1>2, <1>3, QuietSeats DEF store
  <1>4. ASSUME UNCHANGED <<orders, input>>,
               \A s \in Slots : slots'[s].booked = slots[s].booked
        PROVE  LedgerExact'
    BY <1>2, <1>4 DEF Occupying, Placed, input
  <1> QED
    BY <1>1, <1>3, <1>4, StepKinds
-----------------------------------------------------------------------------
SerialBooks == /\ TypeOK /\ SeatInv /\ RecordInv
               /\ SerialInv /\ OneEditorAtATime /\ TimelineChained /\ LedgerExact

LEMMA SerialInvariant == SerialSpec => []SerialBooks
  <1>1. Init => SerialBooks
    <2>1. Init => OneEditorAtATime
      BY DEF Init, OneEditorAtATime, Editing, Requests, Writers
    <2>2. Init => TimelineChained
      BY DEF Init, TimelineChained
    <2> QED
      BY <2>1, <2>2, InitTypeOK, InitSeatInv, InitSerialInv, InitRecordInv, InitSeats
      DEF SerialBooks
  <1>2. SerialBooks /\ [Next /\ OneEditorAtATime']_vars => SerialBooks'
    <2> SUFFICES ASSUME SerialBooks, [Next /\ OneEditorAtATime']_vars PROVE SerialBooks'
      OBVIOUS
    <2>1. OneEditorAtATime'
      BY DEF SerialBooks, vars, input, OneEditorAtATime, Editing
    <2>2. TypeOK' /\ SeatInv'
      BY StepTypeOK, StepSeatInv DEF SerialBooks
    <2>3. RecordInv'
      BY StepRecordInv DEF SerialBooks
    <2>4. SerialInv'
      BY StepSerial DEF SerialBooks, RecordInv
    <2>5. TimelineChained' /\ LedgerExact'
      BY StepChained, StepLedger DEF SerialBooks, RecordInv, SerialInv
    <2> QED
      BY <2>1, <2>2, <2>3, <2>4, <2>5 DEF SerialBooks
  <1> QED
    BY <1>1, <1>2, PTL DEF SerialSpec

\* When an order has one editor at a time, its status only moves along
\* domain.AllowedTransitions and starts at PLACED.  (The run oversell shows that the
\* condition is needed: the code does not enforce it.)
THEOREM TransitionsLegal == SerialSpec => LegalTransitions
  <1> DEFINE Legal == \A o \in Creates : orders'[o].status # orders[o].status =>
                 IF Placed(o) THEN CanTransitionTo(orders[o].status, orders'[o].status)
                              ELSE orders'[o].status = "PLACED"
  <1>1. SerialBooks /\ [Next /\ OneEditorAtATime']_vars => [Legal]_vars
    BY StepSerial DEF SerialBooks, RecordInv
  <1> QED
    BY <1>1, SerialInvariant, PTL DEF SerialSpec, LegalTransitions

\* Under the same condition exactly the delivered orders are recorded as paid.
THEOREM PaidWhenDelivered == SerialSpec => []PaidIffDelivered
  <1>1. SerialBooks => PaidIffDelivered
    BY DEF SerialBooks, SerialInv
  <1> QED
    BY <1>1, SerialInvariant, PTL

\* Under the same condition a timeline has no gap and no fork: each event starts at
\* the status the one before it led to.
THEOREM TimelineHasNoGap == SerialSpec => []TimelineChained
  <1>1. SerialBooks => TimelineChained
    BY DEF SerialBooks
  <1> QED
    BY <1>1, SerialInvariant, PTL

\* Under the same condition booked_count is exactly the number of orders that need a
\* seat of the slot: IncrementBookedTx and DecrementBookedTx lose and double nothing.
THEOREM LedgerBalances == SerialSpec => []LedgerExact
  <1>1. SerialBooks => LedgerExact
    BY DEF SerialBooks, LedgerExact
  <1> QED
    BY <1>1, SerialInvariant, PTL

\* Hence the orders of a slot never outnumber its seats, which is what the CHECK on
\* booked_count and the row lock are there for.
THEOREM NeverOversold == SerialSpec => []NoOversell
  <1>1. SerialBooks => NoOversell
    BY DEF SerialBooks, SeatInv, WithinCapacity, LedgerExact, NoOversell
  <1> QED
    BY <1>1, SerialInvariant, PTL
-----------------------------------------------------------------------------
(* The order book.                                                          *)

\* The orders that sit in a slot of the book are those that need a seat of it.
LEMMA SeatedIsOccupying ==
    ASSUME TypeOK, NEW s \in Slots
    PROVE  Book!Seated(s) = Occupying(s)
  <1>1. s # Nobody
    BY RequestsAssumption
  <1> QED
    BY <1>1 DEF Book!Seated, Book!IsCancelled, Occupying, IsCancelled

\* The book counts the orders of a slot as the service does.
LEMMA BookCounts ==
    ASSUME NEW S
    PROVE  Book!Cardinality(S) = Cardinality(S)
  BY DEF Book!Cardinality, Cardinality

LEMMA BookStarts ==
    ASSUME Init
    PROVE  Book!BookInit
  BY DEF Init, NoRow, Placed, Absent, Book!BookInit, Book!Absent

\* A commit places or advances one order of the book.
LEMMA CommitBooks ==
    ASSUME SerialBooks, NEW r \in Writers, Commit(r), ~Refuse(r)
    PROVE  Book!BookNext
  <1>1. PICK o \in Creates, s \in Slots : o = target[r] /\ s = SlotFor(r)
    BY CommitWrites DEF SerialBooks, RecordInv
  <1>2. /\ orders' = [orders EXCEPT ![o] = tx[r].row]
        /\ tx[r].row.status = to[r] /\ to[r] \in Statuses
        /\ r \in Creates => o = r /\ ~Placed(o) /\ to[r] = "PLACED"
        /\ r \in Edits => Placed(o)
    BY <1>1, CommitWrites DEF SerialBooks, RecordInv
  <1>3. s = slot[o] /\ slot' = slot /\ pc[r] = "commit"
    BY <1>1, CommitRecords DEF SerialBooks, SlotFor, input
  <1>4. [q \in Slots |-> slots'[q].cap] = [q \in Slots |-> slots[q].cap]
    BY CommitEffect DEF SerialBooks
  <1>5. PICK next \in Statuses : next = to[r]
    BY <1>2
  <1>6. /\ orders'[o].status = next
        /\ \A p \in Creates \ {o} : orders'[p] = orders[p]
    BY <1>2, <1>5 DEF SerialBooks, TypeOK
  <1>7. [p \in Creates |-> orders'[p].status]
           = [[p \in Creates |-> orders[p].status] EXCEPT ![o] = next]
    BY <1>6
  <1>8. CASE r \in Creates
    <2>1. Cardinality(Book!Seated(s)) < slots[s].cap
      <3>1. tx[r].booked = slots[s].booked + 1 /\ slots[s].booked \in Nat /\ slots[s].cap \in Nat
        BY <1>2, <1>3, <1>8 DEF SerialBooks, SeatInv, PendingSeat, TypeOK, SlotRows
      <3>2. tx[r].booked # NoWrite
        BY <3>1 DEF NoWrite
      <3>3. tx[r].booked <= slots[s].cap
        BY <1>1, <3>2 DEF SerialBooks, SeatInv, PendingFits
      <3>4. slots[s].booked = Cardinality(Occupying(s)) /\ TypeOK
        BY DEF SerialBooks, LedgerExact
      <3> QED
        BY <3>1, <3>3, <3>4, SeatedIsOccupying
    <2>2. [p \in Creates |-> IF Placed(p)' THEN slot'[p] ELSE Nobody]
             = [[p \in Creates |-> IF Placed(p) THEN slot[p] ELSE Nobody] EXCEPT ![o] = s]
      BY <1>2, <1>3, <1>6, <1>8 DEF Placed, Statuses, Absent
    <2>3. orders[o].status = Absent /\ next = "PLACED"
      BY <1>2, <1>5, <1>8 DEF Placed
    <2>4. Book!Place(o, s)
      BY <1>4, <1>7, <2>1, <2>2, <2>3, BookCounts DEF Book!Place, Book!Absent, Absent
    <2> QED
      BY <2>4 DEF Book!BookNext
  <1>9. CASE r \in Edits
    <2>1. CanTransitionTo(orders[o].status, next)
      BY <1>1, <1>3, <1>5, <1>9 DEF SerialBooks, SerialInv, FreshRead
    <2>2. [p \in Creates |-> IF Placed(p)' THEN slot'[p] ELSE Nobody]
             = [p \in Creates |-> IF Placed(p) THEN slot[p] ELSE Nobody]
      BY <1>2, <1>3, <1>6, <1>9 DEF Placed, Absent, Statuses
    <2>3. Book!Advance(o, next)
      BY <1>4, <1>7, <2>1, <2>2
      DEF Book!Advance, Book!CanTransitionTo, Book!AllowedTransitions, Book!Statuses,
          CanTransitionTo, AllowedTransitions, Statuses
    <2> QED
      BY <2>3 DEF Book!BookNext, Book!Statuses, Statuses
  <1> QED
    BY <1>8, <1>9 DEF Writers

\* So does an admin who resizes a slot; the rest of what happens the book's readers
\* cannot see.
LEMMA StepBooks ==
    ASSUME SerialBooks, [Next]_vars
    PROVE  [Book!BookNext]_Book!book
  <1>1. ASSUME NEW r \in Writers, Commit(r), ~Refuse(r)
        PROVE  Book!BookNext
    BY <1>1, CommitBooks
  <1>2. ASSUME NEW r \in Requests, OthersApart(r), UNCHANGED store
        PROVE  UNCHANGED Book!book
    <2>1. \A o \in Creates : (Placed(o)' <=> Placed(o)) /\ (Placed(o) => slot'[o] = slot[o])
      BY <1>2 DEF OthersApart, SerialBooks, SeatInv, Targets, Placed, store
    <2>2. orders' = orders /\ slots' = slots
      BY <1>2 DEF store
    <2> QED
      BY <2>1, <2>2 DEF Book!book
  <1>3. ASSUME NEW s \in Slots, AdminUpdateSlot(s), UNCHANGED <<orders, input>>
        PROVE  Book!BookNext
    <2>1. PICK e \in SlotEdits :
             /\ slots[s].booked <= e.cap
             /\ slots' = [slots EXCEPT ![s].cap = e.cap, ![s].active = e.active]
      BY <1>3 DEF AdminUpdateSlot
    <2>2. [q \in Slots |-> slots'[q].cap] = [[q \in Slots |-> slots[q].cap] EXCEPT ![s] = e.cap]
      BY <2>1 DEF SerialBooks, TypeOK, SlotRows
    <2>3. Cardinality(Book!Seated(s)) <= e.cap
      BY <2>1, SeatedIsOccupying DEF SerialBooks, LedgerExact
    <2>4. /\ [o \in Creates |-> orders'[o].status] = [o \in Creates |-> orders[o].status]
          /\ [o \in Creates |-> IF Placed(o)' THEN slot'[o] ELSE Nobody]
                = [o \in Creates |-> IF Placed(o) THEN slot[o] ELSE Nobody]
      BY <1>3 DEF Placed, input
    <2>5. Book!Resize(s, e.cap)
      BY <2>2, <2>3, <2>4, BookCounts DEF Book!Resize
    <2> QED
      BY <2>5 DEF Book!BookNext
  <1>4. ASSUME UNCHANGED <<orders, input, slots>>
        PROVE  UNCHANGED Book!book
    BY <1>4 DEF Book!book, Placed, input
  <1> QED
    BY <1>1, <1>2, <1>3, <1>4, StepKinds DEF SerialBooks

\* The interleaved transactions, with their locks, failures and lost answers, behave
\* as an order book in which placing an order and taking its seat are one step, and
\* in which no slot is sold or resized below the orders that need a seat of it.
THEOREM OrderBookImplemented == SerialSpec => ImplementsOrderBook
  <1>1. Init => Book!BookInit
    BY BookStarts
  <1>2. SerialBooks /\ [Next /\ OneEditorAtATime']_vars => [Book!BookNext]_Book!book
    BY StepBooks
  <1> QED
    BY <1>1, <1>2, SerialInvariant, PTL DEF SerialSpec, ImplementsOrderBook, Book!BookSpec
=============================================================================
