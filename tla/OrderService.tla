---------------------------- MODULE OrderService ----------------------------
(* Placing, cancelling, advancing and reading orders                        *)
(* (internal/service/order.go over internal/repo/order.go and slot.go).     *)
(*                                                                          *)
(* Every HTTP request is served by a goroutine of its own; the goroutines   *)
(* share only the PostgreSQL database.  A request that writes runs in one   *)
(* READ COMMITTED transaction: what it wrote stays in tx[r], invisible to   *)
(* the others, until it commits, and the rows it wrote or selected FOR      *)
(* UPDATE stay locked until it commits or rolls back.  The reads that the   *)
(* services send through the pool instead of the transaction take no lock.  *)
EXTENDS OrderLifecycle, Integers, Sequences, FiniteSets

CONSTANTS
    Creates,         \* POST /orders requests; the order a request places bears its name
    Cancels,         \* POST /orders/{id}/cancel requests
    Admins,          \* status changes and cancellations by staff
    Reads,           \* GET /orders/{id} requests
    Slots,           \* delivery slots
    Locations,       \* delivery locations
    LocationOf,      \* LocationOf[s]: the location_id of slot s
    UserOf,          \* UserOf[r]: the caller of request r
    AdminTargets,    \* the statuses staff ask for
    InitialCapacity, \* the capacity slots are created with
    SlotEdits,       \* the [cap, active, late] an admin may write to a slot
    DeliveryFlags,   \* the values an admin may write to a delivery flag
    Regulars,        \* the editing callers that send another request after an answer
    MaxEvents,       \* bound: regulars stop once an order has this many events
    Nobody           \* the owner of a free lock; no order

Edits    == Cancels \cup Admins
Writers  == Creates \cup Edits
Requests == Writers \cup Reads

ASSUME RequestsAssumption ==
    /\ Creates # {}
    /\ Creates \cap Edits = {} /\ Cancels \cap Admins = {} /\ Reads \cap Writers = {}
    /\ Nobody \notin Requests \cup Slots

ASSUME InputsAssumption ==
    /\ Slots # {} /\ Locations # {}
    /\ LocationOf \in [Slots -> Locations]
    /\ AdminTargets \subseteq Statuses
    /\ Regulars \subseteq Edits /\ MaxEvents \in Nat
    /\ InitialCapacity \in Nat \ {0}
    /\ SlotEdits \subseteq [cap : Nat \ {0}, active : BOOLEAN, late : BOOLEAN]
    /\ DeliveryFlags \subseteq BOOLEAN

VARIABLES
    slots,           \* committed delivery_slots: capacity, booked_count, is_active
    orders,          \* committed orders: status and whether payment_status is PAID
    events,          \* committed order_status_events of each order, in commit order
    deliveryOn,      \* app_settings.delivery_enabled
    locationOn,      \* locations.delivery_enabled
    late,            \* the slots whose CutoffAt() has passed
    overdue,         \* the orders whose cancel_deadline_at has passed
    slotLock, orderLock, counterLock,   \* row locks
    target,          \* the order a request is about, once it has found it
    to,              \* the status a request writes
    slot, loc,       \* the slot_id and location_id of a create request
    pc,              \* where the handler stands
    tx,              \* what the handler read and what its transaction wrote
    view,            \* what a read request shows of its order, and whether it got all rows
    resp             \* the answer of a finished request

store == <<slots, orders, events>>
gates == <<deliveryOn, locationOn, late, overdue>>
locks == <<slotLock, orderLock, counterLock>>
input == <<target, to, slot, loc>>
vars  == <<store, gates, locks, input, pc, tx, view, resp>>

NoWrite == -2     \* no booked_count, not even one decremented below zero
NoRow   == [status |-> Absent, paid |-> FALSE]
NoEvent == [from |-> Absent, to |-> Absent]
EmptyTx == [seen |-> Absent, booked |-> NoWrite, row |-> NoRow,
            event |-> NoEvent, broken |-> FALSE]

Rows       == [status : Statuses \cup {Absent}, paid : BOOLEAN]
Events     == [from : Statuses \cup {Absent}, to : Statuses \cup {Absent}]
SlotRows   == [cap : Nat, booked : Nat, active : BOOLEAN]
Txs        == [seen : Statuses \cup {Absent}, booked : Nat \cup {NoWrite},
               row : Rows, event : Events, broken : BOOLEAN]
Views      == [status : Statuses \cup {Absent},
               timeline : SUBSET (Statuses \cup {Absent}), whole : BOOLEAN]
Positions  == {"new", "location", "lock", "code", "insert", "seat", "write",
               "free", "event", "commit", "timeline", "done"}

Placed(o)   == orders[o].status # Absent
SlotFor(r)  == slot[target[r]]

\* The orders of slot s that need one of its seats.
Occupying(s) == {o \in Creates : slot[o] = s /\ Placed(o)
                                   /\ ~IsCancelled(orders[o].status)}

TypeOK ==
    /\ slots \in [Slots -> SlotRows]
    /\ orders \in [Creates -> Rows]
    /\ events \in [Creates -> Seq(Events)]
    /\ deliveryOn \in BOOLEAN
    /\ locationOn \in [Locations -> BOOLEAN]
    /\ late \subseteq Slots
    /\ overdue \subseteq Creates
    /\ slotLock \in [Slots -> Writers \cup {Nobody}]
    /\ orderLock \in [Creates -> Writers \cup {Nobody}]
    /\ counterLock \in Creates \cup {Nobody}
    /\ target \in [Requests -> Creates \cup {Nobody}]
    /\ \A r \in Requests : pc[r] \notin {"new", "done"} => target[r] \in Creates
    /\ \A r \in Creates : target[r] = r
    /\ to \in [Writers -> Statuses]
    /\ slot \in [Creates -> Slots]
    /\ loc \in [Creates -> Locations]
    /\ pc \in [Requests -> Positions]
    /\ tx \in [Writers -> Txs]
    /\ view \in [Reads -> Views]
    /\ resp \in [Requests -> {"none", "ok", "err"}]

Init ==
    /\ slots = [s \in Slots |-> [cap |-> InitialCapacity, booked |-> 0, active |-> TRUE]]
    /\ orders = [o \in Creates |-> NoRow]
    /\ events = [o \in Creates |-> <<>>]
    /\ deliveryOn = TRUE
    /\ locationOn = [l \in Locations |-> TRUE]
    /\ late = {}
    /\ overdue = {}
    /\ slotLock = [s \in Slots |-> Nobody]
    /\ orderLock = [o \in Creates |-> Nobody]
    /\ counterLock = Nobody
    /\ target = [r \in Requests |-> IF r \in Creates THEN r ELSE Nobody]
    /\ to = [r \in Writers |-> IF r \in Creates THEN "PLACED" ELSE "CANCELLED_BY_USER"]
    /\ slot = [o \in Creates |-> CHOOSE s \in Slots : TRUE]
    /\ loc = [o \in Creates |-> CHOOSE l \in Locations : TRUE]
    /\ pc = [r \in Requests |-> "new"]
    /\ tx = [r \in Writers |-> EmptyTx]
    /\ view = [r \in Reads |-> [status |-> Absent, timeline |-> {}, whole |-> TRUE]]
    /\ resp = [r \in Requests |-> "none"]
-----------------------------------------------------------------------------
(* Transactions.                                                            *)

Goto(r, l) == pc' = [pc EXCEPT ![r] = l]

\* COMMIT and ROLLBACK give up every row lock of the transaction.
Release(r) ==
    /\ slotLock'  = [s \in Slots |-> IF slotLock[s] = r THEN Nobody ELSE slotLock[s]]
    /\ orderLock' = [o \in Creates |-> IF orderLock[o] = r THEN Nobody ELSE orderLock[o]]
    /\ counterLock' = IF counterLock = r THEN Nobody ELSE counterLock

\* Defect: an error return without the deferred Rollback.
Refuse_LeavesOpen(r) ==
    /\ tx' = [tx EXCEPT ![r] = EmptyTx]
    /\ Goto(r, "done")
    /\ resp' = [resp EXCEPT ![r] = "err"]
    /\ UNCHANGED <<store, gates, locks, input, view>>

\* An error return: the deferred Rollback, then the error response.
Refuse(r) ==
    /\ Release(r)
    /\ tx' = [tx EXCEPT ![r] = EmptyTx]
    /\ Goto(r, "done")
    /\ resp' = [resp EXCEPT ![r] = "err"]
    /\ UNCHANGED <<store, gates, input, view>>

\* The same of a request that has no transaction.
Reject(r) ==
    /\ Goto(r, "done")
    /\ resp' = [resp EXCEPT ![r] = "err"]
    /\ UNCHANGED <<store, gates, locks, input, tx, view>>

FreeFor(r, owner) == owner \in {Nobody, r}

LockSlotRow(r, s)  == slotLock' = [slotLock EXCEPT ![s] = r]
LockOrderRow(r, o) == orderLock' = [orderLock EXCEPT ![o] = r]
-----------------------------------------------------------------------------
(* createOrderTx.                                                           *)

\* Begin, then the global flag, read through the pool: no lock is taken.
CheckDelivery(r) ==
    /\ pc[r] = "new"
    /\ IF deliveryOn
       THEN /\ \E s \in Slots, l \in Locations :
                  /\ slot' = [slot EXCEPT ![r] = s]
                  /\ loc'  = [loc EXCEPT ![r] = l]
            /\ Goto(r, "location")
            /\ UNCHANGED <<store, gates, locks, target, to, tx, view, resp>>
       ELSE Refuse(r)

CheckLocation(r) ==
    /\ pc[r] = "location"
    /\ IF locationOn[loc[r]]
       THEN Goto(r, "lock") /\ UNCHANGED <<store, gates, locks, input, tx, view, resp>>
       ELSE Refuse(r)

\* What the locked row, the clock and (abstracted to a choice by the caller)
\* the cart must satisfy.
SlotBookable(r) ==
    LET s == slot[r] IN
    /\ LocationOf[s] = loc[r]
    /\ slots[s].active
    /\ s \notin late
    /\ slots[s].booked < slots[s].cap

\* SELECT ... FOR UPDATE waits for the row; the checks and the re-read of the
\* cart's items run while it is held.  A cart with a missing, duplicated or
\* unavailable item is refused.
LockSlot(r) ==
    /\ pc[r] = "lock"
    /\ FreeFor(r, slotLock[slot[r]])
    /\ \/ /\ SlotBookable(r)
          /\ LockSlotRow(r, slot[r])
          /\ Goto(r, "code")
          /\ UNCHANGED <<store, gates, orderLock, counterLock, input, tx, view, resp>>
       \/ Refuse(r)

\* The upsert of today's daily_order_counters row serialises all creations.
TakeCode(r) ==
    /\ pc[r] = "code"
    /\ FreeFor(r, counterLock)
    /\ counterLock' = r
    /\ Goto(r, "insert")
    /\ UNCHANGED <<store, gates, slotLock, orderLock, input, tx, view, resp>>

InsertOrder(r) ==
    /\ pc[r] = "insert"
    /\ LockOrderRow(r, r)
    /\ tx' = [tx EXCEPT ![r].row = [status |-> "PLACED", paid |-> FALSE]]
    /\ Goto(r, "seat")
    /\ UNCHANGED <<store, gates, slotLock, counterLock, input, view, resp>>

\* Defect: the increment runs on a connection of its own, so the row is free
\* again before the order commits.
TakeSeat_Unlocked(r) ==
    LET s == slot[r] IN
    /\ pc[r] = "seat"
    /\ FreeFor(r, slotLock[s])
    /\ slots[s].booked < slots[s].cap
    /\ slotLock' = [slotLock EXCEPT ![s] = Nobody]
    /\ tx' = [tx EXCEPT ![r].booked = slots[s].booked + 1]
    /\ Goto(r, "event")
    /\ UNCHANGED <<store, gates, orderLock, counterLock, input, view, resp>>

\* IncrementBookedTx: UPDATE ... WHERE booked_count < capacity; no row updated
\* means ErrSlotFull.
TakeSeat(r) ==
    LET s == slot[r] IN
    /\ pc[r] = "seat"
    /\ FreeFor(r, slotLock[s])
    /\ IF slots[s].booked < slots[s].cap
       THEN /\ LockSlotRow(r, s)
            /\ tx' = [tx EXCEPT ![r].booked = slots[s].booked + 1]
            /\ Goto(r, "event")
            /\ UNCHANGED <<store, gates, orderLock, counterLock, input, view, resp>>
       ELSE Refuse(r)
-----------------------------------------------------------------------------
(* CancelOrder and AdminUpdateStatus.                                       *)

\* Defect: a cancellation that checks the owner and the deadline only.
Permitted_AnyStatus(r, o, status, next) ==
    IF r \in Cancels
    THEN UserOf[r] = UserOf[o] /\ o \notin overdue
    ELSE CanTransitionTo(status, next)

\* May request r take order o, which it read in this status, to status next?
Permitted(r, o, status, next) ==
    IF r \in Cancels
    THEN /\ UserOf[r] = UserOf[o]
         /\ status = "PLACED"
         /\ o \notin overdue
    ELSE CanTransitionTo(status, next)

TargetsOf(r) == IF r \in Cancels THEN {"CANCELLED_BY_USER"} ELSE AdminTargets

\* Defect: CancelOrder opens with the slot lock, as createOrderTx does.
ReadOrder_LocksSlot(r) ==
    /\ pc[r] = "new"
    /\ \E o \in Creates, next \in TargetsOf(r) :
          /\ Placed(o) /\ Permitted(r, o, orders[o].status, next)
          /\ target' = [target EXCEPT ![r] = o]
          /\ to' = [to EXCEPT ![r] = next]
          /\ tx' = [tx EXCEPT ![r].seen = orders[o].status]
          /\ IF r \in Cancels
             THEN FreeFor(r, slotLock[slot[o]]) /\ LockSlotRow(r, slot[o])
             ELSE UNCHANGED slotLock
          /\ Goto(r, "write")
          /\ UNCHANGED <<store, gates, orderLock, counterLock, slot, loc, view, resp>>

\* Begin, then GetByIDWithDetails through the pool: the order is read outside
\* the transaction and without a lock, and may change before it is written.
ReadOrder(r) ==
    /\ pc[r] = "new"
    /\ \/ \E o \in Creates, next \in TargetsOf(r) :
             /\ Placed(o) /\ Permitted(r, o, orders[o].status, next)
             /\ target' = [target EXCEPT ![r] = o]
             /\ to' = [to EXCEPT ![r] = next]
             /\ tx' = [tx EXCEPT ![r].seen = orders[o].status]
             /\ Goto(r, "write")
             /\ UNCHANGED <<store, gates, locks, slot, loc, view, resp>>
       \/ /\ \E o \in Creates, next \in TargetsOf(r) :
                ~(Placed(o) /\ Permitted(r, o, orders[o].status, next))
          /\ Refuse(r)

\* Defect: the delivery forgets payment_status.
Written_Unpaid(row, status) == [status |-> status, paid |-> row.paid]

\* SetCancelledTx, SetDeliveredTx and UpdateStatusTx: UPDATE ... WHERE id = o.
\* Only the delivery touches payment_status.
Written(row, status) ==
    [status |-> status, paid |-> row.paid \/ status = "DELIVERED"]

\* Defect: only the customer's cancellation gives the seat back.
WriteOrder_KeepsSeat(r) ==
    LET o == target[r] IN
    /\ pc[r] = "write"
    /\ FreeFor(r, orderLock[o])
    /\ LockOrderRow(r, o)
    /\ tx' = [tx EXCEPT ![r].row = Written(orders[o], to[r])]
    /\ Goto(r, IF to[r] = "CANCELLED_BY_USER" THEN "free" ELSE "event")
    /\ UNCHANGED <<store, gates, slotLock, counterLock, input, view, resp>>

WriteOrder(r) ==
    LET o == target[r] IN
    /\ pc[r] = "write"
    /\ FreeFor(r, orderLock[o])
    /\ LockOrderRow(r, o)
    /\ tx' = [tx EXCEPT ![r].row = Written(orders[o], to[r])]
    /\ Goto(r, IF IsCancelled(to[r]) THEN "free" ELSE "event")
    /\ UNCHANGED <<store, gates, slotLock, counterLock, input, view, resp>>

\* Defects: no lower bound; both seats of a slot of two freed at once.
Decremented_Unbounded(n) == n - 1
Decremented_Twice(n) == IF n <= 1 THEN 0 ELSE n - 2

\* DecrementBookedTx: GREATEST(0, booked_count - 1).
Decremented(n) == IF n = 0 THEN 0 ELSE n - 1

FreeSeat(r) ==
    LET s == SlotFor(r) IN
    /\ pc[r] = "free"
    /\ FreeFor(r, slotLock[s])
    /\ LockSlotRow(r, s)
    /\ tx' = [tx EXCEPT ![r].booked = Decremented(slots[s].booked)]
    /\ Goto(r, "event")
    /\ UNCHANGED <<store, gates, orderLock, counterLock, input, view, resp>>

\* AdminUpdateStatus ignores an error of DecrementBookedTx: the code goes on in
\* a transaction that PostgreSQL has put in the failed state.
FreeSeatFails(r) ==
    /\ pc[r] = "free" /\ r \in Admins
    /\ tx' = [tx EXCEPT ![r].broken = TRUE]
    /\ Goto(r, "event")
    /\ UNCHANGED <<store, gates, locks, input, view, resp>>
-----------------------------------------------------------------------------
(* The end of the three transactions.                                       *)

\* Defect: the event goes through the pool, so its loss does not fail the
\* transaction.
RecordEvent_Outside(r) ==
    /\ pc[r] = "event"
    /\ \/ tx' = [tx EXCEPT ![r].event = [from |-> tx[r].seen, to |-> to[r]]]
       \/ UNCHANGED tx
    /\ Goto(r, "commit")
    /\ UNCHANGED <<store, gates, locks, input, view, resp>>

\* Defect: o.Status is overwritten before the event is recorded.
RecordEvent_FromNew(r) ==
    /\ pc[r] = "event"
    /\ tx' = [tx EXCEPT ![r].event = [from |-> to[r], to |-> to[r]]]
    /\ Goto(r, "commit")
    /\ UNCHANGED <<store, gates, locks, input, view, resp>>

\* InsertEventTx.  Its error is ignored, and it always fails in a failed
\* transaction.
RecordEvent(r) ==
    /\ pc[r] = "event"
    /\ \/ /\ ~tx[r].broken
          /\ tx' = [tx EXCEPT ![r].event = [from |-> tx[r].seen, to |-> to[r]]]
       \/ tx' = [tx EXCEPT ![r].broken = TRUE]
    /\ Goto(r, "commit")
    /\ UNCHANGED <<store, gates, locks, input, view, resp>>

Apply(r) ==
    /\ slots' = IF tx[r].booked = NoWrite THEN slots
                ELSE [slots EXCEPT ![SlotFor(r)].booked = tx[r].booked]
    /\ orders' = [orders EXCEPT ![target[r]] = tx[r].row]
    /\ events' = IF tx[r].event = NoEvent THEN events
                 ELSE [events EXCEPT ![target[r]] = Append(@, tx[r].event)]

\* Defect: the error of Commit is dropped.
Commit_AlwaysOk(r) ==
    /\ pc[r] = "commit"
    /\ IF tx[r].broken THEN UNCHANGED store ELSE Apply(r)
    /\ Release(r)
    /\ tx' = [tx EXCEPT ![r] = EmptyTx]
    /\ Goto(r, "done")
    /\ resp' = [resp EXCEPT ![r] = "ok"]
    /\ UNCHANGED <<gates, input, view>>

\* COMMIT.  In a failed transaction it rolls back and pgx reports an error.
\* The answer of a successful one can be lost on the way back.
Commit(r) ==
    /\ pc[r] = "commit"
    /\ IF tx[r].broken
       THEN Refuse(r)
       ELSE /\ Apply(r)
            /\ Release(r)
            /\ tx' = [tx EXCEPT ![r] = EmptyTx]
            /\ Goto(r, "done")
            /\ \E answer \in {"ok", "err"} : resp' = [resp EXCEPT ![r] = answer]
            /\ UNCHANGED <<gates, input, view>>

\* A statement that fails, the request's context cancelled (client gone, the
\* 30 s Timeout of the router) or the process killed: the server rolls back.
Fail(r) ==
    /\ pc[r] # "done"
    /\ IF r \in Writers
       THEN Refuse(r)
       ELSE Reject(r)
-----------------------------------------------------------------------------
(* GetOrder: GetByIDWithDetails reads the order row in one query and its    *)
(* timeline in a later one, each with a snapshot of its own.                *)

ReadStatus(r) ==
    /\ pc[r] = "new"
    /\ \/ \E o \in Creates :
             /\ Placed(o)
             /\ target' = [target EXCEPT ![r] = o]
             /\ view' = [view EXCEPT ![r].status = orders[o].status]
             /\ Goto(r, "timeline")
             /\ UNCHANGED <<store, gates, locks, to, slot, loc, tx, resp>>
       \/ (\E o \in Creates : ~Placed(o)) /\ Reject(r)

\* Nobody asks rows.Err(): rows that end early, because the connection breaks or
\* the deadline passes, are taken for all of them.
ReadTimeline(r) ==
    LET recorded == events[target[r]] IN
    /\ pc[r] = "timeline"
    /\ \E got \in SUBSET DOMAIN recorded :
          view' = [view EXCEPT ![r].timeline = {recorded[i].to : i \in got},
                               ![r].whole = (got = DOMAIN recorded)]
    /\ Goto(r, "done")
    /\ resp' = [resp EXCEPT ![r] = "ok"]
    /\ UNCHANGED <<store, gates, locks, input, tx>>
-----------------------------------------------------------------------------
(* What happens around the handlers: admin edits, time, further requests.   *)

\* Defect: no CHECK (booked_count <= capacity).
AdminUpdateSlot_Unchecked(s) ==
    /\ slotLock[s] = Nobody
    /\ \E e \in SlotEdits :
          /\ slots' = [slots EXCEPT ![s].cap = e.cap, ![s].active = e.active]
          /\ late' = IF e.late THEN late \cup {s} ELSE late \ {s}
    /\ UNCHANGED <<orders, events, deliveryOn, locationOn, overdue, locks, input,
                   pc, tx, view, resp>>

\* PATCH /admin/slots/{id}: one UPDATE that overwrites capacity, cutoff and
\* is_active, waits for the row and obeys CHECK (booked_count <= capacity).
AdminUpdateSlot(s) ==
    /\ slotLock[s] = Nobody
    /\ \E e \in SlotEdits :
          /\ slots[s].booked <= e.cap
          /\ slots' = [slots EXCEPT ![s].cap = e.cap, ![s].active = e.active]
          /\ late' = IF e.late THEN late \cup {s} ELSE late \ {s}
    /\ UNCHANGED <<orders, events, deliveryOn, locationOn, overdue, locks, input,
                   pc, tx, view, resp>>

\* The caller of a finished edit sends the next one.
SendAgain(r) ==
    /\ pc[r] = "done"
    /\ \A o \in Creates : Len(events[o]) < MaxEvents
    /\ Goto(r, "new")
    /\ resp' = [resp EXCEPT ![r] = "none"]
    /\ target' = [target EXCEPT ![r] = Nobody]
    /\ to' = [to EXCEPT ![r] = "CANCELLED_BY_USER"]
    /\ UNCHANGED <<store, gates, locks, slot, loc, tx, view>>

AdminSetDelivery ==
    /\ deliveryOn' \in DeliveryFlags
    /\ UNCHANGED <<store, locationOn, late, overdue, locks, input, pc, tx, view, resp>>

AdminSetLocation(l) ==
    /\ \E on \in DeliveryFlags : locationOn' = [locationOn EXCEPT ![l] = on]
    /\ UNCHANGED <<store, deliveryOn, late, overdue, locks, input, pc, tx, view, resp>>

CutoffPasses(s) ==
    /\ late' = late \cup {s}
    /\ UNCHANGED <<store, deliveryOn, locationOn, overdue, locks, input, pc, tx, view, resp>>

\* now() reaches cancel_deadline_at, two minutes after the order was placed.
DeadlinePasses(o) ==
    /\ Placed(o)
    /\ overdue' = overdue \cup {o}
    /\ UNCHANGED <<store, deliveryOn, locationOn, late, locks, input, pc, tx, view, resp>>
-----------------------------------------------------------------------------
CreateStep(r) ==
    \/ CheckDelivery(r) \/ CheckLocation(r) \/ LockSlot(r) \/ TakeCode(r)
    \/ InsertOrder(r) \/ TakeSeat(r)

EditStep(r) == ReadOrder(r) \/ WriteOrder(r) \/ FreeSeat(r) \/ FreeSeatFails(r)

FinishStep(r) == RecordEvent(r) \/ Commit(r)

\* Defect: the timeline is loaded first and the order row after it.
ReadStep_TimelineFirst(r) ==
    \/ /\ pc[r] = "new"
       /\ \E o \in Creates :
             /\ Placed(o)
             /\ target' = [target EXCEPT ![r] = o]
             /\ view' = [view EXCEPT ![r].timeline =
                            {events[o][i].to : i \in DOMAIN events[o]}]
       /\ Goto(r, "timeline")
       /\ UNCHANGED <<store, gates, locks, to, slot, loc, tx, resp>>
    \/ /\ pc[r] = "timeline"
       /\ view' = [view EXCEPT ![r].status = orders[target[r]].status]
       /\ Goto(r, "done")
       /\ resp' = [resp EXCEPT ![r] = "ok"]
       /\ UNCHANGED <<store, gates, locks, input, tx>>

ReadStep(r) == ReadStatus(r) \/ ReadTimeline(r)

\* One step of the handler of request r, failures from outside left aside.
Progress(r) ==
    \/ r \in Creates /\ CreateStep(r)
    \/ r \in Edits /\ EditStep(r)
    \/ r \in Writers /\ FinishStep(r)
    \/ r \in Reads /\ ReadStep(r)

Environment ==
    \/ \E s \in Slots : AdminUpdateSlot(s) \/ CutoffPasses(s)
    \/ \E r \in Regulars : SendAgain(r)
    \/ AdminSetDelivery
    \/ \E l \in Locations : AdminSetLocation(l)
    \/ \E o \in Creates : DeadlinePasses(o)

Next ==
    \/ \E r \in Requests : Progress(r) \/ Fail(r)
    \/ Environment

Spec == Init /\ [][Next]_vars

\* A goroutine keeps running and PostgreSQL answers a statement whose row is
\* free.  Nothing is assumed of failures, admins or the clock.
FairSpec == Spec /\ \A r \in Requests : WF_vars(Progress(r))

\* Request r has read its order and may still write it.
Editing(r) == pc[r] \notin {"new", "done"}

\* Callers that change an order one at a time, each after the other's answer.
OneEditorAtATime ==
    \A r, q \in Edits :
        Editing(r) /\ Editing(q) /\ target[r] = target[q] => r = q

SerialSpec == Init /\ [][Next /\ OneEditorAtATime']_vars
-----------------------------------------------------------------------------
(* Properties of every execution.                                           *)

\* The promise of CHECK (booked_count <= capacity), of the row lock and of the
\* WHERE clause of IncrementBookedTx: no commit and no admin edit leaves a slot
\* with more seats booked than it has.
WithinCapacity == \A s \in Slots : slots[s].booked <= slots[s].cap

\* No seat leaks: each booked seat is backed by an order of the slot that is not
\* cancelled, whatever cancellations race, fail half-way or are repeated.
SeatsBacked == \A s \in Slots : slots[s].booked <= Cardinality(Occupying(s))

\* The timeline explains the status: an order's last committed event leads to
\* its committed status, although the services ignore InsertEventTx's error.
AuditTrail == \A o \in Creates :
    IF Placed(o)
    THEN events[o] # <<>> /\ events[o][Len(events[o])].to = orders[o].status
    ELSE events[o] = <<>>

\* A success answer is never given for work that was rolled back: the order's
\* timeline holds the change the caller was told of.
AckedIsRecorded == \A r \in Writers : resp[r] = "ok" =>
    \E i \in DOMAIN events[target[r]] : events[target[r]][i].to = to[r]

\* An order that GET /orders/{id} shows in some status comes with a timeline
\* that mentions it, though the two are read by different queries - unless the
\* rows of the timeline ended early.
ViewExplained == \A r \in Reads :
    resp[r] = "ok" /\ view[r].whole => view[r].status \in view[r].timeline

\* The requests that hold the row r is about to lock.
BlockersOf(r) ==
    {q \in Writers \ {r} :
        \/ pc[r] \in {"lock", "seat"} /\ slotLock[slot[r]] = q
        \/ pc[r] = "code" /\ counterLock = q
        \/ pc[r] = "write" /\ orderLock[target[r]] = q
        \/ pc[r] = "free" /\ slotLock[SlotFor(r)] = q}

\* Row locks are taken in an order that never closes a cycle of waiting
\* transactions, so PostgreSQL has no deadlock to break.
NoLockCycle == \A group \in SUBSET Writers :
    group # {} => \E r \in group : BlockersOf(r) \cap group = {}

\* Placing an order and taking its seat become visible together: no placement
\* overwrites the seat taken by another.
PlacementTakesSeat ==
    [][\A o \in Creates : ~Placed(o) /\ Placed(o)' =>
          slots'[slot[o]].booked = slots[slot[o]].booked + 1]_vars

\* Every request that starts is answered, with no help from timeouts: whoever
\* holds a row finishes.
EveryRequestAnswered ==
    \A r \in Requests : pc[r] # "new" ~> pc[r] = "done"
-----------------------------------------------------------------------------
(* Properties of the executions with one editor per order at a time         *)
(* (SerialSpec).  With two at once the stale read of ReadOrder breaks them. *)

\* booked_count is exactly the number of orders that need a seat.
LedgerExact == \A s \in Slots : slots[s].booked = Cardinality(Occupying(s))

\* What locking the slot row is for: the orders of a slot never outnumber its
\* seats.
NoOversell == \A s \in Slots : Cardinality(Occupying(s)) <= slots[s].cap

\* The status only moves along domain.AllowedTransitions.
LegalTransitions ==
    [][\A o \in Creates : orders'[o].status # orders[o].status =>
          IF Placed(o) THEN CanTransitionTo(orders[o].status, orders'[o].status)
                       ELSE orders'[o].status = "PLACED"]_vars

\* Cash on delivery is recorded as paid for the delivered orders only.
PaidIffDelivered == \A o \in Creates :
    orders[o].paid <=> orders[o].status = "DELIVERED"

\* Each event of a timeline starts where the one before it ended.
TimelineChained == \A o \in Creates : \A i \in DOMAIN events[o] :
    events[o][i].from = IF i = 1 THEN Absent ELSE events[o][i - 1].to

\* The service as the atomic order book its callers see: an order has its seat
\* from the commit that places it.
Book == INSTANCE OrderBook WITH
    Orders     <- Creates,
    NoSlot     <- Nobody,
    Capacities <- {e.cap : e \in SlotEdits},
    status     <- [o \in Creates |-> orders[o].status],
    seat       <- [o \in Creates |-> IF Placed(o) THEN slot[o] ELSE Nobody],
    capacity   <- [s \in Slots |-> slots[s].cap]

\* Under SerialSpec the interleaved transactions implement the order book.
ImplementsOrderBook == Book!BookSpec
=============================================================================
