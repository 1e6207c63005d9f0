------------------------------- MODULE Reviews ------------------------------
(* Reviews of delivered orders and the ratings of menu items they feed      *)
(* (internal/service/review.go over internal/repo/review.go and menu.go).   *)
(*                                                                          *)
(* menu_items.rating_avg and rating_count are a copy of what the reviews    *)
(* say: after a review is written, the handler recomputes them item by item *)
(* in statements of their own and ignores their errors.  UpdateRating waits *)
(* for the item's row after it has taken its snapshot of the reviews, so    *)
(* two of them can finish in the other order.                               *)
EXTENDS Integers, FiniteSets

CONSTANTS
    Creators,    \* POST /reviews requests; a review bears the name of its request
    Updaters,    \* PATCH /reviews/{id} requests
    Hiders,      \* PATCH /admin/reviews/{id}/hide requests
    Orders, Items,
    ItemsOf,     \* ItemsOf[o]: the menu items of order o
    OrdersOf,    \* OrdersOf[r]: the orders of the caller of request r
    Ratings,     \* the ratings given (1 .. 5)
    Nothing      \* no order, review or item

Requests == Creators \cup Updaters \cup Hiders
Writers  == Creators \cup Updaters

ASSUME ReviewsAssumption ==
    /\ Creators \cap Updaters = {} /\ Writers \cap Hiders = {}
    /\ ItemsOf \in [Orders -> SUBSET Items]
    /\ OrdersOf \in [Writers -> SUBSET Orders]
    /\ Nothing \notin Orders \cup Creators \cup Items

VARIABLES
    delivered,   \* the orders in status DELIVERED
    reviews,     \* rows of reviews with their review_items
    closed,      \* the reviews whose editable_until has passed
    shown,       \* the reviews an item's rating was computed from
    pc,
    about,       \* the order a creator reviews, the review an updater edits
    todo,        \* items whose rating the request has still to recompute
    item, snap,  \* the item being recomputed and the reviews its query saw
    excused      \* items whose last recomputation did not happen or was overtaken

vars == <<delivered, reviews, closed, shown, pc, about, todo, item, snap, excused>>

Row == [id : Creators, order : Orders, rating : Ratings, hidden : BOOLEAN,
        items : SUBSET Items]

\* What AVG and COUNT of UpdateRating range over.
Visible(i) == {<<v.id, v.rating>> : v \in {w \in reviews : i \in w.items /\ ~w.hidden}}

Reviewed(o) == \E v \in reviews : v.order = o

TypeOK ==
    /\ delivered \subseteq Orders
    /\ reviews \subseteq Row
    /\ closed \subseteq Creators
    /\ shown \in [Items -> SUBSET (Creators \X Ratings)]
    /\ pc \in [Requests -> {"new", "duplicate", "insert", "update", "reread",
                            "refresh", "write", "done"}]
    /\ about \in [Writers -> Orders \cup Creators \cup {Nothing}]
    /\ todo \in [Writers -> SUBSET Items]
    /\ item \in [Writers -> Items \cup {Nothing}]
    /\ snap \in [Writers -> SUBSET (Creators \X Ratings)]
    /\ excused \subseteq Items
    /\ \A r \in Writers : /\ pc[r] \in {"refresh", "write"} => todo[r] # {}
                          /\ pc[r] = "write" => item[r] \in todo[r]

Init ==
    /\ delivered = {} /\ reviews = {} /\ closed = {}
    /\ shown = [i \in Items |-> {}]
    /\ pc = [r \in Requests |-> "new"]
    /\ about = [r \in Writers |-> Nothing]
    /\ todo = [r \in Writers |-> {}]
    /\ item = [r \in Writers |-> Nothing]
    /\ snap = [r \in Writers |-> {}]
    /\ excused = {}

store  == <<delivered, reviews, closed, shown>>
locals == <<about, todo, item, snap>>

Goto(r, l) == pc' = [pc EXCEPT ![r] = l]

\* The handler returns.
Finish(r) ==
    /\ Goto(r, "done")
    /\ about' = [about EXCEPT ![r] = Nothing]
    /\ todo' = [todo EXCEPT ![r] = {}]
    /\ item' = [item EXCEPT ![r] = Nothing]
    /\ snap' = [snap EXCEPT ![r] = {}]

\* It refuses the request.
Refuse(r) == Finish(r) /\ UNCHANGED <<store, excused>>

\* The loop over the items goes on, or is over when none is left.
Refresh(r, left) ==
    IF left = {} THEN Finish(r)
    ELSE /\ Goto(r, "refresh")
         /\ todo' = [todo EXCEPT ![r] = left]
         /\ item' = [item EXCEPT ![r] = Nothing]
         /\ snap' = [snap EXCEPT ![r] = {}]
         /\ UNCHANGED about
-----------------------------------------------------------------------------
(* ReviewService.Create.                                                    *)

\* Ownership and CanReview.  Nobody asks rows.Err() of the order's items, so
\* some can be missing.
CheckOrder(r) ==
    /\ pc[r] = "new"
    /\ \E o \in Orders :
         IF o \in OrdersOf[r] \cap delivered
         THEN /\ about' = [about EXCEPT ![r] = o]
              /\ \E got \in SUBSET ItemsOf[o] : todo' = [todo EXCEPT ![r] = got]
              /\ Goto(r, "duplicate")
              /\ UNCHANGED <<store, item, snap, excused>>
         ELSE Refuse(r)

\* Any error of GetByOrderID, not only ErrNotFound, is taken for "no review yet".
CheckDuplicate(r) ==
    /\ pc[r] = "duplicate"
    /\ \/ Reviewed(about[r]) /\ Refuse(r)
       \/ Goto(r, "insert") /\ UNCHANGED <<store, locals, excused>>

NewRow(r, rating) == [id |-> r, order |-> about[r], rating |-> rating,
                      hidden |-> FALSE, items |-> todo[r]]

\* Defect: order_id without its UNIQUE constraint.
InsertReview_NoIndex(r) ==
    /\ pc[r] = "insert"
    /\ \E rating \in Ratings : reviews' = reviews \cup {NewRow(r, rating)}
    /\ Refresh(r, todo[r])
    /\ UNCHANGED <<delivered, closed, shown, excused>>

\* One transaction for the review and its items.  UNIQUE (order_id) refuses the
\* second review of an order; when the answer of COMMIT is lost the handler
\* returns without touching the ratings.
InsertReview(r) ==
    /\ pc[r] = "insert"
    /\ IF Reviewed(about[r])
       THEN Refuse(r)
       ELSE /\ \E rating \in Ratings : reviews' = reviews \cup {NewRow(r, rating)}
            /\ \/ Refresh(r, todo[r]) /\ UNCHANGED excused
               \/ Finish(r) /\ excused' = excused \cup todo[r]
            /\ UNCHANGED <<delivered, closed, shown>>
-----------------------------------------------------------------------------
(* ReviewService.Update.                                                    *)

\* GetByID: the caller's own review, still editable.
CheckReview(r) ==
    /\ pc[r] = "new"
    /\ \/ \E v \in reviews :
             /\ v.order \in OrdersOf[r] /\ v.id \notin closed
             /\ about' = [about EXCEPT ![r] = v.id]
             /\ Goto(r, "update")
             /\ UNCHANGED <<store, todo, item, snap, excused>>
       \/ Refuse(r)

Edited(v, id, rating) == IF v.id = id THEN [v EXCEPT !.rating = rating] ELSE v

ItemsReviewed(id) == UNION {v.items : v \in {w \in reviews : w.id = id}}

\* Defect: the ratings are left as they are.
UpdateReview_NoRefresh(r) ==
    /\ pc[r] = "update"
    /\ \E rating \in Ratings : reviews' = {Edited(v, about[r], rating) : v \in reviews}
    /\ Finish(r)
    /\ UNCHANGED <<delivered, closed, shown, excused>>

\* The answer of the statement can be lost as well.
UpdateReview(r) ==
    /\ pc[r] = "update"
    /\ \E rating \in Ratings : reviews' = {Edited(v, about[r], rating) : v \in reviews}
    /\ \/ Goto(r, "reread") /\ UNCHANGED <<locals, excused>>
       \/ Finish(r) /\ excused' = excused \cup ItemsReviewed(about[r])
    /\ UNCHANGED <<delivered, closed, shown>>

\* The items are read from the order again; an error of that query is ignored
\* and leaves nothing to recompute.
ReadItems(r) ==
    /\ pc[r] = "reread"
    /\ \E v \in reviews : v.id = about[r] /\
         \E got \in SUBSET ItemsOf[v.order] :
            /\ Refresh(r, got)
            /\ excused' = excused \cup (v.items \ got)
    /\ UNCHANGED store
-----------------------------------------------------------------------------
(* The loop over UpdateRating, of both.                                     *)

TakeSnapshot(r) ==
    /\ pc[r] = "refresh"
    /\ \E i \in todo[r] :
          /\ item' = [item EXCEPT ![r] = i]
          /\ snap' = [snap EXCEPT ![r] = Visible(i)]
    /\ Goto(r, "write")
    /\ UNCHANGED <<store, about, todo, excused>>

\* The row is free: the statement writes what its snapshot showed.
UpdateRating(r) ==
    LET i == item[r] IN
    /\ pc[r] = "write"
    /\ shown' = [shown EXCEPT ![i] = snap[r]]
    /\ excused' = IF snap[r] = Visible(i) THEN excused \ {i} ELSE excused \cup {i}
    /\ Refresh(r, todo[r] \ {i})
    /\ UNCHANGED <<delivered, reviews, closed>>

\* Its error is ignored and the loop goes on with the next item.
UpdateRatingFails(r) ==
    /\ pc[r] = "write"
    /\ excused' = excused \cup {item[r]}
    /\ Refresh(r, todo[r] \ {item[r]})
    /\ UNCHANGED store

\* What a request that has changed a review still owes to the ratings.
Owed(r) ==
    CASE pc[r] = "reread"               -> ItemsReviewed(about[r])
      [] pc[r] \in {"refresh", "write"} -> todo[r]
      [] OTHER                          -> {}

\* A query fails before the review is written, or the process dies.
Fail(r) ==
    /\ pc[r] # "done"
    /\ Finish(r)
    /\ excused' = excused \cup Owed(r)
    /\ UNCHANGED store
-----------------------------------------------------------------------------
\* GetByID, whose row is not used and never deleted, then SetHidden.  The
\* ratings are left as they are.
AdminHide(r) ==
    /\ pc[r] = "new"
    /\ \E v \in reviews, hidden \in BOOLEAN :
          /\ reviews' = (reviews \ {v}) \cup {[v EXCEPT !.hidden = hidden]}
          /\ excused' = IF hidden # v.hidden THEN excused \cup v.items ELSE excused
    /\ Goto(r, "done")
    /\ UNCHANGED <<delivered, closed, shown, locals>>

\* The order service delivers an order; 24 hours pass after a review.
Deliver(o) ==
    /\ delivered' = delivered \cup {o}
    /\ UNCHANGED <<reviews, closed, shown, pc, locals, excused>>

EditingCloses(v) ==
    /\ closed' = closed \cup {v.id}
    /\ UNCHANGED <<delivered, reviews, shown, pc, locals, excused>>

Next ==
    \/ \E r \in Creators : CheckOrder(r) \/ CheckDuplicate(r) \/ InsertReview(r)
    \/ \E r \in Updaters : CheckReview(r) \/ UpdateReview(r) \/ ReadItems(r)
    \/ \E r \in Writers : \/ TakeSnapshot(r) \/ UpdateRating(r)
                          \/ UpdateRatingFails(r) \/ Fail(r)
    \/ \E r \in Hiders : AdminHide(r)
    \/ \E o \in Orders : Deliver(o)
    \/ \E v \in reviews : EditingCloses(v)

Spec == Init /\ [][Next]_vars
-----------------------------------------------------------------------------
\* A double submission is not counted twice, although the check for an earlier
\* review and the insertion are separate statements.
OneReviewPerOrder == \A v, w \in reviews : v.order = w.order => v = w

\* An item's rating counts exactly the visible reviews of the item, unless a
\* request is still to recompute it, or its last recomputation was skipped,
\* lost, overtaken by a later change or - for a review hidden by an admin -
\* never asked for.
RatingsExplained == \A i \in Items :
    \/ shown[i] = Visible(i)
    \/ i \in excused
    \/ \E r \in Writers : i \in Owed(r)
=============================================================================
