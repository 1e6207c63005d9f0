---------------------------- MODULE ReviewsProofs ---------------------------
(* Theorems about Reviews, for any number of requests, orders and items.    *)
EXTENDS Reviews, TLAPS

\* A creator works on the order it reviews and has no row until it has inserted
\* one; rows bear the names of their creators.
Stages ==
    /\ \A r \in Creators :
          /\ pc[r] \notin {"update", "reread"}
          /\ pc[r] \in {"duplicate", "insert"} => about[r] \in Orders
    /\ \A r \in Updaters : pc[r] \notin {"duplicate", "insert"}
    /\ \A r \in Hiders : pc[r] \in {"new", "done"}
    /\ \A v \in reviews : pc[v.id] \notin {"new", "duplicate", "insert"}
    /\ \A v, w \in reviews : v.id = w.id => v = w

ReviewInv == TypeOK /\ Stages /\ OneReviewPerOrder /\ RatingsExplained

LEMMA InitReviewInv == Init => ReviewInv
  <1> SUFFICES ASSUME Init PROVE ReviewInv
    OBVIOUS
  <1>1. TypeOK /\ Stages /\ OneReviewPerOrder
    BY DEF Init, TypeOK, Stages, OneReviewPerOrder, Requests, Writers
  <1>2. RatingsExplained
    BY DEF Init, RatingsExplained, Visible
  <1> QED
    BY <1>1, <1>2 DEF ReviewInv

\* A step of r leaves the other requests where they are.
OthersStay(r) ==
    /\ \A q \in Requests \ {r} : pc'[q] = pc[q]
    /\ \A q \in Writers \ {r} : about'[q] = about[q] /\ todo'[q] = todo[q]

\* The types of what requests keep to themselves.
LocalsTyped ==
    /\ pc \in [Requests -> {"new", "duplicate", "insert", "update", "reread",
                            "refresh", "write", "done"}]
    /\ about \in [Writers -> Orders \cup Creators \cup {Nothing}]
    /\ todo \in [Writers -> SUBSET Items]
    /\ item \in [Writers -> Items \cup {Nothing}]
    /\ snap \in [Writers -> SUBSET (Creators \X Ratings)]
    /\ \A r \in Writers : /\ pc[r] \in {"refresh", "write"} => todo[r] # {}
                          /\ pc[r] = "write" => item[r] \in todo[r]

LEMMA LocalsAreTyped == TypeOK => LocalsTyped
  <1> SUFFICES ASSUME TypeOK PROVE LocalsTyped
    OBVIOUS
  <1>1. \A r \in Writers : /\ pc[r] \in {"refresh", "write"} => todo[r] # {}
                          /\ pc[r] = "write" => item[r] \in todo[r]
    BY DEF TypeOK
  <1> QED
    BY <1>1 DEF TypeOK, LocalsTyped

LEMMA WhoWrites ==
    /\ Writers \subseteq Requests /\ Creators \subseteq Writers /\ Updaters \subseteq Writers
    /\ Hiders \subseteq Requests /\ \A r \in Hiders : r \notin Writers
  BY ReviewsAssumption DEF Requests, Writers

\* A handler that returns owes nothing.
LEMMA Finished ==
    ASSUME TypeOK, NEW r \in Writers, Finish(r)
    PROVE  LocalsTyped' /\ OthersStay(r) /\ pc'[r] = "done"
  <1>1. /\ pc' = [pc EXCEPT ![r] = "done"]
        /\ about' = [about EXCEPT ![r] = Nothing]
        /\ todo' = [todo EXCEPT ![r] = {}]
        /\ item' = [item EXCEPT ![r] = Nothing]
        /\ snap' = [snap EXCEPT ![r] = {}]
    BY DEF Finish, Goto
  <1>2. LocalsTyped /\ r \in Requests
    BY LocalsAreTyped, WhoWrites
  <1>3. \A q \in Requests : pc'[q] = IF q = r THEN "done" ELSE pc[q]
    BY <1>1, <1>2 DEF LocalsTyped
  <1>4. \A q \in Writers \ {r} : /\ about'[q] = about[q] /\ todo'[q] = todo[q]
                                /\ item'[q] = item[q]
    BY <1>1, <1>2 DEF LocalsTyped
  <1>5. \A q \in Writers : /\ pc'[q] \in {"refresh", "write"} => todo'[q] # {}
                          /\ pc'[q] = "write" => item'[q] \in todo'[q]
    <2> TAKE q \in Writers
    <2>1. pc'[q] = IF q = r THEN "done" ELSE pc[q]
      BY <1>3, WhoWrites
    <2> QED
      BY <1>2, <1>4, <2>1 DEF LocalsTyped
  <1> QED
    BY <1>1, <1>2, <1>3, <1>4, <1>5 DEF LocalsTyped, OthersStay

\* A loop over what is left of the items.
LEMMA Refreshing ==
    ASSUME TypeOK, NEW r \in Writers, NEW left \in SUBSET Items, Refresh(r, left)
    PROVE  /\ LocalsTyped' /\ OthersStay(r)
           /\ pc'[r] = IF left = {} THEN "done" ELSE "refresh"
           /\ left # {} => todo'[r] = left
  <1>1. CASE left = {}
    BY <1>1, Finished DEF Refresh
  <1>2. CASE left # {}
    <2>1. /\ pc' = [pc EXCEPT ![r] = "refresh"]
          /\ todo' = [todo EXCEPT ![r] = left]
          /\ item' = [item EXCEPT ![r] = Nothing]
          /\ snap' = [snap EXCEPT ![r] = {}]
          /\ about' = about
      BY <1>2 DEF Refresh, Goto
    <2>2. LocalsTyped /\ r \in Requests
      BY LocalsAreTyped, WhoWrites
    <2>3. \A q \in Requests : pc'[q] = IF q = r THEN "refresh" ELSE pc[q]
      BY <2>1, <2>2 DEF LocalsTyped
    <2>4. \A q \in Writers \ {r} : todo'[q] = todo[q] /\ item'[q] = item[q]
      BY <2>1, <2>2 DEF LocalsTyped
    <2>5. todo'[r] = left
      BY <2>1, <2>2 DEF LocalsTyped
    <2>6. \A q \in Writers : /\ pc'[q] \in {"refresh", "write"} => todo'[q] # {}
                            /\ pc'[q] = "write" => item'[q] \in todo'[q]
      <3> TAKE q \in Writers
      <3>1. pc'[q] = IF q = r THEN "refresh" ELSE pc[q]
        BY <2>3, WhoWrites
      <3> QED
        BY <1>2, <2>2, <2>4, <2>5, <3>1 DEF LocalsTyped
    <2> QED
      BY <1>2, <2>1, <2>2, <2>3, <2>4, <2>5, <2>6 DEF LocalsTyped, OthersStay
  <1> QED
    BY <1>1, <1>2

\* Reviews whose items can be looked up.
LEMMA VisibleType ==
    ASSUME TypeOK, NEW i
    PROVE  Visible(i) \in SUBSET (Creators \X Ratings)
  BY DEF TypeOK, Visible, Row

LEMMA EditedRow ==
    ASSUME NEW v \in Row, NEW id, NEW rating \in Ratings
    PROVE  LET w == Edited(v, id, rating) IN
           /\ w \in Row /\ w.id = v.id /\ w.order = v.order /\ w.items = v.items
           /\ v.id # id => w = v
  BY DEF Edited, Row

LEMMA HiddenRow ==
    ASSUME NEW v \in Row, NEW hidden \in BOOLEAN
    PROVE  LET w == [v EXCEPT !.hidden = hidden] IN
           /\ w \in Row /\ w.id = v.id /\ w.order = v.order /\ w.items = v.items
           /\ hidden = v.hidden => w = v
  BY DEF Row
-----------------------------------------------------------------------------
(* Every request keeps the types and minds its own business.                *)

LEMMA CreateTyped ==
    ASSUME TypeOK, Stages, NEW r \in Creators,
           CheckOrder(r) \/ CheckDuplicate(r) \/ InsertReview(r)
    PROVE  /\ TypeOK' /\ OthersStay(r) /\ pc'[r] \notin {"update", "reread", "new"}
           /\ pc'[r] \in {"duplicate", "insert"} => about'[r] \in Orders
  <1> USE DEF Goto
  <1>1. r \in Writers /\ r \in Requests
    BY DEF Writers, Requests
  <1>2. CASE Refuse(r)
    BY <1>1, <1>2, Finished DEF Refuse, store, TypeOK, LocalsTyped
  <1>3. CASE CheckOrder(r) /\ ~Refuse(r)
    <2>0. PICK o \in Orders :
             IF o \in OrdersOf[r] \cap delivered
             THEN /\ about' = [about EXCEPT ![r] = o]
                  /\ \E got \in SUBSET ItemsOf[o] : todo' = [todo EXCEPT ![r] = got]
                  /\ pc' = [pc EXCEPT ![r] = "duplicate"]
                  /\ UNCHANGED <<store, item, snap, excused>>
             ELSE Refuse(r)
      BY <1>3 DEF CheckOrder
    <2>1. PICK got \in SUBSET ItemsOf[o] :
             /\ about' = [about EXCEPT ![r] = o]
             /\ todo' = [todo EXCEPT ![r] = got]
             /\ pc' = [pc EXCEPT ![r] = "duplicate"]
             /\ UNCHANGED <<store, item, snap, excused>>
      BY <1>3, <2>0
    <2>2. got \in SUBSET Items
      BY ReviewsAssumption
    <2> QED
      BY <1>1, <2>1, <2>2 DEF TypeOK, OthersStay, store
  <1>4. CASE CheckDuplicate(r) /\ ~Refuse(r)
    <2>1. /\ pc[r] = "duplicate" /\ pc' = [pc EXCEPT ![r] = "insert"]
          /\ UNCHANGED <<store, locals, excused>>
      BY <1>4 DEF CheckDuplicate
    <2>2. about[r] \in Orders /\ pc'[r] = "insert"
      BY <1>1, <2>1 DEF Stages, TypeOK
    <2> QED
      BY <1>1, <2>1, <2>2 DEF TypeOK, OthersStay, store, locals
  <1>5. CASE InsertReview(r) /\ ~Refuse(r)
    <2>1. /\ pc[r] = "insert" /\ \E rating \in Ratings : reviews' = reviews \cup {NewRow(r, rating)}
          /\ Refresh(r, todo[r]) \/ Finish(r)
          /\ excused' \in {excused, excused \cup todo[r]}
          /\ UNCHANGED <<delivered, closed, shown>>
      BY <1>5 DEF InsertReview
    <2>2. todo[r] \in SUBSET Items /\ about[r] \in Orders
      BY <1>1, <2>1 DEF TypeOK, Stages
    <2>3. LocalsTyped' /\ OthersStay(r) /\ pc'[r] \in {"refresh", "done"}
      BY <1>1, <2>1, <2>2, Finished, Refreshing
    <2>4. \A rating \in Ratings : NewRow(r, rating) \in Row
      BY <2>2 DEF NewRow, Row
    <2>5. reviews' \subseteq Row
      BY <2>1, <2>4 DEF TypeOK
    <2> QED
      BY <2>1, <2>2, <2>3, <2>5 DEF TypeOK, LocalsTyped
  <1> QED
    BY <1>2, <1>3, <1>4, <1>5

LEMMA UpdateTyped ==
    ASSUME TypeOK, Stages, NEW r \in Updaters,
           CheckReview(r) \/ UpdateReview(r) \/ ReadItems(r)
    PROVE  TypeOK' /\ OthersStay(r) /\ pc'[r] \notin {"duplicate", "insert", "new"}
  <1> USE DEF Goto
  <1>1. r \in Writers /\ r \in Requests
    BY DEF Writers, Requests
  <1>2. CASE Refuse(r)
    BY <1>1, <1>2, Finished DEF Refuse, store, TypeOK, LocalsTyped
  <1>3. CASE CheckReview(r) /\ ~Refuse(r)
    <2>1. PICK v \in reviews :
             /\ about' = [about EXCEPT ![r] = v.id]
             /\ pc' = [pc EXCEPT ![r] = "update"]
             /\ UNCHANGED <<store, todo, item, snap, excused>>
      BY <1>3 DEF CheckReview
    <2>2. v.id \in Creators
      BY DEF TypeOK, Row
    <2> QED
      BY <1>1, <2>1, <2>2 DEF TypeOK, OthersStay, store
  <1>4. CASE UpdateReview(r)
    <2>1. reviews' \subseteq Row
      BY <1>4, EditedRow DEF UpdateReview, TypeOK
    <2>2. ItemsReviewed(about[r]) \subseteq Items
      BY DEF ItemsReviewed, TypeOK, Row
    <2>3. CASE Finish(r)
      BY <1>1, <1>4, <2>1, <2>2, <2>3, Finished DEF UpdateReview, TypeOK, LocalsTyped, locals
    <2>4. CASE pc' = [pc EXCEPT ![r] = "reread"] /\ UNCHANGED <<locals, excused>>
      BY <1>1, <1>4, <2>1, <2>4 DEF UpdateReview, TypeOK, OthersStay, locals
    <2> QED
      BY <1>4, <2>3, <2>4 DEF UpdateReview
  <1>5. CASE ReadItems(r)
    <2>0. PICK v \in reviews :
             \E got \in SUBSET ItemsOf[v.order] :
                Refresh(r, got) /\ excused' = excused \cup (v.items \ got)
      BY <1>5 DEF ReadItems
    <2>1. PICK got \in SUBSET ItemsOf[v.order] :
             Refresh(r, got) /\ excused' = excused \cup (v.items \ got)
      BY <2>0
    <2>2. v.order \in Orders /\ v.items \subseteq Items
      BY DEF TypeOK, Row
    <2>3. got \in SUBSET Items
      BY <2>2, ReviewsAssumption
    <2>4. LocalsTyped' /\ OthersStay(r) /\ pc'[r] \in {"refresh", "done"}
      BY <1>1, <2>1, <2>3, Refreshing
    <2> QED
      BY <1>5, <2>1, <2>2, <2>4 DEF ReadItems, store, TypeOK, LocalsTyped
  <1> QED
    BY <1>2, <1>3, <1>4, <1>5

LEMMA LoopTyped ==
    ASSUME TypeOK, NEW r \in Writers,
           TakeSnapshot(r) \/ UpdateRating(r) \/ UpdateRatingFails(r) \/ Fail(r)
    PROVE  TypeOK' /\ OthersStay(r) /\ pc'[r] \in {"write", "refresh", "done"}
  <1> USE DEF Goto
  <1>1. r \in Requests
    BY DEF Writers, Requests
  <1>2. CASE TakeSnapshot(r)
    <2>1. PICK i \in todo[r] :
             /\ item' = [item EXCEPT ![r] = i] /\ snap' = [snap EXCEPT ![r] = Visible(i)]
      BY <1>2 DEF TakeSnapshot
    <2>2. i \in Items /\ Visible(i) \in SUBSET (Creators \X Ratings)
      BY VisibleType DEF TypeOK
    <2> QED
      BY <1>1, <1>2, <2>1, <2>2 DEF TakeSnapshot, TypeOK, OthersStay, store
  <1>3. CASE UpdateRating(r) \/ UpdateRatingFails(r)
    <2>1. item[r] \in Items /\ todo[r] \ {item[r]} \in SUBSET Items
      BY <1>3 DEF UpdateRating, UpdateRatingFails, TypeOK
    <2>2. Refresh(r, todo[r] \ {item[r]})
      BY <1>3 DEF UpdateRating, UpdateRatingFails
    <2>3. LocalsTyped' /\ OthersStay(r) /\ pc'[r] \in {"refresh", "done"}
      BY <2>1, <2>2, Refreshing
    <2>4. shown' \in [Items -> SUBSET (Creators \X Ratings)] /\ excused' \subseteq Items
      BY <1>3, <2>1 DEF UpdateRating, UpdateRatingFails, store, TypeOK
    <2> QED
      BY <1>3, <2>3, <2>4 DEF UpdateRating, UpdateRatingFails, store, TypeOK, LocalsTyped
  <1>4. CASE Fail(r)
    <2>1. Owed(r) \subseteq Items
      BY DEF Owed, ItemsReviewed, TypeOK, Row
    <2> QED
      BY <1>4, <2>1, Finished DEF Fail, store, TypeOK, LocalsTyped
  <1> QED
    BY <1>2, <1>3, <1>4

LEMMA HideTyped ==
    ASSUME TypeOK, NEW r \in Hiders, AdminHide(r)
    PROVE  TypeOK' /\ OthersStay(r) /\ pc'[r] = "done"
  <1>1. r \in Requests /\ r \notin Writers
    BY ReviewsAssumption DEF Requests
  <1>2. PICK v \in reviews, hidden \in BOOLEAN :
           /\ reviews' = (reviews \ {v}) \cup {[v EXCEPT !.hidden = hidden]}
           /\ excused' = IF hidden # v.hidden THEN excused \cup v.items ELSE excused
    BY DEF AdminHide
  <1>3. v.items \subseteq Items /\ [v EXCEPT !.hidden = hidden] \in Row
    BY HiddenRow DEF TypeOK, Row
  <1> QED
    BY <1>1, <1>2, <1>3 DEF AdminHide, Goto, TypeOK, OthersStay, locals

LEMMA StepTypeOK == ReviewInv /\ [Next]_vars => TypeOK'
  <1> SUFFICES ASSUME ReviewInv, [Next]_vars PROVE TypeOK'
    OBVIOUS
  <1>0. TypeOK /\ Stages
    BY DEF ReviewInv
  <1>1. CASE UNCHANGED vars
    BY <1>0, <1>1 DEF vars, TypeOK
  <1>2. ASSUME NEW o \in Orders, Deliver(o) PROVE TypeOK'
    BY <1>0, <1>2 DEF Deliver, locals, TypeOK
  <1>3. ASSUME NEW v \in reviews, EditingCloses(v) PROVE TypeOK'
    <2>1. v.id \in Creators
      BY <1>0 DEF TypeOK, Row
    <2> QED
      BY <1>0, <1>3, <2>1 DEF EditingCloses, locals, TypeOK
  <1> QED
    BY <1>0, <1>1, <1>2, <1>3, CreateTyped, UpdateTyped, LoopTyped, HideTyped DEF Next
-----------------------------------------------------------------------------
(* What a step does to the rows of reviews.                                 *)

\* The same reviews of the same orders with the same items; what is written in
\* them may differ.
RowsKept ==
    /\ \A w \in reviews' : \E v \in reviews :
          v.id = w.id /\ v.order = w.order /\ v.items = w.items
    /\ \A v \in reviews : \E w \in reviews' :
          v.id = w.id /\ v.order = w.order /\ v.items = w.items
    /\ \A v, w \in reviews' : v.id = w.id => v = w

LEMMA SameReviews == Stages /\ reviews' = reviews => RowsKept
  BY DEF Stages, RowsKept

LEMMA UpdateKeepsRows ==
    ASSUME TypeOK, Stages, NEW r \in Updaters, UpdateReview(r)
    PROVE  RowsKept
  <1>1. PICK rating \in Ratings :
           reviews' = {Edited(v, about[r], rating) : v \in reviews}
    BY DEF UpdateReview
  <1>2. \A v \in reviews : v \in Row
    BY DEF TypeOK
  <1>3. \A v \in reviews : /\ Edited(v, about[r], rating).id = v.id
                           /\ Edited(v, about[r], rating).order = v.order
                           /\ Edited(v, about[r], rating).items = v.items
    BY <1>2, EditedRow
  <1> QED
    BY <1>1, <1>3 DEF RowsKept, Stages

LEMMA HideKeepsRows ==
    ASSUME TypeOK, Stages, NEW r \in Hiders, AdminHide(r)
    PROVE  RowsKept
  <1>1. PICK v \in reviews, hidden \in BOOLEAN :
           reviews' = (reviews \ {v}) \cup {[v EXCEPT !.hidden = hidden]}
    BY DEF AdminHide
  <1> DEFINE w == [v EXCEPT !.hidden = hidden]
  <1>2. w.id = v.id /\ w.order = v.order /\ w.items = v.items
    BY HiddenRow DEF TypeOK
  <1> HIDE DEF w
  <1>3. reviews' = (reviews \ {v}) \cup {w}
    BY <1>1 DEF w
  <1>4. \A u \in reviews : u.id = v.id => u = v
    BY DEF Stages
  <1> QED
    BY <1>2, <1>3, <1>4 DEF RowsKept, Stages

\* Steps that write no review leave the rows alone; one step adds one.
LEMMA StepRows ==
    ASSUME TypeOK, Stages, [Next]_vars
    PROVE  RowsKept \/ \E r \in Creators : InsertReview(r) /\ ~Refuse(r)
  <1>1. CASE UNCHANGED vars
    BY <1>1, SameReviews DEF vars
  <1>2. ASSUME NEW r \in Creators, CheckOrder(r) \/ CheckDuplicate(r) \/ Refuse(r)
        PROVE  RowsKept
    BY <1>2, SameReviews DEF CheckOrder, CheckDuplicate, Refuse, store
  <1>3. ASSUME NEW r \in Updaters, CheckReview(r) \/ ReadItems(r)
        PROVE  RowsKept
    BY <1>3, SameReviews DEF CheckReview, ReadItems, Refuse, store
  <1>4. ASSUME NEW r \in Writers,
               TakeSnapshot(r) \/ UpdateRating(r) \/ UpdateRatingFails(r) \/ Fail(r)
        PROVE  RowsKept
    BY <1>4, SameReviews DEF TakeSnapshot, UpdateRating, UpdateRatingFails, Fail, store
  <1>5. ASSUME NEW o, Deliver(o) PROVE RowsKept
    BY <1>5, SameReviews DEF Deliver
  <1>6. ASSUME NEW v, EditingCloses(v) PROVE RowsKept
    BY <1>6, SameReviews DEF EditingCloses
  <1> QED
    BY <1>1, <1>2, <1>3, <1>4, <1>5, <1>6, UpdateKeepsRows, HideKeepsRows DEF Next

LEMMA Inserting ==
    ASSUME TypeOK, Stages, NEW r \in Creators, InsertReview(r), ~Refuse(r)
    PROVE  /\ pc[r] = "insert" /\ ~Reviewed(about[r])
           /\ \E rating \in Ratings : reviews' = reviews \cup {NewRow(r, rating)}
           /\ OthersStay(r) /\ pc'[r] \in {"refresh", "done"}
           /\ \A i \in todo[r] : i \in excused' \/ i \in Owed(r)'
           /\ excused \subseteq excused'
           /\ shown' = shown
  <1>1. /\ pc[r] = "insert" /\ ~Reviewed(about[r])
        /\ \E rating \in Ratings : reviews' = reviews \cup {NewRow(r, rating)}
        /\ \/ Refresh(r, todo[r]) /\ excused' = excused
           \/ Finish(r) /\ excused' = excused \cup todo[r]
        /\ shown' = shown
    BY DEF InsertReview
  <1>2. r \in Writers /\ todo[r] \in SUBSET Items
    BY DEF Writers, TypeOK
  <1>3. CASE Finish(r) /\ excused' = excused \cup todo[r]
    BY <1>1, <1>2, <1>3, Finished
  <1>4. CASE Refresh(r, todo[r]) /\ excused' = excused
    <2>1. OthersStay(r) /\ pc'[r] \in {"refresh", "done"}
      BY <1>2, <1>4, Refreshing
    <2>2. ASSUME NEW i \in todo[r] PROVE i \in Owed(r)'
      <3>1. pc'[r] = "refresh" /\ todo'[r] = todo[r]
        BY <1>2, <1>4, Refreshing
      <3> QED
        BY <3>1 DEF Owed
    <2> QED
      BY <1>1, <1>4, <2>1, <2>2
  <1> QED
    BY <1>1, <1>3, <1>4

LEMMA StepRowInv ==
    ASSUME TypeOK, Stages, OneReviewPerOrder, [Next]_vars
    PROVE  /\ OneReviewPerOrder'
           /\ \A v, w \in reviews' : v.id = w.id => v = w
  <1>1. CASE RowsKept
    BY <1>1 DEF RowsKept, OneReviewPerOrder
  <1>2. ASSUME NEW r \in Creators, InsertReview(r), ~Refuse(r)
        PROVE  /\ OneReviewPerOrder'
               /\ \A v, w \in reviews' : v.id = w.id => v = w
    <2>1. PICK rating \in Ratings : reviews' = reviews \cup {NewRow(r, rating)}
      BY <1>2, Inserting
    <2>2. pc[r] = "insert" /\ ~Reviewed(about[r])
      BY <1>2, Inserting
    <2>3. NewRow(r, rating).id = r /\ NewRow(r, rating).order = about[r]
      BY DEF NewRow
    <2>4. \A v \in reviews : v.id # r /\ v.order # about[r]
      BY <2>2 DEF Stages, Reviewed
    <2> QED
      BY <2>1, <2>3, <2>4 DEF OneReviewPerOrder, Stages
  <1> QED
    BY <1>1, <1>2, StepRows

\* How far the requests are.
Places ==
    /\ \A r \in Creators :
          /\ pc[r] \notin {"update", "reread"}
          /\ pc[r] \in {"duplicate", "insert"} => about[r] \in Orders
    /\ \A r \in Updaters : pc[r] \notin {"duplicate", "insert"}
    /\ \A r \in Hiders : pc[r] \in {"new", "done"}

\* A creator that has inserted its review never goes back.
Onwards == \A r \in Creators :
    pc[r] \notin {"new", "duplicate", "insert"} => pc'[r] \notin {"new", "duplicate", "insert"}

LEMMA StepPlaces == ReviewInv /\ [Next]_vars => Places' /\ Onwards
  <1> SUFFICES ASSUME ReviewInv, [Next]_vars PROVE Places' /\ Onwards
    OBVIOUS
  <1>0. TypeOK /\ Stages /\ Places
    BY DEF ReviewInv, Stages, Places
  <1>1. CASE UNCHANGED <<pc, about>>
    BY <1>0, <1>1 DEF Places, Onwards
  <1>2. ASSUME NEW r \in Creators, OthersStay(r),
               pc'[r] \notin {"update", "reread", "new"},
               pc'[r] \in {"duplicate", "insert"} => about'[r] \in Orders,
               pc[r] \in {"new", "duplicate", "insert"}
        PROVE  Places' /\ Onwards
    <2>1. \A q \in Creators \ {r} : pc'[q] = pc[q] /\ about'[q] = about[q]
      BY <1>2 DEF OthersStay, Requests, Writers
    <2>2. \A q \in Updaters \cup Hiders : pc'[q] = pc[q]
      BY <1>2, ReviewsAssumption DEF OthersStay, Requests, Writers
    <2> QED
      BY <1>0, <1>2, <2>1, <2>2 DEF Places, Onwards
  <1>3. ASSUME NEW r \in Updaters, OthersStay(r), pc'[r] \notin {"duplicate", "insert", "new"}
        PROVE  Places' /\ Onwards
    <2>1. \A q \in Creators : pc'[q] = pc[q] /\ about'[q] = about[q]
      BY <1>3, ReviewsAssumption DEF OthersStay, Requests, Writers
    <2>2. \A q \in Updaters \ {r} : pc'[q] = pc[q]
      BY <1>3 DEF OthersStay, Requests, Writers
    <2>3. \A q \in Hiders : pc'[q] = pc[q]
      BY <1>3, ReviewsAssumption DEF OthersStay, Requests, Writers
    <2> QED
      BY <1>0, <1>3, <2>1, <2>2, <2>3 DEF Places, Onwards
  <1>4. ASSUME NEW r \in Writers, OthersStay(r), pc'[r] \in {"write", "refresh", "done"}
        PROVE  Places' /\ Onwards
    <2>1. \A q \in Writers \ {r} : pc'[q] = pc[q] /\ about'[q] = about[q]
      BY <1>4, WhoWrites DEF OthersStay
    <2>2. \A q \in Hiders : pc'[q] = pc[q]
      BY <1>4, ReviewsAssumption DEF OthersStay, Requests, Writers
    <2> QED
      BY <1>0, <1>4, <2>1, <2>2 DEF Places, Onwards, Writers
  <1>5. ASSUME NEW r \in Hiders, OthersStay(r), pc'[r] = "done"
        PROVE  Places' /\ Onwards
    <2>1. \A q \in Writers : pc'[q] = pc[q] /\ about'[q] = about[q]
      BY <1>5, WhoWrites DEF OthersStay
    <2>2. \A q \in Hiders \ {r} : pc'[q] = pc[q]
      BY <1>5 DEF OthersStay, Requests
    <2> QED
      BY <1>0, <1>5, <2>1, <2>2 DEF Places, Onwards, Writers
  <1>6. ASSUME NEW r \in Creators, CheckOrder(r) \/ CheckDuplicate(r) \/ InsertReview(r)
        PROVE  Places' /\ Onwards
    <2>1. pc[r] \in {"new", "duplicate", "insert"}
      BY <1>6 DEF CheckOrder, CheckDuplicate, InsertReview
    <2> QED
      BY <1>0, <1>2, <1>6, <2>1, CreateTyped
  <1>7. ASSUME NEW r \in Updaters, CheckReview(r) \/ UpdateReview(r) \/ ReadItems(r)
        PROVE  Places' /\ Onwards
    BY <1>0, <1>3, <1>7, UpdateTyped
  <1>8. ASSUME NEW r \in Writers,
               TakeSnapshot(r) \/ UpdateRating(r) \/ UpdateRatingFails(r) \/ Fail(r)
        PROVE  Places' /\ Onwards
    BY <1>0, <1>4, <1>8, LoopTyped
  <1>9. ASSUME NEW r \in Hiders, AdminHide(r) PROVE Places' /\ Onwards
    BY <1>0, <1>5, <1>9, HideTyped
  <1>10. CASE \/ UNCHANGED vars
              \/ \E o \in Orders : Deliver(o)
              \/ \E v \in reviews : EditingCloses(v)
    BY <1>1, <1>10 DEF vars, locals, Deliver, EditingCloses
  <1> QED
    BY <1>6, <1>7, <1>8, <1>9, <1>10 DEF Next

LEMMA StepStages == ReviewInv /\ [Next]_vars => Stages'
  <1> SUFFICES ASSUME ReviewInv, [Next]_vars PROVE Stages'
    OBVIOUS
  <1>0. TypeOK /\ Stages /\ OneReviewPerOrder
    BY DEF ReviewInv
  <1>1. Places' /\ Onwards
    BY StepPlaces
  <1>2. \A v, w \in reviews' : v.id = w.id => v = w
    BY <1>0, StepRowInv
  <1>3. \A v \in reviews : v.id \in Creators
    BY <1>0 DEF TypeOK, Row
  <1>4. \A v \in reviews' : pc'[v.id] \notin {"new", "duplicate", "insert"}
    <2>1. CASE RowsKept
      BY <1>0, <1>1, <1>3, <2>1 DEF RowsKept, Stages, Onwards
    <2>2. ASSUME NEW r \in Creators, InsertReview(r), ~Refuse(r)
          PROVE  \A v \in reviews' : pc'[v.id] \notin {"new", "duplicate", "insert"}
      <3>1. PICK rating \in Ratings : reviews' = reviews \cup {NewRow(r, rating)}
        BY <1>0, <2>2, Inserting
      <3>2. pc'[r] \in {"refresh", "done"} /\ NewRow(r, rating).id = r
        BY <1>0, <2>2, Inserting DEF NewRow
      <3> QED
        BY <1>0, <1>1, <1>3, <3>1, <3>2 DEF Stages, Onwards
    <2> QED
      BY <1>0, <2>1, <2>2, StepRows
  <1> QED
    BY <1>1, <1>2, <1>4 DEF Places, Stages
-----------------------------------------------------------------------------
(* Every change of the visible reviews is paid for.                         *)

Explained(i) == \/ shown[i] = Visible(i)
                \/ i \in excused
                \/ \E r \in Writers : i \in Owed(r)

\* A step explains item i again, or touches neither its rating nor its excuses.
Untouched(r, i) ==
    /\ shown[i] = Visible(i) => shown'[i] = Visible(i)'
    /\ i \in excused => i \in excused'
    /\ r \in Writers /\ i \in Owed(r) => i \in Owed(r)'

\* What the other requests owe they still owe.
LEMMA OthersOwe ==
    ASSUME NEW r \in Requests, OthersStay(r), NEW q \in Writers, q # r,
           \A id : ItemsReviewed(id) \subseteq ItemsReviewed(id)',
           NEW i \in Owed(q)
    PROVE  i \in Owed(q)'
  <1>1. pc'[q] = pc[q] /\ about'[q] = about[q] /\ todo'[q] = todo[q]
    BY WhoWrites DEF OthersStay
  <1>2. CASE pc[q] = "reread"
    <2>1. i \in ItemsReviewed(about[q])
      BY <1>2 DEF Owed
    <2>2. i \in ItemsReviewed(about[q])'
      BY <1>1, <2>1 DEF ItemsReviewed
    <2> QED
      BY <1>1, <1>2, <2>2 DEF Owed
  <1>3. CASE pc[q] \in {"refresh", "write"}
    BY <1>1, <1>3 DEF Owed
  <1> QED
    BY <1>2, <1>3 DEF Owed

LEMMA StillExplained ==
    ASSUME RatingsExplained, NEW r \in Requests, OthersStay(r),
           \A id : ItemsReviewed(id) \subseteq ItemsReviewed(id)',
           \A i \in Items : Explained(i)' \/ Untouched(r, i)
    PROVE  RatingsExplained'
  <1> SUFFICES ASSUME NEW i \in Items PROVE Explained(i)'
    BY DEF RatingsExplained, Explained
  <1> SUFFICES ASSUME Untouched(r, i) PROVE Explained(i)'
    OBVIOUS
  <1>1. CASE shown[i] = Visible(i) \/ i \in excused
    BY <1>1 DEF Untouched, Explained
  <1>2. ASSUME NEW q \in Writers, i \in Owed(q) PROVE Explained(i)'
    <2>1. CASE q = r
      BY <1>2, <2>1 DEF Untouched, Explained
    <2>2. CASE q # r
      BY <1>2, <2>2, OthersOwe DEF Explained
    <2> QED
      BY <2>1, <2>2
  <1> QED
    BY <1>1, <1>2 DEF RatingsExplained

\* Reviews come and change; their items stay.
LEMMA ItemsStay ==
    RowsKept => \A id : ItemsReviewed(id)' = ItemsReviewed(id)
  <1> SUFFICES ASSUME RowsKept, NEW id PROVE ItemsReviewed(id)' = ItemsReviewed(id)
    OBVIOUS
  <1>1. ASSUME NEW i \in ItemsReviewed(id) PROVE i \in ItemsReviewed(id)'
    <2>1. PICK v \in reviews : v.id = id /\ i \in v.items
      BY <1>1 DEF ItemsReviewed
    <2>2. PICK w \in reviews' : w.id = id /\ i \in w.items
      BY <2>1 DEF RowsKept
    <2> QED
      BY <2>2 DEF ItemsReviewed
  <1>2. ASSUME NEW i \in ItemsReviewed(id)' PROVE i \in ItemsReviewed(id)
    <2>1. PICK w \in reviews' : w.id = id /\ i \in w.items
      BY <1>2 DEF ItemsReviewed
    <2>2. PICK v \in reviews : v.id = id /\ i \in v.items
      BY <2>1 DEF RowsKept
    <2> QED
      BY <2>2 DEF ItemsReviewed
  <1> QED
    BY <1>1, <1>2

\* Steps of r that write neither reviews nor ratings.
LEMMA ReadingExplained ==
    ASSUME RatingsExplained, NEW r \in Requests, OthersStay(r),
           reviews' = reviews, shown' = shown, excused \subseteq excused',
           r \in Writers => \A i \in Owed(r) : i \in excused' \/ i \in Owed(r)'
    PROVE  RatingsExplained'
  <1>1. \A id : ItemsReviewed(id) \subseteq ItemsReviewed(id)'
    BY DEF ItemsReviewed
  <1>2. \A i : Visible(i)' = Visible(i)
    BY DEF Visible
  <1>3. \A i \in Items : Explained(i)' \/ Untouched(r, i)
    BY <1>2 DEF Explained, Untouched
  <1> QED
    BY <1>1, <1>3, StillExplained

LEMMA NothingOwed ==
    ASSUME NEW r, pc[r] \in {"new", "duplicate", "insert", "update", "done"}
    PROVE  Owed(r) = {}
  BY DEF Owed

LEMMA CreateExplained ==
    ASSUME TypeOK, Stages, RatingsExplained, NEW r \in Creators,
           CheckOrder(r) \/ CheckDuplicate(r) \/ InsertReview(r)
    PROVE  RatingsExplained'
  <1>1. r \in Requests /\ r \in Writers /\ OthersStay(r)
    BY CreateTyped, WhoWrites
  <1>2. Owed(r) = {}
    BY NothingOwed DEF CheckOrder, CheckDuplicate, InsertReview
  <1>3. CASE CheckOrder(r) \/ CheckDuplicate(r) \/ Refuse(r)
    <2>1. reviews' = reviews /\ shown' = shown /\ excused' = excused
      BY <1>3 DEF CheckOrder, CheckDuplicate, Refuse, store
    <2> QED
      BY <1>1, <1>2, <2>1, ReadingExplained
  <1>4. CASE InsertReview(r) /\ ~Refuse(r)
    <2>1. PICK rating \in Ratings : reviews' = reviews \cup {NewRow(r, rating)}
      BY <1>4, Inserting
    <2>2. \A id : ItemsReviewed(id) \subseteq ItemsReviewed(id)'
      BY <2>1 DEF ItemsReviewed
    <2>3. \A i \in todo[r] : i \in excused' \/ i \in Owed(r)'
      BY <1>4, Inserting
    <2>4. excused \subseteq excused' /\ shown' = shown
      BY <1>4, Inserting
    <2>5. NewRow(r, rating).items = todo[r]
      BY DEF NewRow
    <2>6. ASSUME NEW i \in Items, i \notin todo[r] PROVE Visible(i)' = Visible(i)
      <3>1. {w \in reviews' : i \in w.items /\ ~w.hidden} = {w \in reviews : i \in w.items /\ ~w.hidden}
        BY <2>1, <2>5, <2>6
      <3> QED
        BY <3>1 DEF Visible
    <2>7. \A i \in Items : Explained(i)' \/ Untouched(r, i)
      BY <1>1, <1>2, <2>3, <2>4, <2>6 DEF Explained, Untouched
    <2> QED
      BY <1>1, <2>2, <2>7, StillExplained
  <1> QED
    BY <1>3, <1>4

LEMMA EditExplained ==
    ASSUME TypeOK, Stages, RatingsExplained, NEW r \in Updaters, UpdateReview(r)
    PROVE  RatingsExplained'
  <1>1. r \in Requests /\ r \in Writers /\ OthersStay(r)
    BY UpdateTyped, WhoWrites
  <1>2. Owed(r) = {}
    BY NothingOwed DEF UpdateReview
  <1>3. PICK rating \in Ratings :
           reviews' = {Edited(v, about[r], rating) : v \in reviews}
    BY DEF UpdateReview
  <1>4. \A id : ItemsReviewed(id)' = ItemsReviewed(id)
    BY UpdateKeepsRows, ItemsStay
  <1>5. shown' = shown /\ excused \subseteq excused'
    BY DEF UpdateReview
  <1>6. \A i \in ItemsReviewed(about[r]) : i \in excused' \/ i \in Owed(r)'
    <2>1. CASE Finish(r) /\ excused' = excused \cup ItemsReviewed(about[r])
      BY <2>1
    <2>2. CASE pc' = [pc EXCEPT ![r] = "reread"] /\ UNCHANGED <<locals, excused>>
      <3>1. pc'[r] = "reread" /\ about'[r] = about[r]
        BY <1>1, <2>2 DEF TypeOK, locals
      <3>2. ItemsReviewed(about[r])' = ItemsReviewed(about[r])
        BY <1>4, <3>1 DEF ItemsReviewed
      <3> QED
        BY <3>1, <3>2 DEF Owed
    <2> QED
      BY <2>1, <2>2 DEF UpdateReview, Goto
  <1>7. ASSUME NEW i \in Items, i \notin ItemsReviewed(about[r])
        PROVE  Visible(i)' = Visible(i)
    <2> DEFINE Of(S) == {w \in S : i \in w.items /\ ~w.hidden}
    <2>1. \A v \in reviews : i \in v.items => v.id # about[r]
      BY <1>7 DEF ItemsReviewed
    <2>2. \A v \in reviews : i \in v.items => Edited(v, about[r], rating) = v
      BY <2>1 DEF Edited
    <2>3. \A v \in reviews : Edited(v, about[r], rating).items = v.items
      BY EditedRow DEF TypeOK
    <2>4. Of(reviews') = Of(reviews)
      <3>1. ASSUME NEW w \in Of(reviews) PROVE w \in Of(reviews')
        BY <1>3, <2>2, <3>1
      <3>2. ASSUME NEW w \in Of(reviews') PROVE w \in Of(reviews)
        <4>1. PICK v \in reviews : w = Edited(v, about[r], rating)
          BY <1>3, <3>2
        <4>2. i \in v.items
          BY <2>3, <3>2, <4>1
        <4> QED
          BY <2>2, <3>2, <4>1, <4>2
      <3> QED
        BY <3>1, <3>2
    <2> QED
      BY <2>4 DEF Visible
  <1>8. \A i \in Items : Explained(i)' \/ Untouched(r, i)
    BY <1>1, <1>2, <1>5, <1>6, <1>7 DEF Explained, Untouched
  <1> QED
    BY <1>1, <1>4, <1>8, StillExplained

LEMMA RereadExplained ==
    ASSUME TypeOK, Stages, RatingsExplained, NEW r \in Updaters, ReadItems(r)
    PROVE  RatingsExplained'
  <1>1. r \in Requests /\ r \in Writers /\ OthersStay(r)
    BY UpdateTyped, WhoWrites
  <1>2. PICK v \in reviews :
           /\ v.id = about[r]
           /\ \E got \in SUBSET ItemsOf[v.order] :
                 Refresh(r, got) /\ excused' = excused \cup (v.items \ got)
    BY DEF ReadItems
  <1>3. PICK got \in SUBSET ItemsOf[v.order] :
           Refresh(r, got) /\ excused' = excused \cup (v.items \ got)
    BY <1>2
  <1>4. got \in SUBSET Items
    BY ReviewsAssumption DEF TypeOK, Row
  <1>5. pc[r] = "reread" /\ reviews' = reviews /\ shown' = shown
    BY DEF ReadItems, store
  <1>6. Owed(r) \subseteq v.items
    BY <1>2, <1>5 DEF Owed, ItemsReviewed, Stages
  <1>7. \A i \in got : i \in Owed(r)'
    BY <1>1, <1>3, <1>4, Refreshing DEF Owed
  <1> QED
    BY <1>1, <1>3, <1>5, <1>6, <1>7, ReadingExplained

LEMMA LoopExplained ==
    ASSUME TypeOK, Stages, RatingsExplained, NEW r \in Writers,
           TakeSnapshot(r) \/ UpdateRating(r) \/ UpdateRatingFails(r) \/ Fail(r)
    PROVE  RatingsExplained'
  <1>1. r \in Requests /\ OthersStay(r)
    BY LoopTyped, WhoWrites
  <1>2. CASE TakeSnapshot(r)
    <2>1. pc[r] = "refresh" /\ pc'[r] = "write" /\ todo'[r] = todo[r]
      BY <1>1, <1>2 DEF TakeSnapshot, Goto, TypeOK
    <2>2. reviews' = reviews /\ shown' = shown /\ excused' = excused
      BY <1>2 DEF TakeSnapshot, store
    <2>3. Owed(r)' = Owed(r)
      BY <2>1 DEF Owed
    <2> QED
      BY <1>1, <2>2, <2>3, ReadingExplained
  <1>3. ASSUME pc[r] = "write", Refresh(r, todo[r] \ {item[r]}),
               NEW i \in Owed(r), i # item[r]
        PROVE  i \in Owed(r)'
    <2>1. todo[r] \ {item[r]} \in SUBSET Items /\ i \in todo[r] \ {item[r]}
      BY <1>3 DEF TypeOK, Owed
    <2>2. pc'[r] = "refresh" /\ todo'[r] = todo[r] \ {item[r]}
      BY <1>3, <2>1, Refreshing
    <2> QED
      BY <2>1, <2>2 DEF Owed
  <1>4. CASE UpdateRating(r)
    <2>1. /\ pc[r] = "write" /\ Refresh(r, todo[r] \ {item[r]})
          /\ shown' = [shown EXCEPT ![item[r]] = snap[r]]
          /\ excused' = IF snap[r] = Visible(item[r]) THEN excused \ {item[r]}
                                                      ELSE excused \cup {item[r]}
          /\ reviews' = reviews
      BY <1>4 DEF UpdateRating
    <2>2. \A id : ItemsReviewed(id) \subseteq ItemsReviewed(id)'
      BY <2>1 DEF ItemsReviewed
    <2>3. \A i : Visible(i)' = Visible(i)
      BY <2>1 DEF Visible
    <2>4. PICK j \in Items : j = item[r]
      BY <2>1 DEF TypeOK
    <2>5. Explained(j)'
      <3>1. CASE snap[r] = Visible(j)
        <4>1. shown'[j] = Visible(j)
          BY <2>1, <2>4, <3>1 DEF TypeOK
        <4> QED
          BY <2>3, <4>1 DEF Explained
      <3>2. CASE snap[r] # Visible(j)
        BY <2>1, <2>4, <3>2 DEF Explained
      <3> QED
        BY <3>1, <3>2
    <2>6. ASSUME NEW i \in Items, i # j PROVE Untouched(r, i)
      <3>1. shown'[i] = shown[i] /\ (i \in excused => i \in excused')
        BY <2>1, <2>4, <2>6 DEF TypeOK
      <3>2. i \in Owed(r) => i \in Owed(r)'
        BY <1>3, <2>1, <2>4, <2>6
      <3> QED
        BY <2>3, <3>1, <3>2 DEF Untouched
    <2> QED
      BY <1>1, <2>2, <2>5, <2>6, StillExplained
  <1>5. CASE UpdateRatingFails(r)
    <2>1. /\ pc[r] = "write" /\ Refresh(r, todo[r] \ {item[r]})
          /\ excused' = excused \cup {item[r]}
          /\ reviews' = reviews /\ shown' = shown
      BY <1>5 DEF UpdateRatingFails, store
    <2>2. \A i \in Owed(r) : i \in excused' \/ i \in Owed(r)'
      BY <1>3, <2>1
    <2> QED
      BY <1>1, <2>1, <2>2, ReadingExplained
  <1>6. CASE Fail(r)
    <2>1. reviews' = reviews /\ shown' = shown /\ excused' = excused \cup Owed(r)
      BY <1>6 DEF Fail, store
    <2> QED
      BY <1>1, <2>1, ReadingExplained
  <1> QED
    BY <1>2, <1>4, <1>5, <1>6

LEMMA HideExplained ==
    ASSUME TypeOK, Stages, RatingsExplained, NEW r \in Hiders, AdminHide(r)
    PROVE  RatingsExplained'
  <1>1. r \in Requests /\ r \notin Writers /\ OthersStay(r)
    BY HideTyped, WhoWrites
  <1>2. PICK v \in reviews, hidden \in BOOLEAN :
           /\ reviews' = (reviews \ {v}) \cup {[v EXCEPT !.hidden = hidden]}
           /\ excused' = IF hidden # v.hidden THEN excused \cup v.items ELSE excused
    BY DEF AdminHide
  <1> DEFINE w == [v EXCEPT !.hidden = hidden]
  <1>3. w.items = v.items /\ (hidden = v.hidden => w = v)
    BY HiddenRow DEF TypeOK
  <1>4. shown' = shown /\ reviews' = (reviews \ {v}) \cup {w}
    BY <1>2 DEF AdminHide
  <1> HIDE DEF w
  <1>5. \A id : ItemsReviewed(id)' = ItemsReviewed(id)
    BY HideKeepsRows, ItemsStay
  <1>6. CASE hidden = v.hidden
    <2>1. reviews' = reviews /\ excused' = excused
      BY <1>2, <1>3, <1>4, <1>6
    <2> QED
      BY <1>1, <1>4, <2>1, ReadingExplained
  <1>7. CASE hidden # v.hidden
    <2>1. excused' = excused \cup v.items
      BY <1>2, <1>7
    <2>2. ASSUME NEW i \in Items, i \notin v.items PROVE Visible(i)' = Visible(i)
      <3>1. {u \in reviews' : i \in u.items /\ ~u.hidden} = {u \in reviews : i \in u.items /\ ~u.hidden}
        BY <1>3, <1>4, <2>2
      <3> QED
        BY <3>1 DEF Visible
    <2>3. \A i \in Items : Explained(i)' \/ Untouched(r, i)
      BY <1>1, <1>4, <2>1, <2>2 DEF Explained, Untouched
    <2> QED
      BY <1>1, <1>5, <2>3, StillExplained
  <1> QED
    BY <1>6, <1>7

LEMMA StepExplained == ReviewInv /\ [Next]_vars => RatingsExplained'
  <1> SUFFICES ASSUME ReviewInv, [Next]_vars PROVE RatingsExplained'
    OBVIOUS
  <1>0. TypeOK /\ Stages /\ RatingsExplained
    BY DEF ReviewInv
  <1>1. CASE UNCHANGED <<reviews, shown, excused, pc, locals>>
    <2>1. \A i : Visible(i)' = Visible(i)
      BY <1>1 DEF Visible
    <2>2. \A r : Owed(r)' = Owed(r)
      BY <1>1 DEF Owed, ItemsReviewed, locals
    <2> QED
      BY <1>0, <1>1, <2>1, <2>2 DEF RatingsExplained
  <1>2. CASE \/ UNCHANGED vars
             \/ \E o \in Orders : Deliver(o)
             \/ \E v \in reviews : EditingCloses(v)
    BY <1>1, <1>2 DEF vars, locals, Deliver, EditingCloses
  <1>3. ASSUME NEW r \in Updaters, CheckReview(r) PROVE RatingsExplained'
    <2>1. r \in Requests /\ OthersStay(r)
      BY <1>0, <1>3, UpdateTyped, WhoWrites
    <2>2. Owed(r) = {}
      BY <1>3, NothingOwed DEF CheckReview
    <2>3. reviews' = reviews /\ shown' = shown /\ excused' = excused
      BY <1>3 DEF CheckReview, Refuse, store
    <2> QED
      BY <1>0, <2>1, <2>2, <2>3, ReadingExplained
  <1> QED
    BY <1>0, <1>2, <1>3, CreateExplained, EditExplained, RereadExplained,
       LoopExplained, HideExplained DEF Next

LEMMA StepReviewInv == ReviewInv /\ [Next]_vars => ReviewInv'
  BY StepTypeOK, StepStages, StepRowInv, StepExplained DEF ReviewInv

LEMMA ReviewInvariant == Spec => []ReviewInv
  BY InitReviewInv, StepReviewInv, PTL DEF Spec
-----------------------------------------------------------------------------
(* The theorems.                                                            *)

\* Two submissions for the same order leave one review, whatever they read
\* before they wrote (ReviewService.Create and UNIQUE (order_id)).
THEOREM OneReview == Spec => []OneReviewPerOrder
  <1>1. ReviewInv => OneReviewPerOrder
    BY DEF ReviewInv
  <1> QED
    BY <1>1, ReviewInvariant, PTL

\* The rating of an item counts exactly its visible reviews, or some request
\* still owes it a recomputation, or one was lost or overtaken: there is no
\* other way for menu_items to be wrong (UpdateRating, whose error is ignored).
THEOREM RatingsAreExplained == Spec => []RatingsExplained
  <1>1. ReviewInv => RatingsExplained
    BY DEF ReviewInv
  <1> QED
    BY <1>1, ReviewInvariant, PTL
=============================================================================
