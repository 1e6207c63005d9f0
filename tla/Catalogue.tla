------------------------------ MODULE Catalogue -----------------------------
(* Admin edits of a menu item step by step (internal/http/handler/menu.go,  *)
(* internal/repo/menu.go), in front of the menu cache they have to bust.    *)
(*                                                                          *)
(* PATCH /admin/menu/items/{id} reads the item, lays the fields of the body *)
(* over it and writes seven columns back, sent or not; is_available and     *)
(* is_active have requests of their own.  image_url stands for the seven.   *)
EXTENDS MenuCache

CONSTANTS
    Images,      \* values of image_url
    Nothing      \* no image, no field in the body, no item read

ASSUME CatalogueAssumption == Nothing \notin Images

VARIABLES
    item,        \* a row of menu_items
    draft        \* per editor: the row it will write back, and whether the body
                 \* named the column and another edit wrote it since it was read

mvars == <<vars, item, draft>>

Values == Images \cup {Nothing}
NoDraft == [image_url |-> Nothing, sent |-> FALSE, raced |-> FALSE, open |-> FALSE]
Open(e) == draft[e].open

CatalogueTypeOK ==
    /\ TypeOK
    /\ item \in [image_url : Values, is_available : BOOLEAN, is_active : BOOLEAN]
    /\ draft \in [Editors -> [image_url : Values, sent : BOOLEAN,
                              raced : BOOLEAN, open : BOOLEAN]]
    /\ \A e \in Editors : Open(e) => pc[e] = "idle"
    /\ \A e \in Editors : ~Open(e) => draft[e] = NoDraft

CatalogueInit ==
    /\ Init
    /\ item = [image_url |-> Nothing, is_available |-> TRUE, is_active |-> TRUE]
    /\ draft = [e \in Editors |-> NoDraft]

\* Defect: a field the body leaves out is written as its zero value.
ReadItem_Clobbers(e) ==
    /\ pc[e] = "idle" /\ ~Open(e)
    /\ item.is_active
    /\ \E v \in Values : draft' = [draft EXCEPT ![e] =
          [image_url |-> v, sent |-> v # Nothing, raced |-> FALSE, open |-> TRUE]]
    /\ UNCHANGED <<vars, item>>

\* GetItem finds items that are not deleted; what the body leaves out keeps the
\* value that was read.
ReadItem(e) ==
    /\ pc[e] = "idle" /\ ~Open(e)
    /\ item.is_active
    /\ \E v \in Values : draft' = [draft EXCEPT ![e] =
          [image_url |-> IF v = Nothing THEN item.image_url ELSE v,
           sent |-> v # Nothing, raced |-> FALSE, open |-> TRUE]]
    /\ UNCHANGED <<vars, item>>

\* UpdateItem: WHERE id = $8 and nothing else, so a deleted item is written too.
WriteItem(e) ==
    /\ Open(e)
    /\ Edit(e)
    /\ item' = [item EXCEPT !.image_url = draft[e].image_url]
    /\ draft' = [a \in Editors |->
          IF a = e THEN NoDraft ELSE [draft[a] EXCEPT !.raced = Open(a)]]

\* The body is refused, or the UPDATE fails.
DropDraft(e) ==
    /\ Open(e)
    /\ draft' = [draft EXCEPT ![e] = NoDraft]
    /\ UNCHANGED <<vars, item>>

SetAvailability(e) ==
    /\ ~Open(e)
    /\ Edit(e)
    /\ \E available \in BOOLEAN : item' = [item EXCEPT !.is_available = available]
    /\ UNCHANGED draft

SoftDeleteItem(e) ==
    /\ ~Open(e)
    /\ Edit(e)
    /\ item' = [item EXCEPT !.is_active = FALSE]
    /\ UNCHANGED draft

\* CreateItem, CreateCategory, UpdateCategory: other rows of the menu.
EditOtherRow(e) ==
    /\ ~Open(e)
    /\ Edit(e)
    /\ UNCHANGED <<item, draft>>

\* The steps of the cache, which leave the row alone.
CacheStep ==
    /\ \/ \E r \in Readers : \/ ServeCached(r) \/ Miss(r) \/ Fetch(r)
                             \/ FetchFails(r) \/ Store(r)
       \/ \E e \in Editors : BustCache(e)
       \/ UpdateRating \/ Tick
    /\ UNCHANGED <<item, draft>>

CatalogueNext ==
    \/ \E e \in Editors :
          \/ ReadItem(e) \/ WriteItem(e) \/ DropDraft(e)
          \/ SetAvailability(e) \/ SoftDeleteItem(e) \/ EditOtherRow(e)
    \/ CacheStep

CatalogueSpec == CatalogueInit /\ [][CatalogueNext]_mvars
-----------------------------------------------------------------------------
\* "A partial update must not clobber fields the client didn't send": a PATCH
\* changes a column its body does not name only if another edit wrote it since
\* it was read, and never revives or re-enables an item, whatever was changed
\* between its read and its write.
OnlyNamedColumnsChange == [][\A e \in Editors : Open(e) /\ ~Open(e)' =>
    /\ item'.is_available = item.is_available
    /\ item'.is_active = item.is_active
    /\ item'.image_url = item.image_url \/ draft[e].sent \/ draft[e].raced]_mvars
=============================================================================
