------------------------------ MODULE MenuCache -----------------------------
(* The in-memory menu cache of MenuService (internal/service/menu.go).      *)
(*                                                                          *)
(* GetMenu answers from the cache until expiresAt; otherwise it queries the *)
(* database without holding the mutex and stores what it got for 60 s.  An  *)
(* admin edit writes the database and then busts the cache, so a fill that  *)
(* was under way stores a menu from before the edit after the bust.         *)
(*                                                                          *)
(* Menus are told apart by one number, the ticks for which they have been   *)
(* different from what the database holds.                                  *)
EXTENDS Integers

CONSTANTS
    Readers,     \* GET /menu requests, served again and again
    Editors,     \* admin requests that edit the menu
    TTL,         \* ticks a stored menu is served (60 s)
    FetchLimit   \* ticks a menu query may take (the router's Timeout, 30 s)

ASSUME MenuCacheAssumption ==
    /\ TTL \in Nat \ {0} /\ FetchLimit \in Nat
    /\ Readers \cap Editors = {}

Right == -1                 \* the age of the menu the database holds
Bound == TTL + FetchLimit
Ages  == Right .. Bound     \* saturating at Bound

VARIABLES
    cached,      \* the age of cache.data
    ttl,         \* ticks until cache.expiresAt
    pc,          \* per request
    got,         \* age of the menu a reader has fetched
    fetching,    \* ticks since the reader sent its query, 0 when it has none
    served,      \* age of a menu at the moment it was served
    cause        \* why cache.data may be wrong: it was so when it was stored,
                 \* or the database changed and no bust followed

vars == <<cached, ttl, pc, got, fetching, served, cause>>

TypeOK ==
    /\ cached \in Ages /\ ttl \in 0 .. TTL
    /\ pc \in [Readers \cup Editors -> {"idle", "query", "store", "bust"}]
    /\ got \in [Readers -> Ages]
    /\ fetching \in [Readers -> 0 .. FetchLimit]
    /\ served \in [Readers -> Ages]
    /\ cause \in {"none", "fill", "unbusted"}

\* expiresAt is the zero time when the process starts.
Init ==
    /\ cached = Right /\ ttl = 0
    /\ pc = [r \in Readers \cup Editors |-> "idle"]
    /\ got = [r \in Readers |-> Right]
    /\ fetching = [r \in Readers |-> 0]
    /\ served = [r \in Readers |-> Right]
    /\ cause = "none"

Goto(r, l) == pc' = [pc EXCEPT ![r] = l]

\* Defect: every hit prolongs the entry.
ServeCached_Sliding(r) ==
    /\ pc[r] = "idle" /\ ttl > 0
    /\ served' = [served EXCEPT ![r] = cached]
    /\ ttl' = TTL
    /\ UNCHANGED <<cached, pc, got, fetching, cause>>

\* time.Now().Before(expiresAt).
ServeCached(r) ==
    /\ pc[r] = "idle" /\ ttl > 0
    /\ served' = [served EXCEPT ![r] = cached]
    /\ UNCHANGED <<cached, ttl, pc, got, fetching, cause>>

\* The mutex is released before the query is sent.
Miss(r) ==
    /\ pc[r] = "idle" /\ ttl = 0
    /\ Goto(r, "query")
    /\ UNCHANGED <<cached, ttl, got, fetching, served, cause>>

\* GetFullMenu is one query with one snapshot.  rows.Err() is not looked at, so
\* a result that breaks off is returned as if it were the whole menu.
Fetch(r) ==
    /\ pc[r] = "query"
    /\ \E age \in {Right, 0} : got' = [got EXCEPT ![r] = age]
    /\ Goto(r, "store")
    /\ UNCHANGED <<cached, ttl, fetching, served, cause>>

\* The query itself fails, or is cancelled: the request ends with an error.
FetchFails(r) ==
    /\ pc[r] = "query"
    /\ Goto(r, "idle")
    /\ fetching' = [fetching EXCEPT ![r] = 0]
    /\ UNCHANGED <<cached, ttl, got, served, cause>>

Store(r) ==
    /\ pc[r] = "store"
    /\ cached' = got[r] /\ ttl' = TTL
    /\ served' = [served EXCEPT ![r] = got[r]]
    /\ cause' = IF got[r] = Right THEN "none" ELSE "fill"
    /\ got' = [got EXCEPT ![r] = Right]
    /\ fetching' = [fetching EXCEPT ![r] = 0]
    /\ Goto(r, "idle")

\* The database changes: the menus that were right no longer are.
Outdated(age) == IF age = Right THEN 0 ELSE age
DatabaseChanges ==
    /\ cached' = Outdated(cached)
    /\ got' = [r \in Readers |-> Outdated(got[r])]

\* An edit whose answer arrives is followed by the bust; one that is written but
\* answered with an error is not.
Edit(e) ==
    /\ pc[e] = "idle"
    /\ DatabaseChanges
    /\ \/ Goto(e, "bust") /\ UNCHANGED cause
       \/ cause' = "unbusted" /\ UNCHANGED pc
    /\ UNCHANGED <<ttl, fetching, served>>

\* ReviewService writes new ratings to menu_items behind the cache's back.
UpdateRating ==
    /\ DatabaseChanges
    /\ cause' = "unbusted"
    /\ UNCHANGED <<ttl, pc, fetching, served>>

\* Defect: a mutator that forgets the bust.
BustCache_Forgotten(e) ==
    /\ pc[e] = "bust"
    /\ Goto(e, "idle")
    /\ UNCHANGED <<cached, ttl, got, fetching, served, cause>>

BustCache(e) ==
    /\ pc[e] = "bust"
    /\ ttl' = 0
    /\ cause' = "none"
    /\ Goto(e, "idle")
    /\ UNCHANGED <<cached, got, fetching, served>>

Older(age) == IF age \in {Right, Bound} THEN age ELSE age + 1
Aged ==
    /\ cached' = Older(cached)
    /\ got' = [r \in Readers |-> Older(got[r])]
    /\ ttl' = IF ttl = 0 THEN 0 ELSE ttl - 1

\* Defect: no Timeout on a query.
Tick_NoDeadline ==
    /\ Aged
    /\ fetching' = [r \in Readers |-> IF pc[r] = "idle" THEN 0 ELSE fetching[r] + 1]
    /\ UNCHANGED <<pc, served, cause>>

\* A tick.  No request is still fetching when its deadline has passed.
Tick ==
    /\ \A r \in Readers : pc[r] # "idle" => fetching[r] < FetchLimit
    /\ Aged
    /\ fetching' = [r \in Readers |-> IF pc[r] = "idle" THEN 0 ELSE fetching[r] + 1]
    /\ UNCHANGED <<pc, served, cause>>

Next ==
    \/ \E r \in Readers : \/ ServeCached(r) \/ Miss(r) \/ Fetch(r)
                          \/ FetchFails(r) \/ Store(r)
    \/ \E e \in Editors : Edit(e) \/ BustCache(e)
    \/ UpdateRating
    \/ Tick

Spec == Init /\ [][Next]_vars
-----------------------------------------------------------------------------
\* However fills, edits and busts race, nobody is shown a menu that has been
\* wrong for longer than an entry lives plus the time a query may take.
BoundedStaleness == \A r \in Readers : served[r] < Bound

\* A valid entry is wrong only between an edit and its bust, or because it was
\* wrong already when it was stored, or after a change that nobody busts.
FreshUnlessExcused == ttl > 0 /\ cached # Right =>
    \/ \E e \in Editors : pc[e] = "bust"
    \/ cause # "none"
=============================================================================
