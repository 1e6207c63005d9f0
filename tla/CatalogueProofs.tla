--------------------------- MODULE CatalogueProofs --------------------------
(* Theorems about MenuCache and Catalogue, for any number of readers and    *)
(* editors and any lifetimes.                                               *)
EXTENDS Catalogue, TLAPS

LEMMA Lifetimes ==
    /\ TTL \in Nat /\ TTL > 0 /\ FetchLimit \in Nat
    /\ Bound = TTL + FetchLimit /\ Bound \in Nat /\ Right = -1
    /\ Ages = -1 .. Bound
  BY MenuCacheAssumption DEF Bound, Right, Ages

\* A menu that was fetched is no older than its query, and one that is still
\* served has left of its life what it lacks to the bound.
AgesSound ==
    /\ \A r \in Readers : pc[r] = "store" => got[r] <= fetching[r]
    /\ ttl > 0 => cached + ttl <= Bound

CacheInv == TypeOK /\ AgesSound /\ BoundedStaleness /\ FreshUnlessExcused

LEMMA InitCacheInv == Init => CacheInv
  <1> SUFFICES ASSUME Init PROVE CacheInv
    OBVIOUS
  <1>1. TypeOK
    BY Lifetimes DEF Init, TypeOK
  <1>2. AgesSound /\ BoundedStaleness /\ FreshUnlessExcused
    BY Lifetimes DEF Init, AgesSound, BoundedStaleness, FreshUnlessExcused
  <1> QED
    BY <1>1, <1>2 DEF CacheInv

LEMMA Outdating ==
    ASSUME NEW age \in Ages
    PROVE  Outdated(age) \in Ages /\ Outdated(age) \in {age, 0} /\ Outdated(age) # Right
  BY Lifetimes DEF Outdated

LEMMA Growing ==
    ASSUME NEW age \in Ages
    PROVE  /\ Older(age) \in Ages /\ Older(age) <= age + 1
           /\ Older(age) = Right <=> age = Right
  BY Lifetimes DEF Older

\* A reader's step leaves the editors where they are.
LEMMA ReaderStep ==
    ASSUME CacheInv, NEW r \in Readers,
           ServeCached(r) \/ Miss(r) \/ Fetch(r) \/ FetchFails(r) \/ Store(r)
    PROVE  CacheInv'
  <1>0. TypeOK /\ AgesSound /\ BoundedStaleness /\ FreshUnlessExcused
    BY DEF CacheInv
  <1>1. TypeOK'
    <2>1. CASE ServeCached(r)
      BY <1>0, <2>1 DEF ServeCached, TypeOK
    <2>2. CASE Miss(r) \/ FetchFails(r)
      <3>1. 0 \in 0 .. FetchLimit
        BY Lifetimes
      <3>2. CASE Miss(r)
        BY <1>0, <3>2 DEF Miss, Goto, TypeOK
      <3>3. CASE FetchFails(r)
        BY <1>0, <3>1, <3>3 DEF FetchFails, Goto, TypeOK
      <3> QED
        BY <2>2, <3>2, <3>3
    <2>3. CASE Fetch(r)
      <3>1. PICK age \in {Right, 0} : got' = [got EXCEPT ![r] = age]
        BY <2>3 DEF Fetch
      <3>2. age \in Ages
        BY Lifetimes
      <3> QED
        BY <1>0, <2>3, <3>1, <3>2 DEF Fetch, Goto, TypeOK
    <2>4. CASE Store(r)
      <3>1. Right \in Ages /\ got[r] \in Ages /\ TTL \in 0 .. TTL /\ 0 \in 0 .. FetchLimit
        BY <1>0, Lifetimes DEF TypeOK
      <3> QED
        BY <1>0, <2>4, <3>1 DEF Store, Goto, TypeOK
    <2> QED
      BY <2>1, <2>2, <2>3, <2>4
  <1>2. \A e \in Editors : pc'[e] = pc[e]
    BY <1>0, MenuCacheAssumption DEF ServeCached, Miss, Fetch, FetchFails, Store, Goto, TypeOK
  <1>3. CASE ServeCached(r)
    <2>1. cached < Bound
      BY <1>0, <1>3, Lifetimes DEF ServeCached, AgesSound, TypeOK
    <2> QED
      BY <1>0, <1>1, <1>3, <2>1 DEF ServeCached, CacheInv, AgesSound, BoundedStaleness,
         FreshUnlessExcused, TypeOK
  <1>4. CASE Miss(r) \/ FetchFails(r)
    <2>1. UNCHANGED <<cached, ttl, got, served, cause>>
      BY <1>4 DEF Miss, FetchFails
    <2>2. \A q \in Readers : pc'[q] = "store" => pc[q] = "store" /\ fetching'[q] = fetching[q]
      BY <1>0, <1>4 DEF Miss, FetchFails, Goto, TypeOK
    <2> QED
      BY <1>0, <1>1, <1>2, <2>1, <2>2 DEF CacheInv, AgesSound, BoundedStaleness, FreshUnlessExcused
  <1>5. CASE Fetch(r)
    <2>1. UNCHANGED <<cached, ttl, fetching, served, cause>>
      BY <1>5 DEF Fetch
    <2>2. PICK age \in {Right, 0} : got' = [got EXCEPT ![r] = age]
      BY <1>5 DEF Fetch
    <2>3. \A q \in Readers : pc'[q] = "store" => got'[q] <= fetching'[q]
      <3> TAKE q \in Readers
      <3>1. CASE q = r
        BY <1>0, <2>1, <2>2, <3>1, Lifetimes DEF TypeOK
      <3>2. CASE q # r
        BY <1>0, <1>5, <2>1, <2>2, <3>2 DEF Fetch, Goto, TypeOK, AgesSound
      <3> QED
        BY <3>1, <3>2
    <2> QED
      BY <1>0, <1>1, <1>2, <2>1, <2>3 DEF CacheInv, AgesSound, BoundedStaleness, FreshUnlessExcused
  <1>6. CASE Store(r)
    <2>1. /\ cached' = got[r] /\ ttl' = TTL /\ served' = [served EXCEPT ![r] = got[r]]
          /\ cause' = IF got[r] = Right THEN "none" ELSE "fill"
          /\ pc[r] = "store"
      BY <1>6 DEF Store
    <2>2. got[r] \in Int /\ got[r] <= FetchLimit
      BY <1>0, <2>1, Lifetimes DEF AgesSound, TypeOK
    <2>3. cached' + ttl' <= Bound /\ got[r] < Bound
      BY <2>1, <2>2, Lifetimes
    <2>4. \A q \in Readers : pc'[q] = "store" => got'[q] <= fetching'[q]
      BY <1>0, <1>6 DEF Store, Goto, TypeOK, AgesSound
    <2>5. BoundedStaleness'
      BY <1>0, <2>1, <2>3 DEF BoundedStaleness, TypeOK
    <2>6. FreshUnlessExcused'
      BY <2>1 DEF FreshUnlessExcused
    <2> QED
      BY <1>1, <2>3, <2>4, <2>5, <2>6 DEF CacheInv, AgesSound
  <1> QED
    BY <1>3, <1>4, <1>5, <1>6

\* The database changes, with or without a bust to come.
LEMMA ChangeStep ==
    ASSUME CacheInv, UpdateRating \/ \E e \in Editors : Edit(e)
    PROVE  CacheInv'
  <1>0. TypeOK /\ AgesSound /\ BoundedStaleness /\ FreshUnlessExcused
    BY DEF CacheInv
  <1>1. cached' = Outdated(cached) /\ got' = [r \in Readers |-> Outdated(got[r])]
    BY DEF UpdateRating, Edit, DatabaseChanges
  <1>2. UNCHANGED <<ttl, fetching, served>>
    BY DEF UpdateRating, Edit
  <1>3. /\ pc' \in [Readers \cup Editors -> {"idle", "query", "store", "bust"}]
        /\ cause' \in {"none", "fill", "unbusted"}
        /\ \A r \in Readers : pc'[r] = pc[r]
        /\ (\E e \in Editors : pc'[e] = "bust") \/ cause' # "none"
    BY <1>0, MenuCacheAssumption DEF UpdateRating, Edit, Goto, TypeOK
  <1>4. cached' \in Ages /\ got' \in [Readers -> Ages]
    BY <1>0, <1>1, Outdating DEF TypeOK
  <1>5. TypeOK'
    BY <1>0, <1>2, <1>3, <1>4 DEF TypeOK
  <1>6. \A r \in Readers : pc'[r] = "store" => got'[r] <= fetching'[r]
    <2> SUFFICES ASSUME NEW r \in Readers, pc[r] = "store" PROVE got'[r] <= fetching[r]
      BY <1>2, <1>3
    <2>1. got'[r] \in {got[r], 0} /\ got[r] <= fetching[r] /\ fetching[r] \in Nat
      BY <1>0, <1>1, Outdating, Lifetimes DEF TypeOK, AgesSound
    <2> QED
      BY <2>1
  <1>7. ttl' > 0 => cached' + ttl' <= Bound
    <2>1. cached' \in {cached, 0} /\ ttl \in Nat /\ ttl <= TTL
      BY <1>0, <1>1, Outdating, Lifetimes DEF TypeOK
    <2> QED
      BY <1>0, <1>2, <2>1, Lifetimes DEF AgesSound
  <1> QED
    BY <1>0, <1>2, <1>3, <1>5, <1>6, <1>7 DEF CacheInv, AgesSound, BoundedStaleness, FreshUnlessExcused

LEMMA BustStep ==
    ASSUME CacheInv, NEW e \in Editors, BustCache(e)
    PROVE  CacheInv'
  <1>0. TypeOK /\ AgesSound /\ BoundedStaleness
    BY DEF CacheInv
  <1>1. ttl' = 0 /\ cause' = "none" /\ UNCHANGED <<cached, got, fetching, served>>
    BY DEF BustCache
  <1>2. pc' = [pc EXCEPT ![e] = "idle"]
    BY DEF BustCache, Goto
  <1>3. TypeOK'
    BY <1>0, <1>1, <1>2, Lifetimes DEF TypeOK
  <1>4. \A r \in Readers : pc'[r] = pc[r]
    BY <1>0, <1>2, MenuCacheAssumption DEF TypeOK
  <1> QED
    BY <1>0, <1>1, <1>3, <1>4 DEF CacheInv, AgesSound, BoundedStaleness, FreshUnlessExcused

LEMMA TickStep ==
    ASSUME CacheInv, Tick
    PROVE  CacheInv'
  <1>0. TypeOK /\ AgesSound /\ BoundedStaleness /\ FreshUnlessExcused
    BY DEF CacheInv
  <1>1. /\ cached' = Older(cached) /\ got' = [r \in Readers |-> Older(got[r])]
        /\ ttl' = IF ttl = 0 THEN 0 ELSE ttl - 1
        /\ fetching' = [r \in Readers |-> IF pc[r] = "idle" THEN 0 ELSE fetching[r] + 1]
        /\ \A r \in Readers : pc[r] # "idle" => fetching[r] < FetchLimit
        /\ UNCHANGED <<pc, served, cause>>
    BY DEF Tick, Aged
  <1>2. ttl \in Nat /\ ttl <= TTL /\ cached \in Int
    BY <1>0, Lifetimes DEF TypeOK
  <1>3. cached' \in Ages /\ cached' <= cached + 1 /\ (cached' = Right <=> cached = Right)
    BY <1>0, <1>1, Growing DEF TypeOK
  <1>4. got' \in [Readers -> Ages] /\ \A r \in Readers : got'[r] <= got[r] + 1
    BY <1>0, <1>1, Growing DEF TypeOK
  <1>5. fetching' \in [Readers -> 0 .. FetchLimit]
    BY <1>0, <1>1, Lifetimes DEF TypeOK
  <1>6. ttl' \in 0 .. TTL
    BY <1>1, <1>2, Lifetimes
  <1>7. TypeOK'
    BY <1>0, <1>1, <1>3, <1>4, <1>5, <1>6 DEF TypeOK
  <1>8. ASSUME NEW r \in Readers, pc'[r] = "store" PROVE got'[r] <= fetching'[r]
    <2>1. got[r] <= fetching[r] /\ fetching'[r] = fetching[r] + 1 /\ got'[r] <= got[r] + 1
      BY <1>0, <1>1, <1>4, <1>8 DEF AgesSound
    <2>2. got[r] \in Int /\ fetching[r] \in Int /\ got'[r] \in Int
      BY <1>0, <1>4, Lifetimes DEF TypeOK
    <2> QED
      BY <2>1, <2>2
  <1>9. ttl' > 0 => cached' + ttl' <= Bound
    BY <1>0, <1>1, <1>2, <1>3, Lifetimes DEF AgesSound
  <1>10. FreshUnlessExcused'
    BY <1>0, <1>1, <1>2, <1>3 DEF FreshUnlessExcused
  <1> QED
    BY <1>0, <1>1, <1>7, <1>8, <1>9, <1>10 DEF CacheInv, AgesSound, BoundedStaleness

LEMMA CacheInvariant == Spec => []CacheInv
  <1>1. CacheInv /\ UNCHANGED vars => CacheInv'
    BY DEF vars, CacheInv, TypeOK, AgesSound, BoundedStaleness, FreshUnlessExcused
  <1>2. CacheInv /\ [Next]_vars => CacheInv'
    BY <1>1, ReaderStep, ChangeStep, BustStep, TickStep DEF Next
  <1> QED
    BY <1>2, InitCacheInv, PTL DEF Spec
-----------------------------------------------------------------------------
(* The theorems about the cache.                                            *)

\* A menu that is served was right less than an entry's life and a query's time
\* ago, whatever fills, edits and busts were under way (MenuService.GetMenu).
THEOREM StalenessIsBounded == Spec => []BoundedStaleness
  <1>1. CacheInv => BoundedStaleness
    BY DEF CacheInv
  <1> QED
    BY <1>1, CacheInvariant, PTL

\* A valid entry that is wrong is about to be busted, or was filled wrong, or the
\* change was one nobody busts: the handlers forget no bust (BustCache).
THEOREM WrongEntriesExcused == Spec => []FreshUnlessExcused
  <1>1. CacheInv => FreshUnlessExcused
    BY DEF CacheInv
  <1> QED
    BY <1>1, CacheInvariant, PTL
-----------------------------------------------------------------------------
(* The admins' edits in front of it.                                        *)

\* An edit of a row does to the cache what MenuCache says of any edit.
LEMMA StepIsCacheStep == [CatalogueNext]_mvars => [Next]_vars
  BY DEF CatalogueNext, mvars, ReadItem, WriteItem, DropDraft, SetAvailability,
         SoftDeleteItem, EditOtherRow, CacheStep, Next

\* With the rows and the PATCH requests in it, the cache is still the one of
\* MenuCache: what is proved of that holds for Catalogue.
THEOREM CacheKept == CatalogueSpec => Spec
  <1>1. CatalogueInit => Init
    BY DEF CatalogueInit
  <1> QED
    BY <1>1, StepIsCacheStep, PTL DEF CatalogueSpec, Spec

\* What an editor holds of a column its body leaves out is what the row says,
\* unless another edit wrote the column since.
DraftsSound == \A e \in Editors : Open(e) =>
    draft[e].sent \/ draft[e].raced \/ draft[e].image_url = item.image_url

DraftInv == CatalogueTypeOK /\ DraftsSound

Drafts == [image_url : Values, sent : BOOLEAN, raced : BOOLEAN, open : BOOLEAN]

LEMMA InitDraftInv == CatalogueInit => DraftInv
  <1> SUFFICES ASSUME CatalogueInit PROVE DraftInv
    OBVIOUS
  <1>1. TypeOK
    BY InitCacheInv DEF CatalogueInit, CacheInv
  <1> QED
    BY <1>1 DEF CatalogueInit, Init, DraftInv, CatalogueTypeOK, DraftsSound, NoDraft, Open, Values

\* Opening, writing and dropping drafts, and the edits that need none.
LEMMA StepDrafts ==
    ASSUME DraftInv, TypeOK', [CatalogueNext]_mvars
    PROVE  DraftInv'
  <1>0. CatalogueTypeOK /\ DraftsSound
    BY DEF DraftInv
  <1>1. /\ pc \in [Readers \cup Editors -> {"idle", "query", "store", "bust"}]
        /\ draft \in [Editors -> Drafts]
        /\ NoDraft \in Drafts /\ ~NoDraft.open
    BY <1>0 DEF CatalogueTypeOK, TypeOK, Drafts, NoDraft, Values
  <1>2. ASSUME NEW e \in Editors, ReadItem(e) PROVE DraftInv'
    <2>1. pc[e] = "idle" /\ UNCHANGED <<pc, item>>
      BY <1>2 DEF ReadItem, vars
    <2>2. PICK v \in Values : draft' = [draft EXCEPT ![e] =
             [image_url |-> IF v = Nothing THEN item.image_url ELSE v,
              sent |-> v # Nothing, raced |-> FALSE, open |-> TRUE]]
      BY <1>2 DEF ReadItem
    <2>3. PICK d \in Drafts :
             /\ draft' = [draft EXCEPT ![e] = d] /\ d.open
             /\ d.sent \/ d.image_url = item.image_url
      <3> DEFINE d == [image_url |-> IF v = Nothing THEN item.image_url ELSE v,
                       sent |-> v # Nothing, raced |-> FALSE, open |-> TRUE]
      <3>1. item.image_url \in Values
        BY <1>0 DEF CatalogueTypeOK
      <3>2. d \in Drafts
        BY <3>1 DEF Drafts
      <3>3. d.open /\ (d.sent \/ d.image_url = item.image_url)
        OBVIOUS
      <3> QED
        BY <2>2, <3>2, <3>3
    <2>4. draft' \in [Editors -> Drafts] /\ \A a \in Editors : draft'[a] = IF a = e THEN d ELSE draft[a]
      BY <1>1, <2>3
    <2>5. CatalogueTypeOK'
      BY <1>0, <2>1, <2>3, <2>4 DEF CatalogueTypeOK, Open, Drafts
    <2> QED
      BY <1>0, <2>1, <2>3, <2>4, <2>5 DEF DraftInv, DraftsSound, Open
  <1>3. ASSUME NEW e \in Editors, WriteItem(e) PROVE DraftInv'
    <2>1. item' = [item EXCEPT !.image_url = draft[e].image_url]
      BY <1>3 DEF WriteItem
    <2>2. /\ draft' \in [Editors -> Drafts]
          /\ draft'[e] = NoDraft
          /\ \A a \in Editors \ {e} : draft'[a] = [draft[a] EXCEPT !.raced = Open(a)]
      BY <1>1, <1>3 DEF WriteItem, Drafts, Open
    <2>3. \A a \in Editors \ {e} : /\ draft'[a].open = Open(a) /\ draft'[a].raced = Open(a)
                                   /\ ~Open(a) => draft'[a] = NoDraft
      BY <1>0, <1>1, <2>2 DEF Drafts, Open, CatalogueTypeOK, NoDraft
    <2>4. \A a \in Editors : Open(a)' => a # e /\ Open(a) /\ pc'[a] = "idle"
      BY <1>0, <1>1, <1>3, <2>2, <2>3 DEF WriteItem, Edit, Goto, Open, CatalogueTypeOK
    <2>5. item' \in [image_url : Values, is_available : BOOLEAN, is_active : BOOLEAN]
      BY <1>0, <1>1, <2>1 DEF CatalogueTypeOK, Drafts
    <2>6. CatalogueTypeOK'
      BY <2>2, <2>3, <2>4, <2>5 DEF CatalogueTypeOK, Drafts, Open
    <2> QED
      BY <2>3, <2>4, <2>6 DEF DraftInv, DraftsSound, Open
  <1>4. ASSUME NEW e \in Editors, DropDraft(e) PROVE DraftInv'
    <2>1. draft' = [draft EXCEPT ![e] = NoDraft] /\ UNCHANGED <<pc, item>>
      BY <1>4 DEF DropDraft, vars
    <2>2. draft' \in [Editors -> Drafts] /\ \A a \in Editors : draft'[a] = IF a = e THEN NoDraft ELSE draft[a]
      BY <1>1, <2>1
    <2>3. CatalogueTypeOK'
      BY <1>0, <1>1, <2>1, <2>2 DEF CatalogueTypeOK, Open, Drafts
    <2> QED
      BY <1>0, <1>1, <2>1, <2>2, <2>3 DEF DraftInv, DraftsSound, Open
  <1>5. ASSUME NEW e \in Editors,
               SetAvailability(e) \/ SoftDeleteItem(e) \/ EditOtherRow(e)
        PROVE  DraftInv'
    <2>1. draft' = draft /\ ~Open(e) /\ Edit(e)
      BY <1>5 DEF SetAvailability, SoftDeleteItem, EditOtherRow
    <2>2. /\ item' \in [image_url : Values, is_available : BOOLEAN, is_active : BOOLEAN]
          /\ item'.image_url = item.image_url
      BY <1>0, <1>5 DEF SetAvailability, SoftDeleteItem, EditOtherRow, CatalogueTypeOK
    <2>3. \A a \in Editors : Open(a) => pc'[a] = "idle"
      BY <1>0, <1>1, <2>1 DEF Edit, Goto, CatalogueTypeOK
    <2>4. CatalogueTypeOK'
      BY <1>0, <2>1, <2>2, <2>3 DEF CatalogueTypeOK, Open
    <2> QED
      BY <1>0, <2>1, <2>2, <2>4 DEF DraftInv, DraftsSound, Open
  <1>6. CASE CacheStep \/ UNCHANGED mvars
    <2>1. UNCHANGED <<item, draft>>
      BY <1>6 DEF CacheStep, mvars
    <2>2. \A e \in Editors : pc[e] = "idle" => pc'[e] = "idle"
      BY <1>1, <1>6, MenuCacheAssumption DEF CacheStep, mvars, vars, ServeCached, Miss, Fetch,
         FetchFails, Store, BustCache, UpdateRating, Tick, Goto
    <2>3. CatalogueTypeOK'
      BY <1>0, <2>1, <2>2 DEF CatalogueTypeOK, Open
    <2> QED
      BY <1>0, <2>1, <2>3 DEF DraftInv, DraftsSound, Open
  <1> QED
    BY <1>2, <1>3, <1>4, <1>5, <1>6 DEF CatalogueNext

LEMMA DraftInvariant == CatalogueSpec => []DraftInv
  <1>1. CacheInv /\ DraftInv /\ [CatalogueNext]_mvars => DraftInv'
    <2> SUFFICES ASSUME CacheInv, DraftInv, [CatalogueNext]_mvars PROVE DraftInv'
      OBVIOUS
    <2>1. CacheInv'
      <3>1. CacheInv /\ UNCHANGED vars => CacheInv'
        BY DEF vars, CacheInv, TypeOK, AgesSound, BoundedStaleness, FreshUnlessExcused
      <3> QED
        BY <3>1, StepIsCacheStep, ReaderStep, ChangeStep, BustStep, TickStep DEF Next
    <2> QED
      BY <2>1, StepDrafts DEF CacheInv
  <1> QED
    BY <1>1, CacheKept, CacheInvariant, InitDraftInv, PTL DEF CatalogueSpec

\* The row, the drafts and the cache stay in their types, and no draft outlives
\* its request.
THEOREM CatalogueTyped == CatalogueSpec => []CatalogueTypeOK
  <1>1. DraftInv => CatalogueTypeOK
    BY DEF DraftInv
  <1> QED
    BY <1>1, DraftInvariant, PTL

\* A PATCH leaves the columns alone that its body does not name, except that it
\* may undo what another edit wrote after it read (MenuHandler's UpdateItem).
THEOREM PatchIsPartial == CatalogueSpec => OnlyNamedColumnsChange
  <1>1. ASSUME DraftInv, [CatalogueNext]_mvars
        PROVE  [\A e \in Editors : Open(e) /\ ~Open(e)' =>
                  /\ item'.is_available = item.is_available
                  /\ item'.is_active = item.is_active
                  /\ item'.image_url = item.image_url \/ draft[e].sent \/ draft[e].raced]_mvars
    <2> SUFFICES ASSUME NEW e \in Editors, Open(e), ~Open(e)', CatalogueNext
                 PROVE  /\ item'.is_available = item.is_available
                        /\ item'.is_active = item.is_active
                        /\ item'.image_url = item.image_url \/ draft[e].sent \/ draft[e].raced
      BY <1>1
    <2>0. /\ draft \in [Editors -> Drafts]
          /\ item \in [image_url : Values, is_available : BOOLEAN, is_active : BOOLEAN]
      BY <1>1 DEF DraftInv, CatalogueTypeOK, Drafts
    <2>1. CASE item' = item
      BY <2>1
    <2>2. CASE draft' = draft
      BY <2>2 DEF Open
    <2>3. ASSUME NEW a \in Editors, WriteItem(a), a # e PROVE FALSE
      <3>1. draft'[e] = [draft[e] EXCEPT !.raced = Open(e)]
        BY <2>3 DEF WriteItem
      <3> QED
        BY <2>0, <3>1 DEF Open, Drafts
    <2>4. CASE WriteItem(e)
      <3>1. item' = [item EXCEPT !.image_url = draft[e].image_url]
        BY <2>4 DEF WriteItem
      <3> QED
        BY <1>1, <2>0, <3>1 DEF DraftInv, DraftsSound
    <2> QED
      BY <2>1, <2>2, <2>3, <2>4 DEF CatalogueNext, ReadItem, DropDraft, SetAvailability,
         SoftDeleteItem, EditOtherRow, CacheStep
  <1> QED
    BY <1>1, DraftInvariant, PTL DEF CatalogueSpec, OnlyNamedColumnsChange
=============================================================================
