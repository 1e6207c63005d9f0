--------------------------- MODULE AuthorityProofs --------------------------
(* Theorems about RefreshTokens and Authority, for any number of requests,  *)
(* sessions, tokens and admins, and any lifetimes.                          *)
EXTENDS Authority, FiniteSetTheorems, TLAPS

\* The family of the token a handler holds.
Of(h) == family[held[h]]

\* A step is one handler's; the others stay where they are.
OthersStay(h) == \A q \in Handlers \ {h} : pc'[q] = pc[q] /\ held'[q] = held[q]

\* Rows of refresh_tokens are never deleted, and keep their family.
RowsLast == \A t \in Issued : t \in Issued' /\ family'[t] = family[t]

LEMMA KnownForever == ASSUME RowsLast, NEW f, Known(f) PROVE Known(f)'
  BY DEF RowsLast, Known

LEMMA InitTypeOK == Init => TypeOK
  BY TokensAssumption DEF Init, TypeOK, Issued

LEMMA Revoking ==
    ASSUME TypeOK, NEW S, Revoke(S)
    PROVE  /\ status' \in [Tokens -> {"unissued", "live", "revoked", "expired"}]
           /\ Issued' = Issued
           /\ \A t \in Tokens : status'[t] = "live" <=> status[t] = "live" /\ t \notin S
  BY DEF TypeOK, Revoke, Issued

LEMMA Inserting ==
    ASSUME TypeOK, NEW f \in Families, Insert(f)
    PROVE  \E t \in Tokens \ Issued :
              /\ status' \in [Tokens -> {"unissued", "live", "revoked", "expired"}]
              /\ family' \in [Tokens -> Families]
              /\ Issued' = Issued \cup {t}
              /\ status'[t] = "live" /\ family'[t] = f
              /\ \A u \in Tokens \ {t} : status'[u] = status[u] /\ family'[u] = family[u]
  BY DEF TypeOK, Insert, Issued

LEMMA Answering ==
    ASSUME TypeOK, NEW h \in Handlers, Answer(h)
    PROVE  /\ pc' \in [Handlers -> {"idle", "revokeFamily", "revoke", "issue", "logout"}]
           /\ held' \in [Handlers -> Tokens \cup {Nobody}]
           /\ pc'[h] = "idle" /\ OthersStay(h)
  BY DEF TypeOK, Answer, Goto, OthersStay

\* What the steps of a handler do to the rows and to the handlers.
LEMMA HandlerStep ==
    ASSUME TypeOK, NEW h \in Handlers,
           \/ Login(h) \/ LookUp(h) \/ RevokeFamilyTokens(h) \/ RevokeRefreshToken(h)
           \/ IssueNext(h) \/ LogoutLookUp(h) \/ LogoutRevoke(h) \/ LogoutIgnored(h)
           \/ Fail(h)
    PROVE  /\ TypeOK' /\ RowsLast /\ OthersStay(h)
  <1>1. CASE Login(h)
    <2>1. PICK f \in Families : ~Known(f) /\ Insert(f)
      BY <1>1 DEF Login
    <2>2. PICK t \in Tokens \ Issued :
              /\ status' \in [Tokens -> {"unissued", "live", "revoked", "expired"}]
              /\ family' \in [Tokens -> Families]
              /\ Issued' = Issued \cup {t}
              /\ \A u \in Tokens \ {t} : family'[u] = family[u]
      BY <2>1, Inserting
    <2>3. RowsLast
      BY <2>2 DEF RowsLast, Issued
    <2> QED
      BY <1>1, <2>2, <2>3 DEF Login, TypeOK, OthersStay, past
  <1>2. CASE LookUp(h) \/ LogoutLookUp(h)
    <2>1. PICK t \in Issued, l \in {"revokeFamily", "revoke", "logout"} :
             held' = [held EXCEPT ![h] = t] /\ pc' = [pc EXCEPT ![h] = l]
      BY <1>2 DEF LookUp, LogoutLookUp, Goto
    <2>2. UNCHANGED <<rows, past>> /\ Issued' = Issued /\ t \in Tokens
      BY <1>2 DEF LookUp, LogoutLookUp, rows, Issued
    <2> QED
      BY <2>1, <2>2 DEF TypeOK, OthersStay, RowsLast, rows, past
  <1>3. CASE RevokeFamilyTokens(h)
    <2>1. Issued' = Issued /\ status' \in [Tokens -> {"unissued", "live", "revoked", "expired"}]
      BY <1>3, Revoking DEF RevokeFamilyTokens, Issued, TypeOK
    <2>2. family[held[h]] \in Families
      BY <1>3 DEF RevokeFamilyTokens, TypeOK, Issued
    <2>3. /\ compromised' \subseteq Families /\ swallowed' \subseteq Families
          /\ UNCHANGED <<family, loggedOut, unheard>> /\ Answer(h)
      BY <1>3, <2>2 DEF RevokeFamilyTokens, TypeOK
    <2> QED
      BY <2>1, <2>3, Answering DEF TypeOK, OthersStay, RowsLast
  <1>4. CASE RevokeRefreshToken(h)
    <2>1. Issued' = Issued /\ status' \in [Tokens -> {"unissued", "live", "revoked", "expired"}]
      BY <1>4, Revoking DEF RevokeRefreshToken, Issued, TypeOK
    <2>2. family[held[h]] \in Families /\ held[h] \in Issued
      BY <1>4 DEF RevokeRefreshToken, TypeOK, Issued
    <2>3. /\ swallowed' \subseteq Families /\ pc' = [pc EXCEPT ![h] = "issue"]
          /\ UNCHANGED <<family, held, compromised, loggedOut, unheard>>
      BY <1>4, <2>2 DEF RevokeRefreshToken, Goto, TypeOK
    <2> QED
      BY <2>1, <2>2, <2>3 DEF TypeOK, OthersStay, RowsLast
  <1>5. CASE IssueNext(h)
    <2>1. family[held[h]] \in Families
      BY <1>5 DEF IssueNext, TypeOK, Issued
    <2>2. PICK t \in Tokens \ Issued :
              /\ status' \in [Tokens -> {"unissued", "live", "revoked", "expired"}]
              /\ family' \in [Tokens -> Families]
              /\ Issued' = Issued \cup {t}
              /\ \A u \in Tokens \ {t} : family'[u] = family[u]
      BY <1>5, <2>1, Inserting DEF IssueNext
    <2>3. RowsLast
      BY <2>2 DEF RowsLast, Issued
    <2>4. Answer(h) /\ UNCHANGED past
      BY <1>5 DEF IssueNext
    <2> QED
      BY <2>2, <2>3, <2>4, Answering DEF TypeOK, OthersStay, past
  <1>6. CASE LogoutRevoke(h) \/ LogoutIgnored(h)
    <2>1. Issued' = Issued /\ status' \in [Tokens -> {"unissued", "live", "revoked", "expired"}]
      BY <1>6, Revoking DEF LogoutRevoke, LogoutIgnored, TypeOK, Issued, rows
    <2>2. family[held[h]] \in Families
      BY <1>6 DEF LogoutRevoke, LogoutIgnored, TypeOK, Issued
    <2>3. loggedOut' \subseteq Families /\ unheard' \subseteq loggedOut'
      BY <1>6, <2>2 DEF LogoutRevoke, LogoutIgnored, Told, TypeOK
    <2>4. Answer(h) /\ UNCHANGED <<family, compromised, swallowed>>
      BY <1>6 DEF LogoutRevoke, LogoutIgnored, rows
    <2> QED
      BY <2>1, <2>3, <2>4, Answering DEF TypeOK, OthersStay, RowsLast
  <1>7. CASE Fail(h)
    <2>1. Answer(h) /\ UNCHANGED <<rows, past>> /\ Issued' = Issued
      BY <1>7 DEF Fail, rows, Issued
    <2> QED
      BY <2>1, Answering DEF TypeOK, OthersStay, RowsLast, rows, past
  <1> QED
    BY <1>1, <1>2, <1>3, <1>4, <1>5, <1>6, <1>7

LEMMA ExpireStep ==
    ASSUME TypeOK, NEW t \in Tokens, Expire(t)
    PROVE  /\ TypeOK' /\ RowsLast /\ UNCHANGED <<family, pc, held, past>>
           /\ \A u \in Tokens : status'[u] = "live" => status[u] = "live"
  BY DEF TypeOK, Expire, RowsLast, Issued, past
-----------------------------------------------------------------------------
(* Sessions of clients that send one request of a session at a time.        *)

\* The families a logout has revoked the current token of.
Ended == loggedOut \ unheard

\* At most one token of the family is usable, none after a logout or reuse.
FamilySound(f) ==
    /\ f \in swallowed \/ \A t, u \in Live(f) : t = u
    /\ f \in compromised => Live(f) = {}
    /\ f \in Ended \ swallowed => Live(f) = {}
    /\ f \in compromised \cup Ended => Known(f)

\* A rotation under way: the token presented is the only usable one until it is
\* revoked, and nothing has been done to its family since it was looked up.
RotationSound(h) ==
    /\ pc[h] = "revoke" => Of(h) \in swallowed \/ Live(Of(h)) \subseteq {held[h]}
    /\ pc[h] = "issue"  => Of(h) \in swallowed \/ Live(Of(h)) = {}
    /\ pc[h] \in {"revoke", "issue"} =>
          Of(h) \notin compromised /\ (Of(h) \in swallowed \/ Of(h) \notin Ended)

SessionInv ==
    /\ TypeOK
    /\ OneRequestPerSession
    /\ \A f \in Families : FamilySound(f)
    /\ \A h \in Handlers : RotationSound(h)

LEMMA InitSessionInv == Init => SessionInv
  <1> SUFFICES ASSUME Init PROVE SessionInv
    OBVIOUS
  <1>1. TypeOK
    BY InitTypeOK
  <1>2. Issued = {} /\ \A h \in Handlers : pc[h] = "idle"
    BY DEF Init, Issued
  <1>3. \A f : Live(f) = {}
    BY <1>2 DEF Live
  <1>4. compromised = {} /\ Ended = {}
    BY DEF Init, Ended
  <1>5. \A f \in Families : FamilySound(f)
    BY <1>3, <1>4 DEF FamilySound
  <1>6. \A h \in Handlers : RotationSound(h)
    BY <1>2 DEF RotationSound
  <1> QED
    BY <1>1, <1>2, <1>5, <1>6 DEF SessionInv, OneRequestPerSession

\* A step that concerns one family leaves the others, and the requests of the
\* others, alone.
Concerns(f) == \A g \in Families \ {f} :
    /\ Live(g)' \subseteq Live(g)
    /\ g \in swallowed => g \in swallowed'
    /\ g \in compromised' => g \in compromised
    /\ g \in Ended' => g \in Ended

LEMMA OtherFamilies ==
    ASSUME NEW f, Concerns(f), NEW g \in Families, g # f, FamilySound(g),
           g \in swallowed' => g \in swallowed, RowsLast
    PROVE  FamilySound(g)'
  <1>1. /\ Live(g)' \subseteq Live(g)
        /\ g \in swallowed => g \in swallowed'
        /\ g \in compromised' => g \in compromised
        /\ g \in Ended' => g \in Ended
    BY DEF Concerns
  <1>2. Known(g) => Known(g)'
    BY KnownForever
  <1> QED
    BY <1>1, <1>2 DEF FamilySound

LEMMA OtherRotations ==
    ASSUME NEW f, Concerns(f), NEW q \in Handlers, RotationSound(q),
           pc'[q] = pc[q], held'[q] = held[q],
           pc[q] # "idle" => Of(q)' = Of(q) /\ Of(q) \in Families /\ Of(q) # f
    PROVE  RotationSound(q)'
  <1>1. CASE pc[q] = "idle"
    BY <1>1 DEF RotationSound
  <1>2. CASE pc[q] # "idle"
    <2>1. PICK g \in Families : g = Of(q) /\ g # f
      BY <1>2
    <2>2. Of(q)' = g
      BY <1>2, <2>1
    <2>3. /\ Live(g)' \subseteq Live(g)
          /\ g \in swallowed => g \in swallowed'
          /\ g \in compromised' => g \in compromised
          /\ g \in Ended' => g \in Ended
      BY <2>1 DEF Concerns
    <2>4. Live(Of(q))' = Live(g)'
      BY <2>2 DEF Live
    <2> QED
      BY <2>1, <2>2, <2>3, <2>4 DEF RotationSound
  <1> QED
    BY <1>1, <1>2

\* What is left to show of a handler's step: its own rotation and its family.
LEMMA SessionStep ==
    ASSUME SessionInv, TypeOK', OneRequestPerSession',
           NEW h \in Handlers, OthersStay(h), RowsLast,
           NEW f \in Families, Concerns(f),
           \A g \in Families \ {f} : g \in swallowed' => g \in swallowed,
           \A q \in Handlers \ {h} : pc[q] # "idle" => Of(q) # f,
           FamilySound(f)', RotationSound(h)'
    PROVE  SessionInv'
  <1>1. \A g \in Families : FamilySound(g)'
    BY OtherFamilies DEF SessionInv
  <1>2. ASSUME NEW q \in Handlers, q # h PROVE RotationSound(q)'
    <2>1. pc'[q] = pc[q] /\ held'[q] = held[q] /\ RotationSound(q)
      BY <1>2 DEF OthersStay, SessionInv
    <2>2. pc[q] # "idle" => Of(q)' = Of(q) /\ Of(q) \in Families /\ Of(q) # f
      BY <1>2, <2>1 DEF SessionInv, TypeOK, RowsLast, Of, Issued
    <2> QED
      BY <2>1, <2>2, OtherRotations
  <1> QED
    BY <1>1, <1>2 DEF SessionInv

\* While h has a request of a family under way, the others have none.
LEMMA NobodyElse ==
    ASSUME OneRequestPerSession, NEW h \in Handlers, pc[h] # "idle"
    PROVE  \A q \in Handlers \ {h} : pc[q] # "idle" => Of(q) # Of(h)
  BY DEF OneRequestPerSession, Of

\* What an insertion adds to the usable tokens.
LEMMA LiveAfterInsert ==
    ASSUME TypeOK, NEW f \in Families, Insert(f)
    PROVE  /\ \A g \in Families \ {f} : Live(g)' = Live(g)
           /\ Live(f) = {} => \A t, u \in Live(f)' : t = u
  <1>1. PICK t \in Tokens \ Issued :
            /\ Issued' = Issued \cup {t}
            /\ status'[t] = "live" /\ family'[t] = f
            /\ \A u \in Tokens \ {t} : status'[u] = status[u] /\ family'[u] = family[u]
    BY Inserting
  <1>2. \A u \in Issued : u \in Tokens \ {t}
    BY DEF Issued
  <1>3. ASSUME NEW g, NEW u
        PROVE  u \in Live(g)' <=> u \in Live(g) \/ (u = t /\ g = f)
    <2>1. u \in Live(g)' <=> u \in Issued' /\ status'[u] = "live" /\ family'[u] = g
      BY DEF Live
    <2>2. u \in Live(g) <=> u \in Issued /\ status[u] = "live" /\ family[u] = g
      BY DEF Live
    <2> QED
      BY <1>1, <1>2, <2>1, <2>2
  <1>4. ASSUME NEW g \in Families, g # f PROVE Live(g)' = Live(g)
    <2>1. \A u : u \in Live(g)' <=> u \in Live(g)
      BY <1>3, <1>4
    <2> QED
      BY <2>1
  <1>5. ASSUME Live(f) = {}, NEW x \in Live(f)' PROVE x = t
    BY <1>3, <1>5
  <1> QED
    BY <1>4, <1>5

\* What a revocation takes from them.
LEMMA LiveAfterRevoke ==
    ASSUME TypeOK, NEW S, Revoke(S), family' = family
    PROVE  \A g : Live(g)' = Live(g) \ S
  <1>1. Issued' = Issued /\ \A t \in Tokens : status'[t] = "live" <=> status[t] = "live" /\ t \notin S
    BY Revoking
  <1>2. Issued \subseteq Tokens
    BY DEF Issued
  <1>3. ASSUME NEW g, NEW u PROVE u \in Live(g)' <=> u \in Live(g) \ S
    <2>1. u \in Live(g)' <=> u \in Issued' /\ status'[u] = "live" /\ family'[u] = g
      BY DEF Live
    <2>2. u \in Live(g) <=> u \in Issued /\ status[u] = "live" /\ family[u] = g
      BY DEF Live
    <2> QED
      BY <1>1, <1>2, <2>1, <2>2
  <1> QED
    BY <1>3

LEMMA LoginSession ==
    ASSUME SessionInv, TypeOK', OneRequestPerSession', NEW h \in Handlers, Login(h)
    PROVE  SessionInv'
  <1>0. TypeOK /\ RowsLast /\ OthersStay(h)
    BY HandlerStep DEF SessionInv
  <1>1. PICK f \in Families : ~Known(f) /\ Insert(f)
    BY DEF Login
  <1>2. Live(f) = {}
    BY <1>1 DEF Known, Live
  <1>3. /\ \A g \in Families \ {f} : Live(g)' = Live(g)
        /\ \A t, u \in Live(f)' : t = u
    BY <1>0, <1>1, <1>2, LiveAfterInsert
  <1>4. pc[h] = "idle" /\ pc' = pc /\ UNCHANGED past
    BY DEF Login
  <1>5. Concerns(f) /\ \A g \in Families \ {f} : g \in swallowed' => g \in swallowed
    BY <1>3, <1>4 DEF Concerns, past, Ended
  <1>6. \A q \in Handlers \ {h} : pc[q] # "idle" => Of(q) # f
    BY <1>0, <1>1 DEF TypeOK, Known, Of
  <1>7. f \notin compromised' /\ f \notin Ended'
    BY <1>1, <1>4 DEF SessionInv, FamilySound, past, Ended
  <1>8. FamilySound(f)'
    BY <1>3, <1>7 DEF FamilySound
  <1>9. RotationSound(h)'
    BY <1>4 DEF RotationSound
  <1> QED
    BY <1>0, <1>5, <1>6, <1>8, <1>9, SessionStep

\* Looking a token up changes no row.
LEMMA LookUpSession ==
    ASSUME SessionInv, TypeOK', OneRequestPerSession', NEW h \in Handlers,
           LookUp(h) \/ LogoutLookUp(h)
    PROVE  SessionInv'
  <1>0. TypeOK /\ RowsLast /\ OthersStay(h)
    BY HandlerStep DEF SessionInv
  <1>1. PICK t \in Issued :
           /\ held' = [held EXCEPT ![h] = t]
           /\ status[t] # "expired"
           /\ \/ pc' = [pc EXCEPT ![h] = "logout"]
              \/ pc' = [pc EXCEPT ![h] = IF status[t] = "revoked" THEN "revokeFamily" ELSE "revoke"]
    BY DEF LookUp, LogoutLookUp, Goto
  <1>2. UNCHANGED <<rows, past>>
    BY DEF LookUp, LogoutLookUp
  <1>3. \A g : Live(g)' = Live(g) /\ (FamilySound(g) <=> FamilySound(g)')
    BY <1>2 DEF rows, past, Ended, Live, Issued, FamilySound, Known
  <1>4. held'[h] = t /\ Of(h)' = family[t] /\ t \in Tokens /\ family[t] \in Families
    BY <1>0, <1>1, <1>2 DEF TypeOK, Of, rows, Issued
  <1>5. PICK f \in Families : f = family[t]
    BY <1>4
  <1>6. pc'[h] \in {"revokeFamily", "logout"} \/ (pc'[h] = "revoke" /\ status[t] = "live")
    BY <1>0, <1>1, <1>4 DEF TypeOK, Issued
  <1>7. Concerns(f) /\ \A g \in Families \ {f} : g \in swallowed' => g \in swallowed
    BY <1>2, <1>3 DEF Concerns, past, Ended
  <1>8. ASSUME NEW q \in Handlers, q # h, pc[q] # "idle" PROVE Of(q) # f
    <2>1. pc'[q] = pc[q] /\ held'[q] = held[q] /\ pc'[h] # "idle"
      BY <1>0, <1>6, <1>8 DEF OthersStay
    <2> QED
      BY <1>2, <1>4, <1>5, <1>8, <2>1 DEF OneRequestPerSession, Of, rows
  <1>9. FamilySound(f) /\ FamilySound(f)'
    BY <1>3 DEF SessionInv
  <1>10. RotationSound(h)'
    <2>1. CASE pc'[h] \in {"revokeFamily", "logout"}
      BY <2>1 DEF RotationSound
    <2>2. CASE pc'[h] = "revoke" /\ status[t] = "live"
      <3>1. t \in Live(f)
        BY <1>5, <2>2 DEF Live
      <3>2. /\ f \in swallowed \/ Live(f) \subseteq {t}
            /\ f \notin compromised /\ (f \in swallowed \/ f \notin Ended)
        BY <1>9, <3>1 DEF FamilySound
      <3>3. Of(h)' = f /\ Live(Of(h))' = Live(f)' /\ UNCHANGED past
        BY <1>2, <1>4, <1>5 DEF Live
      <3> QED
        BY <1>3, <1>4, <2>2, <3>2, <3>3 DEF RotationSound, past, Ended
    <2> QED
      BY <1>6, <2>1, <2>2
  <1> QED
    BY <1>0, <1>7, <1>8, <1>9, <1>10, SessionStep

\* Revocations, of a family that was reused or of the token presented.
LEMMA RevokeSession ==
    ASSUME SessionInv, TypeOK', OneRequestPerSession', NEW h \in Handlers,
           RevokeFamilyTokens(h) \/ RevokeRefreshToken(h) \/ LogoutRevoke(h) \/ LogoutIgnored(h)
           \/ Fail(h)
    PROVE  SessionInv'
  <1>0. TypeOK /\ RowsLast /\ OthersStay(h) /\ pc[h] # "idle"
    BY HandlerStep DEF SessionInv, RevokeFamilyTokens, RevokeRefreshToken, LogoutRevoke,
       LogoutIgnored, Fail
  <1>1. held[h] \in Issued /\ Of(h) \in Families
    BY <1>0 DEF TypeOK, Of, Issued
  <1>2. PICK f \in Families : f = Of(h)
    BY <1>1
  <1>3. \A q \in Handlers \ {h} : pc[q] # "idle" => Of(q) # f
    BY <1>0, <1>2, NobodyElse DEF SessionInv
  <1>4. FamilySound(f) /\ RotationSound(h)
    BY DEF SessionInv
  <1>5. held[h] \in Live(f) <=> status[held[h]] = "live"
    BY <1>1, <1>2 DEF Live, Of
  <1>6. Known(f)'
    BY <1>0, <1>1, <1>2, KnownForever DEF Known, Of
  <1>7. CASE RevokeFamilyTokens(h)
    <2>1. pc'[h] = "idle" /\ family' = family /\ Ended' = Ended
      BY <1>0, <1>7, Answering DEF RevokeFamilyTokens, Ended
    <2>2. RotationSound(h)'
      BY <2>1 DEF RotationSound
    <2>3. CASE Revoke(Live(f)) /\ compromised' = compromised \cup {f} /\ swallowed' = swallowed
      <3>1. \A g : Live(g)' = Live(g) \ Live(f)
        BY <1>0, <2>1, <2>3, LiveAfterRevoke
      <3>2. Live(f)' = {}
        BY <3>1
      <3>3. Concerns(f)
        BY <2>1, <2>3, <3>1 DEF Concerns
      <3>4. FamilySound(f)'
        BY <1>6, <3>2 DEF FamilySound
      <3> QED
        BY <1>0, <1>3, <2>2, <2>3, <3>3, <3>4, SessionStep
    <2>4. CASE swallowed' = swallowed \cup {f} /\ UNCHANGED <<status, compromised>>
      <3>1. \A g : Live(g)' = Live(g)
        BY <2>1, <2>4 DEF Live, Issued
      <3>2. Concerns(f) /\ \A g \in Families \ {f} : g \in swallowed' => g \in swallowed
        BY <2>1, <2>4, <3>1 DEF Concerns
      <3>3. FamilySound(f)'
        BY <1>4, <1>6, <2>4, <3>1 DEF FamilySound
      <3> QED
        BY <1>0, <1>3, <2>2, <3>2, <3>3, SessionStep
    <2> QED
      BY <1>2, <1>7, <2>3, <2>4 DEF RevokeFamilyTokens, Of
  <1>8. CASE RevokeRefreshToken(h)
    <2>1. /\ pc[h] = "revoke" /\ pc'[h] = "issue"
          /\ UNCHANGED <<family, held, compromised, Ended>>
      BY <1>0, <1>8 DEF RevokeRefreshToken, Goto, TypeOK, Ended
    <2>2. Of(h)' = f /\ Live(Of(h))' = Live(f)'
      BY <1>2, <2>1 DEF Of, Live
    <2>3. /\ f \in swallowed \/ Live(f) \subseteq {held[h]}
          /\ f \notin compromised /\ (f \in swallowed \/ f \notin Ended)
      BY <1>2, <1>4, <2>1 DEF RotationSound
    <2>4. CASE Revoke({held[h]}) /\ swallowed' = swallowed
      <3>1. \A g : Live(g)' = Live(g) \ {held[h]}
        BY <1>0, <2>1, <2>4, LiveAfterRevoke
      <3>2. Concerns(f)
        BY <2>1, <2>4, <3>1 DEF Concerns
      <3>3. f \in swallowed \/ Live(f)' = {}
        BY <2>3, <3>1
      <3>4. FamilySound(f)'
        BY <1>6, <2>1, <2>3, <2>4, <3>3 DEF FamilySound
      <3>5. RotationSound(h)'
        BY <2>1, <2>2, <2>3, <2>4, <3>3 DEF RotationSound
      <3> QED
        BY <1>0, <1>3, <2>4, <3>2, <3>4, <3>5, SessionStep
    <2>5. CASE swallowed' = swallowed \cup {f} /\ status' = status
      <3>1. \A g : Live(g)' = Live(g)
        BY <2>1, <2>5 DEF Live, Issued
      <3>2. Concerns(f) /\ \A g \in Families \ {f} : g \in swallowed' => g \in swallowed
        BY <2>1, <2>5, <3>1 DEF Concerns
      <3>3. FamilySound(f)'
        BY <1>6, <2>1, <2>3, <2>5 DEF FamilySound
      <3>4. RotationSound(h)'
        BY <2>1, <2>2, <2>3, <2>5 DEF RotationSound
      <3> QED
        BY <1>0, <1>3, <3>2, <3>3, <3>4, SessionStep
    <2> QED
      BY <1>2, <1>8, <2>4, <2>5 DEF RevokeRefreshToken, Of
  <1>9. CASE LogoutRevoke(h)
    <2>1. /\ pc'[h] = "idle" /\ Revoke({held[h]})
          /\ UNCHANGED <<family, compromised, swallowed>>
          /\ Ended' = IF held[h] \in Live(f) THEN Ended \cup {f} ELSE Ended
      BY <1>0, <1>2, <1>5, <1>9, Answering DEF LogoutRevoke, Told, Ended, Of
    <2>2. \A g : Live(g)' = Live(g) \ {held[h]}
      BY <1>0, <2>1, LiveAfterRevoke
    <2>3. Concerns(f)
      BY <2>1, <2>2 DEF Concerns
    <2>4. f \in Ended' \ swallowed' => Live(f)' = {}
      BY <1>4, <2>1, <2>2 DEF FamilySound
    <2>5. FamilySound(f)'
      BY <1>4, <1>6, <2>1, <2>2, <2>4 DEF FamilySound
    <2>6. RotationSound(h)'
      BY <2>1 DEF RotationSound
    <2> QED
      BY <1>0, <1>3, <2>1, <2>3, <2>5, <2>6, SessionStep
  <1>10. CASE LogoutIgnored(h) \/ Fail(h)
    <2>1. pc'[h] = "idle" /\ UNCHANGED <<rows, compromised, swallowed>>
      BY <1>0, <1>10, Answering DEF LogoutIgnored, Fail, past
    <2>2. Ended' \subseteq Ended
      BY <1>10 DEF LogoutIgnored, Told, Fail, past, Ended
    <2>3. \A g : Live(g)' = Live(g)
      BY <2>1 DEF Live, Issued, rows
    <2>4. Concerns(f) /\ \A g \in Families \ {f} : g \in swallowed' => g \in swallowed
      BY <2>1, <2>2, <2>3 DEF Concerns
    <2>5. FamilySound(f)'
      BY <1>4, <1>6, <2>1, <2>2, <2>3 DEF FamilySound
    <2>6. RotationSound(h)'
      BY <2>1 DEF RotationSound
    <2> QED
      BY <1>0, <1>3, <2>4, <2>5, <2>6, SessionStep
  <1> QED
    BY <1>7, <1>8, <1>9, <1>10

\* The next token comes when the family has none.
LEMMA IssueSession ==
    ASSUME SessionInv, TypeOK', OneRequestPerSession', NEW h \in Handlers, IssueNext(h)
    PROVE  SessionInv'
  <1>0. TypeOK /\ RowsLast /\ OthersStay(h) /\ pc[h] = "issue"
    BY HandlerStep DEF SessionInv, IssueNext
  <1>1. held[h] \in Issued /\ Of(h) \in Families
    BY <1>0 DEF TypeOK, Of, Issued
  <1>2. PICK f \in Families : f = Of(h)
    BY <1>1
  <1>3. \A q \in Handlers \ {h} : pc[q] # "idle" => Of(q) # f
    BY <1>0, <1>2, NobodyElse DEF SessionInv
  <1>4. /\ f \in swallowed \/ Live(f) = {}
        /\ f \notin compromised /\ (f \in swallowed \/ f \notin Ended)
    BY <1>0, <1>2 DEF SessionInv, RotationSound
  <1>5. /\ \A g \in Families \ {f} : Live(g)' = Live(g)
        /\ Live(f) = {} => \A t, u \in Live(f)' : t = u
    BY <1>0, <1>2, LiveAfterInsert DEF IssueNext, Of
  <1>6. pc'[h] = "idle" /\ UNCHANGED past
    BY <1>0, Answering DEF IssueNext
  <1>7. Concerns(f) /\ \A g \in Families \ {f} : g \in swallowed' => g \in swallowed
    BY <1>5, <1>6 DEF Concerns, past, Ended
  <1>8. Known(f)'
    BY <1>0, <1>1, <1>2, KnownForever DEF Known, Of
  <1>9. FamilySound(f)'
    BY <1>4, <1>5, <1>6, <1>8 DEF FamilySound, past, Ended
  <1>10. RotationSound(h)'
    BY <1>6 DEF RotationSound
  <1> QED
    BY <1>0, <1>3, <1>7, <1>9, <1>10, SessionStep

\* Expiry only takes usable tokens away.
LEMMA ExpireSession ==
    ASSUME SessionInv, OneRequestPerSession', NEW t \in Tokens, Expire(t)
    PROVE  SessionInv'
  <1>1. /\ TypeOK' /\ RowsLast /\ UNCHANGED <<family, pc, held, past>>
        /\ \A u \in Tokens : status'[u] = "live" => status[u] = "live"
    BY ExpireStep DEF SessionInv
  <1>2. \A f : Live(f)' \subseteq Live(f)
    BY <1>1 DEF Live, Issued
  <1>3. \A f \in Families : FamilySound(f)'
    <2> TAKE f \in Families
    <2>1. FamilySound(f) /\ (Known(f) => Known(f)')
      BY <1>1, KnownForever DEF SessionInv
    <2> QED
      BY <1>1, <1>2, <2>1 DEF FamilySound, past, Ended
  <1>4. \A h \in Handlers : RotationSound(h)'
    <2> TAKE h \in Handlers
    <2>1. RotationSound(h) /\ Of(h)' = Of(h) /\ Live(Of(h))' \subseteq Live(Of(h))
      BY <1>1, <1>2 DEF SessionInv, Of, Live, Issued
    <2> QED
      BY <1>1, <2>1 DEF RotationSound, past, Ended
  <1> QED
    BY <1>1, <1>3, <1>4 DEF SessionInv

LEMMA StepSessionInv ==
    SessionInv /\ [Next /\ OneRequestPerSession']_vars => SessionInv'
  <1> SUFFICES ASSUME SessionInv, [Next /\ OneRequestPerSession']_vars PROVE SessionInv'
    OBVIOUS
  <1>1. CASE UNCHANGED vars
    <2>1. UNCHANGED <<status, family, pc, held, compromised, loggedOut, unheard, swallowed>>
      BY <1>1 DEF vars, rows, past
    <2>2. \A f : /\ Live(f)' = Live(f) /\ (Known(f) <=> Known(f)')
      BY <2>1 DEF Live, Known, Issued
    <2>3. \A f \in Families : FamilySound(f)'
      BY <2>1, <2>2 DEF SessionInv, FamilySound, Ended
    <2>4. \A h \in Handlers : RotationSound(h)'
      <3> TAKE h \in Handlers
      <3>1. RotationSound(h) /\ Of(h)' = Of(h) /\ Live(Of(h))' = Live(Of(h))
        BY <2>1 DEF SessionInv, Of, Live, Issued
      <3> QED
        BY <2>1, <3>1 DEF RotationSound, Ended
    <2>5. TypeOK' /\ OneRequestPerSession'
      BY <2>1 DEF SessionInv, TypeOK, Issued, OneRequestPerSession
    <2> QED
      BY <2>3, <2>4, <2>5 DEF SessionInv
  <1>2. ASSUME NEW h \in Handlers, OneRequestPerSession',
               \/ Login(h) \/ LookUp(h) \/ RevokeFamilyTokens(h) \/ RevokeRefreshToken(h)
               \/ IssueNext(h) \/ LogoutLookUp(h) \/ LogoutRevoke(h) \/ LogoutIgnored(h)
               \/ Fail(h)
        PROVE  SessionInv'
    <2>1. TypeOK'
      BY <1>2, HandlerStep DEF SessionInv
    <2> QED
      BY <1>2, <2>1, LoginSession, LookUpSession, RevokeSession, IssueSession
  <1> QED
    BY <1>1, <1>2, ExpireSession DEF Next

LEMMA SessionInvariant == SerialSpec => []SessionInv
  BY InitSessionInv, StepSessionInv, PTL DEF SerialSpec
-----------------------------------------------------------------------------
(* The theorems about sessions.                                             *)

\* Rotation leaves one usable token in a session, unless the error of a
\* revocation was ignored (AuthService.Refresh).
THEOREM OneTokenPerSession == SerialSpec => []OneLiveToken
  <1>1. SessionInv => OneLiveToken
    <2> SUFFICES ASSUME SessionInv, NEW f \in Families \ swallowed
                 PROVE  Cardinality(Live(f)) <= 1
      BY DEF OneLiveToken
    <2>1. \A t, u \in Live(f) : t = u
      BY DEF SessionInv, FamilySound
    <2>2. CASE Live(f) = {}
      BY <2>2, FS_EmptySet
    <2>3. ASSUME NEW t \in Live(f) PROVE Cardinality(Live(f)) <= 1
      <3>1. Live(f) = {t}
        BY <2>1, <2>3
      <3> QED
        BY <3>1, FS_Singleton
    <2> QED
      BY <2>2, <2>3
  <1> QED
    BY <1>1, SessionInvariant, PTL

\* A family revoked on reuse stays without a usable token: no rotation under way
\* brings it back (RevokeFamilyTokens).
THEOREM StolenSessionDies == SerialSpec => []CompromisedFamilyDead
  <1>1. SessionInv => CompromisedFamilyDead
    BY DEF SessionInv, FamilySound, CompromisedFamilyDead, TypeOK
  <1> QED
    BY <1>1, SessionInvariant, PTL

\* A session whose usable token a logout has revoked stays without one: no rotation,
\* reuse, later logout or expiry brings one back (AuthService.Logout).  Logouts that
\* hid an error are outside: the sessions they were answered for go on.
THEOREM LogoutEndsSession == SerialSpec => []LoggedOutIsOver
  <1>1. SessionInv => LoggedOutIsOver
    BY DEF SessionInv, FamilySound, LoggedOutIsOver, Ended, TypeOK
  <1> QED
    BY <1>1, SessionInvariant, PTL

\* With access tokens, roles and the admin's edits around them, the sessions are
\* still those of RefreshTokens: what is proved of them holds for Authority.
LEMMA StepIsSessionStep ==
    [AuthorityNext /\ OneRequestPerSession']_avars => [Next /\ OneRequestPerSession']_vars
  BY DEF AuthorityNext, avars, LoginReads, LoginIssues, LoginFails, GetByID, RefreshIssues,
         Continue, Finish, AdminReads, AdminWrites, AdminFails, Tick, TokenExpires, Next

THEOREM SessionsKept == AuthoritySpec => SerialSpec
  <1>1. AuthorityInit => Init
    BY DEF AuthorityInit
  <1> QED
    BY <1>1, StepIsSessionStep, PTL DEF AuthoritySpec, SerialSpec
-----------------------------------------------------------------------------
(* What the user may do after an edit.                                      *)

\* What a handler has read of the row is no older than its request, and what an
\* access token says no older than the token and a request.
AgesSound ==
    /\ \A h \in Handlers :
          /\ role[h] # Unread /\ MayEnter(role[h]) => lost <= spent[h]
          /\ pc[h] = "idle" /\ role[h] # Unread => shut <= spent[h]
    /\ left > 0 => lost + left <= Bound

AuthorityInv == SessionInv /\ AuthorityTypeOK /\ AgesSound

LEMMA Constants ==
    /\ AccessTTL \in Nat /\ AccessTTL > 0 /\ RequestLimit \in Nat
    /\ Bound = AccessTTL + RequestLimit /\ Bound \in Nat /\ Still = -1
    /\ Unread \notin Roles /\ Unsent \notin Roles
    /\ MayEnter("STAFF") /\ ~MayEnter("CUSTOMER") /\ ~MayEnter(Unread)
  BY AuthorityAssumption DEF Bound, Still, Unread, Unsent, Roles, MayEnter

LEMMA InitAuthorityInv == AuthorityInit => AuthorityInv
  <1> SUFFICES ASSUME AuthorityInit PROVE AuthorityInv
    OBVIOUS
  <1>1. SessionInv
    BY InitSessionInv DEF AuthorityInit
  <1>2. AuthorityTypeOK
    BY <1>1, Constants DEF AuthorityInit, AuthorityTypeOK, SessionInv, Rows, Roles
  <1>3. AgesSound
    BY Constants DEF AuthorityInit, AgesSound
  <1> QED
    BY <1>1, <1>2, <1>3 DEF AuthorityInv

LEMMA Growing ==
    ASSUME NEW age \in Int, NEW cap \in Nat, age >= Still, age <= cap
    PROVE  /\ Older(age, cap) \in Still .. cap
           /\ Older(age, cap) <= age + 1
           /\ Older(age, cap) = Still <=> age = Still
  BY DEF Older, Still

\* A handler that reads the row.
LEMMA ReadAuthority ==
    ASSUME AuthorityInv, TypeOK', NEW h \in Handlers, LoginReads(h) \/ GetByID(h)
    PROVE  AuthorityTypeOK' /\ AgesSound'
  <1>0. AuthorityTypeOK /\ AgesSound
    BY DEF AuthorityInv
  <1>1. /\ role' = [role EXCEPT ![h] = user.role]
        /\ UNCHANGED <<vars, account, spent, left>>
        /\ pc[h] = "idle" => user.is_active
    BY DEF LoginReads, GetByID, ReadRow
  <1>2. UNCHANGED <<pc, user, lost, shut, draft, spent, left>>
    BY <1>1 DEF vars, account
  <1>3. user.role \in Roles
    BY <1>0 DEF AuthorityTypeOK, Rows
  <1>4. AuthorityTypeOK'
    BY <1>0, <1>1, <1>2, <1>3 DEF AuthorityTypeOK
  <1>5. spent[h] \in Nat /\ (MayEnter(user.role) => lost = -1) /\ (user.is_active => shut = -1)
    BY <1>0, Constants DEF AuthorityTypeOK
  <1>6. role'[h] = user.role /\ \A q \in Handlers \ {h} : role'[q] = role[q]
    BY <1>0, <1>1 DEF AuthorityTypeOK
  <1>7. AgesSound'
    BY <1>0, <1>1, <1>2, <1>5, <1>6 DEF AgesSound
  <1> QED
    BY <1>4, <1>7

LEMMA Settling ==
    ASSUME AuthorityTypeOK, NEW h \in Handlers, Settle(h)
    PROVE  /\ role' \in [Handlers -> Roles \cup {Unread}]
           /\ spent' \in [Handlers -> 0 .. RequestLimit]
           /\ role'[h] = Unread
           /\ \A q \in Handlers \ {h} : role'[q] = role[q] /\ spent'[q] = spent[q]
  BY Constants DEF AuthorityTypeOK, Settle

\* A handler that is answered, and one that issues an access token.
LEMMA AnswerAuthority ==
    ASSUME AuthorityInv, TypeOK', NEW h \in Handlers,
           LoginIssues(h) \/ RefreshIssues(h) \/ LoginFails(h) \/ Finish(h)
    PROVE  AuthorityTypeOK' /\ AgesSound'
  <1>0. TypeOK /\ AuthorityTypeOK /\ AgesSound
    BY DEF AuthorityInv, SessionInv
  <1>1. Settle(h) /\ UNCHANGED <<user, lost, shut, draft>>
    BY DEF LoginIssues, RefreshIssues, LoginFails, Finish, account
  <1>2. OthersStay(h)
    BY <1>0, HandlerStep DEF LoginIssues, RefreshIssues, LoginFails, Finish, vars, OthersStay
  <1>3. left' = left \/ (left' = AccessTTL /\ role[h] # Unread /\ MayEnter(role[h]))
    BY DEF LoginIssues, RefreshIssues, LoginFails, Finish, IssueAccess
  <1>4. left' \in 0 .. AccessTTL
    BY <1>0, <1>3, Constants DEF AuthorityTypeOK
  <1>5. AuthorityTypeOK'
    BY <1>0, <1>1, <1>4, Settling DEF AuthorityTypeOK
  <1>6. left' > 0 => lost' + left' <= Bound
    <2>1. CASE left' = left
      BY <1>0, <1>1, <2>1 DEF AgesSound
    <2>2. CASE left' = AccessTTL /\ role[h] # Unread /\ MayEnter(role[h])
      <3>1. lost <= spent[h] /\ spent[h] \in Int /\ spent[h] <= RequestLimit /\ lost \in Int
        BY <1>0, <2>2, Constants DEF AgesSound, AuthorityTypeOK
      <3> QED
        BY <1>1, <2>2, <3>1, Constants
    <2> QED
      BY <1>3, <2>1, <2>2
  <1>7. ASSUME NEW q \in Handlers
        PROVE  /\ role'[q] # Unread /\ MayEnter(role'[q]) => lost' <= spent'[q]
               /\ pc'[q] = "idle" /\ role'[q] # Unread => shut' <= spent'[q]
    BY <1>0, <1>1, <1>2, <1>7, Settling DEF AgesSound, OthersStay
  <1> QED
    BY <1>5, <1>6, <1>7 DEF AgesSound

\* A handler that goes on.
LEMMA ContinueAuthority ==
    ASSUME AuthorityInv, TypeOK', NEW h \in Handlers, Continue(h)
    PROVE  AuthorityTypeOK' /\ AgesSound'
  <1>0. TypeOK /\ AuthorityTypeOK /\ AgesSound
    BY DEF AuthorityInv, SessionInv
  <1>1. UNCHANGED <<user, lost, shut, draft, role, spent, left>>
    BY DEF Continue, account
  <1>2. AuthorityTypeOK'
    BY <1>0, <1>1 DEF AuthorityTypeOK
  <1>3. OthersStay(h)
    BY <1>0, HandlerStep DEF Continue
  <1>4. pc'[h] # "idle"
    BY <1>0 DEF Continue, LookUp, LogoutLookUp, RevokeRefreshToken, Goto, TypeOK
  <1> QED
    BY <1>0, <1>1, <1>2, <1>3, <1>4 DEF AgesSound, OthersStay

\* The admins, who write whole rows.
LEMMA AdminAuthority ==
    ASSUME AuthorityInv, TypeOK', NEW a \in Admins,
           AdminReads(a) \/ AdminWrites(a) \/ AdminFails(a)
    PROVE  AuthorityTypeOK' /\ AgesSound'
  <1>0. TypeOK /\ AuthorityTypeOK /\ AgesSound
    BY DEF AuthorityInv, SessionInv
  <1>1. CASE AdminReads(a)
    <2>1. PICK body \in [role : Roles \cup {Unsent}, is_active : {"yes", "no", Unsent}] :
             draft' = [draft EXCEPT ![a] = Merged(body)]
      BY <1>1 DEF AdminReads
    <2>2. Merged(body) \in Rows
      BY <1>0 DEF Merged, Rows, AuthorityTypeOK
    <2>3. UNCHANGED <<pc, user, lost, shut, role, spent, left>>
      BY <1>1 DEF AdminReads, vars
    <2> QED
      BY <1>0, <2>1, <2>2, <2>3 DEF AuthorityTypeOK, AgesSound
  <1>2. CASE AdminFails(a)
    <2>1. UNCHANGED <<pc, user, lost, shut, role, spent, left>>
      BY <1>2 DEF AdminFails, vars
    <2> QED
      BY <1>0, <1>2, <2>1 DEF AdminFails, AuthorityTypeOK, AgesSound
  <1>3. CASE AdminWrites(a)
    <2>1. /\ user' = draft[a] /\ draft[a] # Nobody
          /\ lost' = IF MayEnter(user'.role) THEN Still
                     ELSE IF MayEnter(user.role) THEN 0 ELSE lost
          /\ shut' = IF user'.is_active THEN Still
                     ELSE IF user.is_active THEN 0 ELSE shut
          /\ draft' = [draft EXCEPT ![a] = Nobody]
          /\ UNCHANGED <<pc, role, spent, left>>
      BY <1>3 DEF AdminWrites, vars
    <2>2. user' \in Rows /\ draft' \in [Admins -> Rows \cup {Nobody}]
      BY <1>0, <2>1 DEF AuthorityTypeOK
    <2>3. lost' \in Still .. Bound /\ (lost' = Still <=> MayEnter(user'.role))
      BY <1>0, <2>1, Constants DEF AuthorityTypeOK
    <2>4. shut' \in Still .. RequestLimit + 1 /\ (shut' = Still <=> user'.is_active)
      BY <1>0, <2>1, Constants DEF AuthorityTypeOK
    <2>5. AuthorityTypeOK'
      BY <1>0, <2>1, <2>2, <2>3, <2>4 DEF AuthorityTypeOK
    <2>6. lost' \in {-1, 0, lost} /\ shut' \in {-1, 0, shut} /\ lost \in Int /\ shut \in Int
      BY <1>0, <2>1, Constants DEF AuthorityTypeOK
    <2>7. left \in Nat /\ left <= AccessTTL /\ \A q \in Handlers : spent[q] \in Nat
      BY <1>0, Constants DEF AuthorityTypeOK
    <2>8. left' > 0 => lost' + left' <= Bound
      BY <1>0, <2>1, <2>6, <2>7, Constants DEF AgesSound
    <2>9. AgesSound'
      BY <1>0, <2>1, <2>6, <2>7, <2>8 DEF AgesSound
    <2> QED
      BY <2>5, <2>9
  <1> QED
    BY <1>1, <1>2, <1>3

\* A tick ages the change as fast as the requests and tokens that outlive it.
LEMMA TickAuthority ==
    ASSUME AuthorityInv, TypeOK', Tick
    PROVE  AuthorityTypeOK' /\ AgesSound'
  <1>0. AuthorityTypeOK /\ AgesSound
    BY DEF AuthorityInv
  <1>1. /\ \A h \in Handlers : Busy(h) => spent[h] < RequestLimit
        /\ spent' = [h \in Handlers |-> IF Busy(h) THEN spent[h] + 1 ELSE 0]
        /\ lost' = Older(lost, Bound) /\ shut' = Older(shut, RequestLimit + 1)
        /\ left' = IF left = 0 THEN 0 ELSE left - 1
        /\ UNCHANGED <<pc, user, draft, role>>
    BY DEF Tick, vars
  <1>2. /\ lost \in Int /\ lost >= Still /\ lost <= Bound
        /\ shut \in Int /\ shut >= Still /\ shut <= RequestLimit + 1
        /\ left \in Nat /\ left <= AccessTTL
        /\ \A h \in Handlers : spent[h] \in Nat /\ spent[h] <= RequestLimit
    BY <1>0, Constants DEF AuthorityTypeOK
  <1>3. /\ lost' \in Still .. Bound /\ lost' <= lost + 1 /\ (lost' = Still <=> lost = Still)
    BY <1>1, <1>2, Growing, Constants
  <1>4. /\ shut' \in Still .. RequestLimit + 1 /\ shut' <= shut + 1
        /\ (shut' = Still <=> shut = Still)
    <2>1. RequestLimit + 1 \in Nat
      BY Constants
    <2> QED
      BY <1>1, <1>2, <2>1, Growing
  <1>5. spent' \in [Handlers -> 0 .. RequestLimit]
    BY <1>1, <1>2, Constants
  <1>6. left' \in 0 .. AccessTTL
    BY <1>1, <1>2, Constants
  <1>7. AuthorityTypeOK'
    BY <1>0, <1>1, <1>3, <1>4, <1>5, <1>6 DEF AuthorityTypeOK
  <1>8. ASSUME left' > 0 PROVE lost' + left' <= Bound
    BY <1>0, <1>1, <1>2, <1>3, <1>8, Constants DEF AgesSound
  <1>9. ASSUME NEW q \in Handlers, role'[q] # Unread
        PROVE  spent'[q] = spent[q] + 1 /\ role[q] # Unread /\ role'[q] = role[q] /\ pc'[q] = pc[q]
    BY <1>1, <1>9 DEF Busy
  <1>10. ASSUME NEW q \in Handlers
         PROVE  /\ role'[q] # Unread /\ MayEnter(role'[q]) => lost' <= spent'[q]
                /\ pc'[q] = "idle" /\ role'[q] # Unread => shut' <= spent'[q]
    <2> SUFFICES ASSUME role'[q] # Unread
                 PROVE  /\ MayEnter(role'[q]) => lost' <= spent'[q]
                        /\ pc'[q] = "idle" => shut' <= spent'[q]
      OBVIOUS
    <2>1. spent'[q] = spent[q] + 1 /\ role[q] # Unread /\ role'[q] = role[q] /\ pc'[q] = pc[q]
      BY <1>9
    <2>2. /\ MayEnter(role[q]) => lost <= spent[q]
          /\ pc[q] = "idle" => shut <= spent[q]
      BY <1>0, <2>1 DEF AgesSound
    <2> QED
      BY <1>2, <1>3, <1>4, <2>1, <2>2, Constants
  <1> QED
    BY <1>7, <1>8, <1>10 DEF AgesSound

LEMMA StepAuthorityInv ==
    AuthorityInv /\ [AuthorityNext /\ OneRequestPerSession']_avars => AuthorityInv'
  <1> SUFFICES ASSUME AuthorityInv, [AuthorityNext /\ OneRequestPerSession']_avars
               PROVE  AuthorityInv'
    OBVIOUS
  <1>1. SessionInv' /\ TypeOK'
    BY StepIsSessionStep, StepSessionInv DEF AuthorityInv, SessionInv
  <1>2. CASE UNCHANGED <<pc, account, role, spent, left>>
    BY <1>1, <1>2 DEF account, AuthorityInv, AuthorityTypeOK, AgesSound
  <1>3. CASE TokenExpires \/ UNCHANGED avars
    BY <1>2, <1>3 DEF TokenExpires, Expire, avars, vars
  <1>4. CASE AuthorityNext /\ ~TokenExpires
    BY <1>1, <1>4, ReadAuthority, AnswerAuthority, ContinueAuthority, AdminAuthority,
       TickAuthority DEF AuthorityNext, AuthorityInv
  <1> QED
    BY <1>3, <1>4

LEMMA AuthorityInvariant == AuthoritySpec => []AuthorityInv
  BY InitAuthorityInv, StepAuthorityInv, PTL DEF AuthoritySpec
-----------------------------------------------------------------------------
(* The theorems about authority.                                            *)

\* Rows, ages and drafts stay in their types.
THEOREM AuthorityTyped == AuthoritySpec => []AuthorityTypeOK
  <1>1. AuthorityInv => AuthorityTypeOK
    BY DEF AuthorityInv
  <1> QED
    BY <1>1, AuthorityInvariant, PTL

\* Staff that is demoted is let in for one access token's and one request's time
\* at the longest, whatever refreshes and logins race with the edit
\* (jwt.go, StaffOrAdmin, AdminUserHandler.Update).
THEOREM AuthorityIsBounded == AuthoritySpec => []AuthorityBounded
  <1>1. AuthorityInv => AuthorityBounded
    BY Constants DEF AuthorityInv, AgesSound, AuthorityBounded, StaffLetIn, AuthorityTypeOK
  <1> QED
    BY <1>1, AuthorityInvariant, PTL

\* A user shut out begins no session later than one request's time after it:
\* only a login inserts the first token of a family (AuthService.Login).
THEOREM ShutOut == AuthoritySpec => ShutOutOfNewSessions
  <1>1. ASSUME AuthorityInv, [AuthorityNext /\ OneRequestPerSession']_avars
        PROVE  [\A f \in Families : ~Known(f) /\ Known(f)' => shut <= RequestLimit]_avars
    <2> SUFFICES ASSUME NEW f \in Families, ~Known(f), Known(f)'
                 PROVE  shut <= RequestLimit
      OBVIOUS
    <2>0. TypeOK /\ AuthorityTypeOK /\ AgesSound
      BY <1>1 DEF AuthorityInv, SessionInv
    <2>1. CASE UNCHANGED <<Issued, family>>
      BY <2>1 DEF Known
    <2>2. CASE UNCHANGED <<status, family>>
      BY <2>1, <2>2 DEF Issued
    <2>3. ASSUME NEW h \in Handlers, LoginIssues(h) PROVE shut <= RequestLimit
      BY <2>0, <2>3, Constants DEF LoginIssues, Login, AgesSound, AuthorityTypeOK
    <2>4. ASSUME NEW h \in Handlers, RefreshIssues(h) PROVE FALSE
      <3>1. IssueNext(h) /\ held[h] \in Issued /\ Of(h) \in Families
        BY <2>0, <2>4 DEF RefreshIssues, IssueNext, TypeOK, Of, Issued
      <3>2. PICK g \in Families : g = Of(h) /\ Insert(g) /\ Known(g)
        BY <3>1 DEF IssueNext, Of, Known
      <3>3. PICK t \in Tokens \ Issued :
               /\ Issued' = Issued \cup {t} /\ family'[t] = g
               /\ \A u \in Tokens \ {t} : family'[u] = family[u]
        BY <2>0, <3>2, Inserting
      <3> QED
        BY <3>2, <3>3 DEF Known, Issued
    <2>5. ASSUME NEW h \in Handlers, Continue(h) \/ Finish(h) PROVE FALSE
      <3>1. Issued' = Issued /\ family' = family
        BY <2>0, <2>5, Revoking DEF Continue, Finish, LookUp, LogoutLookUp, Fail,
           RevokeRefreshToken, RevokeFamilyTokens, LogoutRevoke, LogoutIgnored, rows, Issued
      <3> QED
        BY <2>1, <3>1 DEF Known
    <2>6. CASE TokenExpires
      BY <2>0, <2>6, ExpireStep DEF TokenExpires, Known, Expire, Issued, TypeOK
    <2>7. CASE UNCHANGED vars
      BY <2>2, <2>7 DEF vars, rows
    <2> QED
      BY <1>1, <2>3, <2>4, <2>5, <2>6, <2>7 DEF AuthorityNext, LoginReads, LoginFails, GetByID,
         AdminReads, AdminWrites, AdminFails, Tick, avars
  <1> QED
    BY <1>1, AuthorityInvariant, PTL DEF AuthoritySpec, ShutOutOfNewSessions
=============================================================================
