---------------------------- MODULE RefreshTokens ---------------------------
(* Sessions: login, rotation of refresh tokens with reuse detection, and    *)
(* logout (internal/service/auth.go over internal/repo/user.go).            *)
(*                                                                          *)
(* A login starts a family of tokens; a refresh revokes the token it is     *)
(* given and inserts the next one of the family; a revoked token that is    *)
(* presented again is taken for stolen and its whole family is revoked.     *)
(* Each query is a transaction of its own, so two requests that present the *)
(* same token interleave between them.                                      *)
EXTENDS Integers, FiniteSets

CONSTANTS
    Handlers,    \* requests served at the same time
    Families,    \* bound: the logins that happen
    Tokens,      \* bound: the tokens that are ever issued
    Nobody       \* no token

ASSUME TokensAssumption ==
    /\ IsFiniteSet(Tokens) /\ Nobody \notin Tokens
    /\ Families # {}

VARIABLES
    status,      \* of each row of refresh_tokens, "unissued" where there is none
    family,      \* family_id of the issued tokens
    pc, held,    \* per handler: position, and the token presented
    compromised, \* the families revoked on reuse of a token
    loggedOut,   \* the families whose live token a logout was answered 204 for
    unheard,     \* those of them whose last logout hid an error
    swallowed    \* the families in which a refresh ignored the error of a revocation

rows   == <<status, family>>
past   == <<compromised, loggedOut, unheard, swallowed>>
vars   == <<rows, pc, held, past>>

Issued  == {t \in Tokens : status[t] # "unissued"}
Live(f) == {t \in Issued : status[t] = "live" /\ family[t] = f}
Known(f) == \E t \in Issued : family[t] = f

TypeOK ==
    /\ status \in [Tokens -> {"unissued", "live", "revoked", "expired"}]
    /\ family \in [Tokens -> Families]
    /\ pc \in [Handlers -> {"idle", "revokeFamily", "revoke", "issue", "logout"}]
    /\ held \in [Handlers -> Tokens \cup {Nobody}]
    /\ compromised \subseteq Families
    /\ loggedOut \subseteq Families /\ unheard \subseteq loggedOut
    /\ swallowed \subseteq Families
    /\ \A h \in Handlers : pc[h] = "idle" \/ held[h] \in Issued

Init ==
    /\ status = [t \in Tokens |-> "unissued"]
    /\ family \in {[t \in Tokens |-> f] : f \in {CHOOSE g \in Families : TRUE}}
    /\ pc = [h \in Handlers |-> "idle"]
    /\ held = [h \in Handlers |-> Nobody]
    /\ compromised = {} /\ loggedOut = {} /\ unheard = {} /\ swallowed = {}

Goto(h, l) == pc' = [pc EXCEPT ![h] = l]
Answer(h)  == Goto(h, "idle") /\ held' = [held EXCEPT ![h] = Nobody]

\* issueTokensWithFamily: INSERT INTO refresh_tokens.
Insert(f) == \E t \in Tokens \ Issued :
    /\ status' = [status EXCEPT ![t] = "live"]
    /\ family' = [family EXCEPT ![t] = f]

\* Login, with credentials that are right: a fresh family.
Login(h) ==
    /\ pc[h] = "idle"
    /\ \E f \in Families : ~Known(f) /\ Insert(f)
    /\ UNCHANGED <<pc, held, past>>

\* Defect: ErrNoRows is taken for a token that was never revoked.
LookUp_NoRowsIgnored(h) ==
    /\ pc[h] = "idle"
    /\ \E t \in Tokens :
          /\ held' = [held EXCEPT ![h] = t]
          /\ Goto(h, IF status[t] = "revoked" THEN "revokeFamily" ELSE "revoke")
    /\ UNCHANGED <<rows, past>>

\* Refresh: GetRefreshToken finds rows that have not expired, revoked or not.
LookUp(h) ==
    /\ pc[h] = "idle"
    /\ \E t \in Issued :
          /\ status[t] # "expired"
          /\ held' = [held EXCEPT ![h] = t]
          /\ Goto(h, IF status[t] = "revoked" THEN "revokeFamily" ELSE "revoke")
    /\ UNCHANGED <<rows, past>>

Revoke(S) ==
    status' = [t \in Tokens |-> IF t \in S /\ status[t] = "live" THEN "revoked" ELSE status[t]]

\* Defect: only the token that was presented is revoked.
RevokeFamilyTokens_Presented(h) ==
    /\ pc[h] = "revokeFamily"
    /\ Revoke({held[h]})
    /\ compromised' = compromised \cup {family[held[h]]}
    /\ Answer(h)
    /\ UNCHANGED <<family, loggedOut, unheard, swallowed>>

\* Reuse: RevokeFamilyTokens, whose error is ignored, then 401.
RevokeFamilyTokens(h) ==
    LET f == family[held[h]] IN
    /\ pc[h] = "revokeFamily"
    /\ \/ /\ Revoke(Live(f))
          /\ compromised' = compromised \cup {f}
          /\ UNCHANGED swallowed
       \/ /\ swallowed' = swallowed \cup {f}
          /\ UNCHANGED <<status, compromised>>
    /\ Answer(h)
    /\ UNCHANGED <<family, loggedOut, unheard>>

\* Defect: the old token is left alone.
RevokeRefreshToken_Skipped(h) ==
    /\ pc[h] = "revoke"
    /\ Goto(h, "issue")
    /\ UNCHANGED <<rows, held, past>>

\* Rotation: RevokeRefreshToken sets revoked_at whatever it was, and its error
\* is ignored.
RevokeRefreshToken(h) ==
    /\ pc[h] = "revoke"
    /\ \/ Revoke({held[h]}) /\ UNCHANGED swallowed
       \/ swallowed' = swallowed \cup {family[held[h]]} /\ UNCHANGED status
    /\ Goto(h, "issue")
    /\ UNCHANGED <<family, held, compromised, loggedOut, unheard>>

\* GetByID and the insertion of the next token of the family.  Nothing is read
\* again of the token or its family.
IssueNext(h) ==
    /\ pc[h] = "issue"
    /\ Insert(family[held[h]])
    /\ Answer(h)
    /\ UNCHANGED past

\* Logout: GetRefreshToken of a token of the client; it finds the row, or fails
\* with an error that LogoutIgnored answers.
LogoutLookUp(h) ==
    /\ pc[h] = "idle"
    /\ \E t \in Issued :
          /\ status[t] # "expired"
          /\ held' = [held EXCEPT ![h] = t]
    /\ Goto(h, "logout")
    /\ UNCHANGED <<rows, past>>

\* What the answer 204 makes of the family of the token that was presented.
Told(h, isOver) ==
    LET ended == IF status[held[h]] = "live" THEN {family[held[h]]} ELSE {} IN
    /\ loggedOut' = loggedOut \cup ended
    /\ unheard'   = IF isOver THEN unheard \ ended ELSE unheard \cup ended

\* Defect: the cookie is cleared and the token stays valid.
LogoutRevoke_CookieOnly(h) ==
    /\ pc[h] = "logout"
    /\ Told(h, TRUE)
    /\ Answer(h)
    /\ UNCHANGED <<rows, compromised, swallowed>>

\* RevokeRefreshToken of the token that was found, then 204.
LogoutRevoke(h) ==
    /\ pc[h] = "logout"
    /\ Revoke({held[h]})
    /\ Told(h, TRUE)
    /\ Answer(h)
    /\ UNCHANGED <<family, compromised, swallowed>>

\* The lookup fails, which Logout takes for "already logged out" whatever the
\* error is, or the revocation does, whose error the handler drops: nothing is
\* revoked, the cookie is cleared, and the answer is 204 all the same.
LogoutIgnored(h) ==
    /\ pc[h] = "logout"
    /\ Told(h, FALSE)
    /\ Answer(h)
    /\ UNCHANGED <<rows, compromised, swallowed>>

\* A query of a refresh fails with an error that is returned, or the process dies
\* in a request: what was done stays done, the client has no new token and was
\* told of no success.
Fail(h) ==
    /\ pc[h] # "idle"
    /\ Answer(h)
    /\ UNCHANGED <<rows, past>>

\* expires_at passes.
Expire(t) ==
    /\ status[t] \in {"live", "revoked"}
    /\ status' = [status EXCEPT ![t] = "expired"]
    /\ UNCHANGED <<family, pc, held, past>>

Next ==
    \/ \E h \in Handlers :
          \/ Login(h) \/ LookUp(h) \/ RevokeFamilyTokens(h) \/ RevokeRefreshToken(h)
          \/ IssueNext(h) \/ LogoutLookUp(h) \/ LogoutRevoke(h) \/ LogoutIgnored(h)
          \/ Fail(h)
    \/ \E t \in Tokens : Expire(t)

Spec == Init /\ [][Next]_vars

\* A client that sends one request of a session at a time.
OneRequestPerSession == \A g, h \in Handlers :
    (/\ pc[g] # "idle" /\ pc[h] # "idle"
     /\ family[held[g]] = family[held[h]]) => g = h

SerialSpec == Init /\ [][Next /\ OneRequestPerSession']_vars
-----------------------------------------------------------------------------
\* Rotation: a session has one usable refresh token at most, unless the error of
\* a revocation was ignored.
OneLiveToken == \A f \in Families \ swallowed : Cardinality(Live(f)) <= 1

\* "Stolen token - revoke the whole family": once a revoked token was presented
\* and its family revoked, no token of the family is usable, then or later.
CompromisedFamilyDead == \A f \in compromised : Live(f) = {}

\* A session whose current token was revoked by a logout is over, whatever reuses
\* of its tokens, retries and expiries follow.  Two kinds of sessions are excepted:
\* those in which a refresh left two tokens usable, and those whose logout was
\* answered 204 although an error kept it from revoking anything ("already logged
\* out", auth.go:163); of these the client was told what is not so.
LoggedOutIsOver == \A f \in loggedOut \ (unheard \cup swallowed) : Live(f) = {}
=============================================================================
