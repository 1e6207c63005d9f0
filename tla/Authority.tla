------------------------------ MODULE Authority -----------------------------
(* What a user may still do after an admin has changed the user's row:      *)
(* sessions (RefreshTokens), the access tokens issued in them               *)
(* (platform/token/jwt.go), the middleware that trusts those                *)
(* (http/middleware/auth.go, role.go) and the admin's edit                  *)
(* (http/handler/admin_user.go), for one user.                              *)
(*                                                                          *)
(* An access token carries the role its handler read from the row and is    *)
(* believed until it expires; the row is read again at a refresh only, and  *)
(* is_active at a login only.  Times are told in ticks.                     *)
EXTENDS RefreshTokens

CONSTANTS
    Admins,        \* PATCH /admin/users/{id} requests for this user
    AccessTTL,     \* ticks an access token is valid (15 minutes)
    RequestLimit   \* ticks a request may take (the router's Timeout, 30 s)

ASSUME AuthorityAssumption ==
    AccessTTL \in Nat \ {0} /\ RequestLimit \in Nat

Roles == {"STAFF", "CUSTOMER"}
\* StaffOrAdmin; CUSTOMER is the role it refuses.
MayEnter(r) == r = "STAFF"
Rows  == [role : Roles, is_active : BOOLEAN]
Still == -1                          \* the row does not say so at all
Unread == "unread"
Unsent == "unsent"
Bound  == AccessTTL + RequestLimit   \* where the ages of a change saturate

VARIABLES
    user,      \* the row of users
    lost,      \* ticks since the row stopped saying STAFF
    shut,      \* ticks since the row is inactive
    draft,     \* per admin: the row it will write back
    role,      \* per handler: the role in the row it has read
    spent,     \* per handler: ticks since its request began
    left       \* ticks until no access token that says STAFF is valid

account == <<user, lost, shut, draft>>
avars   == <<vars, account, role, spent, left>>

Busy(h) == pc[h] # "idle" \/ role[h] # Unread

AuthorityTypeOK ==
    /\ TypeOK
    /\ user \in Rows
    /\ lost \in Still .. Bound /\ (lost = Still <=> MayEnter(user.role))
    /\ shut \in Still .. RequestLimit + 1 /\ (shut = Still <=> user.is_active)
    /\ draft \in [Admins -> Rows \cup {Nobody}]
    /\ role \in [Handlers -> Roles \cup {Unread}]
    /\ spent \in [Handlers -> 0 .. RequestLimit]
    /\ left \in 0 .. AccessTTL

AuthorityInit ==
    /\ Init
    /\ user = [role |-> "STAFF", is_active |-> TRUE]
    /\ lost = Still /\ shut = Still
    /\ draft = [a \in Admins |-> Nobody]
    /\ role = [h \in Handlers |-> Unread]
    /\ spent = [h \in Handlers |-> 0]
    /\ left = 0

ReadRow(h) == role' = [role EXCEPT ![h] = user.role]
Settle(h) ==
    /\ role' = [role EXCEPT ![h] = Unread]
    /\ spent' = [spent EXCEPT ![h] = 0]

\* Defect: a login does not look at is_active.
LoginReads_Inactive(h) ==
    /\ ~Busy(h)
    /\ ReadRow(h)
    /\ UNCHANGED <<vars, account, spent, left>>

\* Login: the row is read once, an inactive user is refused like a wrong
\* password.
LoginReads(h) ==
    /\ ~Busy(h)
    /\ user.is_active
    /\ ReadRow(h)
    /\ UNCHANGED <<vars, account, spent, left>>

\* IssueAccess signs the role of the row that was read, whatever the row says
\* by now.
IssueAccess(h) == left' = IF MayEnter(role[h]) THEN AccessTTL ELSE left

\* Authenticate and StaffOrAdmin look at the token alone.
StaffLetIn == left > 0

LoginIssues(h) ==
    /\ role[h] # Unread
    /\ Login(h)
    /\ IssueAccess(h)
    /\ Settle(h)
    /\ UNCHANGED account

\* A query of the login fails, or the password is wrong after all.
LoginFails(h) ==
    /\ pc[h] = "idle" /\ role[h] # Unread
    /\ Settle(h)
    /\ UNCHANGED <<vars, account, left>>

\* Defect: a refresh copies the role of the access token that expires.
GetByID_FromToken(h) ==
    /\ pc[h] = "issue" /\ role[h] = Unread
    /\ role' = [role EXCEPT ![h] = IF left > 0 THEN "STAFF" ELSE user.role]
    /\ UNCHANGED <<vars, account, spent, left>>

\* Refresh: the row is read again after the old token was revoked; nobody looks
\* at is_active.
GetByID(h) ==
    /\ pc[h] = "issue" /\ role[h] = Unread
    /\ ReadRow(h)
    /\ UNCHANGED <<vars, account, spent, left>>

RefreshIssues(h) ==
    /\ role[h] # Unread
    /\ IssueNext(h)
    /\ IssueAccess(h)
    /\ Settle(h)
    /\ UNCHANGED account

\* The other steps of refreshes and logouts, of a request that goes on ...
Continue(h) ==
    /\ \/ ~Busy(h) /\ (LookUp(h) \/ LogoutLookUp(h))
       \/ RevokeRefreshToken(h)
    /\ UNCHANGED <<account, role, spent, left>>

\* ... and of one that is answered.
Finish(h) ==
    /\ RevokeFamilyTokens(h) \/ LogoutRevoke(h) \/ LogoutIgnored(h) \/ Fail(h)
    /\ Settle(h)
    /\ UNCHANGED <<account, left>>

\* Update reads the whole row and lays the fields of the body over it.
Merged(body) ==
    [role      |-> IF body.role = Unsent THEN user.role ELSE body.role,
     is_active |-> IF body.is_active = Unsent THEN user.is_active ELSE body.is_active = "yes"]

AdminReads(a) ==
    /\ draft[a] = Nobody
    /\ \E body \in [role : Roles \cup {Unsent}, is_active : {"yes", "no", Unsent}] :
          draft' = [draft EXCEPT ![a] = Merged(body)]
    /\ UNCHANGED <<vars, user, lost, shut, role, spent, left>>

\* UPDATE users writes both columns back.
AdminWrites(a) ==
    /\ draft[a] # Nobody
    /\ user' = draft[a]
    /\ lost' = IF MayEnter(user'.role) THEN Still
               ELSE IF MayEnter(user.role) THEN 0 ELSE lost
    /\ shut' = IF user'.is_active THEN Still
               ELSE IF user.is_active THEN 0 ELSE shut
    /\ draft' = [draft EXCEPT ![a] = Nobody]
    /\ UNCHANGED <<vars, role, spent, left>>

\* A query of the edit fails.
AdminFails(a) ==
    /\ draft[a] # Nobody
    /\ draft' = [draft EXCEPT ![a] = Nobody]
    /\ UNCHANGED <<vars, user, lost, shut, role, spent, left>>

Older(age, cap) == IF age \in {Still, cap} THEN age ELSE age + 1

\* A tick.  The deadline of a request cancels its queries: none is under way
\* for longer than RequestLimit.
Tick ==
    /\ \A h \in Handlers : Busy(h) => spent[h] < RequestLimit
    /\ spent' = [h \in Handlers |-> IF Busy(h) THEN spent[h] + 1 ELSE 0]
    /\ lost' = Older(lost, Bound)
    /\ shut' = Older(shut, RequestLimit + 1)
    /\ left' = IF left = 0 THEN 0 ELSE left - 1
    /\ UNCHANGED <<vars, user, draft, role>>

\* A refresh token expires (after days: at any moment of this clock).
TokenExpires ==
    /\ \E t \in Tokens : Expire(t)
    /\ UNCHANGED <<account, role, spent, left>>

AuthorityNext ==
    \/ \E h \in Handlers :
          \/ LoginReads(h) \/ LoginIssues(h) \/ LoginFails(h)
          \/ GetByID(h) \/ RefreshIssues(h) \/ Continue(h) \/ Finish(h)
    \/ \E a \in Admins : AdminReads(a) \/ AdminWrites(a) \/ AdminFails(a)
    \/ Tick \/ TokenExpires

AuthoritySpec == AuthorityInit /\ [][AuthorityNext /\ OneRequestPerSession']_avars
-----------------------------------------------------------------------------
\* A user whose row no longer says STAFF is let through StaffOrAdmin for no
\* longer than an access token is valid plus the time of one request: the
\* handler may have read the row just before it changed, and a refresh reads it
\* again.
AuthorityBounded == StaffLetIn => lost < Bound

\* Once a row is inactive no session begins, but for a login that had read it
\* before: is_active is a condition of every login under way for at most one
\* request's time.  (A session that exists goes on: Refresh does not look.)
ShutOutOfNewSessions == [][
    \A f \in Families : ~Known(f) /\ Known(f)' => shut <= RequestLimit]_avars
=============================================================================
