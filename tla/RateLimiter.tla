----------------------------- MODULE RateLimiter ----------------------------
(* The sliding windows that limit logins and registrations                  *)
(* (internal/http/middleware/ratelimit.go).                                 *)
(*                                                                          *)
(* Per key the limiter keeps the times of the attempts it let through and   *)
(* counts those younger than the window.  allow and the cleanup goroutine   *)
(* hold the mutex from end to end, so each is one step.  Times are told by  *)
(* their age in ticks, expired ones being all alike.                        *)
EXTENDS Loops, SequencesExt

CONSTANTS
    Clients,     \* those who send attempts
    Keys,        \* the hosts net.SplitHostPort finds in their addresses
    KeyOf,       \* KeyOf[c]: the host of client c
    Limit,       \* attempts let through per window (5, or 3 for registrations)
    Window       \* ticks of a window (15 minutes, or an hour)

ASSUME RateLimiterAssumption ==
    /\ KeyOf \in [Clients -> Keys]
    /\ Limit \in Nat \ {0} /\ Window \in Nat \ {0}

Ages == 0 .. Window      \* Window: that old or older

VARIABLES
    requests,    \* ages of the attempts let through; <<>> for a missing key
    present,     \* the keys of the map
    through,     \* the attempts of each key let through since the process started
    refused      \* clients whose last attempt was refused, and what was through then

vars == <<requests, present, through, refused>>

Young(ages) == Kept(ages, 0 .. Window - 1)

TypeOK ==
    /\ requests \in [Keys -> BoundedSeq(Ages, Limit)]
    /\ present \subseteq Keys
    /\ \A k \in Keys \ present : requests[k] = <<>>
    /\ through \in [Keys -> Seq(0 .. Window - 1)]
    /\ refused \in [Clients -> Nat]

Init ==
    /\ requests = [k \in Keys |-> <<>>]
    /\ present = {}
    /\ through = [k \in Keys |-> <<>>]
    /\ refused = [c \in Clients |-> Limit]

\* Defect: a refused attempt takes the place of the oldest one counted.
Allow_CountsRefused(c) ==
    LET k == KeyOf[c]  valid == Young(requests[k]) IN
    /\ present' = present \cup {k}
    /\ IF Len(valid) >= Limit
       THEN /\ requests' = [requests EXCEPT ![k] = Append(Tail(valid), 0)]
            /\ refused' = [refused EXCEPT ![c] = Len(through[k])]
            /\ UNCHANGED through
       ELSE /\ requests' = [requests EXCEPT ![k] = Append(valid, 0)]
            /\ through' = [through EXCEPT ![k] = Append(@, 0)]
            /\ UNCHANGED refused

\* A refused attempt leaves the valid ones and is not counted itself.
Allow(c) ==
    LET k == KeyOf[c]  valid == Young(requests[k]) IN
    /\ present' = present \cup {k}
    /\ IF Len(valid) >= Limit
       THEN /\ requests' = [requests EXCEPT ![k] = valid]
            /\ refused' = [refused EXCEPT ![c] = Len(through[k])]
            /\ UNCHANGED through
       ELSE /\ requests' = [requests EXCEPT ![k] = Append(valid, 0)]
            /\ through' = [through EXCEPT ![k] = Append(@, 0)]
            /\ UNCHANGED refused

\* Defect: a key with one expired attempt is dropped with the others.
Cleanup_DropsMixed ==
    LET kept == {k \in present : requests[k] # <<>> /\ Young(requests[k]) = requests[k]} IN
    /\ present' = kept
    /\ requests' = [k \in Keys |-> IF k \in kept THEN requests[k] ELSE <<>>]
    /\ UNCHANGED <<through, refused>>

\* Defect: keys are emptied and stay in the map.
Cleanup_KeepsKeys ==
    /\ requests' = [k \in Keys |-> Young(requests[k])]
    /\ UNCHANGED <<present, through, refused>>

\* The goroutine wakes up every five minutes.
Cleanup ==
    /\ requests' = [k \in Keys |-> Young(requests[k])]
    /\ present' = {k \in present : Young(requests[k]) # <<>>}
    /\ UNCHANGED <<through, refused>>

Older(age) == IF age = Window THEN Window ELSE age + 1
Aged(ages) == [i \in DOMAIN ages |-> Older(ages[i])]

Tick ==
    /\ requests' = [k \in Keys |-> Aged(requests[k])]
    /\ through' = [k \in Keys |-> Young(Aged(through[k]))]
    /\ UNCHANGED <<present, refused>>

\* The process starts again; nothing of the windows survives.
Restart ==
    /\ requests' = [k \in Keys |-> <<>>]
    /\ present' = {}
    /\ through' = [k \in Keys |-> <<>>]
    /\ UNCHANGED refused

Next ==
    \/ \E c \in Clients : Allow(c)
    \/ Cleanup \/ Tick \/ Restart

Spec == Init /\ [][Next]_vars
-----------------------------------------------------------------------------
\* Between two restarts no window of any position holds more attempts let
\* through than the limit, whenever the cleanup runs.
WindowLimit == \A k \in Keys : Len(through[k]) <= Limit

\* An attempt is refused only when the limit's worth of attempts was let through
\* within the window before it: neither refusals nor forgotten times count.
RefusedOnlyWhenFull == \A c \in Clients : refused[c] >= Limit

\* The map does not grow for ever: a key that is no longer used is deleted.
IdleKeysForgotten == \A k \in Keys :
    k \in present ~> (k \notin present \/ through[k] # <<>>)
=============================================================================
