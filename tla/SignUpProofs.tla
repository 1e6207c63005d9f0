----------------------------- MODULE SignUpProofs ---------------------------
(* Theorems about SignUp and the rate limiter before it, for every number   *)
(* of clients and keys, every limit and window, and all ways of typing that *)
(* the assumptions of SignUp allow.                                         *)
EXTENDS SignUp, LoopLemmas, TLAPS

(* The limiter.                                                             *)

Fresh == 0 .. Window - 1

LEMMA YoungTyped ==
    ASSUME NEW s \in Seq(Ages)
    PROVE  Young(s) \in Seq(Fresh) /\ Young(s) \in Seq(Ages) /\ Len(Young(s)) <= Len(s)
  <1>1. Kept(s, Fresh) \in Seq(Ages \cap Fresh) /\ Len(Kept(s, Fresh)) <= Len(s)
    BY KeptTyped
  <1>2. Ages \cap Fresh = Fresh /\ Fresh \subseteq Ages
    BY RateLimiterAssumption DEF Ages, Fresh
  <1>3. \A q \in Seq(Fresh) : q \in Seq(Ages)
    <2> HIDE DEF Fresh, Ages
    <2> QED
      BY <1>2
  <1> QED
    BY <1>1, <1>2, <1>3 DEF Young, Fresh

LEMMA YoungStays ==
    ASSUME NEW s \in Seq(Fresh)
    PROVE  /\ Young(s) = s /\ s \in Seq(Ages)
           /\ Append(s, 0) \in Seq(Fresh) /\ Append(s, 0) \in Seq(Ages)
           /\ Young(Append(s, 0)) = Append(s, 0)
  <1>1. 0 \in Fresh /\ Fresh \subseteq Ages
    BY RateLimiterAssumption DEF Ages, Fresh
  <1>2. \A q \in Seq(Fresh) : Kept(q, Fresh) = q
    BY KeptWhole
  <1>3. Append(s, 0) \in Seq(Fresh)
    <2> HIDE DEF Fresh
    <2> QED
      BY <1>1
  <1>4. \A q \in Seq(Fresh) : q \in Seq(Ages)
    <2> HIDE DEF Fresh, Ages
    <2> QED
      BY <1>1
  <1> QED
    BY <1>2, <1>3, <1>4 DEF Young, Fresh

LEMMA AgedTyped ==
    ASSUME NEW s \in Seq(Ages)
    PROVE  Aged(s) \in Seq(Ages) /\ Len(Aged(s)) = Len(s)
  <1>1. \A age \in Ages : Older(age) \in Ages
    BY RateLimiterAssumption DEF Ages, Older
  <1>2. Len(s) \in Nat /\ DOMAIN s = 1 .. Len(s) /\ \A i \in 1 .. Len(s) : s[i] \in Ages
    <2> HIDE DEF Ages
    <2> QED
      OBVIOUS
  <1>3. Aged(s) \in [1 .. Len(s) -> Ages]
    BY <1>1, <1>2 DEF Aged
  <1> HIDE DEF Ages
  <1> QED
    BY <1>2, <1>3

LEMMA AgedOfAppend ==
    ASSUME NEW s \in Seq(Ages), NEW x \in Ages
    PROVE  Aged(Append(s, x)) = Append(Aged(s), Older(x))
  <1>1. /\ Append(s, x) \in Seq(Ages) /\ Len(Append(s, x)) = Len(s) + 1 /\ Len(s) \in Nat
        /\ Append(s, x)[Len(s) + 1] = x
        /\ \A i \in 1 .. Len(s) : Append(s, x)[i] = s[i]
    <2> HIDE DEF Ages
    <2> QED
      OBVIOUS
  <1>2. Older(x) \in Ages
    BY RateLimiterAssumption DEF Ages, Older
  <1>3. Aged(s) \in Seq(Ages) /\ Len(Aged(s)) = Len(s)
        /\ Aged(Append(s, x)) \in Seq(Ages) /\ Len(Aged(Append(s, x))) = Len(s) + 1
    BY <1>1, AgedTyped
  <1>4. Append(Aged(s), Older(x)) \in Seq(Ages) /\ Len(Append(Aged(s), Older(x))) = Len(s) + 1
    <2> HIDE DEF Ages
    <2> QED
      BY <1>2, <1>3
  <1>5. ASSUME NEW i \in 1 .. Len(s) + 1
        PROVE  Aged(Append(s, x))[i] = Append(Aged(s), Older(x))[i]
    <2>1. Aged(Append(s, x))[i] = Older(Append(s, x)[i])
      BY <1>1 DEF Aged
    <2>2. CASE i = Len(s) + 1
      <3>1. Append(Aged(s), Older(x))[i] = Older(x)
        BY <1>2, <1>3, <2>2
      <3> QED
        BY <1>1, <2>1, <2>2, <3>1
    <2>3. CASE i # Len(s) + 1
      <3>1. i \in 1 .. Len(s)
        BY <1>1, <2>3
      <3>2. Append(Aged(s), Older(x))[i] = Aged(s)[i]
        BY <1>2, <1>3, <3>1
      <3>3. Aged(s)[i] = Older(s[i])
        BY <3>1 DEF Aged
      <3> QED
        BY <1>1, <2>1, <3>1, <3>2, <3>3
    <2> QED
      BY <2>2, <2>3
  <1> HIDE DEF Ages
  <1> QED
    BY <1>3, <1>4, <1>5

\* An expired attempt stays expired: it makes no difference whether it is dropped
\* before a tick or after it.
LEMMA YoungOfAged ==
    ASSUME NEW s \in Seq(Ages)
    PROVE  Young(Aged(Young(s))) = Young(Aged(s))
  <1> DEFINE P == {q \in Seq(Ages) : Young(Aged(Young(q))) = Young(Aged(q))}
  <1>1. <<>> \in P
    <2>1. Young(<<>>) = <<>>
      BY KeptOfNone DEF Young
    <2>2. <<>> \in Seq(Ages)
      OBVIOUS
    <2> QED
      BY <2>1, <2>2
  <1>2. ASSUME NEW q \in Seq(Ages), NEW x \in Ages, q \in P PROVE Append(q, x) \in P
    <2>0. Append(q, x) \in Seq(Ages) /\ Young(Aged(Young(q))) = Young(Aged(q))
      BY <1>2
    <2>1. \A r \in Seq(Ages), y \in Ages :
             Young(Append(r, y)) = IF y \in Fresh THEN Append(Young(r), y) ELSE Young(r)
      BY KeptOfAppend DEF Young, Fresh
    <2>2. Older(x) \in Ages /\ (x \notin Fresh => Older(x) \notin Fresh)
      BY RateLimiterAssumption DEF Ages, Older, Fresh
    <2>3. Young(q) \in Seq(Ages) /\ Aged(q) \in Seq(Ages) /\ Aged(Young(q)) \in Seq(Ages)
      BY YoungTyped, AgedTyped
    <2>4. Young(Aged(Append(q, x))) = IF Older(x) \in Fresh
                                      THEN Append(Young(Aged(q)), Older(x)) ELSE Young(Aged(q))
      BY <2>1, <2>2, <2>3, AgedOfAppend
    <2>5. CASE x \in Fresh
      <3>1. Young(Append(q, x)) = Append(Young(q), x)
        BY <2>1, <2>5
      <3>2. Aged(Append(Young(q), x)) = Append(Aged(Young(q)), Older(x))
        BY <2>3, AgedOfAppend
      <3>3. Young(Append(Aged(Young(q)), Older(x))) =
               IF Older(x) \in Fresh THEN Append(Young(Aged(Young(q))), Older(x))
                                     ELSE Young(Aged(Young(q)))
        BY <2>1, <2>2, <2>3
      <3> QED
        BY <2>0, <2>4, <3>1, <3>2, <3>3
    <2>6. CASE x \notin Fresh
      <3>1. Young(Append(q, x)) = Young(q)
        BY <2>1, <2>6
      <3> QED
        BY <2>0, <2>2, <2>4, <2>6, <3>1
    <2> QED
      BY <2>5, <2>6
  <1>3. Seq(Ages) \subseteq P
    <2> HIDE DEF P, Ages
    <2> QED
      BY <1>1, <1>2, SequenceInduction
  <1> QED
    BY <1>3

\* What is counted of a key is what was let through and has not expired since.
LimiterInv ==
    /\ requests \in [Keys -> Seq(Ages)]
    /\ \A k \in Keys : Len(requests[k]) <= Limit
    /\ through = [k \in Keys |-> Young(requests[k])]
    /\ refused \in [Clients -> Nat]
    /\ \A c \in Clients : refused[c] >= Limit

LEMMA LimiterStarts == Init => LimiterInv
  <1> SUFFICES ASSUME Init PROVE LimiterInv
    OBVIOUS
  <1>1. Young(<<>>) = <<>>
    BY KeptOfNone DEF Young
  <1>2. <<>> \in Seq(Ages) /\ Len(<<>>) = 0
    OBVIOUS
  <1> QED
    BY <1>1, <1>2, RateLimiterAssumption DEF Init, LimiterInv

LEMMA ThroughIsYoung ==
    ASSUME LimiterInv, NEW k \in Keys
    PROVE  /\ through[k] = Young(requests[k]) /\ through[k] \in Seq(Fresh)
           /\ Len(through[k]) <= Limit /\ Len(through[k]) \in Nat
  <1>1. requests[k] \in Seq(Ages) /\ Len(requests[k]) <= Limit /\ Len(requests[k]) \in Nat
    <2> HIDE DEF Ages
    <2> QED
      BY DEF LimiterInv
  <1>2. Young(requests[k]) \in Seq(Fresh) /\ Len(Young(requests[k])) <= Len(requests[k])
    BY <1>1, YoungTyped
  <1>3. through[k] = Young(requests[k])
    BY DEF LimiterInv
  <1>4. Len(through[k]) \in Nat
    <2> HIDE DEF Fresh
    <2> QED
      BY <1>2, <1>3
  <1> QED
    BY <1>1, <1>2, <1>3, <1>4, RateLimiterAssumption

LEMMA AllowKeepsLimits ==
    ASSUME LimiterInv, NEW c \in Clients, Allow(c)
    PROVE  LimiterInv'
  <1> DEFINE k == KeyOf[c]
             valid == Young(requests[k])
             longer == Append(valid, 0)
  <1>0. k \in Keys
    BY RateLimiterAssumption
  <1>1. /\ requests \in [Keys -> Seq(Ages)]
        /\ \A j \in Keys : Len(requests[j]) <= Limit
        /\ through = [j \in Keys |-> Young(requests[j])]
        /\ refused \in [Clients -> Nat]
        /\ \A d \in Clients : refused[d] >= Limit
    BY DEF LimiterInv
  <1>2. valid \in Seq(Fresh) /\ Len(valid) \in Nat /\ Len(valid) <= Limit /\ through[k] = valid
    BY <1>0, ThroughIsYoung
  <1>3. /\ Young(valid) = valid /\ valid \in Seq(Ages)
        /\ longer \in Seq(Ages) /\ Young(longer) = longer
    BY <1>2, YoungStays
  <1>4. Len(longer) = Len(valid) + 1
    BY <1>2
  <1>5. CASE Len(valid) >= Limit
    <2>1. /\ requests' = [requests EXCEPT ![k] = valid]
          /\ refused' = [refused EXCEPT ![c] = Len(through[k])]
          /\ through' = through
      BY <1>5 DEF Allow
    <2> HIDE DEF k, valid, longer
    <2>2. requests' \in [Keys -> Seq(Ages)] /\ \A j \in Keys : Len(requests'[j]) <= Limit
      BY <1>0, <1>1, <1>2, <1>3, <2>1
    <2>3. through' = [j \in Keys |-> Young(requests'[j])]
      <3>1. \A j \in Keys : Young(requests'[j]) = through[j]
        BY <1>0, <1>1, <1>2, <1>3, <2>1
      <3> QED
        BY <1>1, <2>1, <3>1
    <2>4. refused' \in [Clients -> Nat] /\ \A d \in Clients : refused'[d] >= Limit
      BY <1>1, <1>2, <1>5, <2>1
    <2> QED
      BY <2>2, <2>3, <2>4 DEF LimiterInv
  <1>6. CASE ~(Len(valid) >= Limit)
    <2>1. /\ requests' = [requests EXCEPT ![k] = longer]
          /\ through' = [through EXCEPT ![k] = Append(through[k], 0)]
          /\ refused' = refused
      BY <1>6 DEF Allow
    <2>0. longer = Append(valid, 0) /\ Len(longer) <= Limit
      BY <1>2, <1>4, <1>6, RateLimiterAssumption
    <2> HIDE DEF k, valid, longer
    <2>2. requests' \in [Keys -> Seq(Ages)] /\ \A j \in Keys : Len(requests'[j]) <= Limit
      BY <1>0, <1>1, <1>3, <2>0, <2>1
    <2>3. through' = [j \in Keys |-> Young(requests'[j])]
      <3>1. \A j \in Keys : Young(requests'[j]) = through'[j]
        BY <1>0, <1>1, <1>2, <1>3, <2>0, <2>1
      <3>2. through' \in [Keys -> {through'[j] : j \in Keys}]
        BY <1>1, <2>1
      <3> QED
        BY <3>1, <3>2
    <2> QED
      BY <1>1, <2>1, <2>2, <2>3 DEF LimiterInv
  <1> QED
    BY <1>5, <1>6

LEMMA CleanupKeepsLimits ==
    ASSUME LimiterInv, Cleanup
    PROVE  LimiterInv'
  <1>1. requests' = [k \in Keys |-> Young(requests[k])] /\ through' = through /\ refused' = refused
    BY DEF Cleanup
  <1>2. ASSUME NEW k \in Keys
        PROVE  /\ requests'[k] \in Seq(Ages) /\ Len(requests'[k]) <= Limit
               /\ Young(requests'[k]) = Young(requests[k])
    <2>1. /\ through[k] = Young(requests[k]) /\ through[k] \in Seq(Fresh)
          /\ Len(through[k]) <= Limit
      BY ThroughIsYoung
    <2> QED
      BY <1>1, <2>1, YoungStays
  <1>3. requests' \in [Keys -> Seq(Ages)]
    <2> HIDE DEF Ages
    <2> QED
      BY <1>1, <1>2
  <1>4. through' = [k \in Keys |-> Young(requests'[k])]
    BY <1>1, <1>2 DEF LimiterInv
  <1> QED
    BY <1>1, <1>2, <1>3, <1>4 DEF LimiterInv

LEMMA TickKeepsLimits ==
    ASSUME LimiterInv, Tick
    PROVE  LimiterInv'
  <1>1. /\ requests' = [k \in Keys |-> Aged(requests[k])]
        /\ through' = [k \in Keys |-> Young(Aged(through[k]))]
        /\ refused' = refused
    BY DEF Tick
  <1>2. ASSUME NEW k \in Keys
        PROVE  /\ requests'[k] \in Seq(Ages) /\ Len(requests'[k]) <= Limit
               /\ Young(Aged(through[k])) = Young(requests'[k])
    <2>1. requests[k] \in Seq(Ages) /\ Len(requests[k]) <= Limit
      BY DEF LimiterInv
    <2>2. through[k] = Young(requests[k])
      BY ThroughIsYoung
    <2> QED
      BY <1>1, <2>1, <2>2, AgedTyped, YoungOfAged
  <1>3. requests' \in [Keys -> Seq(Ages)]
    <2> HIDE DEF Ages
    <2> QED
      BY <1>1, <1>2
  <1>4. through' = [k \in Keys |-> Young(requests'[k])]
    BY <1>1, <1>2
  <1> QED
    BY <1>1, <1>2, <1>3, <1>4 DEF LimiterInv

LEMMA RestartKeepsLimits ==
    ASSUME LimiterInv, Restart
    PROVE  LimiterInv'
  <1>1. Young(<<>>) = <<>>
    BY KeptOfNone DEF Young
  <1>2. <<>> \in Seq(Ages) /\ Len(<<>>) = 0
    OBVIOUS
  <1> QED
    BY <1>1, <1>2, RateLimiterAssumption DEF Restart, LimiterInv

LEMMA StillKeepsLimits ==
    ASSUME LimiterInv, UNCHANGED vars
    PROVE  LimiterInv'
  BY DEF vars, LimiterInv

LEMMA SignUpKeepsLimits ==
    ASSUME LimiterInv, [SignUpNext]_svars
    PROVE  LimiterInv'
  <1>1. ASSUME NEW c \in Clients, Submit(c) PROVE LimiterInv'
    BY <1>1, AllowKeepsLimits DEF Submit
  <1>2. ASSUME NEW c \in Clients,
               CheckEmail(c) \/ CheckPhone(c) \/ CreateUser(c) \/ IssueTokens(c) \/ Return(c)
        PROVE  LimiterInv'
    <2>1. UNCHANGED vars
      BY <1>2 DEF CheckEmail, CheckPhone, CreateUser, IssueTokens, Return
    <2> QED
      BY <2>1, StillKeepsLimits
  <1>3. CASE LimiterTicks
    BY <1>3, TickKeepsLimits DEF LimiterTicks
  <1>4. CASE LimiterCleans
    BY <1>4, CleanupKeepsLimits DEF LimiterCleans
  <1>5. CASE ServerRestarts
    BY <1>5, RestartKeepsLimits DEF ServerRestarts
  <1>6. CASE UNCHANGED svars
    BY <1>6, StillKeepsLimits DEF svars
  <1> QED
    BY <1>1, <1>2, <1>3, <1>4, <1>5, <1>6 DEF SignUpNext

\* What is proved here holds whether or not time passes fairly.
LEMMA SignUpSteps == SignUpSpec => SignUpInit /\ [][SignUpNext]_svars
  BY PTL DEF SignUpSpec

LEMMA LimitsKept == SignUpSpec => []LimiterInv
  <1>1. SignUpInit => LimiterInv
    BY LimiterStarts DEF SignUpInit
  <1>2. LimiterInv /\ [SignUpNext]_svars => LimiterInv'
    BY SignUpKeepsLimits
  <1> QED
    BY <1>1, <1>2, SignUpSteps, PTL

\* No window of any position, between two restarts of the process, holds more
\* attempts let through than the limit: the times that allow counts are exactly
\* the attempts of the window, whenever the cleanup goroutine ran.
THEOREM WindowNeverOverrun == SignUpSpec => []WindowLimit
  <1>1. LimiterInv => WindowLimit
    BY ThroughIsYoung DEF WindowLimit
  <1> QED
    BY <1>1, LimitsKept, PTL

\* Nobody is answered 429 before the window really is full: a refused attempt is
\* not counted, and no forgotten time is.
THEOREM RefusalsAreDue == SignUpSpec => []RefusedOnlyWhenFull
  <1>1. LimiterInv => RefusedOnlyWhenFull
    BY DEF LimiterInv, RefusedOnlyWhenFull
  <1> QED
    BY <1>1, LimitsKept, PTL
-----------------------------------------------------------------------------
(* The accounts.                                                            *)

Typed == Digits \cup {"+", "-", " "}
Plus  == <<"+">> \o CountryCode

LEMMA CodeTyped == CountryCode \in Seq(Digits) /\ Len(CountryCode) = 2
  BY DEF CountryCode, Digits

\* The country code in front can be taken off again.
LEMMA CodeComesOff ==
    ASSUME NEW a \in Seq(Digits), NEW long, Joins(long, CountryCode, a)
    PROVE  /\ long \in Seq(Digits) /\ Len(a) \in Nat /\ Len(long) = Len(a) + 2
           /\ SubSeq(long, 1, 2) = CountryCode /\ SubSeq(long, 3, Len(long)) = a
  <1>1. CountryCode \in Seq(Digits)
    BY CodeTyped
  <1>2. /\ long \in Seq(Digits) /\ Len(a) \in Nat
        /\ Len(long) = Len(CountryCode) + Len(a)
    BY <1>1, Joined
  <1>3. SubSeq(long, 1, Len(CountryCode)) = CountryCode
    BY <1>1, Joined
  <1>4. SubSeq(long, Len(CountryCode) + 1, Len(long)) = a
    BY <1>1, Joined
  <1> QED
    BY <1>1, <1>2, <1>3, <1>4, CodeTyped

LEMMA DigitsOfPlus ==
    /\ CountryCode \in Seq(Digits) /\ Len(CountryCode) = 2
    /\ Plus \in Seq(Typed) /\ Len(Plus) = 3 /\ Plus[1] = "+"
    /\ Kept(Plus, Digits) = CountryCode
  <1>1. CountryCode \in Seq(Digits) /\ Len(CountryCode) = 2
    BY DEF CountryCode, Digits
  <1>2. <<"+">> \in Seq(Typed) /\ CountryCode \in Seq(Typed) /\ "+" \in Typed
    BY DEF CountryCode, Digits, Typed
  <1>3. Plus \in Seq(Typed) /\ Len(Plus) = 3 /\ Plus[1] = "+"
    BY <1>1, <1>2 DEF Plus, CountryCode
  <1>4. Kept(<<"+">>, Digits) = <<>>
    <2> DEFINE nil == <<>>
    <2>1. nil \in Seq(Typed) /\ <<"+">> = Append(nil, "+") /\ "+" \notin Digits
      BY DEF Digits
    <2>2. Kept(nil, Digits) = nil
      BY KeptOfNone
    <2> HIDE DEF nil
    <2>3. Kept(Append(nil, "+"), Digits) = nil
      BY <1>2, <2>1, <2>2, KeptOfAppend
    <2> QED
      BY <2>1, <2>3 DEF nil
  <1>5. Kept(CountryCode, Digits) = CountryCode
    BY <1>1, KeptWhole
  <1>6. Kept(Plus, Digits) = Kept(<<"+">>, Digits) \o Kept(CountryCode, Digits)
    <2>1. Joins(Plus, <<"+">>, CountryCode)
      BY DEF Joins, Plus
    <2>2. Joins(Kept(Plus, Digits), Kept(<<"+">>, Digits), Kept(CountryCode, Digits))
      BY <1>2, <2>1, KeptOfConcat
    <2> QED
      BY <2>2 DEF Joins
  <1>7. <<>> \o CountryCode = CountryCode
    BY <1>1
  <1> QED
    BY <1>1, <1>3, <1>4, <1>5, <1>6, <1>7

Trimmed(q) == IF IsPrefix(Plus, q) THEN SubSeq(q, 4, Len(q)) ELSE q

\* Once "+91" is off, the digits typed are the number or the country code and it.
LEMMA DigitsTyped ==
    ASSUME NEW n \in Numbers, NEW p \in DialPrefixes
    PROVE  Kept(Trimmed(p \o n), Digits) \in {n, CountryCode \o n}
  <1> DEFINE q == p \o n
  <1>1. /\ n \in Seq(Digits) /\ n \in Seq(Typed) /\ p \in Seq(Typed) /\ q \in Seq(Typed)
        /\ Kept(p, Digits) \in {<<>>, CountryCode}
    <2>1. n \in Seq(Digits) /\ p \in Seq(Typed)
      BY NumbersAssumption, DialPrefixesAssumption DEF Typed
    <2>2. Digits \subseteq Typed
      BY DEF Typed
    <2>3. Kept(p, Digits) \in {<<>>, CountryCode}
      BY DialPrefixesAssumption
    <2> HIDE DEF Digits, Typed
    <2> QED
      BY <2>1, <2>2, <2>3
  <1>2. Kept(n, Digits) = n
    BY <1>1, KeptWhole
  <1>3. <<>> \o n = n
    BY <1>1
  <1>4. CASE ~IsPrefix(Plus, q)
    <2>1. Kept(q, Digits) = Kept(p, Digits) \o n
      <3>1. Joins(q, p, n)
        BY DEF Joins
      <3>2. Joins(Kept(q, Digits), Kept(p, Digits), Kept(n, Digits))
        <4> HIDE DEF q
        <4> QED
          BY <1>1, <3>1, KeptOfConcat
      <3> QED
        BY <1>2, <3>2 DEF Joins
    <2>2. Kept(q, Digits) \in {n, CountryCode \o n}
      BY <1>1, <1>3, <2>1
    <2> QED
      BY <1>4, <2>2 DEF Trimmed
  <1>5. CASE IsPrefix(Plus, q)
    <2>1. Len(q) >= 3 /\ SubSeq(q, 1, 3) = Plus
      BY <1>5, DigitsOfPlus DEF IsPrefix
    <2>2. q[1] = "+"
      <3>1. SubSeq(q, 1, 3)[1] = q[1]
        BY <1>1, <2>1
      <3> QED
        BY <2>1, <3>1, DigitsOfPlus
    <2>3. p # <<>>
      <3>1. ASSUME p = <<>> PROVE FALSE
        <4>1. q = n
          BY <1>3, <3>1
        <4>2. n[1] \in Digits
          BY <1>1, <2>1, <4>1
        <4> QED
          BY <2>2, <4>1, <4>2 DEF Digits
      <3> QED
        BY <3>1
    <2>4. p[1] = "+"
      BY <1>1, <2>2, <2>3
    <2>5. IsPrefix(Plus, p)
      BY <2>3, <2>4, DialPrefixesAssumption DEF Plus
    <2>6. Len(p) >= 3 /\ SubSeq(p, 1, 3) = Plus
      BY <2>5, DigitsOfPlus DEF IsPrefix
    <2> DEFINE rest == SubSeq(p, 4, Len(p))
    <2>7. rest \in Seq(Typed) /\ p = SubSeq(p, 1, 3) \o rest
      BY <1>1, <2>6
    <2>8. SubSeq(q, 4, Len(q)) = rest \o n
      BY <1>1, <2>6
    <2> HIDE DEF rest
    <2>9. Kept(p, Digits) = CountryCode \o Kept(rest, Digits)
      <3>1. Joins(p, Plus, rest)
        BY <2>6, <2>7 DEF Joins
      <3>2. Joins(Kept(p, Digits), Kept(Plus, Digits), Kept(rest, Digits))
        BY <1>1, <2>7, <3>1, DigitsOfPlus, KeptOfConcat
      <3> QED
        BY <3>2, DigitsOfPlus, Zenon DEF Joins
    <2>10. Kept(rest, Digits) = <<>>
      <3>1. Kept(rest, Digits) \in Seq(Typed \cap Digits)
        BY <2>7, KeptTyped
      <3> DEFINE r == Kept(rest, Digits)
      <3>2. r \in Seq(Typed \cap Digits) /\ CountryCode \o r \in {<<>>, CountryCode}
        BY <1>1, <2>9, <3>1
      <3> HIDE DEF r
      <3>3. Typed \cap Digits = Digits
        BY DEF Typed
      <3>4. r \in Seq(Digits)
        BY <3>2, <3>3
      <3> DEFINE both == CountryCode \o r
      <3>5. Len(both) = 2 + Len(r) /\ Len(r) \in Nat
        <4>1. Joins(both, CountryCode, r)
          BY DEF Joins
        <4> HIDE DEF both
        <4> QED
          BY <3>4, <4>1, CodeComesOff
      <3>6. Len(r) = 0
        <4>1. Len(<<>>) = 0
          OBVIOUS
        <4>2. both = <<>> \/ both = CountryCode
          BY <3>2
        <4> HIDE DEF both
        <4> QED
          <5>1. Len(both) \in {0, 2}
            BY <4>1, <4>2, CodeTyped
          <5> HIDE DEF r
          <5> QED
            BY <3>5, <5>1
      <3>7. r = <<>>
        BY <3>4, <3>6
      <3> QED
        BY <3>7 DEF r
    <2>11. Kept(rest \o n, Digits) = <<>> \o n
      <3> DEFINE trimmed == rest \o n
      <3>1. Joins(trimmed, rest, n)
        BY DEF Joins
      <3>2. Joins(Kept(trimmed, Digits), Kept(rest, Digits), Kept(n, Digits))
        <4> HIDE DEF trimmed
        <4> QED
          BY <1>1, <2>7, <3>1, KeptOfConcat
      <3> QED
        BY <1>2, <2>10, <3>2 DEF Joins
    <2> QED
      BY <1>3, <1>5, <2>8, <2>11 DEF Trimmed
  <1> QED
    BY <1>4, <1>5

\* How a normalised phone and the number it was typed for may differ.
Reads(phone, n) ==
    \/ phone = n
    \/ Len(n) = NumberLen + 2 /\ n = CountryCode \o phone
    \/ Len(n) # NumberLen /\ phone = CountryCode \o n

LEMMA PhoneReads ==
    ASSUME NEW n \in Numbers, NEW p \in DialPrefixes
    PROVE  NormalizePhone(p \o n) \in Seq(Digits) /\ Reads(NormalizePhone(p \o n), n)
  <1> DEFINE d == Kept(Trimmed(p \o n), Digits)
  <1>1. d \in {n, CountryCode \o n}
    BY DigitsTyped
  <1>2. NormalizePhone(p \o n) = IF Len(d) = NumberLen + 2 /\ IsPrefix(CountryCode, d)
                                 THEN SubSeq(d, 3, Len(d)) ELSE d
    BY DEF NormalizePhone, Trimmed, Plus
  <1>3. n \in Seq(Digits) /\ CountryCode \in Seq(Digits) /\ Len(CountryCode) = 2
    BY NumbersAssumption, DigitsOfPlus
  <1> DEFINE long == CountryCode \o n
  <1>4. /\ long \in Seq(Digits) /\ Len(n) \in Nat /\ Len(long) = Len(n) + 2
        /\ SubSeq(long, 1, 2) = CountryCode /\ SubSeq(long, 3, Len(long)) = n
    <2>1. Joins(long, CountryCode, n)
      BY DEF Joins
    <2> HIDE DEF long
    <2> QED
      BY <1>3, <2>1, CodeComesOff
  <1>7. d \in Seq(Digits)
    BY <1>1, <1>3, <1>4
  <1> HIDE DEF d
  <1>5. CASE Len(d) = NumberLen + 2 /\ IsPrefix(CountryCode, d)
    <2> DEFINE tail == SubSeq(d, 3, Len(d))
    <2>1. Len(d) >= 2 /\ SubSeq(d, 1, 2) = CountryCode
      BY <1>3, <1>5 DEF IsPrefix
    <2>2. tail \in Seq(Digits) /\ d = SubSeq(d, 1, 2) \o tail
      BY <1>7, <2>1
    <2>3. d = n => Reads(tail, n)
      BY <1>5, <2>1, <2>2 DEF Reads
    <2>4. d = CountryCode \o n => tail = n
      BY <1>4
    <2> QED
      BY <1>1, <1>2, <1>5, <2>2, <2>3, <2>4 DEF Reads
  <1>6. CASE ~(Len(d) = NumberLen + 2 /\ IsPrefix(CountryCode, d))
    <2>1. ASSUME d = CountryCode \o n PROVE Len(n) # NumberLen
      <3>1. Len(d) = Len(n) + 2 /\ SubSeq(d, 1, 2) = CountryCode /\ Len(n) \in Nat
        BY <1>4, <2>1
      <3>2. IsPrefix(CountryCode, d)
        BY <1>3, <3>1 DEF IsPrefix
      <3> QED
        BY <1>6, <3>1, <3>2
    <2> QED
      BY <1>1, <1>2, <1>6, <1>7, <2>1 DEF Reads
  <1> QED
    BY <1>5, <1>6

\* A mobile number comes out as it is.
LEMMA MobilePassesThrough ==
    ASSUME NEW n \in Numbers, NEW phone \in Seq(Digits), Reads(phone, n), IsMobile(n)
    PROVE  phone = n
  BY SignUpAssumption DEF Reads, IsMobile

LEMMA CodeCancels ==
    ASSUME NEW a \in Seq(Digits), NEW b \in Seq(Digits), CountryCode \o a = CountryCode \o b
    PROVE  a = b
  <1> DEFINE long == CountryCode \o a
  <1>1. Joins(long, CountryCode, a) /\ Joins(long, CountryCode, b)
    BY DEF Joins
  <1> HIDE DEF long
  <1>2. SubSeq(long, 3, Len(long)) = a /\ SubSeq(long, 3, Len(long)) = b
    BY <1>1, CodeComesOff
  <1> QED
    BY <1>2

\* The same number, however it was typed, is stored as the same phone.
LEMMA SameNumberSamePhone ==
    ASSUME NEW n \in Numbers, NEW a \in Seq(Digits), NEW b \in Seq(Digits),
           Reads(a, n), Reads(b, n), IsMobile(a), IsMobile(b)
    PROVE  a = b
  <1>1. n \in Seq(Digits) /\ NumberLen \in Nat
    BY NumbersAssumption, SignUpAssumption
  <1>2. ASSUME NEW c \in Seq(Digits), Reads(c, n), IsMobile(c)
        PROVE  \/ Len(n) = NumberLen /\ c = n
               \/ Len(n) = NumberLen + 2 /\ n = CountryCode \o c
               \/ Len(n) + 2 = NumberLen /\ c = CountryCode \o n
    <2>1. Len(c) = NumberLen
      BY <1>2 DEF IsMobile
    <2>2. Len(n) \in Nat /\ Len(CountryCode \o n) = Len(n) + 2
      <3> DEFINE long == CountryCode \o n
      <3>1. Joins(long, CountryCode, n)
        BY DEF Joins
      <3>2. Len(n) \in Nat /\ Len(long) = Len(n) + 2
        <4> HIDE DEF long
        <4> QED
          BY <1>1, <3>1, CodeComesOff
      <3> QED
        BY <3>2
    <2>3. c = n \/ (Len(n) = NumberLen + 2 /\ n = CountryCode \o c) \/ c = CountryCode \o n
      BY <1>2, Zenon DEF Reads
    <2> DEFINE long == CountryCode \o n
    <2>4. c = long => Len(n) + 2 = NumberLen
      BY <2>1, <2>2
    <2> QED
      BY <2>1, <2>3, <2>4
  <1>3. CountryCode \o a = CountryCode \o b => a = b
    BY CodeCancels, Zenon
  <1>4. Len(n) \in Nat
    BY <1>1
  <1> DEFINE ca == CountryCode \o a
             cb == CountryCode \o b
             cn == CountryCode \o n
  <1>5. /\ \/ Len(n) = NumberLen /\ a = n
           \/ Len(n) = NumberLen + 2 /\ n = ca
           \/ Len(n) + 2 = NumberLen /\ a = cn
        /\ \/ Len(n) = NumberLen /\ b = n
           \/ Len(n) = NumberLen + 2 /\ n = cb
           \/ Len(n) + 2 = NumberLen /\ b = cn
        /\ ca = cb => a = b
    BY <1>2, <1>3
  <1> HIDE DEF ca, cb, cn
  <1> QED
    BY <1>1, <1>4, <1>5

\* The same phone is stored for one number only.
LEMMA SamePhoneSameNumber ==
    ASSUME NEW m \in Numbers, NEW n \in Numbers, NEW phone \in Seq(Digits),
           Reads(phone, m), Reads(phone, n)
    PROVE  m = n
  <1>1. m \in Seq(Digits) /\ n \in Seq(Digits)
    BY NumbersAssumption
  <1>2. CountryCode \o m = CountryCode \o n => m = n
    BY <1>1, CodeCancels, Zenon
  <1>3. /\ m # CountryCode \o n /\ m # CountryCode \o (CountryCode \o n)
        /\ n # CountryCode \o m /\ n # CountryCode \o (CountryCode \o m)
    BY NumbersAssumption
  <1>4. /\ phone = m \/ m = CountryCode \o phone \/ phone = CountryCode \o m
        /\ phone = n \/ n = CountryCode \o phone \/ phone = CountryCode \o n
    BY DEF Reads
  <1> QED
    BY <1>2, <1>3, <1>4, Zenon

Sound(f) == f.phone \in Seq(Digits) /\ f.number \in Numbers /\ Reads(f.phone, f.number)

\* The UNIQUE columns, and what stands in the rows.
UsersSound ==
    /\ \A u \in users : Sound(u) /\ IsMobile(u.phone)
    /\ \A u, v \in users : u # v => u.email # v.email /\ u.phone # v.phone

\* What a registration knows where it stands.
ClientSound(c) ==
    /\ pc[c] # "idle" => Sound(form[c])
    /\ pc[c] \in Queries => IsMobile(form[c].phone)
    /\ pc[c] = "validation" => ~IsMobile(form[c].phone)
    /\ pc[c] = "emailTaken" => EmailExists(c)
    /\ pc[c] = "phoneTaken" => PhoneExists(c)
    /\ pc[c] \in {"issue", "created"} => form[c] \in users

AccountInv ==
    /\ UsersSound
    /\ DOMAIN pc = Clients /\ DOMAIN form = Clients
    /\ \A c \in Clients : ClientSound(c)

LEMMA AccountsStart == SignUpInit => AccountInv
  BY DEF SignUpInit, AccountInv, UsersSound, ClientSound, Queries

\* Rows are never removed: a registration that does not move stays where it was.
LEMMA ClientStays ==
    ASSUME NEW c, ClientSound(c), users \subseteq users', pc'[c] = pc[c], form'[c] = form[c]
    PROVE  ClientSound(c)'
  BY DEF ClientSound, EmailExists, PhoneExists, Sound

LEMMA SubmitKeepsAccounts ==
    ASSUME AccountInv, NEW c \in Clients, Submit(c)
    PROVE  AccountInv'
  <1>1. CASE UNCHANGED account
    BY <1>1 DEF account, AccountInv, UsersSound, ClientSound, EmailExists, PhoneExists, Sound
  <1>2. CASE ~(UNCHANGED account)
    <2>1. PICK e \in Emails, n \in Numbers, prefix \in DialPrefixes :
             LET phone == NormalizePhone(prefix \o n) IN
             /\ form' = [form EXCEPT ![c] =
                           [email |-> MailboxOf[e], phone |-> phone, number |-> n]]
             /\ Goto(c, IF IsMobile(phone) THEN "email" ELSE "validation")
             /\ UNCHANGED users
      BY <1>2 DEF Submit
    <2> DEFINE phone == NormalizePhone(prefix \o n)
    <2>2. phone \in Seq(Digits) /\ Reads(phone, n)
      BY PhoneReads
    <2>3. /\ form' = [form EXCEPT ![c] = [email |-> MailboxOf[e], phone |-> phone, number |-> n]]
          /\ pc' = [pc EXCEPT ![c] = IF IsMobile(phone) THEN "email" ELSE "validation"]
          /\ users' = users
      BY <2>1 DEF Goto
    <2> HIDE DEF phone
    <2>4. /\ form'[c].phone = phone /\ form'[c].number = n
          /\ pc'[c] = IF IsMobile(phone) THEN "email" ELSE "validation"
          /\ \A d \in Clients : d # c => pc'[d] = pc[d] /\ form'[d] = form[d]
          /\ DOMAIN pc' = Clients /\ DOMAIN form' = Clients
      BY <2>3 DEF AccountInv
    <2>5. ClientSound(c)'
      <3>1. Sound(form'[c])
        BY <2>2, <2>4 DEF Sound
      <3>2. CASE IsMobile(phone)
        BY <2>4, <3>1, <3>2 DEF ClientSound, Queries
      <3>3. CASE ~IsMobile(phone)
        BY <2>4, <3>1, <3>3 DEF ClientSound, Queries
      <3> QED
        BY <3>2, <3>3
    <2>6. ASSUME NEW d \in Clients, d # c PROVE ClientSound(d)'
      BY <2>3, <2>4, <2>6, ClientStays DEF AccountInv
    <2>7. UsersSound'
      BY <2>3 DEF AccountInv, UsersSound
    <2> QED
      BY <2>4, <2>5, <2>6, <2>7 DEF AccountInv
  <1> QED
    BY <1>1, <1>2

\* A registration that moves on, or away, and writes nothing.
LEMMA MoveKeepsAccounts ==
    ASSUME AccountInv, NEW c \in Clients, NEW l, Goto(c, l), users' = users, DOMAIN form' = Clients,
           \A d \in Clients : d # c => form'[d] = form[d], ClientSound(c)'
    PROVE  AccountInv'
  <1>1. DOMAIN pc' = Clients /\ \A d \in Clients : d # c => pc'[d] = pc[d]
    BY DEF AccountInv, Goto
  <1>2. ASSUME NEW d \in Clients, d # c PROVE ClientSound(d)'
    BY <1>1, <1>2, ClientStays DEF AccountInv
  <1>3. UsersSound'
    BY DEF AccountInv, UsersSound
  <1> QED
    BY <1>1, <1>2, <1>3 DEF AccountInv

LEMMA CheckEmailKeepsAccounts ==
    ASSUME AccountInv, NEW c \in Clients, CheckEmail(c)
    PROVE  AccountInv'
  <1>1. /\ pc[c] = "email" /\ users' = users /\ form' = form
        /\ (EmailExists(c) /\ Goto(c, "emailTaken")) \/ Goto(c, "phone")
    BY DEF CheckEmail
  <1>2. ClientSound(c) /\ DOMAIN form' = Clients
    BY <1>1 DEF AccountInv
  <1>3. CASE EmailExists(c) /\ Goto(c, "emailTaken")
    <2>1. pc'[c] = "emailTaken"
      BY <1>3 DEF AccountInv, Goto
    <2>2. ClientSound(c)'
      BY <1>1, <1>2, <1>3, <2>1 DEF ClientSound, EmailExists, Queries, Sound
    <2> QED
      BY <1>1, <1>2, <1>3, <2>2, MoveKeepsAccounts
  <1>4. CASE Goto(c, "phone")
    <2>1. pc'[c] = "phone"
      BY <1>4 DEF AccountInv, Goto
    <2>2. ClientSound(c)'
      BY <1>1, <1>2, <2>1 DEF ClientSound, Queries, Sound
    <2> QED
      BY <1>1, <1>2, <1>4, <2>2, MoveKeepsAccounts
  <1> QED
    BY <1>1, <1>3, <1>4

LEMMA CheckPhoneKeepsAccounts ==
    ASSUME AccountInv, NEW c \in Clients, CheckPhone(c)
    PROVE  AccountInv'
  <1>1. /\ pc[c] = "phone" /\ users' = users /\ form' = form
        /\ (PhoneExists(c) /\ Goto(c, "phoneTaken")) \/ Goto(c, "create")
    BY DEF CheckPhone
  <1>2. ClientSound(c) /\ DOMAIN form' = Clients
    BY <1>1 DEF AccountInv
  <1>3. CASE PhoneExists(c) /\ Goto(c, "phoneTaken")
    <2>1. pc'[c] = "phoneTaken"
      BY <1>3 DEF AccountInv, Goto
    <2>2. ClientSound(c)'
      BY <1>1, <1>2, <1>3, <2>1 DEF ClientSound, PhoneExists, Queries, Sound
    <2> QED
      BY <1>1, <1>2, <1>3, <2>2, MoveKeepsAccounts
  <1>4. CASE Goto(c, "create")
    <2>1. pc'[c] = "create"
      BY <1>4 DEF AccountInv, Goto
    <2>2. ClientSound(c)'
      BY <1>1, <1>2, <2>1 DEF ClientSound, Queries, Sound
    <2> QED
      BY <1>1, <1>2, <1>4, <2>2, MoveKeepsAccounts
  <1> QED
    BY <1>1, <1>3, <1>4

LEMMA CreateUserKeepsAccounts ==
    ASSUME AccountInv, NEW c \in Clients, CreateUser(c)
    PROVE  AccountInv'
  <1>1. /\ pc[c] = "create" /\ ~EmailExists(c) /\ ~PhoneExists(c)
        /\ users' = users \cup {form[c]} /\ form' = form /\ Goto(c, "issue")
    BY DEF CreateUser
  <1>2. /\ DOMAIN pc' = Clients /\ DOMAIN form' = Clients /\ pc'[c] = "issue"
        /\ \A d \in Clients : d # c => pc'[d] = pc[d]
    BY <1>1 DEF AccountInv, Goto
  <1>3. Sound(form[c]) /\ IsMobile(form[c].phone)
    BY <1>1 DEF AccountInv, ClientSound, Queries
  <1>4. ClientSound(c)'
    BY <1>1, <1>2, <1>3 DEF ClientSound, Queries, Sound
  <1>5. ASSUME NEW d \in Clients, d # c PROVE ClientSound(d)'
    BY <1>1, <1>2, <1>5, ClientStays DEF AccountInv
  <1>6. UsersSound'
    <2>1. \A u \in users' : Sound(u) /\ IsMobile(u.phone)
      BY <1>1, <1>3 DEF AccountInv, UsersSound
    <2>2. \A u \in users : u.email # form[c].email /\ u.phone # form[c].phone
      BY <1>1 DEF EmailExists, PhoneExists
    <2>3. \A u, v \in users' : u # v => u.email # v.email /\ u.phone # v.phone
      BY <1>1, <2>2 DEF AccountInv, UsersSound
    <2> QED
      BY <2>1, <2>3 DEF UsersSound, Sound
  <1> QED
    BY <1>2, <1>4, <1>5, <1>6 DEF AccountInv

LEMMA IssueTokensKeepsAccounts ==
    ASSUME AccountInv, NEW c \in Clients, IssueTokens(c)
    PROVE  AccountInv'
  <1>1. pc[c] = "issue" /\ users' = users /\ form' = form /\ Goto(c, "created")
    BY DEF IssueTokens
  <1>2. ClientSound(c) /\ DOMAIN form' = Clients /\ pc'[c] = "created"
    BY <1>1 DEF AccountInv, Goto
  <1>3. ClientSound(c)'
    BY <1>1, <1>2 DEF ClientSound, Queries, Sound
  <1> QED
    BY <1>1, <1>2, <1>3, MoveKeepsAccounts

LEMMA ReturnKeepsAccounts ==
    ASSUME AccountInv, NEW c \in Clients, Return(c)
    PROVE  AccountInv'
  <1>1. users' = users /\ form' = [form EXCEPT ![c] = NoForm] /\ Goto(c, "idle")
    BY DEF Return
  <1>2. /\ DOMAIN form' = Clients /\ pc'[c] = "idle"
        /\ \A d \in Clients : d # c => form'[d] = form[d]
    BY <1>1 DEF AccountInv, Goto
  <1>3. ClientSound(c)'
    BY <1>2 DEF ClientSound, Queries
  <1> QED
    BY <1>1, <1>2, <1>3, MoveKeepsAccounts

LEMMA SignUpKeepsAccounts ==
    ASSUME AccountInv, [SignUpNext]_svars
    PROVE  AccountInv'
  <1>1. ASSUME NEW c \in Clients, Submit(c) PROVE AccountInv'
    BY <1>1, SubmitKeepsAccounts
  <1>2. ASSUME NEW c \in Clients, CheckEmail(c) PROVE AccountInv'
    BY <1>2, CheckEmailKeepsAccounts
  <1>3. ASSUME NEW c \in Clients, CheckPhone(c) PROVE AccountInv'
    BY <1>3, CheckPhoneKeepsAccounts
  <1>4. ASSUME NEW c \in Clients, CreateUser(c) PROVE AccountInv'
    BY <1>4, CreateUserKeepsAccounts
  <1>5. ASSUME NEW c \in Clients, IssueTokens(c) PROVE AccountInv'
    BY <1>5, IssueTokensKeepsAccounts
  <1>6. ASSUME NEW c \in Clients, Return(c) PROVE AccountInv'
    BY <1>6, ReturnKeepsAccounts
  <1>7. CASE LimiterTicks \/ LimiterCleans \/ UNCHANGED svars
    <2>1. UNCHANGED account
      BY <1>7 DEF LimiterTicks, LimiterCleans, svars
    <2> QED
      BY <2>1 DEF account, AccountInv, UsersSound, ClientSound, EmailExists, PhoneExists, Sound
  <1>8. CASE ServerRestarts
    BY <1>8 DEF ServerRestarts, AccountInv, UsersSound, ClientSound, Queries, Sound
  <1> QED
    BY <1>1, <1>2, <1>3, <1>4, <1>5, <1>6, <1>7, <1>8 DEF SignUpNext

LEMMA AccountsKept == SignUpSpec => []AccountInv
  <1>1. AccountInv /\ [SignUpNext]_svars => AccountInv'
    BY SignUpKeepsAccounts
  <1> QED
    BY <1>1, AccountsStart, SignUpSteps, PTL

\* However registrations race, whatever checks fail and however numbers are typed,
\* two accounts share neither a mailbox nor a subscriber's number: the UNIQUE
\* column is of the normalised phone, and one number has one normalised phone.
THEOREM AccountsAreDistinct == SignUpSpec => []OneAccountEach
  <1>1. AccountInv => OneAccountEach
    <2> SUFFICES ASSUME AccountInv, NEW u \in users, NEW v \in users, u # v
                 PROVE  u.email # v.email /\ u.number # v.number
      BY DEF OneAccountEach
    <2>1. /\ Sound(u) /\ Sound(v) /\ IsMobile(u.phone) /\ IsMobile(v.phone)
          /\ u.email # v.email /\ u.phone # v.phone
      BY DEF AccountInv, UsersSound
    <2>2. u.number # v.number
      BY <2>1, SameNumberSamePhone DEF Sound
    <2> QED
      BY <2>1, <2>2
  <1> QED
    BY <1>1, AccountsKept, PTL

\* Register answers the truth: taken means that a row stands in the way, of the
\* same subscriber when it is the phone, invalid that no mobile number was typed,
\* and 201 that the account exists.
THEOREM AnswersHold == SignUpSpec => []AnswersAreTrue
  <1>1. AccountInv => AnswersAreTrue
    <2> SUFFICES ASSUME AccountInv, NEW c \in Clients
                 PROVE  /\ pc[c] = "emailTaken" => \E u \in users : u.email = form[c].email
                        /\ pc[c] = "phoneTaken" => \E u \in users : u.number = form[c].number
                        /\ pc[c] = "validation" => ~IsMobile(form[c].number)
                        /\ pc[c] = "created" => form[c] \in users
      BY DEF AnswersAreTrue
    <2>1. ClientSound(c)
      BY DEF AccountInv
    <2>2. ASSUME pc[c] = "phoneTaken" PROVE \E u \in users : u.number = form[c].number
      <3>1. Sound(form[c])
        BY <2>1, <2>2 DEF ClientSound
      <3>2. PICK u \in users : u.phone = form[c].phone
        BY <2>1, <2>2 DEF ClientSound, PhoneExists
      <3>3. Sound(u)
        BY DEF AccountInv, UsersSound
      <3>4. u.number = form[c].number
        BY <3>1, <3>2, <3>3, SamePhoneSameNumber DEF Sound
      <3> QED
        BY <3>4
    <2>3. ASSUME pc[c] = "validation" PROVE ~IsMobile(form[c].number)
      <3>1. Sound(form[c]) /\ ~IsMobile(form[c].phone)
        BY <2>1, <2>3 DEF ClientSound
      <3>2. IsMobile(form[c].number) => form[c].phone = form[c].number
        BY <3>1, MobilePassesThrough DEF Sound
      <3> QED
        BY <3>1, <3>2
    <2> QED
      BY <2>1, <2>2, <2>3 DEF ClientSound, EmailExists
  <1> QED
    BY <1>1, AccountsKept, PTL
=============================================================================
