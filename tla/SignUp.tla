------------------------------- MODULE SignUp -------------------------------
(* Registrations: POST /auth/register behind its rate limiter               *)
(* (AuthService.Register over UserRepo, RegisterRateLimit in front).        *)
(*                                                                          *)
(* Register normalises what was typed, asks in two queries whether e-mail   *)
(* and phone are taken and inserts in a third, each a transaction of its    *)
(* own; the UNIQUE columns of users have the last word.                     *)
EXTENDS RateLimiter

CONSTANTS
    Emails,      \* what clients type for an e-mail address
    MailboxOf,   \* MailboxOf[e]: e without blanks around it, in lower case
    Numbers,     \* subscriber numbers, as sequences of digits
    DialPrefixes,    \* what clients type before a number
    NumberLen    \* digits of a number (10)

Digits == {"0", "1", "6", "7", "8", "9"}
CountryCode == <<"9", "1">>

ASSUME SignUpAssumption ==
    /\ DOMAIN MailboxOf = Emails
    /\ NumberLen \in Nat \ {0}

\* No number is another one with the country code in front.
ASSUME NumbersAssumption ==
    /\ Numbers \subseteq Seq(Digits)
    /\ \A m, n \in Numbers : /\ n # CountryCode \o m
                             /\ n # CountryCode \o (CountryCode \o m)

\* What is typed before a number spells nothing or the country code, and begins
\* with a plus only if that is the plus of the country code.
ASSUME DialPrefixesAssumption ==
    /\ DialPrefixes \subseteq Seq(Digits \cup {"+", "-", " "})
    /\ \A p \in DialPrefixes :
          /\ Kept(p, Digits) \in {<<>>, CountryCode}
          /\ p # <<>> => p[1] # "+" \/ IsPrefix(<<"+">> \o CountryCode, p)

VARIABLES
    users,       \* the rows of users: e-mail and phone, and whose number it is
    pc,          \* per client: the query its registration is at, or its answer
    form         \* per client: the normalised registration

account == <<users, pc, form>>
svars   == <<vars, account>>

Queries  == {"email", "phone", "create", "issue"}
Answers  == {"validation", "emailTaken", "phoneTaken", "created"}
NoForm   == [email |-> "none", phone |-> <<>>, number |-> <<>>]
Mailboxes == {MailboxOf[e] : e \in Emails}

\* Defect: the country code is cut off every number that begins with 91.
NormalizePhone_AnyLength(p) ==
    LET trimmed == IF IsPrefix(<<"+">> \o CountryCode, p) THEN SubSeq(p, 4, Len(p)) ELSE p
        digits  == Kept(trimmed, Digits)
    IN  IF IsPrefix(CountryCode, digits) THEN SubSeq(digits, 3, Len(digits)) ELSE digits

\* "+91" is cut off the front, everything but digits is dropped, and a leading
\* 91 goes only when it comes on top of a whole number.
NormalizePhone(p) ==
    LET trimmed == IF IsPrefix(<<"+">> \o CountryCode, p) THEN SubSeq(p, 4, Len(p)) ELSE p
        digits  == Kept(trimmed, Digits)
    IN  IF Len(digits) = NumberLen + 2 /\ IsPrefix(CountryCode, digits)
        THEN SubSeq(digits, 3, Len(digits)) ELSE digits

\* phoneRe, and the CHECK of the column.
IsMobile(digits) == Len(digits) = NumberLen /\ digits[1] \in {"6", "7", "8", "9"}

SignUpTypeOK ==
    /\ TypeOK
    /\ users \subseteq [email : Mailboxes, phone : Seq(Digits), number : Numbers]
    /\ pc \in [Clients -> {"idle"} \cup Queries \cup Answers]
    /\ form \in [Clients -> [email : Mailboxes, phone : Seq(Digits), number : Numbers]
                            \cup {NoForm}]
    /\ \A c \in Clients : pc[c] = "idle" <=> form[c] = NoForm
    /\ \A c \in Clients : pc[c] \in Queries => IsMobile(form[c].phone)

SignUpInit ==
    /\ Init
    /\ users = {}
    /\ pc = [c \in Clients |-> "idle"]
    /\ form = [c \in Clients |-> NoForm]

Goto(c, l) == pc' = [pc EXCEPT ![c] = l]

EmailExists(c) == \E u \in users : u.email = form[c].email
PhoneExists(c) == \E u \in users : u.phone = form[c].phone

\* RegisterRateLimit, and Register up to its first query.
Submit(c) ==
    /\ pc[c] = "idle"
    /\ Allow(c)
    /\ IF through' = through             \* 429
       THEN UNCHANGED account
       ELSE \E e \in Emails, n \in Numbers, prefix \in DialPrefixes :
              LET phone == NormalizePhone(prefix \o n) IN
              /\ form' = [form EXCEPT ![c] =
                            [email |-> MailboxOf[e], phone |-> phone, number |-> n]]
              /\ Goto(c, IF IsMobile(phone) THEN "email" ELSE "validation")
              /\ UNCHANGED users

\* ExistsByEmail: when the query fails the address counts as free.
CheckEmail(c) ==
    /\ pc[c] = "email"
    /\ \/ EmailExists(c) /\ Goto(c, "emailTaken")
       \/ Goto(c, "phone")
    /\ UNCHANGED <<vars, users, form>>

\* ExistsByPhone, likewise.
CheckPhone(c) ==
    /\ pc[c] = "phone"
    /\ \/ PhoneExists(c) /\ Goto(c, "phoneTaken")
       \/ Goto(c, "create")
    /\ UNCHANGED <<vars, users, form>>

\* Defect: nothing but the two checks keeps an address from being used twice.
CreateUser_NoIndex(c) ==
    /\ pc[c] = "create"
    /\ users' = users \cup {form[c]}
    /\ Goto(c, "issue")
    /\ UNCHANGED <<vars, form>>

\* The INSERT.  The UNIQUE columns refuse an address that was taken since the
\* checks, which is an internal error like any other (Return); Return after the
\* step is also the row that is written while its answer is lost.
CreateUser(c) ==
    /\ pc[c] = "create"
    /\ ~EmailExists(c) /\ ~PhoneExists(c)
    /\ users' = users \cup {form[c]}
    /\ Goto(c, "issue")
    /\ UNCHANGED <<vars, form>>

\* issueTokens: when it fails (Return) the account stays, without a session.
IssueTokens(c) ==
    /\ pc[c] = "issue"
    /\ Goto(c, "created")
    /\ UNCHANGED <<vars, users, form>>

\* The answer is sent, or a query fails or is cancelled: 500 at any point.
Return(c) ==
    /\ pc[c] # "idle"
    /\ Goto(c, "idle")
    /\ form' = [form EXCEPT ![c] = NoForm]
    /\ UNCHANGED <<vars, users>>

LimiterTicks  == Tick /\ UNCHANGED account
LimiterCleans == Cleanup /\ UNCHANGED account

\* The process starts again: requests and windows are gone, accounts stay.
ServerRestarts ==
    /\ Restart
    /\ pc' = [c \in Clients |-> "idle"]
    /\ form' = [c \in Clients |-> NoForm]
    /\ UNCHANGED users

SignUpNext ==
    \/ \E c \in Clients :
          \/ Submit(c) \/ CheckEmail(c) \/ CheckPhone(c)
          \/ CreateUser(c) \/ IssueTokens(c) \/ Return(c)
    \/ LimiterTicks \/ LimiterCleans \/ ServerRestarts

\* Time passes and the Sleep of the cleanup goroutine ends.
SignUpSpec ==
    /\ SignUpInit /\ [][SignUpNext]_svars
    /\ WF_svars(LimiterTicks) /\ WF_svars(LimiterCleans)
-----------------------------------------------------------------------------
\* However registrations race and whatever checks fail, no two accounts share a
\* mailbox or a subscriber's number, in whatever way the number was typed.
OneAccountEach == \A u, v \in users :
    u # v => u.email # v.email /\ u.number # v.number

\* No answer of POST /auth/register is wrong: an address called taken belongs to
\* an account, a form called invalid has no mobile number in it, and 201 is sent
\* for an account that exists under the number the client meant.  A number of full
\* length that begins with 91 is a number like any other, as auth.go:202 and :210
\* say.  The comment at auth_test.go:180, 'Phone must start with 6-9 but NOT start with
\* "91" (normalizePhone strips that prefix)', says otherwise: by it, normalizePhone
\* would be NormalizePhone_AnyLength, and this property false.
AnswersAreTrue == \A c \in Clients :
    /\ pc[c] = "emailTaken" => \E u \in users : u.email = form[c].email
    /\ pc[c] = "phoneTaken" => \E u \in users : u.number = form[c].number
    /\ pc[c] = "validation" => ~IsMobile(form[c].number)
    /\ pc[c] = "created" => form[c] \in users
=============================================================================
