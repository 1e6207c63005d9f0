------------------------------ MODULE MCSignUp ------------------------------
(* A small instance of SignUp for TLC: two clients behind one address, two  *)
(* mailboxes, numbers of four digits of which one begins like the country   *)
(* code, and one that is too short.                                         *)
EXTENDS SignUp

CONSTANT host

MCKeyOf     == [c \in Clients |-> host]
MCMailboxOf == [e \in Emails |-> IF e = " MINE" THEN "mine" ELSE e]
MCNumbers   == {<<"9", "1", "9", "1">>, <<"8", "0", "8", "0">>, <<"7", "7">>}
MCDialPrefixes ==
    {<<>>, CountryCode, <<"+">> \o CountryCode, <<" ", "+">> \o CountryCode \o <<"-">>}
=============================================================================
