----------------------------- MODULE MCItemSearch -----------------------------
(* Texts for TLC: two letters, a capital, a full-width form, a quotation mark and   *)
(* the space; the backslash is how JSON writes the mark.                             *)
EXTENDS ItemSearch

MCChars  == {"m", "n", "M", "W", "w", "q", "b", " "}
MCNormal == [c \in MCChars |-> IF c \in {"M", "W", "w"} THEN "m" ELSE c]
MCLower  == [c \in MCChars |-> CASE c = "M" -> "m" [] c = "W" -> "w" [] OTHER -> c]
MCFold   == MCLower
MCJson   == [c \in MCChars |-> IF c = "q" THEN <<"b", "q">> ELSE <<c>>]
MCCode   == [c \in MCChars |-> CASE c = " " -> 0 [] c = "q" -> 1 [] c = "M" -> 2 [] c = "b" -> 3
                                 [] c = "m" -> 4 [] c = "n" -> 5 [] c = "W" -> 6 [] c = "w" -> 7]

Names   == {<<"m">>, <<"m", "n">>, <<"n", " ", "m">>, <<"W", " ", " ", "n">>}
Also    == {<<"n", "q">>, <<"M", "m">>, <<"m", "m">>}
MCQueries == Also \cup Names \cup {<<"n">>, <<"q">>, <<" ", "w", "M">>, <<" ">>}

\* The ids of version 1: one is the only exact match of a query, and a part of another.
MCV1Id == <<<<"q">>, <<"b">>, <<"q", "b">>>>

\* Three items; the first may have an alias.  All begin in the drawer.
MCInventories ==
    {[i \in 1..3 |-> [name |-> name[i], aliases |-> IF i = 1 THEN alias ELSE {}, drawer |-> 1]] :
        name \in [1..3 -> Names], alias \in {{}} \cup {{a} : a \in Also}}
==============================================================================
