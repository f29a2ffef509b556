------------------------------ MODULE ItemSearch ------------------------------
(***************************************************************************)
(* The search service (services/search.py) with its endpoint, and the     *)
(* lookup of version 1 (legacy-v1/simulator/locate.py), over an inventory  *)
(* whose items are moved between drawers.                                  *)
(*                                                                         *)
(* A text is a sequence of characters.  Of Unicode the model keeps what    *)
(* the search depends on: how the service normalizes a character (white    *)
(* space of any kind becomes the space), how version 1 folds it, and how   *)
(* the database, which filters the rows first, lowers it and writes it in  *)
(* the JSON text of the aliases.  The filter also accepts a match on the   *)
(* punctuation between two aliases and on LIKE's wild cards; the service   *)
(* checks every row again, so that makes no difference.  A backslash in    *)
(* the query is another matter: LIKE reads it as an escape and may drop    *)
(* rows for it.  That is left out by an assumption on the queries.         *)
(***************************************************************************)
EXTENDS Routing, Sequences, SequencesExt

CONSTANTS Items,      \* the ids of items
          Queries,    \* the texts that are asked for
          Inventories, \* the tables of items that are considered
          Movable,    \* bound: the items that are moved
          Chars,      \* the characters in all these, and their lower forms
          Space,      \* one of them
          Backslash,  \* the escape character of LIKE
          Normal,     \* what NFKC, casefold and split make of a character
          Fold,       \* what casefold alone makes of it
          Lower,      \* what lower() of the database makes of it
          Json,       \* how it is written in a JSON text
          Code,       \* its place in the order of characters
          MaxLimit,   \* the largest number of candidates asked for
          NoDrawer,   \* the drawer of an item that is not stored yet
          V1Id        \* the text that was the id of an item in the catalog of version 1

ASSUME TextAssumption ==
    /\ Queries \subseteq Seq(Chars) /\ Space \in Chars
    /\ Normal \in [Chars -> Chars] /\ Fold \in [Chars -> Chars] /\ Lower \in [Chars -> Chars]
    /\ Json \in [Chars -> Seq(Chars)] /\ Code \in [Chars -> Nat]
    /\ \A c, d \in Chars : Code[c] = Code[d] => c = d

\* Facts of Unicode, for the characters that all three map to single characters.
ASSUME UnicodeAssumption ==
    /\ Normal[Space] = Space
    /\ \A c \in Chars : /\ Normal[Normal[c]] = Normal[c] /\ Normal[Fold[c]] = Normal[c]
                        /\ Lower[c] = Normal[c] => Fold[c] = Normal[c]

\* Passes is the WHERE clause for queries without the escape character.
ASSUME QueryAssumption ==
    \A query \in Queries : \A k \in DOMAIN query : Normal[query[k]] # Backslash

ASSUME TableAssumption ==
    /\ Items \subseteq Nat /\ IsFiniteSet(Items) /\ Movable \subseteq Items
    /\ MaxLimit \in Nat \ {0} /\ NoDrawer \notin Drawers
    /\ V1Id \in [Items -> Seq(Chars)]

Item == [name : Seq(Chars), aliases : SUBSET Seq(Chars), drawer : Drawers \cup {NoDrawer}]

ASSUME InventoryAssumption == Inventories \subseteq [Items -> Item]

VARIABLES items,    \* the table of items
          answer    \* the answer to the latest search

vars == <<items, answer>>

-------------------------------------------------------------------------------
(* Texts *)

Each(map, text) == [k \in DOMAIN text |-> map[text[k]]]

Occurs(part, text) ==
    \E k \in 0..(Len(text) - Len(part)) : SubSeq(text, k + 1, k + Len(part)) = part

\* The members of the domain in the order of their ranks, which are 0, 1, 2 and so on.
InOrder(rank) ==
    [n \in 1..Cardinality(DOMAIN rank) |-> CHOOSE x \in DOMAIN rank : rank[x] = n - 1]

Strip(text) ==
    LET solid == {k \in DOMAIN text : Normal[text[k]] # Space}
    IN  IF solid = {} THEN <<>> ELSE SubSeq(text, Min(solid), Max(solid))

\* The places that join and split leave: the words, and one space before each but the
\* first.
Kept(text) ==
    {k \in DOMAIN text :
        text[k] = Space => /\ \E j \in 1..(k - 1) : text[j] # Space
                           /\ k + 1 \in DOMAIN text /\ text[k + 1] # Space}

Normalize(text) ==
    LET folded == Each(Normal, text)
        kept   == Kept(folded)
    IN  Each(folded, InOrder([k \in kept |-> Cardinality({j \in kept : j < k})]))

Before(s, t) ==
    \E k \in 1..(Len(t)) :
        /\ \A j \in 1..(k - 1) : j <= Len(s) /\ s[j] = t[j]
        /\ Len(s) >= k => Code[s[k]] < Code[t[k]]

-------------------------------------------------------------------------------
(* find_items *)

Aliases(i) == {Normalize(a) : a \in items[i].aliases}

\* _rank: exact, prefix, substring; then by name, then by id.
Tier(i, needle) ==
    LET name == Normalize(items[i].name) IN
    IF needle \in {name} \cup Aliases(i) THEN 0
    ELSE IF \E v \in {name} \cup Aliases(i) : IsPrefix(needle, v) THEN 1 ELSE 2

Better(i, j, needle) ==
    LET m == Normalize(items[i].name) n == Normalize(items[j].name) IN
    \/ Tier(i, needle) < Tier(j, needle)
    \/ Tier(i, needle) = Tier(j, needle) /\ ((m = n /\ i < j) \/ Before(m, n))

\* The WHERE clause, for a needle without a backslash.
Passes(i, needle) ==
    \/ Occurs(needle, Each(Lower, items[i].name))
    \/ \E a \in items[i].aliases : Occurs(needle, Each(Lower, FlattenSeq(Each(Json, a))))

Matches(i, needle) ==
    \E v \in {Normalize(items[i].name)} \cup Aliases(i) : Occurs(needle, v)

Matched(needle) == {i \in Items : Passes(i, needle) /\ Matches(i, needle)}

Ranked(found, needle) ==
    InOrder([i \in found |-> Cardinality({j \in found : Better(j, i, needle)})])

Limited(ranked, limit) == SubSeq(ranked, 1, IF Len(ranked) < limit THEN Len(ranked) ELSE limit)

\* Mutant: the limit is applied by the database, before the rows are ranked.
FindUnranked(needle, limit) ==
    LET kept == {i \in Matched(needle) : Cardinality({j \in Matched(needle) : j <= i}) <= limit}
    IN  Ranked(kept, needle)

\* Mutant: an exact match makes the others irrelevant.
FindExactOnly(needle, limit) ==
    LET exact == {i \in Matched(needle) : Tier(i, needle) = 0}
    IN  Limited(Ranked(IF exact = {} THEN Matched(needle) ELSE exact, needle), limit)

FindItems(needle, limit) == Limited(Ranked(Matched(needle), needle), limit)

-------------------------------------------------------------------------------
(* search and search_items *)

\* Mutant: one match is always found.
OutcomeByCount(found) ==
    CASE found = <<>>   -> "not_found"
      [] Len(found) > 1 -> "ambiguous"
      [] OTHER          -> "found"

Outcome(found) ==
    CASE found = <<>>    -> "not_found"
      [] Len(found) > 1  -> "ambiguous"
      [] OTHER           -> IF items[Head(found)].drawer = NoDrawer THEN "unlocated" ELSE "found"

Route(d) == [drawer |-> d, controller |-> ControllerOf(d), led |-> LedOf(d)]
NoRoute  == [drawer |-> NoDrawer, controller |-> 0, led |-> 0]

Outcomes == {"none", "refused", "not_found", "ambiguous", "unlocated", "found"}
Routes   == {Route(d) : d \in Drawers} \cup {NoRoute}

Unasked == [query |-> <<>>, limit |-> 0, outcome |-> "none", found |-> <<>>, route |-> NoRoute]

Search(query, limit) ==
    LET needle == Normalize(query)
        found  == FindItems(needle, limit)
        blank  == needle = <<>>
        what   == IF blank THEN "refused" ELSE Outcome(found)
    IN  /\ answer' = [query |-> query, limit |-> limit, outcome |-> what,
                      found |-> IF blank THEN <<>> ELSE found,
                      route |-> IF what = "found" THEN Route(items[Head(found)].drawer)
                                ELSE NoRoute]
        /\ UNCHANGED items

\* resolve_item, for the route of an item that was found earlier.
ResolveItem(i) ==
    /\ answer.outcome \in {"found", "unlocated"} /\ answer.found = <<i>>
    /\ answer' = IF items[i].drawer = NoDrawer
                 THEN [answer EXCEPT !.outcome = "unlocated", !.route = NoRoute]
                 ELSE [answer EXCEPT !.outcome = "found", !.route = Route(items[i].drawer)]
    /\ UNCHANGED items

\* Somebody moves an item, or takes it out of its drawer.
Move(i, d) ==
    /\ items' = [items EXCEPT ![i].drawer = d]
    /\ UNCHANGED answer

-------------------------------------------------------------------------------
(* find_item of version 1: by id or name, exactly or by a part that only one   *)
(* item has.  The empty set stands for its error messages.  Its catalog has    *)
(* two names for an item, name and name_en: the first is taken for the item's  *)
(* name here, the second for an alias.                                         *)

\* How a text is compared.
V1Key(text) == Each(Fold, Strip(text))

V1Names(i)  == {V1Key(v) : v \in {items[i].name} \cup items[i].aliases}
V1Values(i) == {V1Key(V1Id[i])} \cup V1Names(i)

\* Mutant: of several items any one will do.
V1FindAny(query) ==
    LET needle  == V1Key(query)
        partial == {i \in Items : \E v \in V1Values(i) : Occurs(needle, v)}
    IN  IF needle = <<>> \/ partial = {} THEN {} ELSE {Max(partial)}

V1Find(query) ==
    LET needle  == V1Key(query)
        exact   == {i \in Items : needle \in V1Values(i)}
        partial == {i \in Items : \E v \in V1Values(i) : Occurs(needle, v)}
    IN  IF needle = <<>> THEN {}
        ELSE IF Cardinality(exact) = 1 THEN exact
        ELSE IF Cardinality(partial) = 1 THEN partial ELSE {}

-------------------------------------------------------------------------------
(* Specification *)

Init == items \in Inventories /\ answer = Unasked

Next == \/ \E query \in Queries, limit \in 1..MaxLimit : Search(query, limit)
        \/ \E i \in Items : ResolveItem(i)
        \/ \E i \in Movable, d \in Drawers \cup {NoDrawer} : Move(i, d)

Spec == Init /\ [][Next]_vars

-------------------------------------------------------------------------------
(* Properties *)

\* A text that the database sees as the service does.
Plain(text) ==
    /\ Each(Lower, text) = Normalize(text)
    /\ FlattenSeq(Each(Json, text)) = text

PlainItem(i) == \A t \in {items[i].name} \cup items[i].aliases : Plain(t)

Asked    == Normalize(answer.query)
Matching == {i \in Items : Matches(i, Asked)}
Listed   == ToSet(answer.found)

\* Every variable has its type.
TypeOK ==
    /\ items \in [Items -> Item]
    /\ answer \in [query : Queries \cup {<<>>}, limit : 0..MaxLimit, outcome : Outcomes,
                   found : Seq(Items), route : Routes]
    /\ answer.outcome = "found" <=> answer.route # NoRoute

\* "It never guesses": an item is named only if it is the one match - provided that the
\* caller asked for more than one candidate and the inventory is plain.
NeverGuesses ==
    answer.outcome \in {"found", "unlocated"} /\ answer.limit > 1
        /\ (\A i \in Items : PlainItem(i)) => Listed = Matching

\* The comment on NOT_FOUND says just "nothing matched".
NotFoundIsTrue == answer.outcome = "not_found" => Matching = {}

\* What is listed matches, in the order of the rank; what is left out for the limit is
\* no better than what is listed, and nothing else is left out of a plain inventory.
BestFirst ==
    answer.outcome \notin {"none", "refused"} =>
        /\ Listed \subseteq Matching
        /\ \A j, k \in DOMAIN answer.found :
               j < k => Better(answer.found[j], answer.found[k], Asked)
        /\ \A i \in Matching \ Listed : PlainItem(i) =>
               /\ Len(answer.found) = answer.limit
               /\ \A j \in Listed : Better(j, i, Asked)

\* A query by an id of version 1, or a part of one, for which the search of version 2 has
\* no counterpart: it looks at names and aliases only.
AsksForV1Id(query) == \E i \in Items : Occurs(V1Key(query), V1Key(V1Id[i]))

\* An item that version 1 would have lit for its name is the first one that the search
\* offers now.
VersionsAgree ==
    /\ answer.outcome \notin {"none", "refused"} /\ ~AsksForV1Id(answer.query)
    /\ \A i \in Items : PlainItem(i)
    => \A i \in V1Find(answer.query) : answer.found # <<>> /\ Head(answer.found) = i
==============================================================================
