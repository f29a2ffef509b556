-------------------------- MODULE ItemSearchProofs --------------------------
(***************************************************************************)
(* The search never guesses: proved for every inventory, query and limit.  *)
(*                                                                         *)
(* What normalize and the ranking return is not computed step by step here *)
(* but pinned by how many places, or matches, come before each; the first  *)
(* sections show that this makes a sequence of all of them, in order.      *)
(***************************************************************************)
EXTENDS ItemSearch, FiniteSetTheorems, SequenceTheorems, TLAPS

-------------------------------------------------------------------------------
(* Orders *)

\* R puts the members of S one after the other.
IsOrder(R, S) ==
    /\ \A x \in S : <<x, x>> \notin R
    /\ \A x, y, z \in S : <<x, y>> \in R /\ <<y, z>> \in R => <<x, z>> \in R
    /\ \A x, y \in S : x = y \/ <<x, y>> \in R \/ <<y, x>> \in R

Below(x, S, R) == {y \in S : <<y, x>> \in R}

\* Of some numbers there is a least one, and if they are bounded a greatest one.
LEMMA Least ==
    ASSUME NEW S \in SUBSET Nat, S # {}
    PROVE  \E m \in S : \A n \in S : m <= n
  <1>. DEFINE R == OpToRel(<, Nat)
  <1>1. PICK m \in S : \A n \in S : <<n, m>> \notin R
    <2>. HIDE DEF R
    <2>1. IsWellFoundedOn(R, Nat)
      BY NatLessThanWellFounded, Zenon DEF R
    <2>. QED
      BY <2>1, WFMin
  <1>2. ASSUME NEW n \in S PROVE m <= n
    <2>1. <<n, m>> \in R <=> n < m
      BY DEF OpToRel
    <2>2. ~(n < m) /\ n \in Nat /\ m \in Nat
      BY <1>1, <2>1
    <2>. HIDE DEF R
    <2>. QED
      BY <2>2, SMT
  <1>. QED
    BY <1>2

LEMMA Greatest ==
    ASSUME NEW N \in Nat, NEW S \in SUBSET (0..N), S # {}
    PROVE  \E m \in S : \A n \in S : n <= m
  <1>. DEFINE T == {k \in 0..N : N - k \in S}
  <1>1. PICK n \in S : TRUE
    OBVIOUS
  <1>2. N - n \in T
    BY SMT
  <1>3. PICK m \in T : \A k \in T : m <= k
    <2>1. T \in SUBSET Nat /\ T # {}
      BY <1>2
    <2>. HIDE DEF T
    <2>. QED
      BY <2>1, Least
  <1>4. N - m \in S /\ \A k \in S : k <= N - m
    <2>1. ASSUME NEW k \in S PROVE k <= N - m
      <3>1. N - k \in T
        BY SMT
      <3>2. m <= N - k
        BY <1>3, <3>1
      <3>3. m \in 0..N /\ k \in 0..N
        OBVIOUS
      <3>. QED
        BY <3>2, <3>3, SMT
    <2>. QED
      BY <2>1
  <1>. QED
    BY <1>4

\* The members of a finite set are numbered by how many are before them, in order and
\* without a gap.
Numbered(S, R) ==
    /\ Cardinality(S) \in Nat
    /\ \A x \in S : Cardinality(Below(x, S, R)) \in 0..(Cardinality(S) - 1)
    /\ \A n \in 1..Cardinality(S) : \E x \in S : Cardinality(Below(x, S, R)) = n - 1
    /\ \A x, y \in S : <<x, y>> \in R =>
           Cardinality(Below(x, S, R)) < Cardinality(Below(y, S, R))
    /\ \A x, y \in S :
           Cardinality(Below(x, S, R)) = Cardinality(Below(y, S, R)) => x = y

LEMMA Ranks ==
    ASSUME NEW S, IsFiniteSet(S), NEW R, IsOrder(R, S)
    PROVE  Numbered(S, R)
  <1>. DEFINE N == Cardinality(S)
              f == [x \in S |-> Cardinality(Below(x, S, R))]
  <1>1. N \in Nat
    BY FS_CardinalityType
  <1>2. ASSUME NEW x \in S
        PROVE  f[x] \in 0..(N - 1) /\ IsFiniteSet(Below(x, S, R))
    <2>1. Below(x, S, R) \in SUBSET S /\ x \notin Below(x, S, R)
      BY DEF Below, IsOrder
    <2>2. /\ IsFiniteSet(Below(x, S, R)) /\ Cardinality(Below(x, S, R)) <= N
          /\ Cardinality(Below(x, S, R)) # N
      BY <2>1, FS_Subset
    <2>3. Cardinality(Below(x, S, R)) \in Nat
      BY <2>2, FS_CardinalityType
    <2>. QED
      BY <1>1, <2>2, <2>3, SMT
  <1>3. ASSUME NEW x \in S, NEW y \in S, <<x, y>> \in R PROVE f[x] < f[y]
    <2>1. Below(x, S, R) \in SUBSET Below(y, S, R)
      BY <1>3 DEF Below, IsOrder
    <2>2. x \in Below(y, S, R) /\ x \notin Below(x, S, R)
      BY <1>3 DEF Below, IsOrder
    <2>3. f[x] <= f[y] /\ f[x] # f[y]
      BY <1>2, <2>1, <2>2, FS_Subset
    <2>. QED
      BY <1>2, <2>3, SMT
  <1>4. ASSUME NEW x \in S, NEW y \in S, x # y PROVE f[x] # f[y]
    <2>1. <<x, y>> \in R \/ <<y, x>> \in R
      BY <1>4 DEF IsOrder
    <2>. QED
      BY <1>2, <1>3, <2>1, SMT
  <1>. DEFINE T == 0..(N - 1)
  <1>5. IsFiniteSet(T) /\ Cardinality(T) = N
    BY <1>1, FS_Interval, SMT
  <1>6. f \in Injection(S, T)
    BY <1>2, <1>4 DEF Injection, IsInjective
  <1>7. f \in Surjection(S, T)
    <2>. HIDE DEF f, T
    <2>. QED
      BY <1>5, <1>6, FS_Injection
  <1>8. ASSUME NEW n \in 1..N PROVE \E x \in S : f[x] = n - 1
    <2>1. n - 1 \in T
      BY <1>1, SMT
    <2>. QED
      BY <1>7, <2>1 DEF Surjection
  <1>. QED
    BY <1>1, <1>2, <1>3, <1>4, <1>8 DEF Numbered

\* s is all of S, in the order R, and each member at the place of its number.
Lists(s, S, R) ==
    /\ Cardinality(S) \in Nat
    /\ s \in [1..Cardinality(S) -> S]
    /\ \A x \in S : \E n \in 1..Cardinality(S) : s[n] = x
    /\ \A m, n \in 1..Cardinality(S) : m < n => <<s[m], s[n]>> \in R
    /\ \A x \in S, n \in 1..Cardinality(S) : Cardinality(Below(x, S, R)) = n - 1 => s[n] = x

LEMMA Listing ==
    ASSUME NEW S, IsFiniteSet(S), NEW R, IsOrder(R, S),
           NEW rank, rank = [x \in S |-> Cardinality(Below(x, S, R))]
    PROVE  Lists(InOrder(rank), S, R)
  <1>. DEFINE N == Cardinality(S)
              s == InOrder(rank)
  <1>1. s = [n \in 1..N |-> CHOOSE x \in S : rank[x] = n - 1]
    BY DEF InOrder
  <1>2. Numbered(S, R)
    BY Ranks
  <1>3. /\ N \in Nat
        /\ \A x \in S : rank[x] = Cardinality(Below(x, S, R))
        /\ \A x \in S : rank[x] \in 0..(N - 1)
        /\ \A n \in 1..N : \E x \in S : rank[x] = n - 1
        /\ \A x, y \in S : rank[x] = rank[y] => x = y
        /\ \A x, y \in S : <<x, y>> \in R => rank[x] < rank[y]
    BY <1>2 DEF Numbered
  <1>. HIDE DEF s, N
  <1>4. \A n \in 1..N : s[n] \in S /\ rank[s[n]] = n - 1
    BY <1>1, <1>3
  <1>5. s \in [1..N -> S]
    BY <1>1, <1>4
  <1>6. ASSUME NEW x \in S PROVE \E n \in 1..N : s[n] = x
    <2>1. rank[x] + 1 \in 1..N /\ rank[x] = (rank[x] + 1) - 1
      BY <1>3, SMT
    <2>. QED
      BY <1>3, <1>4, <2>1
  <1>7. ASSUME NEW m \in 1..N, NEW n \in 1..N, m < n PROVE <<s[m], s[n]>> \in R
    <2>1. rank[s[m]] < rank[s[n]] /\ rank[s[m]] \in Int /\ rank[s[n]] \in Int
      BY <1>3, <1>4, <1>7, SMT
    <2>2. s[m] # s[n] /\ <<s[n], s[m]>> \notin R
      BY <1>3, <1>4, <2>1, SMT
    <2>. QED
      BY <1>4, <2>2 DEF IsOrder
  <1>8. \A x \in S, n \in 1..N : Cardinality(Below(x, S, R)) = n - 1 => s[n] = x
    BY <1>3, <1>4
  <1>. QED
    BY <1>3, <1>5, <1>6, <1>7, <1>8 DEF Lists, s, N

-------------------------------------------------------------------------------
(* The order of texts *)

Texts == Seq(Chars)

LEMMA TextTypes ==
    ASSUME NEW s \in Texts
    PROVE  /\ Len(s) \in Nat /\ DOMAIN s = 1..Len(s)
           /\ \A k \in 1..Len(s) : s[k] \in Chars /\ Code[s[k]] \in Nat
  BY TextAssumption DEF Texts

\* That s is before t shows at one place.
BeforeAt(k, s, t) ==
    /\ k \in 1..Len(t) /\ k - 1 <= Len(s)
    /\ \A j \in 1..(k - 1) : s[j] = t[j]
    /\ k <= Len(s) => Code[s[k]] < Code[t[k]]

LEMMA BeforeSomewhere ==
    ASSUME NEW s \in Texts, NEW t \in Texts
    PROVE  Before(s, t) <=> \E k \in 1..Len(t) : BeforeAt(k, s, t)
  <1>1. ASSUME NEW k \in 1..Len(t),
               \A j \in 1..(k - 1) : j <= Len(s) /\ s[j] = t[j]
        PROVE  k - 1 <= Len(s)
    <2>1. k = 1 \/ k - 1 \in 1..(k - 1)
      BY TextTypes, SMT
    <2>. QED
      BY <1>1, <2>1, TextTypes, SMT
  <1>2. ASSUME NEW k \in 1..Len(t), BeforeAt(k, s, t)
        PROVE  \A j \in 1..(k - 1) : j <= Len(s) /\ s[j] = t[j]
    BY <1>2, TextTypes, SMT DEF BeforeAt
  <1>. QED
    BY <1>1, <1>2, TextTypes, SMT DEF Before, BeforeAt

LEMMA BeforeIrreflexive ==
    ASSUME NEW s \in Texts
    PROVE  ~Before(s, s)
  BY BeforeSomewhere, TextTypes, SMT DEF BeforeAt

LEMMA BeforeTransitive ==
    ASSUME NEW s \in Texts, NEW t \in Texts, NEW u \in Texts, Before(s, t), Before(t, u)
    PROVE  Before(s, u)
  <1>1. PICK k \in 1..Len(t) : BeforeAt(k, s, t)
    BY BeforeSomewhere
  <1>2. PICK l \in 1..Len(u) : BeforeAt(l, t, u)
    BY BeforeSomewhere
  <1>3. CASE k < l
    <2>1. BeforeAt(k, s, u)
      BY <1>1, <1>2, <1>3, TextTypes, SMT DEF BeforeAt
    <2>. QED
      BY <2>1, BeforeSomewhere DEF BeforeAt
  <1>4. CASE l <= k
    <2>1. BeforeAt(l, s, u)
      BY <1>1, <1>2, <1>4, TextTypes, SMT DEF BeforeAt
    <2>. QED
      BY <2>1, BeforeSomewhere DEF BeforeAt
  <1>. QED
    BY <1>3, <1>4, TextTypes, SMT

\* Different texts differ at a first place, and distinct characters have distinct codes.
LEMMA BeforeTotal ==
    ASSUME NEW s \in Texts, NEW t \in Texts, s # t
    PROVE  Before(s, t) \/ Before(t, s)
  <1>. DEFINE Differ == {k \in 1..(Len(s) + Len(t) + 1) :
                            k > Len(s) \/ k > Len(t) \/ s[k] # t[k]}
  <1>1. Differ \in SUBSET Nat /\ Len(s) + Len(t) + 1 \in Differ
    BY TextTypes, SMT
  <1>2. PICK k \in Differ : \A n \in Differ : k <= n
    BY <1>1, Least
  <1>3. \A j \in 1..(k - 1) : j <= Len(s) /\ j <= Len(t) /\ s[j] = t[j]
    <2>1. SUFFICES ASSUME NEW j \in 1..(k - 1), j \notin Differ
                   PROVE  j <= Len(s) /\ j <= Len(t) /\ s[j] = t[j]
      BY <1>2, TextTypes, SMT
    <2>. QED
      BY <2>1, TextTypes, SMT
  <1>4. k \in 1..Len(s) \/ k \in 1..Len(t)
    <2>1. SUFFICES ASSUME k > Len(s), k > Len(t) PROVE FALSE
      BY TextTypes, SMT
    <2>2. Len(s) = Len(t)
      BY <1>3, <2>1, TextTypes, SMT
    <2>3. \A j \in 1..Len(s) : s[j] = t[j]
      BY <1>3, <2>1, TextTypes, SMT
    <2>. QED
      BY <2>2, <2>3, SeqEqual DEF Texts
  <1>5. k - 1 <= Len(s) /\ k - 1 <= Len(t)
    <2>1. k = 1 \/ k - 1 \in 1..(k - 1)
      BY TextTypes, SMT
    <2>. QED
      BY <1>3, <2>1, TextTypes, SMT
  <1>6. CASE k \in 1..Len(t) /\ k > Len(s)
    BY <1>3, <1>5, <1>6, BeforeSomewhere, TextTypes, SMT DEF BeforeAt
  <1>7. CASE k \in 1..Len(s) /\ k > Len(t)
    BY <1>3, <1>5, <1>7, BeforeSomewhere, TextTypes, SMT DEF BeforeAt
  <1>8. CASE k \in 1..Len(s) /\ k \in 1..Len(t)
    <2>1. s[k] # t[k]
      BY <1>8, TextTypes, SMT
    <2>2. Code[s[k]] # Code[t[k]]
      BY <1>8, <2>1, TextTypes, TextAssumption
    <2>3. BeforeAt(k, s, t) \/ BeforeAt(k, t, s)
      BY <1>3, <1>5, <1>8, <2>2, TextTypes, SMT DEF BeforeAt
    <2>. QED
      BY <1>8, <2>3, BeforeSomewhere
  <1>. QED
    BY <1>4, <1>6, <1>7, <1>8, TextTypes, SMT

-------------------------------------------------------------------------------
(* What normalize returns *)

Folded(text) == Each(Normal, text)

LEMMA FoldedText ==
    ASSUME NEW text \in Texts
    PROVE  /\ Folded(text) \in Texts /\ Len(Folded(text)) = Len(text)
           /\ \A k \in 1..Len(text) : Folded(text)[k] = Normal[text[k]]
  <1>1. Folded(text) = [k \in 1..Len(text) |-> Normal[text[k]]]
    BY TextTypes DEF Folded, Each
  <1>2. \A k \in 1..Len(text) : Normal[text[k]] \in Chars
    BY TextTypes, TextAssumption
  <1>. QED
    BY <1>1, <1>2, TextTypes, SMT DEF Texts

LEMMA KeptPlaces ==
    ASSUME NEW text \in Texts
    PROVE  /\ Kept(Folded(text)) \in SUBSET (1..Len(text))
           /\ IsFiniteSet(Kept(Folded(text)))
           /\ Cardinality(Kept(Folded(text))) \in 0..Len(text)
           /\ Cardinality(Kept(Folded(text))) = Len(text) => Kept(Folded(text)) = 1..Len(text)
  <1>1. Kept(Folded(text)) \in SUBSET (1..Len(text))
    BY FoldedText, TextTypes DEF Kept
  <1>2. IsFiniteSet(1..Len(text)) /\ Cardinality(1..Len(text)) = Len(text)
    BY FS_Interval, TextTypes, SMT
  <1>3. /\ IsFiniteSet(Kept(Folded(text)))
        /\ Cardinality(Kept(Folded(text))) <= Len(text)
        /\ Cardinality(Kept(Folded(text))) = Len(text) => Kept(Folded(text)) = 1..Len(text)
    BY <1>1, <1>2, FS_Subset
  <1>4. Cardinality(Kept(Folded(text))) \in Nat
    BY <1>3, FS_CardinalityType
  <1>. QED
    BY <1>1, <1>3, <1>4, TextTypes, SMT

LEMMA NumbersAreOrdered ==
    ASSUME NEW S \in SUBSET Nat
    PROVE  /\ IsOrder({p \in S \X S : p[1] < p[2]}, S)
           /\ \A k \in S : Below(k, S, {p \in S \X S : p[1] < p[2]}) = {j \in S : j < k}
  <1>. DEFINE R == {p \in S \X S : p[1] < p[2]}
  <1>1. \A j, k \in S : <<j, k>> \in R <=> j < k
    OBVIOUS
  <1>. HIDE DEF R
  <1>2. IsOrder(R, S)
    BY <1>1, SMT DEF IsOrder
  <1>3. \A k \in S : Below(k, S, R) = {j \in S : j < k}
    BY <1>1 DEF Below
  <1>. QED
    BY <1>2, <1>3 DEF R

\* The place in the text of each character of the normalized text.
Places(kept) == InOrder([k \in kept |-> Cardinality({j \in kept : j < k})])

LEMMA PlacesInOrder ==
    ASSUME NEW kept \in SUBSET Nat, IsFiniteSet(kept)
    PROVE  /\ Cardinality(kept) \in Nat
           /\ Places(kept) \in [1..Cardinality(kept) -> kept]
           /\ \A k \in kept, n \in 1..Cardinality(kept) :
                  Cardinality({j \in kept : j < k}) = n - 1 => Places(kept)[n] = k
  <1>. DEFINE R == {p \in kept \X kept : p[1] < p[2]}
              rank == [k \in kept |-> Cardinality({j \in kept : j < k})]
  <1>1. IsOrder(R, kept) /\ \A k \in kept : Below(k, kept, R) = {j \in kept : j < k}
    BY NumbersAreOrdered
  <1>. HIDE DEF R
  <1>2. rank = [k \in kept |-> Cardinality(Below(k, kept, R))]
    BY <1>1
  <1>3. Places(kept) = InOrder(rank)
    BY DEF Places
  <1>. HIDE DEF rank
  <1>4. Lists(Places(kept), kept, R)
    BY <1>1, <1>2, <1>3, Listing
  <1>. QED
    BY <1>1, <1>4 DEF Lists

LEMMA NormalizeText ==
    ASSUME NEW text \in Texts
    PROVE  /\ Normalize(text) \in Texts
           /\ Len(Normalize(text)) = Cardinality(Kept(Folded(text)))
           /\ \A n \in 1..Len(Normalize(text)) :
                  Normalize(text)[n] = Folded(text)[Places(Kept(Folded(text)))[n]]
  <1>. DEFINE kept == Kept(Folded(text))
              N    == Cardinality(kept)
  <1>1. kept \in SUBSET Nat /\ IsFiniteSet(kept) /\ kept \in SUBSET (1..Len(text)) /\ N \in Nat
    BY KeptPlaces, TextTypes, SMT
  <1>2. Places(kept) \in [1..N -> kept]
    BY <1>1, PlacesInOrder
  <1>3. Normalize(text) = [n \in 1..N |-> Folded(text)[Places(kept)[n]]]
    <2>1. Normalize(text) = Each(Folded(text), Places(kept))
      BY DEF Normalize, Folded, Places
    <2>2. DOMAIN Places(kept) = 1..N
      BY <1>2
    <2>. QED
      BY <2>1, <2>2 DEF Each
  <1>4. \A n \in 1..N : Folded(text)[Places(kept)[n]] \in Chars
    BY <1>1, <1>2, FoldedText, TextTypes
  <1>. QED
    BY <1>1, <1>3, <1>4, SMT DEF Texts

\* If all the places from a to b are kept and no others, these are the characters.
LEMMA NormalizeRange ==
    ASSUME NEW text \in Texts, NEW a \in Nat, NEW b \in Nat, a <= b + 1,
           Kept(Folded(text)) = a..b
    PROVE  /\ Len(Normalize(text)) = b - a + 1
           /\ \A n \in 1..(b - a + 1) : Normalize(text)[n] = Normal[text[a + n - 1]]
  <1>1. IsFiniteSet(a..b) /\ Cardinality(a..b) = b - a + 1
    BY FS_Interval, SMT
  <1>2. ASSUME NEW n \in 1..(b - a + 1)
        PROVE  Normalize(text)[n] = Normal[text[a + n - 1]]
    <2>1. a + n - 1 \in a..b /\ a + n - 2 \in Int /\ {j \in a..b : j < a + n - 1} = a..(a + n - 2)
      BY SMT
    <2>2. Cardinality(a..(a + n - 2)) = n - 1
      BY <2>1, FS_Interval, SMT
    <2>3. Places(a..b)[n] = a + n - 1
      <3>1. a..b \in SUBSET Nat
        BY SMT
      <3>2. n \in 1..Cardinality(a..b)
        BY <1>1
      <3>3. Cardinality({j \in a..b : j < a + n - 1}) = n - 1
        BY <2>1, <2>2
      <3>4. \A k \in a..b, m \in 1..Cardinality(a..b) :
                Cardinality({j \in a..b : j < k}) = m - 1 => Places(a..b)[m] = k
        BY <1>1, <3>1, PlacesInOrder
      <3>. QED
        BY <2>1, <3>2, <3>3, <3>4
    <2>4. Normalize(text)[n] = Folded(text)[a + n - 1]
      BY <1>1, <2>3, NormalizeText
    <2>5. a + n - 1 \in 1..Len(text)
      BY <2>1, KeptPlaces
    <2>. QED
      BY <2>4, <2>5, FoldedText
  <1>. QED
    BY <1>1, <1>2, NormalizeText

-------------------------------------------------------------------------------
(* The ranking *)

Table == items \in [Items -> Item]

LEMMA TableTexts ==
    ASSUME Table, NEW i \in Items
    PROVE  /\ items[i].name \in Texts /\ items[i].aliases \in SUBSET Texts
           /\ items[i].drawer \in Drawers \cup {NoDrawer}
           /\ Normalize(items[i].name) \in Texts
           /\ \A a \in items[i].aliases : Normalize(a) \in Texts
  <1>1. /\ items[i].name \in Texts /\ items[i].aliases \in SUBSET Texts
        /\ items[i].drawer \in Drawers \cup {NoDrawer}
    BY DEF Table, Item, Texts
  <1>. QED
    BY <1>1, NormalizeText

LEMMA BetterOrder ==
    ASSUME Table, NEW needle, NEW S \in SUBSET Items
    PROVE  /\ IsOrder({p \in S \X S : Better(p[1], p[2], needle)}, S)
           /\ \A i \in S : Below(i, S, {p \in S \X S : Better(p[1], p[2], needle)})
                               = {j \in S : Better(j, i, needle)}
  <1>. DEFINE R == {p \in S \X S : Better(p[1], p[2], needle)}
              name(i) == Normalize(items[i].name)
              tier(i) == Tier(i, needle)
  <1>1. \A j, i \in S : <<j, i>> \in R <=> Better(j, i, needle)
    OBVIOUS
  <1>2. \A j, i \in S : <<j, i>> \in R <=>
            \/ tier(j) < tier(i)
            \/ tier(j) = tier(i) /\ ((name(j) = name(i) /\ j < i) \/ Before(name(j), name(i)))
    BY <1>1 DEF Better
  <1>3. \A i \in S : tier(i) \in 0..2 /\ name(i) \in Texts /\ i \in Nat
    <2>1. \A i \in S : tier(i) = 0 \/ tier(i) = 1 \/ tier(i) = 2
      BY DEF Tier
    <2>2. \A i \in S : name(i) \in Texts /\ i \in Nat
      BY TableTexts, TableAssumption
    <2>. HIDE DEF tier
    <2>. QED
      BY <2>1, <2>2, SMT
  <1>4. \A i \in S : Below(i, S, R) = {j \in S : Better(j, i, needle)}
    BY <1>1 DEF Below
  <1>. HIDE DEF R, name, tier
  <1>5. \A i \in S : <<i, i>> \notin R
    BY <1>2, <1>3, BeforeIrreflexive, SMT
  <1>6. ASSUME NEW i \in S, NEW j \in S, NEW k \in S, <<i, j>> \in R, <<j, k>> \in R
        PROVE  <<i, k>> \in R
    <2>1. Before(name(i), name(j)) /\ Before(name(j), name(k)) => Before(name(i), name(k))
      BY <1>3, BeforeTransitive
    <2>. QED
      BY <1>2, <1>3, <1>6, <2>1, SMT
  <1>7. ASSUME NEW i \in S, NEW j \in S, i # j
        PROVE  <<i, j>> \in R \/ <<j, i>> \in R
    <2>1. name(i) = name(j) \/ Before(name(i), name(j)) \/ Before(name(j), name(i))
      BY <1>3, BeforeTotal
    <2>. QED
      BY <1>2, <1>3, <1>7, <2>1, SMT
  <1>8. IsOrder(R, S)
    BY <1>5, <1>6, <1>7 DEF IsOrder
  <1>. QED
    BY <1>4, <1>8 DEF R

\* The ranked items are all of them, the better before the worse.
LEMMA RankedInOrder ==
    ASSUME Table, NEW needle, NEW S \in SUBSET Items
    PROVE  /\ IsFiniteSet(S) /\ Cardinality(S) \in Nat
           /\ Ranked(S, needle) \in Seq(S) /\ Len(Ranked(S, needle)) = Cardinality(S)
           /\ \A i \in S : \E n \in 1..Cardinality(S) : Ranked(S, needle)[n] = i
           /\ \A m, n \in 1..Cardinality(S) :
                  m < n => Better(Ranked(S, needle)[m], Ranked(S, needle)[n], needle)
  <1>. DEFINE R == {p \in S \X S : Better(p[1], p[2], needle)}
              rank == [i \in S |-> Cardinality({j \in S : Better(j, i, needle)})]
  <1>1. IsFiniteSet(S)
    BY TableAssumption, FS_Subset
  <1>2. IsOrder(R, S) /\ \A i \in S : Below(i, S, R) = {j \in S : Better(j, i, needle)}
    BY BetterOrder
  <1>3. \A i, j \in S : <<j, i>> \in R <=> Better(j, i, needle)
    OBVIOUS
  <1>4. Ranked(S, needle) = InOrder(rank)
    BY DEF Ranked
  <1>. HIDE DEF R
  <1>5. rank = [i \in S |-> Cardinality(Below(i, S, R))]
    BY <1>2
  <1>. HIDE DEF rank
  <1>6. Lists(Ranked(S, needle), S, R)
    BY <1>1, <1>2, <1>4, <1>5, Listing
  <1>7. /\ Cardinality(S) \in Nat
        /\ Ranked(S, needle) \in [1..Cardinality(S) -> S]
        /\ \A i \in S : \E n \in 1..Cardinality(S) : Ranked(S, needle)[n] = i
        /\ \A m, n \in 1..Cardinality(S) :
               m < n => <<Ranked(S, needle)[m], Ranked(S, needle)[n]>> \in R
    BY <1>6 DEF Lists
  <1>8. Ranked(S, needle) \in Seq(S) /\ Len(Ranked(S, needle)) = Cardinality(S)
    BY <1>7, SMT
  <1>. QED
    BY <1>1, <1>3, <1>7, <1>8

\* What find_items returns: the first of the ranked matches.
LEMMA FirstOnes ==
    ASSUME Table, NEW needle, NEW limit \in 1..MaxLimit
    PROVE  LET found  == FindItems(needle, limit)
               ranked == Ranked(Matched(needle), needle)
               size   == Cardinality(Matched(needle))
           IN  /\ Matched(needle) \in SUBSET Items /\ size \in Nat
               /\ found \in Seq(Matched(needle)) /\ found \in Seq(Items)
               /\ DOMAIN found = 1..Len(found)
               /\ Len(found) = IF size < limit THEN size ELSE limit
               /\ \A n \in 1..Len(found) : found[n] = ranked[n] /\ found[n] \in Matched(needle)
  <1>. DEFINE found  == FindItems(needle, limit)
              S      == Matched(needle)
              ranked == Ranked(S, needle)
              size   == Cardinality(S)
              top    == IF size < limit THEN size ELSE limit
  <1>1. S \in SUBSET Items
    BY DEF Matched
  <1>. HIDE DEF S
  <1>2. size \in Nat /\ ranked \in Seq(S) /\ Len(ranked) = size
    BY <1>1, RankedInOrder
  <1>3. limit \in Nat \ {0}
    BY TableAssumption, SMT
  <1>4. found = SubSeq(ranked, 1, top)
    BY <1>2 DEF FindItems, Limited, S
  <1>. HIDE DEF ranked, size, found
  <1>5. top \in 0..size
    BY <1>2, <1>3, SMT
  <1>6. \A n \in 1..top : n \in 1..size /\ ranked[n] \in S
    BY <1>2, <1>5, SMT
  <1>. HIDE DEF top
  <1>7. /\ found \in Seq(S) /\ Len(found) = top
        /\ \A n \in 1..top : found[n] = ranked[n]
    BY <1>2, <1>4, <1>5, <1>6, SubSeqProperties, SMT
  <1>8. found \in Seq(Items) /\ DOMAIN found = 1..Len(found)
    BY <1>1, <1>7, SeqMonotonic, LenProperties
  <1>. QED
    BY <1>1, <1>2, <1>6, <1>7, <1>8 DEF found, ranked, size, S, top

-------------------------------------------------------------------------------
(* The invariant *)

\* The answer is what the search finds now, too: where the items are makes no difference
\* to it, and nothing else of them changes.
Answered ==
    answer.outcome \notin {"none", "refused"} =>
        /\ answer.limit \in 1..MaxLimit
        /\ answer.found = FindItems(Asked, answer.limit)

\* What is named is the only candidate, and there is none when nothing is found.
Counted ==
    /\ answer.outcome \in {"found", "unlocated"} => Len(answer.found) = 1
    /\ answer.outcome = "not_found" => answer.found = <<>>

IInv == TypeOK /\ Answered /\ Counted

LEMMA SameTexts ==
    ASSUME \A i \in Items : /\ items'[i].name = items[i].name
                            /\ items'[i].aliases = items[i].aliases
    PROVE  \A needle, limit : FindItems(needle, limit)' = FindItems(needle, limit)
  <1>. SUFFICES ASSUME NEW needle, NEW limit
                PROVE  FindItems(needle, limit)' = FindItems(needle, limit)
    OBVIOUS
  <1>1. \A i \in Items : Tier(i, needle)' = Tier(i, needle)
    BY DEF Tier, Aliases
  <1>2. \A i, j \in Items : Better(i, j, needle)' <=> Better(i, j, needle)
    BY <1>1 DEF Better
  <1>3. \A i \in Items : /\ Passes(i, needle)' <=> Passes(i, needle)
                         /\ Matches(i, needle)' <=> Matches(i, needle)
    BY DEF Passes, Matches, Aliases
  <1>4. Matched(needle)' = Matched(needle)
    BY <1>3 DEF Matched
  <1>. DEFINE S == Matched(needle)
              rank == [i \in S |-> Cardinality({j \in S : Better(j, i, needle)})]
  <1>5. S \in SUBSET Items
    BY DEF Matched
  <1>6. rank' = rank
    <2>1. \A i \in S : {j \in S : Better(j, i, needle)'} = {j \in S : Better(j, i, needle)}
      BY <1>2, <1>5
    <2>. QED
      BY <1>4, <2>1
  <1>7. Ranked(Matched(needle), needle)' = Ranked(Matched(needle), needle)
    BY <1>6 DEF Ranked
  <1>. QED
    BY <1>7 DEF FindItems, Limited

LEMMA InitIInv == Init => IInv
  <1>. SUFFICES ASSUME Init PROVE IInv
    OBVIOUS
  <1>1. NoRoute \in Routes /\ <<>> \in Seq(Items) /\ 0 \in 0..MaxLimit
    BY TableAssumption, SMT DEF Routes
  <1>2. answer \in [query : Queries \cup {<<>>}, limit : 0..MaxLimit, outcome : Outcomes,
                    found : Seq(Items), route : Routes]
    BY <1>1 DEF Init, Unasked, Outcomes
  <1>3. items \in [Items -> Item]
    BY InventoryAssumption DEF Init
  <1>. QED
    BY <1>2, <1>3 DEF Init, Unasked, IInv, TypeOK, Answered, Counted

LEMMA RouteOf ==
    ASSUME Table, NEW i \in Items, items[i].drawer # NoDrawer
    PROVE  Route(items[i].drawer) \in Routes \ {NoRoute}
  <1>1. items[i].drawer \in Drawers
    BY TableTexts
  <1>. QED
    BY <1>1, TableAssumption DEF Routes, Route, NoRoute

LEMMA SearchStep ==
    ASSUME IInv, NEW query \in Queries, NEW limit \in 1..MaxLimit, Search(query, limit)
    PROVE  IInv'
  <1>. DEFINE needle == Normalize(query)
              found  == FindItems(needle, limit)
              what   == IF needle = <<>> THEN "refused" ELSE Outcome(found)
  <1>1. Table /\ items' = items
    BY DEF IInv, TypeOK, Table, Search
  <1>2. answer' = [query |-> query, limit |-> limit, outcome |-> what,
                   found |-> IF needle = <<>> THEN <<>> ELSE found,
                   route |-> IF what = "found" THEN Route(items[Head(found)].drawer)
                             ELSE NoRoute]
    BY DEF Search
  <1>3. found \in Seq(Items)
    BY <1>1, FirstOnes
  <1>4. FindItems(needle, limit)' = found
    BY <1>1, SameTexts
  <1>5. what \in Outcomes \ {"none"}
    BY DEF Outcome, Outcomes
  <1>6. what # "refused" =>
            /\ what = Outcome(found)
            /\ what = "found" => found # <<>> /\ ~(Len(found) > 1)
                                 /\ items[Head(found)].drawer # NoDrawer
            /\ what = "unlocated" => found # <<>> /\ ~(Len(found) > 1)
            /\ what = "not_found" => found = <<>>
    BY DEF Outcome
  <1>. HIDE DEF found, what
  <1>7. found # <<>> => Head(found) \in Items /\ Len(found) \in Nat \ {0}
    BY <1>3, HeadTailProperties, EmptySeq
  <1>8. what = "found" => Route(items[Head(found)].drawer) \in Routes \ {NoRoute}
    BY <1>1, <1>6, <1>7, RouteOf
  <1>9. TypeOK'
    <2>1. limit \in 0..MaxLimit /\ <<>> \in Seq(Items) /\ NoRoute \in Routes
      BY TableAssumption, SMT DEF Routes
    <2>. QED
      BY <1>1, <1>2, <1>3, <1>5, <1>8, <2>1 DEF TypeOK, Table
  <1>10. Answered'
    <2>. SUFFICES ASSUME what # "refused"
                  PROVE  answer'.found = FindItems(Asked, answer.limit)'
      BY <1>2 DEF Answered
    <2>1. needle # <<>>
      BY DEF what
    <2>. QED
      BY <1>2, <1>4, <2>1 DEF Asked, found
  <1>11. Counted'
    <2>1. what # "refused" => needle # <<>>
      BY DEF what
    <2>2. what # "refused" => answer'.found = found /\ answer'.outcome = what
      BY <1>2, <2>1
    <2>3. answer'.outcome = what
      BY <1>2
    <2>4. what \in {"found", "unlocated"} => Len(found) = 1
      <3>1. what \in {"found", "unlocated"} => found # <<>> /\ ~(Len(found) > 1)
        BY <1>6
      <3>2. found # <<>> /\ ~(Len(found) > 1) => Len(found) = 1
        BY <1>7, SMT
      <3>. QED
        BY <3>1, <3>2
    <2>. QED
      BY <1>6, <2>2, <2>3, <2>4 DEF Counted
  <1>. QED
    BY <1>9, <1>10, <1>11 DEF IInv

LEMMA ResolveStep ==
    ASSUME IInv, NEW i \in Items, ResolveItem(i)
    PROVE  IInv'
  <1>1. Table /\ items' = items
    BY DEF IInv, TypeOK, Table, ResolveItem
  <1>2. /\ answer'.query = answer.query /\ answer'.limit = answer.limit
        /\ answer'.found = answer.found /\ answer'.outcome \in {"found", "unlocated"}
        /\ answer.outcome \in {"found", "unlocated"}
    BY DEF ResolveItem, IInv, TypeOK
  <1>3. TypeOK'
    <2>1. NoRoute \in Routes /\ {"found", "unlocated"} \subseteq Outcomes
      BY DEF Routes, Outcomes
    <2>2. CASE items[i].drawer = NoDrawer
      BY <1>1, <2>1, <2>2 DEF IInv, TypeOK, ResolveItem
    <2>3. CASE items[i].drawer # NoDrawer
      <3>1. Route(items[i].drawer) \in Routes \ {NoRoute}
        BY <1>1, <2>3, RouteOf
      <3>. QED
        BY <1>1, <2>1, <2>3, <3>1 DEF IInv, TypeOK, ResolveItem
    <2>. QED
      BY <2>2, <2>3
  <1>4. Answered'
    <2>1. FindItems(Asked, answer.limit)' = FindItems(Asked, answer.limit)
      <3>1. \A needle, limit : FindItems(needle, limit)' = FindItems(needle, limit)
        BY <1>1, SameTexts
      <3>. QED
        BY <1>2, <3>1 DEF Asked
    <2>. QED
      BY <1>2, <2>1 DEF IInv, Answered
  <1>5. Counted'
    BY <1>2 DEF IInv, Counted
  <1>. QED
    BY <1>3, <1>4, <1>5 DEF IInv

LEMMA MoveStep ==
    ASSUME IInv, NEW i \in Movable, NEW d \in Drawers \cup {NoDrawer}, Move(i, d)
    PROVE  IInv'
  <1>1. Table /\ i \in Items /\ answer' = answer
    BY TableAssumption DEF IInv, TypeOK, Table, Move
  <1>2. items' = [items EXCEPT ![i] = [items[i] EXCEPT !.drawer = d]]
    BY DEF Move
  <1>3. items' \in [Items -> Item]
    BY <1>1, <1>2 DEF Table, Item
  <1>4. \A j \in Items : items'[j].name = items[j].name /\ items'[j].aliases = items[j].aliases
    BY <1>1, <1>2 DEF Table, Item
  <1>5. FindItems(Asked, answer.limit)' = FindItems(Asked, answer.limit)
    <2>1. \A needle, limit : FindItems(needle, limit)' = FindItems(needle, limit)
      BY <1>4, SameTexts
    <2>. QED
      BY <1>1, <2>1 DEF Asked
  <1>. QED
    BY <1>1, <1>3, <1>5 DEF IInv, TypeOK, Answered, Counted

\* The inductive invariant: the answer is still what the search would find.
THEOREM Invariance == Spec => []IInv
  <1>1. IInv /\ [Next]_vars => IInv'
    <2>. SUFFICES ASSUME IInv, [Next]_vars PROVE IInv'
      OBVIOUS
    <2>1. CASE UNCHANGED vars
      <3>1. \A needle, limit : FindItems(needle, limit)' = FindItems(needle, limit)
        BY <2>1, SameTexts DEF vars
      <3>2. FindItems(Asked, answer.limit)' = FindItems(Asked, answer.limit)
        BY <2>1, <3>1 DEF vars, Asked
      <3>. QED
        BY <2>1, <3>2 DEF vars, IInv, TypeOK, Answered, Counted
    <2>. QED
      BY <2>1, SearchStep, ResolveStep, MoveStep DEF Next
  <1>. QED
    BY InitIInv, <1>1, PTL DEF Spec

\* The table and the answer keep their types; a route is given just with "found".
THEOREM TypeCorrect == Spec => []TypeOK
  <1>1. IInv => TypeOK
    BY DEF IInv
  <1>. QED
    BY Invariance, <1>1, PTL

-------------------------------------------------------------------------------
(* The answers *)

\* What the current answer lists, when there is one.
LEMMA AnswerLists ==
    ASSUME IInv, answer.outcome \notin {"none", "refused"}
    PROVE  LET ranked == Ranked(Matched(Asked), Asked)
               size   == Cardinality(Matched(Asked))
               N      == Len(answer.found)
           IN  /\ Table /\ answer.limit \in Nat \ {0} /\ size \in Nat
               /\ Matched(Asked) \in SUBSET Items
               /\ answer.found \in Seq(Matched(Asked)) /\ DOMAIN answer.found = 1..N
               /\ N = (IF size < answer.limit THEN size ELSE answer.limit)
               /\ \A n \in 1..N : answer.found[n] = ranked[n] /\ n \in 1..size
               /\ Listed = {ranked[n] : n \in 1..N}
               /\ \A i \in Matched(Asked) : \E n \in 1..size : ranked[n] = i
               /\ \A m, n \in 1..size : m < n => Better(ranked[m], ranked[n], Asked)
  <1>. DEFINE ranked == Ranked(Matched(Asked), Asked)
              size   == Cardinality(Matched(Asked))
              found  == FindItems(Asked, answer.limit)
              N      == Len(found)
  <1>1. Table /\ answer.limit \in 1..MaxLimit /\ answer.found = found
    BY DEF IInv, TypeOK, Table, Answered
  <1>2. answer.limit \in Nat \ {0}
    BY <1>1, TableAssumption, SMT
  <1>3. /\ Matched(Asked) \in SUBSET Items /\ size \in Nat
        /\ found \in Seq(Matched(Asked)) /\ DOMAIN found = 1..N
        /\ N = IF size < answer.limit THEN size ELSE answer.limit
        /\ \A n \in 1..N : found[n] = ranked[n]
    BY <1>1, FirstOnes
  <1>4. /\ \A i \in Matched(Asked) : \E n \in 1..size : ranked[n] = i
        /\ \A m, n \in 1..size : m < n => Better(ranked[m], ranked[n], Asked)
    BY <1>1, <1>3, RankedInOrder
  <1>. HIDE DEF ranked, size, found, N
  <1>5. Listed = {ranked[n] : n \in 1..N}
    BY <1>1, <1>3 DEF Listed, ToSet
  <1>6. \A n \in 1..N : n \in 1..size
    BY <1>2, <1>3, SMT
  <1>. QED
    BY <1>1, <1>2, <1>3, <1>4, <1>5, <1>6 DEF ranked, size, found, N

\* The filter of the database lets every match of a plain item through.
LEMMA PlainPasses ==
    ASSUME NEW i \in Items, PlainItem(i), NEW needle, Matches(i, needle)
    PROVE  i \in Matched(needle)
  <1>1. PICK v \in {Normalize(items[i].name)} \cup Aliases(i) : Occurs(needle, v)
    BY DEF Matches
  <1>2. CASE v = Normalize(items[i].name)
    <2>1. Each(Lower, items[i].name) = v
      BY <1>2 DEF PlainItem, Plain
    <2>. QED
      BY <1>1, <2>1 DEF Matched, Passes
  <1>3. CASE v \in Aliases(i)
    <2>1. PICK a \in items[i].aliases : v = Normalize(a)
      BY <1>3 DEF Aliases
    <2>2. Each(Lower, FlattenSeq(Each(Json, a))) = v
      BY <2>1 DEF PlainItem, Plain
    <2>. QED
      BY <1>1, <2>1, <2>2 DEF Matched, Passes
  <1>. QED
    BY <1>1, <1>2, <1>3

\* What is listed matches, in the order of the rank; what a plain inventory leaves out for
\* the limit is no better than what is listed, and nothing else is left out.
THEOREM ListsTheBest == Spec => []BestFirst
  <1>1. IInv => BestFirst
    <2>. SUFFICES ASSUME IInv, answer.outcome \notin {"none", "refused"}
                  PROVE  /\ Listed \subseteq Matching
                         /\ \A j, k \in DOMAIN answer.found :
                                j < k => Better(answer.found[j], answer.found[k], Asked)
                         /\ \A i \in Matching \ Listed : PlainItem(i) =>
                                /\ Len(answer.found) = answer.limit
                                /\ \A j \in Listed : Better(j, i, Asked)
      BY DEF BestFirst
    <2>. DEFINE ranked == Ranked(Matched(Asked), Asked)
                size   == Cardinality(Matched(Asked))
                N      == Len(answer.found)
    <2>1. /\ answer.limit \in Nat \ {0} /\ size \in Nat
          /\ answer.found \in Seq(Matched(Asked)) /\ DOMAIN answer.found = 1..N
          /\ N = (IF size < answer.limit THEN size ELSE answer.limit)
          /\ \A n \in 1..N : answer.found[n] = ranked[n] /\ n \in 1..size
          /\ Listed = {ranked[n] : n \in 1..N}
          /\ \A i \in Matched(Asked) : \E n \in 1..size : ranked[n] = i
          /\ \A m, n \in 1..size : m < n => Better(ranked[m], ranked[n], Asked)
      BY AnswerLists
    <2>. HIDE DEF ranked, size
    <2>2. Matched(Asked) \subseteq Matching
      BY DEF Matched, Matching
    <2>3. \A n \in 1..N : answer.found[n] \in Matched(Asked)
      BY <2>1, ElementOfSeq
    <2>4. Listed \subseteq Matching
      BY <2>1, <2>2, <2>3
    <2>5. \A j, k \in 1..N : j < k => Better(answer.found[j], answer.found[k], Asked)
      BY <2>1
    <2>6. ASSUME NEW i \in Matching \ Listed, PlainItem(i)
          PROVE  N = answer.limit /\ \A j \in Listed : Better(j, i, Asked)
      <3>1. i \in Matched(Asked)
        BY <2>6, PlainPasses DEF Matching
      <3>2. PICK n \in 1..size : ranked[n] = i
        BY <2>1, <3>1
      <3>3. n \notin 1..N
        BY <2>1, <2>6, <3>2
      <3>4. N = answer.limit /\ \A m \in 1..N : m < n
        BY <2>1, <3>3, SMT
      <3>. QED
        BY <2>1, <3>2, <3>4
    <2>. QED
      BY <2>1, <2>4, <2>5, <2>6
  <1>. QED
    BY Invariance, <1>1, PTL

\* "It never guesses": an item that is named is the one match of a plain inventory, if
\* more than one candidate was asked for.
THEOREM NamesTheOneMatch == Spec => []NeverGuesses
  <1>1. IInv => NeverGuesses
    <2>. SUFFICES ASSUME IInv, answer.outcome \in {"found", "unlocated"}, answer.limit > 1,
                         \A i \in Items : PlainItem(i)
                  PROVE  Listed = Matching
      BY DEF NeverGuesses
    <2>. DEFINE ranked == Ranked(Matched(Asked), Asked)
                size   == Cardinality(Matched(Asked))
                N      == Len(answer.found)
    <2>1. /\ answer.limit \in Nat \ {0} /\ size \in Nat
          /\ N = (IF size < answer.limit THEN size ELSE answer.limit)
          /\ Listed = {ranked[n] : n \in 1..N}
          /\ \A i \in Matched(Asked) : \E n \in 1..size : ranked[n] = i
          /\ \A n \in 1..N : ranked[n] \in Matched(Asked)
      <3>1. /\ answer.found \in Seq(Matched(Asked))
            /\ \A n \in 1..N : answer.found[n] = ranked[n]
        BY AnswerLists
      <3>2. \A n \in 1..N : answer.found[n] \in Matched(Asked)
        BY <3>1, ElementOfSeq
      <3>. QED
        BY <3>1, <3>2, AnswerLists
    <2>2. N = 1
      BY DEF IInv, Counted
    <2>. HIDE DEF ranked, size, N
    <2>3. size = N
      BY <2>1, <2>2, SMT
    <2>4. Listed = Matched(Asked)
      BY <2>1, <2>3
    <2>5. Matched(Asked) = Matching
      BY PlainPasses DEF Matched, Matching
    <2>. QED
      BY <2>4, <2>5
  <1>. QED
    BY Invariance, <1>1, PTL

-------------------------------------------------------------------------------
(* The lookup of version 1 *)

LEMMA MinMaxAre ==
    ASSUME NEW S \in SUBSET Nat, NEW a \in S, NEW b \in S, \A n \in S : a <= n /\ n <= b
    PROVE  Min(S) = a /\ Max(S) = b
  <1>1. Min(S) \in S /\ \A n \in S : Min(S) <= n
    BY Zenon DEF Min
  <1>2. Max(S) \in S /\ \A n \in S : Max(S) >= n
    <2>1. \E x \in S : \A n \in S : x >= n
      BY SMT
    <2>. QED
      BY <2>1, Zenon DEF Max
  <1>3. Min(S) <= a /\ a <= Min(S) /\ Max(S) >= b /\ Max(S) <= b
    BY <1>1, <1>2
  <1>4. Min(S) \in Nat /\ Max(S) \in Nat /\ a \in Nat /\ b \in Nat
    BY <1>1, <1>2
  <1>. QED
    BY <1>3, <1>4, SMT

\* All the places of a plain text are kept, so that it has no space at an end and no two
\* in a row, and each of its characters is lowered as it is normalized and folded.
LEMMA PlainText ==
    ASSUME NEW v \in Texts, Plain(v)
    PROVE  /\ Len(Normalize(v)) = Len(v)
           /\ \A k \in 1..Len(v) :
                  /\ Normalize(v)[k] = Normal[v[k]] /\ Fold[v[k]] = Normal[v[k]]
                  /\ Normal[v[k]] = Space =>
                         /\ k # 1 /\ k + 1 \in 1..Len(v)
                         /\ Normal[v[k + 1]] # Space
  <1>1. Each(Lower, v) = [k \in 1..Len(v) |-> Lower[v[k]]]
    BY TextTypes DEF Each
  <1>2. Each(Lower, v) \in Texts /\ Len(Each(Lower, v)) = Len(v)
    BY <1>1, TextTypes, TextAssumption, SMT DEF Texts
  <1>3. Normalize(v) = Each(Lower, v)
    BY DEF Plain
  <1>4. Cardinality(Kept(Folded(v))) = Len(v)
    BY <1>2, <1>3, NormalizeText
  <1>5. Kept(Folded(v)) = 1..Len(v)
    BY <1>4, KeptPlaces
  <1>6. \A k \in 1..Len(v) : Normalize(v)[k] = Normal[v[k]]
    <2>1. /\ 1 \in Nat /\ Len(v) \in Nat /\ 1 <= Len(v) + 1 /\ Len(v) - 1 + 1 = Len(v)
          /\ \A k \in 1..Len(v) : 1 + k - 1 = k
      BY TextTypes, SMT
    <2>. QED
      BY <1>5, <2>1, NormalizeRange
  <1>7. \A k \in 1..Len(v) : Fold[v[k]] = Normal[v[k]]
    BY <1>1, <1>3, <1>6, TextTypes, UnicodeAssumption
  <1>8. ASSUME NEW k \in 1..Len(v), Normal[v[k]] = Space
        PROVE  k # 1 /\ k + 1 \in 1..Len(v) /\ Normal[v[k + 1]] # Space
    <2>1. Folded(v)[k] = Space /\ k \in Kept(Folded(v)) /\ DOMAIN Folded(v) = 1..Len(v)
      BY <1>5, <1>8, FoldedText, TextTypes
    <2>2. /\ \E j \in 1..(k - 1) : Folded(v)[j] # Space
          /\ k + 1 \in 1..Len(v) /\ Folded(v)[k + 1] # Space
      BY <2>1 DEF Kept
    <2>3. k # 1
      BY <2>2, SMT
    <2>. QED
      BY <2>2, <2>3, FoldedText
  <1>. QED
    BY <1>2, <1>3, <1>6, <1>7, <1>8

\* Version 1 compares with the same values.
LEMMA PlainFolded ==
    ASSUME NEW v \in Texts, Plain(v)
    PROVE  V1Key(v) = Normalize(v)
  <1>. DEFINE solid == {k \in DOMAIN v : Normal[v[k]] # Space}
  <1>1. Strip(v) = v
    <2>1. CASE Len(v) = 0
      <3>1. v = <<>> /\ DOMAIN v = {}
        BY <2>1, TextTypes, EmptySeq, SMT DEF Texts
      <3>. QED
        BY <3>1 DEF Strip
    <2>2. CASE Len(v) # 0
      <3>1. Len(v) \in Nat \ {0} /\ DOMAIN v = 1..Len(v)
        BY <2>2, TextTypes
      <3>2. 1 \in 1..Len(v) /\ Len(v) \in 1..Len(v) /\ ~(Len(v) + 1 \in 1..Len(v))
        BY <3>1, SMT
      <3>3. 1 \in solid /\ Len(v) \in solid
        BY <3>1, <3>2, PlainText
      <3>4. solid \in SUBSET Nat /\ \A n \in solid : 1 <= n /\ n <= Len(v)
        BY <3>1, SMT
      <3>5. Strip(v) = SubSeq(v, Min(solid), Max(solid))
        BY <3>3 DEF Strip
      <3>. HIDE DEF solid
      <3>6. Min(solid) = 1 /\ Max(solid) = Len(v)
        BY <3>3, <3>4, MinMaxAre
      <3>. QED
        BY <3>5, <3>6, SubSeqFull DEF Texts
    <2>. QED
      BY <2>1, <2>2
  <1>2. Each(Fold, v) = [k \in 1..Len(v) |-> Fold[v[k]]]
    BY TextTypes DEF Each
  <1>3. Normalize(v) = [k \in 1..Len(v) |-> Normalize(v)[k]]
    BY PlainText, NormalizeText, TextTypes, LenProperties DEF Texts
  <1>. QED
    BY <1>1, <1>2, <1>3, PlainText DEF V1Key

\* The key of a text is what is left between its first and its last solid character,
\* folded.
KeyBetween(key, q, a, b) ==
    /\ Normal[q[a]] # Space /\ Normal[q[b]] # Space
    /\ \A k \in 1..Len(q) : k < a \/ k > b => Normal[q[k]] = Space
    /\ Len(key) = b - a + 1
    /\ \A n \in 1..(b - a + 1) : a + n - 1 \in 1..Len(q) /\ key[n] = Fold[q[a + n - 1]]

LEMMA KeyText ==
    ASSUME NEW q \in Texts
    PROVE  /\ V1Key(q) \in Texts
           /\ V1Key(q) # <<>> =>
                  \E a, b \in 1..Len(q) : a <= b /\ KeyBetween(V1Key(q), q, a, b)
  <1>. DEFINE solid == {k \in DOMAIN q : Normal[q[k]] # Space}
  <1>1. solid \in SUBSET (0..Len(q)) /\ solid \in SUBSET Nat
    BY TextTypes, SMT
  <1>2. CASE solid = {}
    <2>1. V1Key(q) = <<>>
      BY <1>2 DEF V1Key, Strip, Each
    <2>. QED
      BY <2>1, EmptySeq DEF Texts
  <1>3. CASE solid # {}
    <2>1. PICK a \in solid : \A n \in solid : a <= n
      <3>. HIDE DEF solid
      <3>. QED
        BY <1>1, <1>3, Least
    <2>2. PICK b \in solid : \A n \in solid : n <= b
      <3>. HIDE DEF solid
      <3>. QED
        BY <1>1, <1>3, Greatest, TextTypes
    <2>3. Strip(q) = SubSeq(q, a, b)
      <3>1. Strip(q) = SubSeq(q, Min(solid), Max(solid))
        BY <1>3 DEF Strip
      <3>. HIDE DEF solid
      <3>. QED
        BY <1>1, <2>1, <2>2, <3>1, MinMaxAre
    <2>4. /\ a \in 1..Len(q) /\ b \in 1..Len(q) /\ a <= b
          /\ Normal[q[a]] # Space /\ Normal[q[b]] # Space
          /\ \A k \in 1..Len(q) : k < a \/ k > b => Normal[q[k]] = Space
      BY <2>1, <2>2, TextTypes, SMT
    <2>. DEFINE size == b - a + 1
    <2>5. size \in Nat \ {0} /\ \A n \in 1..size : a + n - 1 \in 1..Len(q)
      BY <2>4, TextTypes, SMT
    <2>. HIDE DEF solid
    <2>6. /\ Strip(q) \in Texts /\ Len(Strip(q)) = size
          /\ \A n \in 1..size : Strip(q)[n] = q[a + n - 1]
      <3>1. \A k \in a..b : q[k] \in Chars
        BY <2>4, TextTypes, SMT
      <3>. QED
        BY <2>3, <2>4, <3>1, TextTypes, SubSeqProperties, SMT DEF Texts
    <2>7. V1Key(q) = [n \in 1..size |-> Fold[q[a + n - 1]]]
      BY <2>6, TextTypes DEF V1Key, Each
    <2>8. \A n \in 1..size : Fold[q[a + n - 1]] \in Chars
      BY <2>5, TextTypes, TextAssumption
    <2>9. V1Key(q) \in Texts /\ Len(V1Key(q)) = size
      <3>. HIDE DEF size
      <3>. QED
        BY <2>5, <2>7, <2>8, SMT DEF Texts
    <2>10. KeyBetween(V1Key(q), q, a, b)
      BY <2>4, <2>5, <2>7, <2>9 DEF KeyBetween
    <2>. QED
      BY <2>4, <2>9, <2>10
  <1>. QED
    BY <1>2, <1>3

\* A text is a part of itself.
LEMMA OccursInItself ==
    ASSUME NEW text \in Texts
    PROVE  Occurs(text, text)
  <1>1. Len(text) \in Nat /\ SubSeq(text, 1, Len(text)) = text
    BY TextTypes, SubSeqFull DEF Texts
  <1>2. 0 \in 0..(Len(text) - Len(text)) /\ 0 + 1 = 1 /\ 0 + Len(text) = Len(text)
    BY <1>1, SMT
  <1>. QED
    BY <1>1, <1>2 DEF Occurs

\* A query whose folded form is a part of a plain value is normalized to that form: the
\* part has no two spaces in a row, and folding it first makes no difference.
LEMMA SameNeedle ==
    ASSUME NEW q \in Texts, NEW v \in Texts, Plain(v),
           V1Key(q) # <<>>, Occurs(V1Key(q), Normalize(v))
    PROVE  Normalize(q) = V1Key(q)
  <1>. DEFINE needle == V1Key(q)
              V      == Normalize(v)
  <1>1. needle \in Texts
    BY KeyText
  <1>2. PICK a, b \in 1..Len(q) : a <= b /\ KeyBetween(needle, q, a, b)
    BY KeyText
  <1>. DEFINE size == b - a + 1
  <1>5. /\ a \in 1..Len(q) /\ b \in 1..Len(q) /\ a <= b
        /\ Normal[q[a]] # Space /\ Normal[q[b]] # Space
        /\ \A k \in 1..Len(q) : k < a \/ k > b => Normal[q[k]] = Space
    BY <1>2 DEF KeyBetween
  <1>6. size \in Nat \ {0} /\ \A n \in 1..size : a + n - 1 \in 1..Len(q)
    BY <1>5, TextTypes, SMT
  <1>10. needle \in Texts /\ Len(needle) = size
    BY <1>1, <1>2 DEF KeyBetween
  <1>8. \A n \in 1..size : needle[n] = Fold[q[a + n - 1]]
    BY <1>2 DEF KeyBetween
  <1>. HIDE DEF needle
  <1>11. PICK o \in 0..(Len(V) - Len(needle)) : SubSeq(V, o + 1, o + Len(needle)) = needle
    BY DEF Occurs, needle
  <1>12. V \in Texts /\ Len(V) = Len(v) /\ Len(v) \in Nat
    BY PlainText, NormalizeText, TextTypes
  <1>13. ASSUME NEW n \in 1..size
         PROVE  o + n \in 1..Len(v) /\ needle[n] = Normal[v[o + n]]
    <2>1. o \in Nat /\ o + size <= Len(v)
      BY <1>10, <1>11, <1>12, <1>6, SMT
    <2>2. o + n \in 1..Len(v)
      BY <1>6, <1>12, <2>1, SMT
    <2>3. \A k \in (o + 1)..(o + size) : V[k] \in Chars
      BY <1>6, <1>12, <2>1, TextTypes, SMT
    <2>4. SubSeq(V, o + 1, o + size)[n] = V[o + n]
      <3>1. /\ o + 1 \in Int /\ o + size \in Int /\ (o + size) - (o + 1) + 1 = size
            /\ (o + 1) + n - 1 = o + n
        BY <1>6, <2>1, SMT
      <3>2. \A k \in 1..((o + size) - (o + 1) + 1) :
                SubSeq(V, o + 1, o + size)[k] = V[(o + 1) + k - 1]
        BY <2>3, <3>1, SubSeqProperties
      <3>. QED
        BY <3>1, <3>2
    <2>. QED
      BY <1>10, <1>11, <2>2, <2>4, PlainText
  <1>14. ASSUME NEW n \in 1..size
         PROVE  Normal[q[a + n - 1]] = needle[n] /\ needle[n] = Normal[v[o + n]]
    <2>1. q[a + n - 1] \in Chars /\ needle[n] = Fold[q[a + n - 1]]
      BY <1>6, <1>8, TextTypes
    <2>2. Normal[needle[n]] = Normal[q[a + n - 1]]
      BY <2>1, UnicodeAssumption
    <2>3. v[o + n] \in Chars
      BY <1>13, TextTypes
    <2>. QED
      BY <1>13, <2>2, <2>3, UnicodeAssumption
  <1>15. Kept(Folded(q)) = a..b
    <2>1. DOMAIN Folded(q) = 1..Len(q) /\ \A k \in 1..Len(q) : Folded(q)[k] = Normal[q[k]]
      BY FoldedText, TextTypes
    <2>2. ASSUME NEW k \in a..b PROVE k \in Kept(Folded(q))
      <3>1. k \in 1..Len(q) /\ k - a + 1 \in 1..size
        BY <1>5, TextTypes, SMT
      <3>2. CASE Normal[q[k]] # Space
        BY <2>1, <3>1, <3>2 DEF Kept
      <3>3. CASE Normal[q[k]] = Space
        <4>1. k # a /\ k # b
          BY <1>5, <3>3
        <4>2. k - a + 2 \in 1..size /\ a \in 1..(k - 1) /\ k + 1 \in 1..Len(q)
          BY <1>5, <4>1, TextTypes, SMT
        <4>3. /\ a + (k - a + 1) - 1 = k /\ a + (k - a + 2) - 1 = k + 1
              /\ (o + (k - a + 1)) + 1 = o + (k - a + 2)
          BY <1>5, <1>11, <1>12, <1>10, <1>6, TextTypes, SMT
        <4>4. Normal[v[o + (k - a + 1)]] = Space
          BY <1>14, <3>1, <3>3, <4>3
        <4>5. Normal[v[o + (k - a + 2)]] # Space
          BY <1>13, <3>1, <4>3, <4>4, PlainText
        <4>6. Normal[q[k + 1]] # Space
          BY <1>14, <4>2, <4>3, <4>5
        <4>. QED
          BY <1>5, <2>1, <3>1, <4>2, <4>6 DEF Kept
      <3>. QED
        BY <3>2, <3>3
    <2>3. ASSUME NEW k \in Kept(Folded(q)) PROVE k \in a..b
      <3>1. /\ k \in 1..Len(q)
            /\ Normal[q[k]] = Space => /\ \E j \in 1..(k - 1) : Folded(q)[j] # Space
                                       /\ k + 1 \in 1..Len(q) /\ Normal[q[k + 1]] # Space
        BY <2>1 DEF Kept
      <3>2. \A j \in 1..(k - 1) : Folded(q)[j] = Normal[q[j]] /\ j \in 1..Len(q)
        BY <2>1, <3>1, TextTypes, SMT
      <3>3. ~(k < a)
        <4>1. SUFFICES ASSUME k < a PROVE FALSE
          OBVIOUS
        <4>2. PICK j \in 1..(k - 1) : Normal[q[j]] # Space
          BY <1>5, <3>1, <3>2, <4>1
        <4>3. j < a /\ j \in 1..Len(q)
          BY <1>5, <3>1, <4>1, TextTypes, SMT
        <4>. QED
          BY <1>5, <4>2, <4>3
      <3>4. ~(k > b)
        <4>1. SUFFICES ASSUME k > b PROVE FALSE
          OBVIOUS
        <4>2. k + 1 \in 1..Len(q) /\ Normal[q[k + 1]] # Space
          BY <1>5, <3>1, <4>1
        <4>3. k + 1 > b
          BY <1>5, <3>1, <4>1, TextTypes, SMT
        <4>. QED
          BY <1>5, <4>2, <4>3
      <3>. QED
        BY <1>5, <3>1, <3>3, <3>4, TextTypes, SMT
    <2>. QED
      BY <2>2, <2>3
  <1>16. /\ Len(Normalize(q)) = size
         /\ \A n \in 1..size : Normalize(q)[n] = Normal[q[a + n - 1]]
    <2>1. a \in Nat /\ b \in Nat /\ a <= b + 1
      BY <1>5, TextTypes, SMT
    <2>. QED
      BY <1>15, <2>1, NormalizeRange
  <1>17. \A n \in 1..size : Normalize(q)[n] = needle[n]
    BY <1>14, <1>16
  <1>. HIDE DEF size
  <1>18. Normalize(q) = needle
    BY <1>10, <1>16, <1>17, NormalizeText, SeqEqual DEF Texts
  <1>. QED
    BY <1>18 DEF needle

LEMMA PlainValues ==
    ASSUME Table, NEW i \in Items, PlainItem(i)
    PROVE  /\ V1Names(i) = {Normalize(items[i].name)} \cup Aliases(i)
           /\ \A x \in V1Names(i) : \E v \in Texts : Plain(v) /\ x = Normalize(v)
  <1>1. \A v \in {items[i].name} \cup items[i].aliases :
            v \in Texts /\ Plain(v) /\ V1Key(v) = Normalize(v)
    BY TableTexts, PlainFolded DEF PlainItem
  <1>2. V1Names(i) = {Normalize(v) : v \in {items[i].name} \cup items[i].aliases}
    BY <1>1 DEF V1Names
  <1>3. {Normalize(v) : v \in {items[i].name} \cup items[i].aliases}
            = {Normalize(items[i].name)} \cup Aliases(i)
    BY DEF Aliases
  <1>. QED
    BY <1>1, <1>2, <1>3

\* What version 1 finds for a query by name is the only item with it as a name, or with
\* it as a part of one.
LEMMA V1Finds ==
    ASSUME Table, \A i \in Items : PlainItem(i),
           NEW query \in Texts, ~AsksForV1Id(query), NEW i \in V1Find(query)
    PROVE  LET needle == V1Key(query)
           IN  /\ i \in Items /\ needle = Normalize(query)
               /\ \E x \in V1Names(i) : Occurs(needle, x)
               /\ \/ /\ needle \in V1Names(i)
                     /\ \A j \in Items : needle \in V1Names(j) => j = i
                  \/ \A j \in Items : (\E x \in V1Names(j) : Occurs(needle, x)) => j = i
  <1>. DEFINE needle  == V1Key(query)
              exact   == {j \in Items : needle \in V1Names(j)}
              partial == {j \in Items : \E x \in V1Names(j) : Occurs(needle, x)}
  <1>1. /\ needle # <<>>
        /\ \/ Cardinality(exact) = 1 /\ i \in exact
           \/ Cardinality(partial) = 1 /\ i \in partial
    <2>1. needle \in Texts /\ Occurs(needle, needle)
      BY KeyText, OccursInItself
    <2>2. \A j \in Items : ~Occurs(needle, V1Key(V1Id[j])) /\ needle # V1Key(V1Id[j])
      BY <2>1, Zenon DEF AsksForV1Id
    <2>3. exact = {j \in Items : needle \in V1Values(j)}
      BY <2>2 DEF V1Values
    <2>4. partial = {j \in Items : \E x \in V1Values(j) : Occurs(needle, x)}
      BY <2>2 DEF V1Values
    <2>. QED
      BY <2>3, <2>4 DEF V1Find
  <1>2. IsFiniteSet(exact) /\ IsFiniteSet(partial)
    <2>1. exact \in SUBSET Items /\ partial \in SUBSET Items
      OBVIOUS
    <2>. HIDE DEF exact, partial
    <2>. QED
      BY <2>1, TableAssumption, FS_Subset
  <1>3. exact = {i} \/ partial = {i}
    <2>1. /\ Cardinality(exact) = 1 => \E x : exact = {x}
          /\ Cardinality(partial) = 1 => \E x : partial = {x}
      <3>. HIDE DEF exact, partial
      <3>. QED
        BY <1>2, FS_Singleton
    <2>. HIDE DEF exact, partial
    <2>. QED
      BY <1>1, <2>1
  <1>4. i \in Items
    BY <1>1
  <1>5. \E x \in V1Names(i) : Occurs(needle, x)
    <2>1. CASE exact = {i}
      <3>1. needle \in V1Names(i)
        BY <2>1
      <3>2. PICK v \in Texts : needle = Normalize(v)
        BY <1>4, <3>1, PlainValues
      <3>3. needle \in Texts
        BY <3>2, NormalizeText
      <3>4. Occurs(needle, needle)
        BY <3>3, OccursInItself
      <3>. QED
        BY <3>1, <3>4
    <2>2. CASE partial = {i}
      BY <2>2
    <2>. QED
      BY <1>3, <2>1, <2>2
  <1>6. needle = Normalize(query)
    <2>1. PICK v \in Texts : Plain(v) /\ Occurs(needle, Normalize(v))
      BY <1>4, <1>5, PlainValues
    <2>. QED
      BY <1>1, <2>1, SameNeedle
  <1>7. \/ /\ needle \in V1Names(i)
           /\ \A j \in Items : needle \in V1Names(j) => j = i
        \/ \A j \in Items : (\E x \in V1Names(j) : Occurs(needle, x)) => j = i
    <2>1. CASE exact = {i}
      BY <2>1
    <2>2. CASE partial = {i}
      <3>1. \A j \in Items : (\E x \in V1Names(j) : Occurs(needle, x)) => j = i
        BY <2>2
      <3>. QED
        BY <3>1
    <2>. QED
      BY <1>3, <2>1, <2>2
  <1>. QED
    BY <1>4, <1>5, <1>6, <1>7

\* In a plain inventory an item that version 1 would have lit for its name is the first
\* one that the search offers now: the only exact match ranks before all others, and the
\* only match is alone.
THEOREM VersionsFindTheSame == Spec => []VersionsAgree
  <1>1. IInv => VersionsAgree
    <2>. SUFFICES ASSUME IInv, answer.outcome \notin {"none", "refused"},
                         ~AsksForV1Id(answer.query), \A i \in Items : PlainItem(i),
                         NEW i \in V1Find(answer.query)
                  PROVE  answer.found # <<>> /\ Head(answer.found) = i
      BY DEF VersionsAgree
    <2>. DEFINE ranked == Ranked(Matched(Asked), Asked)
                size   == Cardinality(Matched(Asked))
                N      == Len(answer.found)
    <2>1. Table /\ answer.query \in Texts
      <3>1. <<>> \in Texts
        BY EmptySeq DEF Texts
      <3>. QED
        BY <3>1, TextAssumption DEF IInv, TypeOK, Table, Texts
    <2>2. /\ i \in Items
          /\ \E x \in V1Names(i) : Occurs(Asked, x)
          /\ \/ /\ Asked \in V1Names(i)
                /\ \A j \in Items : Asked \in V1Names(j) => j = i
             \/ \A j \in Items : (\E x \in V1Names(j) : Occurs(Asked, x)) => j = i
      BY <2>1, V1Finds DEF Asked
    <2>3. \A j \in Items : V1Names(j) = {Normalize(items[j].name)} \cup Aliases(j)
      BY <2>1, PlainValues
    <2>4. \A j \in Items : Matches(j, Asked) <=> \E x \in V1Names(j) : Occurs(Asked, x)
      BY <2>3 DEF Matches
    <2>5. i \in Matched(Asked) /\ \A j \in Matched(Asked) : j \in Items /\ Matches(j, Asked)
      BY <2>2, <2>4, PlainPasses DEF Matched
    <2>6. ASSUME NEW j \in Matched(Asked), j # i PROVE ~Better(j, i, Asked)
      <3>1. Asked \in V1Names(i) /\ Asked \notin V1Names(j)
        BY <2>2, <2>4, <2>5, <2>6
      <3>2. Tier(i, Asked) = 0
        BY <2>2, <2>3, <3>1 DEF Tier
      <3>3. Tier(j, Asked) = 1 \/ Tier(j, Asked) = 2
        BY <2>3, <2>5, <3>1 DEF Tier
      <3>4. ~(Tier(j, Asked) < Tier(i, Asked)) /\ Tier(j, Asked) # Tier(i, Asked)
        BY <3>2, <3>3, SMT
      <3>. QED
        BY <3>4 DEF Better
    <2>7. /\ answer.limit \in Nat \ {0} /\ size \in Nat
          /\ N = (IF size < answer.limit THEN size ELSE answer.limit)
          /\ \A n \in 1..N : answer.found[n] = ranked[n]
          /\ answer.found \in Seq(Matched(Asked))
          /\ \A j \in Matched(Asked) : \E n \in 1..size : ranked[n] = j
          /\ \A m, n \in 1..size : m < n => Better(ranked[m], ranked[n], Asked)
      BY AnswerLists
    <2>. HIDE DEF ranked, size
    <2>8. PICK n \in 1..size : ranked[n] = i
      BY <2>5, <2>7
    <2>9. 1 \in 1..size /\ 1 \in 1..N
      BY <2>7, <2>8, SMT
    <2>10. answer.found[1] = ranked[1] /\ ranked[1] \in Matched(Asked)
      BY <2>7, <2>9, ElementOfSeq
    <2>11. ranked[1] = i
      <3>1. n = 1 \/ 1 < n
        BY <2>7, <2>8, SMT
      <3>2. 1 < n => Better(ranked[1], i, Asked)
        BY <2>7, <2>8, <2>9
      <3>. QED
        BY <2>6, <2>8, <2>10, <3>1, <3>2
    <2>12. answer.found # <<>> /\ Head(answer.found) = answer.found[1]
      <3>1. answer.found # <<>>
        BY <2>9, EmptySeq, SMT
      <3>. QED
        BY <2>7, <3>1, SMT
    <2>. QED
      BY <2>10, <2>11, <2>12
  <1>. QED
    BY Invariance, <1>1, PTL

\* NOT_FOUND means that nothing matched where the database sees the texts as the service
\* does.  That this fails for other inventories is what the run search_misses shows.
THEOREM NotFoundWhenPlain ==
    Spec => []((\A i \in Items : PlainItem(i)) => NotFoundIsTrue)
  <1>1. IInv => ((\A i \in Items : PlainItem(i)) => NotFoundIsTrue)
    <2>. SUFFICES ASSUME IInv, \A i \in Items : PlainItem(i), answer.outcome = "not_found",
                         NEW i \in Matching
                  PROVE  FALSE
      BY DEF NotFoundIsTrue
    <2>1. i \in Matched(Asked)
      BY PlainPasses DEF Matching
    <2>2. answer.found = <<>> /\ Len(answer.found) = 0
      BY EmptySeq DEF IInv, Counted
    <2>. DEFINE size == Cardinality(Matched(Asked))
    <2>3. /\ answer.limit \in Nat \ {0} /\ size \in Nat
          /\ 0 = (IF size < answer.limit THEN size ELSE answer.limit)
          /\ \E n \in 1..size : TRUE
      BY <2>1, <2>2, AnswerLists
    <2>. HIDE DEF size
    <2>. QED
      BY <2>3, SMT
  <1>. QED
    BY Invariance, <1>1, PTL
==============================================================================
