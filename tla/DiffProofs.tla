----------------------------- MODULE DiffProofs -----------------------------
(***************************************************************************)
(* Theorem about OutputDiff, for any outputs of any depth: a difference is *)
(* shown exactly when the case failed, and it is one.                      *)
(***************************************************************************)
EXTENDS OutputDiff, FiniteSetTheorems, WellFoundedInduction, TLAPS

\* A set of natural numbers has a least.
LEMMA LeastOf ==
    ASSUME NEW T, T \subseteq Nat, T # {}
    PROVE  \E m \in T : \A n \in T : m <= n
<1> DEFINE below == {p \in Nat \X Nat : p[1] < p[2]}
<1>0. IsWellFoundedOn(below, Nat)
  BY NatLessThanWellFounded, Zenon DEF OpToRel
<1> HIDE DEF below
<1>1. PICK m \in T : \A n \in T : <<n, m>> \notin below
  BY <1>0, WFMin
<1>2. \A n \in T : ~(n < m)
  BY <1>1 DEF below
<1> QED
  BY <1>2

------------------------------------------------------------------------------
(* Counting items *)

LEMMA CanonicalOrder ==
    ASSUME NEW u \in BOOLEAN, NEW v, NEW w, NEW x
    PROVE  /\ SameCanonical(v, v, u)
           /\ SameCanonical(v, w, u) => SameCanonical(w, v, u)
           /\ SameCanonical(v, w, u) /\ SameCanonical(w, x, u) => SameCanonical(v, x, u)
BY DEF SameCanonical

LEMMA PlacesOf ==
    ASSUME NEW S, NEW s \in Seq(S), NEW v, NEW u \in BOOLEAN
    PROVE  /\ Places(s, v, u) \subseteq 1 .. Len(s) /\ IsFiniteSet(Places(s, v, u))
           /\ Occurrences(s, v, u) \in Nat
           /\ \A w : SameCanonical(v, w, u) =>
                Places(s, v, u) = Places(s, w, u) /\ Occurrences(s, v, u) = Occurrences(s, w, u)
<1>1. Places(s, v, u) \subseteq 1 .. Len(s)
  BY DEF Places
<1>2. IsFiniteSet(1 .. Len(s))
  BY FS_Interval
<1>3. IsFiniteSet(Places(s, v, u)) /\ Occurrences(s, v, u) \in Nat
  BY <1>1, <1>2, FS_Subset, FS_CardinalityType DEF Occurrences
<1>4. ASSUME NEW w, SameCanonical(v, w, u)
      PROVE  Places(s, v, u) = Places(s, w, u)
  <2>1. \A i \in DOMAIN s : SameCanonical(s[i], v, u) <=> SameCanonical(s[i], w, u)
    BY <1>4, CanonicalOrder
  <2> QED
    BY <2>1 DEF Places
<1> QED
  BY <1>1, <1>3, <1>4 DEF Occurrences

\* An item's number among those like it.
LEMMA NthOf ==
    ASSUME NEW S, NEW s \in Seq(S), NEW u \in BOOLEAN, NEW i \in DOMAIN s
    PROVE  /\ i \in Places(s, s[i], u)
           /\ Nth(s, i, u) \in 1 .. Occurrences(s, s[i], u)
<1> DEFINE all == Places(s, s[i], u)
           upTo == {j \in all : j <= i}
<1>1. i \in all /\ all \subseteq 1 .. Len(s) /\ IsFiniteSet(all)
  <2>1. i \in all
    BY CanonicalOrder DEF Places
  <2> QED
    BY <2>1, PlacesOf
<1>2. upTo \in SUBSET all /\ i \in upTo
  BY <1>1
<1>3. IsFiniteSet(upTo) /\ Cardinality(upTo) <= Cardinality(all)
  BY <1>1, <1>2, FS_Subset
<1>4. Cardinality(upTo) \in Nat /\ Cardinality(upTo) # 0 /\ Cardinality(all) \in Nat
  BY <1>1, <1>2, <1>3, FS_CardinalityType, FS_EmptySet
<1> QED
  BY <1>1, <1>3, <1>4 DEF Nth, Occurrences

LEMMA NthGrows ==
    ASSUME NEW S, NEW s \in Seq(S), NEW u \in BOOLEAN, NEW i \in DOMAIN s, NEW j \in DOMAIN s,
           SameCanonical(s[i], s[j], u), i < j
    PROVE  Nth(s, i, u) < Nth(s, j, u)
<1> DEFINE all == Places(s, s[i], u)
           before == {k \in all : k <= i}
           upTo == {k \in all : k <= j}
<1>1. all \subseteq 1 .. Len(s) /\ IsFiniteSet(all) /\ all = Places(s, s[j], u) /\ j \in all
  BY PlacesOf, NthOf
<1>2. before \in SUBSET upTo /\ j \in upTo /\ j \notin before /\ upTo \in SUBSET all
  BY <1>1
<1>3. IsFiniteSet(upTo) /\ IsFiniteSet(before)
  BY <1>1, <1>2, FS_Subset
<1>4. Cardinality(before) <= Cardinality(upTo) /\ Cardinality(before) # Cardinality(upTo)
  BY <1>2, <1>3, FS_Subset
<1>5. Cardinality(before) \in Nat /\ Cardinality(upTo) \in Nat
  BY <1>3, FS_CardinalityType
<1>6. Nth(s, i, u) = Cardinality(before) /\ Nth(s, j, u) = Cardinality(upTo)
  BY <1>1 DEF Nth
<1> QED
  BY <1>4, <1>5, <1>6

LEMMA NthTells ==
    ASSUME NEW S, NEW s \in Seq(S), NEW u \in BOOLEAN, NEW i \in DOMAIN s, NEW j \in DOMAIN s,
           SameCanonical(s[i], s[j], u), Nth(s, i, u) = Nth(s, j, u)
    PROVE  i = j
<1>1. i \in Nat /\ j \in Nat /\ Nth(s, i, u) \in Int
  <2>1. Occurrences(s, s[i], u) \in Nat
    BY PlacesOf
  <2> QED
    BY <2>1, NthOf
<1>2. ~(i < j)
  BY <1>1, NthGrows
<1>3. ~(j < i)
  BY <1>1, NthGrows, CanonicalOrder
<1> QED
  BY <1>1, <1>2, <1>3

\* Every number up to the last is some item's.
LEMMA NthReached ==
    ASSUME NEW S, NEW s \in Seq(S), NEW u \in BOOLEAN, NEW v,
           NEW n \in 1 .. Occurrences(s, v, u)
    PROVE  \E i \in Places(s, v, u) : Nth(s, i, u) = n
<1> DEFINE all == Places(s, v, u)
           count == Cardinality(all)
           nth == [i \in all |-> Nth(s, i, u)]
<1>1. all \subseteq DOMAIN s /\ IsFiniteSet(all) /\ count \in Nat /\ count = Occurrences(s, v, u)
  BY PlacesOf DEF Occurrences
<1>2. \A i \in all : SameCanonical(s[i], v, u)
  BY DEF Places
<1>3. \A i, j \in all : SameCanonical(s[i], s[j], u)
  BY <1>2, CanonicalOrder
<1>4. \A i \in all : Nth(s, i, u) \in 1 .. count
  <2>1. ASSUME NEW i \in all PROVE Nth(s, i, u) \in 1 .. count
    <3>1. Occurrences(s, s[i], u) = count
      BY <1>1, <1>2, PlacesOf, <2>1
    <3> QED
      BY <1>1, <3>1, NthOf
  <2> QED
    BY <2>1
<1>5. \A i, j \in all : nth[i] = nth[j] => i = j
  BY <1>1, <1>3, NthTells
<1>6. nth \in Injection(all, 1 .. count)
  BY <1>4, <1>5 DEF Injection, IsInjective
<1>7. IsFiniteSet(1 .. count) /\ Cardinality(1 .. count) = count
  BY <1>1, FS_Interval
<1>8. nth \in Surjection(all, 1 .. count)
  BY <1>6, <1>7, FS_Injection
<1> QED
  BY <1>1, <1>8 DEF Surjection

------------------------------------------------------------------------------
(* multisetDiff *)

\* No item is in s more often than in t.
Fewer(s, t, u) == \A i \in DOMAIN s : Occurrences(s, s[i], u) <= Occurrences(t, s[i], u)

LEMMA NothingMissing ==
    ASSUME NEW S, NEW s \in Seq(S), NEW t \in Seq(S), NEW u \in BOOLEAN
    PROVE  Surplus(s, t, u) = {} <=> Fewer(s, t, u)
<1>1. \A i \in DOMAIN s : /\ Occurrences(s, s[i], u) \in Nat /\ Occurrences(t, s[i], u) \in Nat
                          /\ Nth(s, i, u) \in 1 .. Occurrences(s, s[i], u)
  BY PlacesOf, NthOf
<1>2. Fewer(s, t, u) => Surplus(s, t, u) = {}
  BY <1>1 DEF Fewer, Surplus
<1>3. ASSUME Surplus(s, t, u) = {}, NEW i \in DOMAIN s,
             ~(Occurrences(s, s[i], u) <= Occurrences(t, s[i], u))
      PROVE  FALSE
  <2>1. 1 \in 1 .. Occurrences(s, s[i], u)
    BY <1>1, <1>3
  <2>2. PICK j \in Places(s, s[i], u) : Nth(s, j, u) = 1
    BY <2>1, NthReached
  <2>3. j \in DOMAIN s /\ SameCanonical(s[j], s[i], u)
    BY <2>2 DEF Places
  <2>4. /\ Occurrences(s, s[j], u) = Occurrences(s, s[i], u)
        /\ Occurrences(t, s[j], u) = Occurrences(t, s[i], u)
    BY <2>3, PlacesOf
  <2>5. j \in Surplus(s, t, u)
    BY <1>1, <1>3, <2>2, <2>3, <2>4 DEF Surplus
  <2> QED
    BY <1>3, <2>5
<1> QED
  BY <1>2, <1>3 DEF Fewer

LEMMA NothingUnexpected ==
    ASSUME NEW S, NEW s \in Seq(S), NEW t \in Seq(S), NEW u \in BOOLEAN
    PROVE  Beyond(s, t, u) = {} <=> Fewer(s, t, u)
<1>1. \A i \in DOMAIN s : /\ Occurrences(s, s[i], u) \in Nat /\ Occurrences(t, s[i], u) \in Nat
                          /\ Nth(s, i, u) \in 1 .. Occurrences(s, s[i], u)
  BY PlacesOf, NthOf
<1>2. Fewer(s, t, u) => Beyond(s, t, u) = {}
  BY <1>1 DEF Fewer, Beyond
<1>3. ASSUME Beyond(s, t, u) = {}, NEW i \in DOMAIN s,
             ~(Occurrences(s, s[i], u) <= Occurrences(t, s[i], u))
      PROVE  FALSE
  <2> DEFINE last == Occurrences(s, s[i], u)
  <2>1. last \in 1 .. Occurrences(s, s[i], u)
    BY <1>1, <1>3
  <2>2. PICK j \in Places(s, s[i], u) : Nth(s, j, u) = last
    BY <2>1, NthReached
  <2>3. j \in DOMAIN s /\ SameCanonical(s[j], s[i], u)
    BY <2>2 DEF Places
  <2>4. Occurrences(t, s[j], u) = Occurrences(t, s[i], u)
    BY <2>3, PlacesOf
  <2>5. j \in Beyond(s, t, u)
    BY <1>1, <1>3, <2>2, <2>3, <2>4 DEF Beyond
  <2> QED
    BY <1>3, <2>5
<1> QED
  BY <1>2, <1>3 DEF Fewer

\* Each item of s is matched with one of t; if both have as many, all of t are matched.
LEMMA Matched ==
    ASSUME NEW S, NEW s \in Seq(S), NEW t \in Seq(S), NEW u \in BOOLEAN, Fewer(s, t, u)
    PROVE  /\ Len(s) <= Len(t)
           /\ Len(s) = Len(t) =>
                \A j \in DOMAIN t : \E i \in DOMAIN s : SameCanonical(t[j], s[i], u)
<1> DEFINE Match(i, j) == /\ j \in DOMAIN t /\ SameCanonical(t[j], s[i], u)
                          /\ Nth(t, j, u) = Nth(s, i, u)
           match == [i \in DOMAIN s |-> CHOOSE j : Match(i, j)]
<1>1. \A i \in DOMAIN s : Match(i, match[i])
  <2>1. ASSUME NEW i \in DOMAIN s PROVE \E j \in DOMAIN t : Match(i, j)
    <3>1. Nth(s, i, u) \in 1 .. Occurrences(t, s[i], u)
      <4>1. Occurrences(s, s[i], u) \in Nat /\ Occurrences(t, s[i], u) \in Nat
        BY PlacesOf
      <4> QED
        BY <4>1, NthOf DEF Fewer
    <3>2. PICK j \in Places(t, s[i], u) : Nth(t, j, u) = Nth(s, i, u)
      BY <3>1, NthReached
    <3> QED
      BY <3>2 DEF Places
  <2> QED
    BY <2>1
<1> HIDE DEF match
<1>2. match \in [DOMAIN s -> DOMAIN t]
  BY <1>1 DEF match
<1>3. ASSUME NEW i \in DOMAIN s, NEW j \in DOMAIN s, match[i] = match[j]
      PROVE  i = j
  <2>1. SameCanonical(s[i], s[j], u)
    BY <1>1, <1>3, CanonicalOrder
  <2>2. Nth(s, i, u) = Nth(s, j, u)
    BY <1>1, <1>3
  <2> QED
    BY <2>1, <2>2, NthTells
<1>4. match \in Injection(DOMAIN s, DOMAIN t)
  BY <1>2, <1>3 DEF Injection, IsInjective
<1>5. /\ DOMAIN s = 1 .. Len(s) /\ DOMAIN t = 1 .. Len(t) /\ Len(s) \in Nat /\ Len(t) \in Nat
  OBVIOUS
<1>6. /\ IsFiniteSet(DOMAIN t)
      /\ Cardinality(DOMAIN s) = Len(s) /\ Cardinality(DOMAIN t) = Len(t)
  <2>1. \A n \in Nat : IsFiniteSet(1 .. n) /\ Cardinality(1 .. n) = n
    BY FS_Interval
  <2> QED
    BY <1>5, <2>1
<1>7. Len(s) <= Len(t) /\ (Len(s) = Len(t) => match \in Surjection(DOMAIN s, DOMAIN t))
  BY <1>4, <1>6, FS_Injection
<1>8. match \in Surjection(DOMAIN s, DOMAIN t) =>
        \A j \in DOMAIN t : \E i \in DOMAIN s : match[i] = j
  BY DEF Surjection
<1> QED
  BY <1>1, <1>7, <1>8

\* sortedArrayEqual and multisetDiff count alike.
LEMMA SameItemsCount ==
    ASSUME NEW S, NEW s \in Seq(S), NEW t \in Seq(S), NEW u \in BOOLEAN
    PROVE  SameItems(s, t, u) <=> Fewer(s, t, u) /\ Fewer(t, s, u)
<1>0. \A i \in DOMAIN s : Occurrences(s, s[i], u) \in Nat /\ Occurrences(t, s[i], u) \in Nat
  BY PlacesOf
<1>1. ASSUME SameItems(s, t, u) PROVE Fewer(s, t, u) /\ Fewer(t, s, u)
  <2>1. Fewer(s, t, u) /\ Len(s) = Len(t)
    BY <1>0, <1>1 DEF SameItems, Fewer
  <2>2. ASSUME NEW j \in DOMAIN t PROVE Occurrences(t, t[j], u) <= Occurrences(s, t[j], u)
    <3>1. PICK i \in DOMAIN s : SameCanonical(t[j], s[i], u)
      BY <2>1, <2>2, Matched
    <3>2. Occurrences(s, s[i], u) = Occurrences(t, s[i], u)
      BY <1>1 DEF SameItems
    <3>3. /\ Occurrences(t, t[j], u) = Occurrences(t, s[i], u)
          /\ Occurrences(s, t[j], u) = Occurrences(s, s[i], u)
      BY <3>1, PlacesOf
    <3> QED
      BY <1>0, <3>2, <3>3
  <2> QED
    BY <2>1, <2>2 DEF Fewer
<1>2. ASSUME Fewer(s, t, u), Fewer(t, s, u) PROVE SameItems(s, t, u)
  <2>1. Len(s) = Len(t)
    <3>1. Len(s) <= Len(t) /\ Len(t) <= Len(s)
      BY <1>2, Matched
    <3> QED
      BY <3>1
  <2>2. ASSUME NEW i \in DOMAIN s PROVE Occurrences(t, s[i], u) <= Occurrences(s, s[i], u)
    <3>1. CASE Places(t, s[i], u) = {}
      BY <1>0, <3>1, FS_EmptySet DEF Occurrences
    <3>2. CASE Places(t, s[i], u) # {}
      <4>1. PICK j \in Places(t, s[i], u) : TRUE
        BY <3>2
      <4>2. j \in DOMAIN t /\ SameCanonical(t[j], s[i], u)
        BY <4>1 DEF Places
      <4>3. /\ Occurrences(t, t[j], u) = Occurrences(t, s[i], u)
            /\ Occurrences(s, t[j], u) = Occurrences(s, s[i], u)
        BY <4>2, PlacesOf
      <4> QED
        BY <1>2, <4>2, <4>3 DEF Fewer
    <3> QED
      BY <3>1, <3>2
  <2> QED
    BY <1>0, <1>2, <2>1, <2>2 DEF SameItems, Fewer
<1> QED
  BY <1>1, <1>2

\* Some of the places are listed, if there are any.
LEMMA SomeListed ==
    ASSUME NEW S, NEW s \in Seq(S), NEW places, places \subseteq DOMAIN s, places # {}
    PROVE  Listed(places) # {}
<1>1. places \subseteq Nat
  OBVIOUS
<1>2. PICK m \in places : \A n \in places : m <= n
  BY <1>1, LeastOf
<1>3. {j \in places : j < m} = {}
  BY <1>1, <1>2
<1>4. Cardinality({j \in places : j < m}) = 0
  BY <1>3, FS_EmptySet
<1> QED
  BY <1>2, <1>4, DiffAssumption DEF Listed

\* What multisetDiff returns, and when.
LEMMA MultisetExplained ==
    ASSUME NEW S, NEW e \in Seq(S), NEW a \in Seq(S), NEW u \in BOOLEAN
    PROVE  LET diff == MultisetDiff(e, a, u)
           IN /\ diff = NoDiff <=> SameItems(a, e, u)
              /\ diff # NoDiff =>
                   /\ diff.kind = "items"
                   /\ diff.missing \cup diff.unexpected # {}
                   /\ \A i \in diff.missing : Occurrences(e, e[i], u) > Occurrences(a, e[i], u)
                   /\ \A i \in diff.unexpected : Occurrences(a, a[i], u) > Occurrences(e, a[i], u)
<1> DEFINE missing == Surplus(e, a, u)
           unexpected == Beyond(a, e, u)
           items == [kind |-> "items", missing |-> Listed(missing),
                     unexpected |-> Listed(unexpected)]
<1>1. missing \subseteq DOMAIN e /\ unexpected \subseteq DOMAIN a
  BY DEF Surplus, Beyond
<1>2. missing = {} /\ unexpected = {} <=> SameItems(a, e, u)
  BY NothingMissing, NothingUnexpected, SameItemsCount
<1>3. \A i \in missing : Occurrences(e, e[i], u) > Occurrences(a, e[i], u)
  <2>1. ASSUME NEW i \in missing PROVE Occurrences(e, e[i], u) > Occurrences(a, e[i], u)
    <3>1. i \in DOMAIN e /\ Nth(e, i, u) <= Occurrences(e, e[i], u) - Occurrences(a, e[i], u)
      BY DEF Surplus
    <3>2. Occurrences(e, e[i], u) \in Nat /\ Occurrences(a, e[i], u) \in Nat
      BY <3>1, PlacesOf
    <3>3. Nth(e, i, u) \in 1 .. Occurrences(e, e[i], u)
      BY <3>1, NthOf
    <3> QED
      BY <3>1, <3>2, <3>3
  <2> QED
    BY <2>1
<1>4. \A i \in unexpected : Occurrences(a, a[i], u) > Occurrences(e, a[i], u)
  <2>1. ASSUME NEW i \in unexpected PROVE Occurrences(a, a[i], u) > Occurrences(e, a[i], u)
    <3>1. i \in DOMAIN a /\ Nth(a, i, u) > Occurrences(e, a[i], u)
      BY DEF Beyond
    <3>2. Occurrences(a, a[i], u) \in Nat /\ Occurrences(e, a[i], u) \in Nat
      BY <3>1, PlacesOf
    <3>3. Nth(a, i, u) \in 1 .. Occurrences(a, a[i], u)
      BY <3>1, NthOf
    <3> QED
      BY <3>1, <3>2, <3>3
  <2> QED
    BY <2>1
<1>5. missing # {} \/ unexpected # {} => Listed(missing) \cup Listed(unexpected) # {}
  BY <1>1, SomeListed
<1>6. Listed(missing) \subseteq missing /\ Listed(unexpected) \subseteq unexpected
  BY DEF Listed
<1>7. items.kind = "items" /\ NoDiff.kind = "none"
      /\ items.missing = Listed(missing) /\ items.unexpected = Listed(unexpected)
  BY DEF NoDiff
<1>8. items # NoDiff
  BY <1>7
<1>9. MultisetDiff(e, a, u) = IF missing = {} /\ unexpected = {} THEN NoDiff ELSE items
  BY DEF MultisetDiff
<1> HIDE DEF missing, unexpected, items
<1>10. CASE missing = {} /\ unexpected = {}
  BY <1>2, <1>9, <1>10
<1>11. CASE ~(missing = {} /\ unexpected = {})
  BY <1>2, <1>3, <1>4, <1>5, <1>6, <1>7, <1>8, <1>9, <1>11
<1> QED
  BY <1>10, <1>11

------------------------------------------------------------------------------
(* walk *)

\* The value at a path is the last of the values that lead to it.
LEMMA ValueFollows ==
    ASSUME NEW v, NEW path, Len(path) \in Nat, NEW vs, vs[0] = v,
           \A k \in 1 .. Len(path) : vs[k] = vs[k - 1].items[path[k]]
    PROVE  ValueAt(v, path) = vs[Len(path)]
<1> DEFINE len == Len(path)
           Leads(g) == g = [n \in 0 .. len |-> IF n = 0 THEN v ELSE g[n - 1].items[path[n]]]
           all == [n \in 0 .. len |-> vs[n]]
           at == CHOOSE g : Leads(g)
<1>1. Leads(all)
  <2>1. \A n \in 0 .. len : all[n] = IF n = 0 THEN v ELSE all[n - 1].items[path[n]]
    OBVIOUS
  <2> QED
    BY <2>1
<1>2. Leads(at)
  BY <1>1, Zenon
<1>3. ValueAt(v, path) = at[len]
  BY DEF ValueAt
<1> HIDE DEF at, all
<1> DEFINE bad == {n \in 0 .. len : at[n] # all[n]}
<1>4. ASSUME bad # {} PROVE FALSE
  <2>1. bad \subseteq Nat
    OBVIOUS
  <2>2. PICK n \in bad : \A m \in bad : n <= m
    BY <1>4, <2>1, LeastOf
  <2>3. n # 0 /\ n \in 1 .. len /\ n - 1 \in 0 .. len /\ n - 1 \notin bad
    BY <1>1, <1>2, <2>2
  <2>4. at[n] = at[n - 1].items[path[n]] /\ all[n] = all[n - 1].items[path[n]]
    BY <1>1, <1>2, <2>3
  <2> QED
    BY <2>2, <2>3, <2>4
<1> QED
  BY <1>3, <1>4 DEF all

\* A value has only the parts of its type.
LEMMA ValueParts ==
    ASSUME NEW v \in Outputs
    PROVE  /\ v.items \in Seq(Outputs) /\ v.chars \in Seq(STRING) /\ v.number \in Int
           /\ IsArray(v) => v = Array(v.items)
           /\ ~IsArray(v) => v.items = <<>>
           /\ v.type = "number" => v = Number(v.number)
<1>1. /\ v.number \in Int /\ v.chars \in Seq(STRING) /\ v.items \in Seq(Outputs)
      /\ \/ v = Nothing \/ v = Number(v.number) \/ v = Boolean(v.number)
         \/ v = String(v.chars) \/ v = Array(v.items) \/ v = Text(v.chars)
  BY DiffAssumption
<1>2. /\ Nothing.type = "null" /\ Nothing.items = <<>>
      /\ Number(v.number).type = "number" /\ Number(v.number).items = <<>>
      /\ Boolean(v.number).type = "boolean" /\ Boolean(v.number).items = <<>>
      /\ String(v.chars).type = "string" /\ String(v.chars).items = <<>>
      /\ Array(v.items).type = "array"
      /\ Text(v.chars).type = "text" /\ Text(v.chars).items = <<>>
  BY DEF Nothing, Number, Boolean, String, Array, Text
<1> QED
  BY <1>1, <1>2 DEF IsArray

\* firstCharDifference finds the first difference.
LEMMA FirstFound ==
    ASSUME NEW S, NEW s \in Seq(S), NEW t \in Seq(S)
    PROVE  AgreeUpTo(s, t, FirstDifference(s, t) - 1)
<1> DEFINE Ends(i) == i > Len(s) \/ i > Len(t) \/ s[i] # t[i]
           ends == {i \in 1 .. Len(s) + 1 : Ends(i)}
           First(i) == /\ \A j \in 1 .. i - 1 : j <= Len(t) /\ s[j] = t[j]
                       /\ Ends(i)
<1>1. Len(s) \in Nat /\ Len(t) \in Nat /\ DOMAIN s = 1 .. Len(s) /\ DOMAIN t = 1 .. Len(t)
  OBVIOUS
<1>2. ends \subseteq Nat /\ Len(s) + 1 \in ends
  BY <1>1
<1>3. PICK m \in ends : \A n \in ends : m <= n
  BY <1>2, LeastOf
<1>4. m \in 1 .. Len(s) + 1 /\ First(m)
  BY <1>1, <1>3
<1>5. FirstDifference(s, t) \in 1 .. Len(s) + 1 /\ First(FirstDifference(s, t))
  <2> DEFINE d == CHOOSE i \in 1 .. Len(s) + 1 : First(i)
  <2>1. d \in 1 .. Len(s) + 1 /\ First(d)
    BY <1>4
  <2>2. FirstDifference(s, t) = d
    BY DEF FirstDifference
  <2> QED
    BY <2>1, <2>2
<1> QED
  BY <1>1, <1>5 DEF AgreeUpTo

------------------------------------------------------------------------------
(* The invariant *)

Calls == [expected : Outputs, actual : Outputs, next : Nat \ {0}]

Cases == {"walking", "judged"}

ComparisonType ==
    /\ comparison.at \in {"none"} \cup Cases
    /\ comparison.at \in Cases => \E d :
         comparison \in [at : Cases, actual : Outputs, expected : Outputs, unordered : BOOLEAN,
                         unorderedInner : BOOLEAN, passed : BOOLEAN, diff : {d}]

\* A call has found its items the same so far, and its callee compares its next two.
CallInv(k) ==
    /\ \A i \in 1 .. frames[k].next - 1 :
         /\ i \in DOMAIN frames[k].expected.items \cap DOMAIN frames[k].actual.items
         /\ frames[k].expected.items[i] = frames[k].actual.items[i]
    /\ k < Len(frames) =>
         /\ HasNext(frames[k])
         /\ frames[k + 1].expected = frames[k].expected.items[frames[k].next]
         /\ frames[k + 1].actual = frames[k].actual.items[frames[k].next]

WalkInv ==
    comparison.at = "walking" =>
        /\ Walked(comparison.actual, comparison.expected, comparison.unordered)
        /\ comparison.passed = CompareOutputs(comparison.actual, comparison.expected,
                                              comparison.unordered, comparison.unorderedInner)
        /\ frames \in Seq(Calls) /\ frames # <<>>
        /\ frames[1].expected = comparison.expected /\ frames[1].actual = comparison.actual
        /\ \A k \in 1 .. Len(frames) : CallInv(k)
        /\ comparison.expected = comparison.actual =>
             \A k \in 1 .. Len(frames) : frames[k].expected = frames[k].actual

DiffInv == ComparisonType /\ WalkInv /\ DiffExplainsFailure

LEMMA DiffStarts == DiffInit => DiffInv
BY DEF DiffInit, DiffInv, ComparisonType, WalkInv, DiffExplainsFailure, Cases

LEMMA DiffStutters == DiffInv /\ UNCHANGED diffVars => DiffInv'
<1> SUFFICES ASSUME DiffInv, UNCHANGED diffVars PROVE DiffInv'
  OBVIOUS
<1>1. comparison' = comparison /\ frames' = frames
  BY DEF diffVars
<1>2. ComparisonType' /\ DiffExplainsFailure'
  BY <1>1 DEF DiffInv, ComparisonType, DiffExplainsFailure
<1>3. WalkInv'
  BY <1>1 DEF DiffInv, WalkInv, CallInv, HasNext
<1> QED
  BY <1>2, <1>3 DEF DiffInv

LEMMA JudgeStep == DiffInv /\ JudgeCase => DiffInv'
<1> SUFFICES ASSUME DiffInv, JudgeCase PROVE DiffInv'
  OBVIOUS
<1>1. PICK actual \in Outputs, expected \in Outputs, unordered \in BOOLEAN, u \in BOOLEAN :
        LET walked == Walked(actual, expected, unordered)
        IN /\ comparison' =
               [at |-> IF walked THEN "walking" ELSE "judged",
                actual |-> actual, expected |-> expected,
                unordered |-> unordered, unorderedInner |-> u,
                passed |-> CompareOutputs(actual, expected, unordered, u),
                diff |-> IF walked THEN NoDiff ELSE DiffAtOnce(actual, expected, u)]
           /\ frames' = IF walked THEN <<Call(expected, actual)>> ELSE <<>>
  BY DEF JudgeCase
<1> DEFINE walked == Walked(actual, expected, unordered)
           passed == CompareOutputs(actual, expected, unordered, u)
           diff == IF walked THEN NoDiff ELSE DiffAtOnce(actual, expected, u)
           at == IF walked THEN "walking" ELSE "judged"
<1>2. passed \in BOOLEAN
  BY DEF CompareOutputs, Near, SameItems
<1> HIDE DEF passed, diff, walked
<1>3. comparison' = [at |-> at, actual |-> actual, expected |-> expected,
                     unordered |-> unordered, unorderedInner |-> u,
                     passed |-> passed, diff |-> diff]
  BY <1>1 DEF passed, diff, walked
<1>4. frames' = IF walked THEN <<Call(expected, actual)>> ELSE <<>>
  BY <1>1 DEF walked
<1>5. ComparisonType'
  BY <1>2, <1>3 DEF ComparisonType, Cases
<1>6. ASSUME walked PROVE WalkInv' /\ DiffExplainsFailure'
  <2>1. frames' = <<Call(expected, actual)>> /\ comparison'.at = "walking"
    BY <1>3, <1>4, <1>6
  <2>2. Call(expected, actual) \in Calls
    BY DEF Call, Calls
  <2>3. /\ frames' \in Seq(Calls) /\ frames' # <<>> /\ Len(frames') = 1
        /\ frames'[1] = Call(expected, actual)
    BY <2>1, <2>2
  <2>4. frames'[1].expected = expected /\ frames'[1].actual = actual /\ frames'[1].next = 1
    BY <2>3 DEF Call
  <2>5. \A k \in 1 .. Len(frames') : k = 1
    BY <2>3
  <2>6. \A k \in 1 .. Len(frames') : CallInv(k)'
    BY <2>3, <2>4, <2>5 DEF CallInv
  <2>7. WalkInv'
    BY <1>3, <1>6, <2>3, <2>4, <2>5, <2>6 DEF WalkInv, walked, passed
  <2>8. DiffExplainsFailure'
    BY <2>1 DEF DiffExplainsFailure
  <2> QED
    BY <2>7, <2>8
<1>7. ASSUME ~walked PROVE WalkInv' /\ DiffExplainsFailure'
  <2>1. comparison'.at = "judged" /\ diff = DiffAtOnce(actual, expected, u)
    BY <1>3, <1>7 DEF diff
  <2>2. CASE IsJson(actual) /\ IsJson(expected)
    <3>1. unordered /\ IsArray(expected) /\ IsArray(actual)
      BY <1>7, <2>2 DEF Walked, walked
    <3>2. actual.items \in Seq(Outputs) /\ expected.items \in Seq(Outputs)
      BY ValueParts
    <3>3. diff = MultisetDiff(expected.items, actual.items, u)
      BY <2>1, <2>2 DEF DiffAtOnce
    <3>4. SameItems(actual.items, actual.items, u)
      BY DEF SameItems
    <3>5. passed <=> SameItems(actual.items, expected.items, u)
      BY <3>1, <3>4 DEF passed, CompareOutputs, IsArray
    <3>6. /\ diff = NoDiff <=> SameItems(actual.items, expected.items, u)
          /\ diff # NoDiff =>
               /\ diff.kind = "items"
               /\ diff.missing \cup diff.unexpected # {}
               /\ \A i \in diff.missing : Occurrences(expected.items, expected.items[i], u)
                                          > Occurrences(actual.items, expected.items[i], u)
               /\ \A i \in diff.unexpected : Occurrences(actual.items, actual.items[i], u)
                                             > Occurrences(expected.items, actual.items[i], u)
      BY <3>2, <3>3, MultisetExplained
    <3>7. NoDiff.kind = "none"
      BY DEF NoDiff
    <3>8. DiffExplainsFailure'
      BY <1>3, <3>5, <3>6, <3>7 DEF DiffExplainsFailure
    <3> QED
      BY <2>1, <3>8 DEF WalkInv
  <2>3. CASE ~(IsJson(actual) /\ IsJson(expected))
    <3>1. diff = IF actual = expected THEN NoDiff ELSE [kind |-> "format"]
      BY <2>1, <2>3 DEF DiffAtOnce
    <3>2. passed <=> actual = expected
      BY <2>3 DEF passed, CompareOutputs, IsArray, IsJson
    <3>3. NoDiff.kind = "none" /\ [kind |-> "format"].kind = "format"
      BY DEF NoDiff
    <3>4. (passed <=> diff = NoDiff) /\ diff.kind \in {"none", "format"}
      BY <3>1, <3>2, <3>3
    <3>5. DiffExplainsFailure'
      BY <1>3, <3>4 DEF DiffExplainsFailure
    <3> QED
      BY <2>1, <3>5 DEF WalkInv
  <2> QED
    BY <2>2, <2>3
<1> QED
  BY <1>5, <1>6, <1>7 DEF DiffInv

LEMMA WalkStep == DiffInv /\ WalkItem => DiffInv'
<1> SUFFICES ASSUME DiffInv, WalkItem PROVE DiffInv'
  OBVIOUS
<1> DEFINE n == Len(frames)
           e == Innermost.expected.items[Innermost.next]
           a == Innermost.actual.items[Innermost.next]
<1>1. /\ comparison.at = "walking" /\ comparison' = comparison /\ HasNext(Innermost)
      /\ frames' = Append(frames, Call(e, a))
  BY DEF WalkItem
<1>2. /\ frames \in Seq(Calls) /\ n \in Nat \ {0} /\ Innermost = frames[n] /\ Innermost \in Calls
  BY <1>1 DEF DiffInv, WalkInv, Innermost
<1>3. e \in Outputs /\ a \in Outputs
  <2>1. Innermost.expected \in Outputs /\ Innermost.actual \in Outputs
    BY <1>2 DEF Calls
  <2>2. Innermost.expected.items \in Seq(Outputs) /\ Innermost.actual.items \in Seq(Outputs)
    BY <2>1, ValueParts
  <2> QED
    BY <1>1, <2>2 DEF HasNext
<1>4. /\ Call(e, a) \in Calls
      /\ Call(e, a).expected = e /\ Call(e, a).actual = a /\ Call(e, a).next = 1
  BY <1>3 DEF Call, Calls
<1> HIDE DEF e, a
<1>5. /\ frames' \in Seq(Calls) /\ Len(frames') = n + 1 /\ frames' # <<>>
      /\ \A k \in 1 .. n : frames'[k] = frames[k]
      /\ frames'[n + 1] = Call(e, a)
  BY <1>1, <1>2, <1>4
<1>6. ASSUME NEW k \in 1 .. n PROVE CallInv(k)'
  <2>1. CallInv(k)
    BY <1>1, <1>6 DEF DiffInv, WalkInv
  <2>2. frames'[k] = frames[k] /\ frames'[n + 1].expected = e /\ frames'[n + 1].actual = a
    BY <1>4, <1>5, <1>6
  <2>3. CASE k < n
    <3>1. k + 1 \in 1 .. n /\ frames'[k + 1] = frames[k + 1] /\ k < Len(frames')
      BY <1>2, <1>5, <1>6, <2>3
    <3> QED
      BY <2>1, <2>2, <2>3, <3>1 DEF CallInv, HasNext
  <2>4. CASE k = n
    <3>1. frames[k] = Innermost /\ HasNext(frames[k])
      BY <1>1, <1>2, <2>4
    <3> QED
      BY <2>1, <2>2, <2>4, <3>1 DEF CallInv, HasNext, e, a
  <2> QED
    BY <1>2, <1>6, <2>3, <2>4
<1>7. \A k \in {n + 1} : CallInv(k)'
  <2>1. frames'[n + 1].next = 1 /\ ~(n + 1 < Len(frames'))
    BY <1>2, <1>4, <1>5
  <2> QED
    BY <2>1 DEF CallInv
<1>8. \A k \in 1 .. Len(frames') : CallInv(k)'
  <2>1. \A k \in 1 .. Len(frames') : k \in 1 .. n \/ k \in {n + 1}
    BY <1>2, <1>5
  <2> QED
    BY <1>6, <1>7, <2>1
<1>9. ASSUME comparison.expected = comparison.actual, NEW k \in 1 .. n + 1
      PROVE  frames'[k].expected = frames'[k].actual
  <2>1. \A i \in 1 .. n : frames[i].expected = frames[i].actual
    BY <1>1, <1>9 DEF DiffInv, WalkInv
  <2>2. e = a
    BY <1>2, <2>1 DEF e, a
  <2> QED
    BY <1>2, <1>4, <1>5, <1>9, <2>1, <2>2
<1>10. WalkInv'
  <2>1. 1 \in 1 .. n
    BY <1>2
  <2> QED
    BY <1>1, <1>5, <1>8, <1>9, <2>1 DEF DiffInv, WalkInv
<1>11. ComparisonType' /\ DiffExplainsFailure'
  BY <1>1 DEF DiffInv, ComparisonType, DiffExplainsFailure
<1> QED
  BY <1>10, <1>11 DEF DiffInv

------------------------------------------------------------------------------
(* walk returns *)

LEMMA PathLeads ==
    ASSUME DiffInv, comparison.at = "walking"
    PROVE  /\ Path \in Seq(Nat) /\ Len(Path) = Len(frames) - 1 /\ Len(Path) \in Nat
           /\ \A k \in 1 .. Len(frames) - 1 : Path[k] = frames[k].next
           /\ ValueAt(comparison.expected, Path) = Innermost.expected
           /\ ValueAt(comparison.actual, Path) = Innermost.actual
<1> DEFINE n == Len(frames)
<1>1. frames \in Seq(Calls) /\ n \in Nat /\ n # 0
  BY DEF DiffInv, WalkInv
<1>2. \A k \in 1 .. n : frames[k] \in Calls /\ CallInv(k)
  BY <1>1 DEF DiffInv, WalkInv
<1>3. \A k \in 1 .. n - 1 : frames[k].next \in Nat
  BY <1>1, <1>2 DEF Calls
<1>4. /\ Path \in Seq(Nat) /\ Len(Path) = n - 1 /\ Len(Path) \in Nat
      /\ \A k \in 1 .. n - 1 : Path[k] = frames[k].next
  BY <1>1, <1>3 DEF Path
<1>5. ValueAt(comparison.expected, Path) = Innermost.expected
  <2> DEFINE vs == [k \in 0 .. n - 1 |-> frames[k + 1].expected]
  <2>1. vs[0] = comparison.expected
    BY <1>1 DEF DiffInv, WalkInv
  <2>2. \A k \in 1 .. n - 1 : vs[k] = vs[k - 1].items[Path[k]]
    <3>1. ASSUME NEW k \in 1 .. n - 1 PROVE vs[k] = vs[k - 1].items[Path[k]]
      <4>1. k \in 1 .. n /\ k < n /\ k \in 0 .. n - 1 /\ k - 1 \in 0 .. n - 1 /\ (k - 1) + 1 = k
        BY <1>1
      <4>2. frames[k + 1].expected = frames[k].expected.items[frames[k].next]
        BY <1>2, <4>1 DEF CallInv
      <4> QED
        BY <1>4, <4>1, <4>2
    <3> QED
      BY <3>1
  <2>3. vs[Len(Path)] = Innermost.expected
    BY <1>1, <1>4 DEF Innermost
  <2> HIDE DEF vs
  <2> QED
    BY <1>4, <2>1, <2>2, <2>3, ValueFollows
<1>6. ValueAt(comparison.actual, Path) = Innermost.actual
  <2> DEFINE vs == [k \in 0 .. n - 1 |-> frames[k + 1].actual]
  <2>1. vs[0] = comparison.actual
    BY <1>1 DEF DiffInv, WalkInv
  <2>2. \A k \in 1 .. n - 1 : vs[k] = vs[k - 1].items[Path[k]]
    <3>1. ASSUME NEW k \in 1 .. n - 1 PROVE vs[k] = vs[k - 1].items[Path[k]]
      <4>1. k \in 1 .. n /\ k < n /\ k \in 0 .. n - 1 /\ k - 1 \in 0 .. n - 1 /\ (k - 1) + 1 = k
        BY <1>1
      <4>2. frames[k + 1].actual = frames[k].actual.items[frames[k].next]
        BY <1>2, <4>1 DEF CallInv
      <4> QED
        BY <1>4, <4>1, <4>2
    <3> QED
      BY <3>1
  <2>3. vs[Len(Path)] = Innermost.actual
    BY <1>1, <1>4 DEF Innermost
  <2> HIDE DEF vs
  <2> QED
    BY <1>4, <2>1, <2>2, <2>3, ValueFollows
<1> QED
  BY <1>4, <1>5, <1>6

\* One step beyond where the values lead.
LEMMA ValueBeyond ==
    ASSUME NEW v, NEW path, Len(path) \in Nat \ {0}, NEW vs, vs[0] = v,
           \A k \in 1 .. Len(path) - 1 : vs[k] = vs[k - 1].items[path[k]]
    PROVE  ValueAt(v, path) = vs[Len(path) - 1].items[path[Len(path)]]
<1> DEFINE m == Len(path)
           ws == [k \in 0 .. m |-> IF k < m THEN vs[k] ELSE vs[m - 1].items[path[m]]]
<1>1. ws[0] = v /\ ws[m] = vs[m - 1].items[path[m]] /\ m - 1 \in 0 .. m /\ ws[m - 1] = vs[m - 1]
  OBVIOUS
<1>2. \A k \in 1 .. m : ws[k] = ws[k - 1].items[path[k]]
  <2>1. ASSUME NEW k \in 1 .. m - 1 PROVE ws[k] = ws[k - 1].items[path[k]]
    <3>1. k \in 0 .. m /\ k - 1 \in 0 .. m /\ ws[k] = vs[k] /\ ws[k - 1] = vs[k - 1]
      OBVIOUS
    <3> QED
      BY <3>1
  <2>2. \A k \in 1 .. m : k \in 1 .. m - 1 \/ k = m
    OBVIOUS
  <2> HIDE DEF ws
  <2> QED
    BY <1>1, <2>1, <2>2
<1> HIDE DEF ws
<1> QED
  BY <1>1, <1>2, ValueFollows

LEMMA FirstPart ==
    ASSUME NEW S, NEW s \in Seq(S), NEW m \in 0 .. Len(s)
    PROVE  /\ SubSeq(s, 1, m) \in Seq(S) /\ Len(SubSeq(s, 1, m)) = m
           /\ \A k \in 1 .. m : SubSeq(s, 1, m)[k] = s[k]
<1>1. Len(s) \in Nat /\ DOMAIN s = 1 .. Len(s) /\ m \in Nat /\ 1 .. m \subseteq 1 .. Len(s)
  OBVIOUS
<1> QED
  BY <1>1

\* Everything before the path is the same in both outputs.
LEMMA BeforeIsSame ==
    ASSUME DiffInv, comparison.at = "walking",
           NEW n \in 1 .. Len(Path), NEW i \in 1 .. Path[n] - 1
    PROVE  LET before == Append(SubSeq(Path, 1, n - 1), i)
           IN ValueAt(comparison.expected, before) = ValueAt(comparison.actual, before)
<1> DEFINE before == Append(SubSeq(Path, 1, n - 1), i)
           es == [k \in 0 .. n - 1 |-> frames[k + 1].expected]
           as == [k \in 0 .. n - 1 |-> frames[k + 1].actual]
<1>1. frames \in Seq(Calls) /\ Len(frames) \in Nat \ {0} /\ Len(Path) = Len(frames) - 1
  BY PathLeads DEF DiffInv, WalkInv
<1>2. /\ n \in Nat \ {0} /\ n \in 1 .. Len(frames) - 1
      /\ \A k \in 1 .. n : k \in 1 .. Len(frames) /\ k < Len(frames)
  BY <1>1
<1>3. \A k \in 1 .. n : /\ frames[k] \in Calls /\ CallInv(k) /\ Path[k] = frames[k].next
                        /\ Path[k] \in Nat
  <2>1. ASSUME NEW k \in 1 .. n
        PROVE  /\ frames[k] \in Calls /\ CallInv(k) /\ Path[k] = frames[k].next
               /\ Path[k] \in Nat
    <3>1. k \in 1 .. Len(frames) /\ k \in 1 .. Len(frames) - 1
      BY <1>1, <1>2
    <3>2. frames[k] \in Calls /\ frames[k].next \in Nat
      <4>1. frames[k] \in Calls
        BY <1>1, <3>1
      <4> QED
        BY <4>1 DEF Calls
    <3>3. CallInv(k) /\ Path[k] = frames[k].next
      BY <3>1, PathLeads DEF DiffInv, WalkInv
    <3> QED
      BY <3>2, <3>3
  <2> QED
    BY <2>1
<1>4. Path \in Seq(Nat) /\ n - 1 \in 0 .. Len(Path)
  BY <1>1, PathLeads
<1>5. SubSeq(Path, 1, n - 1) \in Seq(Nat) /\ Len(SubSeq(Path, 1, n - 1)) = n - 1
      /\ \A k \in 1 .. n - 1 : SubSeq(Path, 1, n - 1)[k] = Path[k]
  BY <1>4, FirstPart
<1>6. Len(before) = n /\ before[n] = i /\ \A k \in 1 .. n - 1 : before[k] = Path[k]
  BY <1>2, <1>5
<1> HIDE DEF before
<1>7. \A k \in 1 .. n - 1 : /\ k \in 0 .. n - 1 /\ k - 1 \in 0 .. n - 1 /\ (k - 1) + 1 = k
                            /\ k \in 1 .. n /\ k < Len(frames)
  BY <1>2
<1>8. es[0] = comparison.expected /\ as[0] = comparison.actual
  BY <1>2 DEF DiffInv, WalkInv
<1>9. ASSUME NEW k \in 1 .. n - 1
      PROVE  es[k] = es[k - 1].items[before[k]] /\ as[k] = as[k - 1].items[before[k]]
  <2>1. /\ frames[k + 1].expected = frames[k].expected.items[frames[k].next]
        /\ frames[k + 1].actual = frames[k].actual.items[frames[k].next]
    BY <1>3, <1>7 DEF CallInv
  <2> QED
    BY <1>3, <1>6, <1>7, <2>1
<1>10. n - 1 \in 0 .. n - 1 /\ es[n - 1] = frames[n].expected /\ as[n - 1] = frames[n].actual
  BY <1>2
<1> HIDE DEF es, as
<1>11. /\ ValueAt(comparison.expected, before) = es[n - 1].items[i]
       /\ ValueAt(comparison.actual, before) = as[n - 1].items[i]
  <2>1. Len(before) \in Nat \ {0}
    BY <1>2, <1>6
  <2>2. /\ \A k \in 1 .. Len(before) - 1 : es[k] = es[k - 1].items[before[k]]
        /\ \A k \in 1 .. Len(before) - 1 : as[k] = as[k - 1].items[before[k]]
    BY <1>6, <1>9
  <2>3. ASSUME NEW vs, \A k \in 1 .. Len(before) - 1 : vs[k] = vs[k - 1].items[before[k]]
        PROVE  ValueAt(vs[0], before) = vs[Len(before) - 1].items[before[Len(before)]]
    BY <2>1, <2>3, ValueBeyond
  <2> QED
    BY <1>6, <1>8, <2>2, <2>3
<1>12. frames[n].expected.items[i] = frames[n].actual.items[i]
  <2>1. n \in 1 .. n /\ i \in 1 .. frames[n].next - 1
    BY <1>2, <1>3
  <2> QED
    BY <1>3, <2>1 DEF CallInv
<1> QED
  BY <1>10, <1>11, <1>12 DEF before

\* What a call that is through with its items returns.
LEMMA ReturnTells ==
    ASSUME DiffInv, comparison.at = "walking", ~HasNext(Innermost), NEW topLevel \in BOOLEAN
    PROVE  LET e == Innermost.expected
               a == Innermost.actual
               diff == Difference(e, a, Path, topLevel)
           IN /\ diff = NoDiff => e = a \/ (topLevel /\ e.type = "number" /\ a.type = "number"
                                            /\ Near(e.number, a.number))
              /\ diff # NoDiff =>
                   /\ diff.kind \in {"type", "length", "value"} /\ diff.path = Path
                   /\ TellsApart(diff, e, a) /\ e # a
                   /\ e.type = "number" /\ a.type = "number" /\ topLevel => ~Near(e.number, a.number)
<1> DEFINE n == Len(frames)
           e == Innermost.expected
           a == Innermost.actual
           diff == Difference(e, a, Path, topLevel)
           char == IF e.type = "string" THEN FirstDifference(e.chars, a.chars) ELSE 0
           type == [kind |-> "type", path |-> Path]
           length == [kind |-> "length", path |-> Path]
           value == [kind |-> "value", path |-> Path, charIndex |-> char]
           numbers == topLevel /\ e.type = "number" /\ a.type = "number"
           Tells == /\ diff = NoDiff => e = a \/ (numbers /\ Near(e.number, a.number))
                    /\ diff # NoDiff =>
                         /\ diff.kind \in {"type", "length", "value"} /\ diff.path = Path
                         /\ TellsApart(diff, e, a) /\ e # a
                         /\ numbers => ~Near(e.number, a.number)
<1>1. /\ frames \in Seq(Calls) /\ n \in Nat \ {0} /\ Innermost = frames[n] /\ n \in 1 .. n
      /\ Innermost \in Calls
  BY DEF DiffInv, WalkInv, Innermost
<1>2. CallInv(n)
  BY <1>1 DEF DiffInv, WalkInv
<1>3. e \in Outputs /\ a \in Outputs /\ Innermost.next \in Nat \ {0}
  BY <1>1 DEF Calls
<1>4. \A i \in 1 .. Innermost.next - 1 :
        i \in DOMAIN e.items \cap DOMAIN a.items /\ e.items[i] = a.items[i]
  BY <1>1, <1>2 DEF CallInv
<1> HIDE DEF e, a, char
<1>5. /\ e.items \in Seq(Outputs) /\ a.items \in Seq(Outputs)
      /\ e.chars \in Seq(STRING) /\ a.chars \in Seq(STRING)
      /\ IsArray(e) => e = Array(e.items)
      /\ IsArray(a) => a = Array(a.items)
      /\ e.number \in Int /\ a.number \in Int
      /\ e.type = "number" => e = Number(e.number)
  BY <1>3, ValueParts
<1>6. ASSUME IsArray(e), IsArray(a)
      PROVE  \A i \in DOMAIN e.items \cap DOMAIN a.items : e.items[i] = a.items[i]
  <2>1. Innermost.next \notin DOMAIN e.items \cap DOMAIN a.items
    BY <1>6 DEF HasNext, e, a
  <2>2. /\ DOMAIN e.items = 1 .. Len(e.items) /\ DOMAIN a.items = 1 .. Len(a.items)
        /\ Len(e.items) \in Nat /\ Len(a.items) \in Nat
    BY <1>5
  <2>3. \A i \in DOMAIN e.items \cap DOMAIN a.items : i \in 1 .. Innermost.next - 1
    BY <1>3, <2>1, <2>2
  <2> QED
    BY <1>4, <2>3
<1>7. /\ type.kind = "type" /\ length.kind = "length" /\ value.kind = "value"
      /\ NoDiff.kind = "none" /\ type.path = Path /\ length.path = Path /\ value.path = Path
      /\ value.charIndex = char
  BY DEF NoDiff
<1> HIDE DEF type, length, value
<1>8. diff = IF e.type # a.type THEN type
             ELSE IF IsArray(e) /\ IsArray(a)
             THEN IF Len(e.items) = Len(a.items) THEN NoDiff ELSE length
             ELSE IF e.type = "number" /\ a.type = "number" /\ WithinTolerance(e, a, topLevel)
             THEN NoDiff
             ELSE IF e = a THEN NoDiff ELSE value
  BY DEF Difference, ScalarDiff, type, length, value, char, IsArray
<1> HIDE DEF diff
<1>9. ASSUME e.type # a.type PROVE Tells
  BY <1>7, <1>8, <1>9 DEF TellsApart
<1>10. ASSUME e.type = a.type, IsArray(e), IsArray(a) PROVE Tells
  <2>1. CASE Len(e.items) = Len(a.items)
    <3>1. e.items = a.items
      BY <1>5, <1>6, <1>10, <2>1
    <3> QED
      BY <1>5, <1>8, <1>10, <2>1, <3>1
  <2>2. CASE Len(e.items) # Len(a.items)
    <3>1. diff = length /\ e # a
      BY <1>8, <1>10, <2>2
    <3>2. TellsApart(length, e, a)
      BY <1>6, <1>7, <1>10, <2>2 DEF TellsApart
    <3> QED
      BY <1>7, <1>10, <3>1, <3>2 DEF IsArray
  <2> QED
    BY <2>1, <2>2
<1>11. ASSUME e.type = a.type, ~(IsArray(e) /\ IsArray(a)) PROVE Tells
  <2>1. CASE e.type = "number" /\ a.type = "number" /\ WithinTolerance(e, a, topLevel)
    BY <1>8, <1>11, <2>1 DEF WithinTolerance
  <2>2. CASE ~(e.type = "number" /\ a.type = "number" /\ WithinTolerance(e, a, topLevel)) /\ e = a
    BY <1>8, <1>11, <2>2
  <2>3. CASE ~(e.type = "number" /\ a.type = "number" /\ WithinTolerance(e, a, topLevel)) /\ e # a
    <3>1. diff = value
      BY <1>8, <1>11, <2>3
    <3>2. e.type = "string" => AgreeUpTo(e.chars, a.chars, char - 1)
      BY <1>5, FirstFound DEF char
    <3>3. TellsApart(value, e, a)
      BY <1>7, <1>11, <2>3, <3>2 DEF TellsApart
    <3> QED
      BY <1>7, <2>3, <3>1, <3>3 DEF WithinTolerance
  <2> QED
    BY <2>1, <2>2, <2>3
<1> QED
  BY <1>9, <1>10, <1>11 DEF diff, e, a

\* Where more than one call is under way.
LEMMA LessByOne ==
    ASSUME NEW l \in Nat, l # 0, l # 1
    PROVE  /\ 1 < l /\ l - 1 \in Nat \ {0} /\ l - 1 \in 1 .. l /\ l - 1 \in 0 .. l
           /\ (l - 1) + 1 = l
OBVIOUS

\* The last call of walk returns, or one that has found a difference.
LEMMA ReturnJudges ==
    ASSUME DiffInv, comparison.at = "walking", ~HasNext(Innermost), NEW diff,
           diff = Difference(Innermost.expected, Innermost.actual, Path, Len(frames) = 1),
           diff # NoDiff \/ Len(frames) = 1,
           comparison' = [comparison EXCEPT !.at = "judged", !.diff = diff]
    PROVE  DiffInv'
<1> DEFINE ie == Innermost.expected
           ia == Innermost.actual
           e == comparison.expected
           a == comparison.actual
           Numbers(v, w) == v.type = "number" /\ w.type = "number"
<1>1. PICK d : comparison \in [at : Cases, actual : Outputs, expected : Outputs,
                               unordered : BOOLEAN, unorderedInner : BOOLEAN,
                               passed : BOOLEAN, diff : {d}]
  BY DEF DiffInv, ComparisonType, Cases
<1>2. /\ comparison'.at = "judged" /\ comparison'.diff = diff
      /\ comparison'.expected = e /\ comparison'.actual = a
      /\ comparison'.passed = comparison.passed
  BY <1>1
<1>3. ComparisonType'
  <2>1. comparison' \in [at : Cases, actual : Outputs, expected : Outputs, unordered : BOOLEAN,
                         unorderedInner : BOOLEAN, passed : BOOLEAN, diff : {diff}]
    BY <1>1 DEF Cases
  <2> QED
    BY <1>2, <2>1 DEF ComparisonType, Cases
<1>4. WalkInv'
  BY <1>2 DEF WalkInv
<1>5. /\ diff = NoDiff => ie = ia \/ (Len(frames) = 1 /\ Numbers(ie, ia)
                                      /\ Near(ie.number, ia.number))
      /\ diff # NoDiff =>
           /\ diff.kind \in {"type", "length", "value"} /\ diff.path = Path
           /\ TellsApart(diff, ie, ia) /\ ie # ia
           /\ Numbers(ie, ia) /\ Len(frames) = 1 => ~Near(ie.number, ia.number)
  <2>1. (Len(frames) = 1) \in BOOLEAN
    OBVIOUS
  <2> QED
    BY <2>1, ReturnTells
<1>6. /\ frames \in Seq(Calls) /\ Len(frames) \in Nat \ {0} /\ Innermost = frames[Len(frames)]
      /\ frames[1].expected = e /\ frames[1].actual = a
      /\ e = a => ie = ia
      /\ comparison.passed = CompareOutputs(a, e, comparison.unordered, comparison.unorderedInner)
      /\ ~(comparison.unordered /\ IsArray(e) /\ IsArray(a))
  BY DEF DiffInv, WalkInv, Walked, Innermost
<1>7. Len(frames) # 1 => ~Numbers(e, a)
  <2>1. CallInv(1)
    BY <1>6 DEF DiffInv, WalkInv
  <2>2. ASSUME Len(frames) # 1 PROVE HasNext(frames[1])
    <3>1. 1 < Len(frames)
      BY <1>6, <2>2, LessByOne
    <3> QED
      BY <2>1, <3>1 DEF CallInv
  <2>3. Len(frames) # 1 => IsArray(frames[1].expected)
    BY <2>2 DEF HasNext
  <2>4. frames[1].expected = e
    BY <1>6
  <2> QED
    BY <2>3, <2>4 DEF IsArray
<1>8. Len(frames) = 1 => ie = e /\ ia = a
  BY <1>6
<1>9. comparison.passed <=> e = a \/ (Numbers(e, a) /\ Near(a.number, e.number))
  BY <1>6 DEF CompareOutputs
<1>10. Near(a.number, e.number) <=> Near(e.number, a.number)
  BY DEF Near
<1> HIDE DEF ie, ia, e, a, Numbers
<1>11. comparison.passed <=> diff = NoDiff
  BY <1>5, <1>6, <1>7, <1>8, <1>9, <1>10
<1>12. ValueAt(e, Path) = ie /\ ValueAt(a, Path) = ia
  BY PathLeads DEF e, a, ie, ia
<1>13. \A n \in 1 .. Len(Path) : \A i \in 1 .. Path[n] - 1 :
         LET before == Append(SubSeq(Path, 1, n - 1), i)
         IN ValueAt(e, before) = ValueAt(a, before)
  BY BeforeIsSame DEF e, a
<1>14. NoDiff.kind = "none"
  BY DEF NoDiff
<1>15. /\ diff.kind \in {"type", "value", "length"} =>
            /\ TellsApart(diff, ValueAt(e, diff.path), ValueAt(a, diff.path))
            /\ \A n \in 1 .. Len(diff.path) : \A i \in 1 .. diff.path[n] - 1 :
                 LET before == Append(SubSeq(diff.path, 1, n - 1), i)
                 IN ValueAt(e, before) = ValueAt(a, before)
       /\ diff.kind # "items"
  <2>1. CASE diff = NoDiff
    BY <1>14, <2>1
  <2>2. CASE diff # NoDiff
    BY <1>5, <1>12, <1>13, <2>2
  <2> QED
    BY <2>1, <2>2
<1>16. DiffExplainsFailure'
  BY <1>2, <1>11, <1>15 DEF DiffExplainsFailure
<1> QED
  BY <1>3, <1>4, <1>16 DEF DiffInv

\* A caller goes on to its next item.
LEMMA ReturnContinues ==
    ASSUME DiffInv, comparison.at = "walking", ~HasNext(Innermost), comparison' = comparison,
           Len(frames) # 1,
           Difference(Innermost.expected, Innermost.actual, Path, FALSE) = NoDiff,
           frames' = [SubSeq(frames, 1, Len(frames) - 1)
                      EXCEPT ![Len(frames) - 1].next = @ + 1]
    PROVE  DiffInv'
<1> PICK n : n = Len(frames) - 1
  OBVIOUS
<1> DEFINE callers == SubSeq(frames, 1, n)
<1>1. /\ frames \in Seq(Calls) /\ n \in Nat \ {0} /\ n \in 1 .. Len(frames) /\ n + 1 = Len(frames)
      /\ Innermost = frames[n + 1] /\ n \in 0 .. Len(frames)
  <2>1. frames \in Seq(Calls) /\ frames # <<>>
    BY DEF DiffInv, WalkInv
  <2>2. Len(frames) \in Nat /\ Len(frames) # 0
    BY <2>1
  <2>3. n \in Nat \ {0} /\ n \in 1 .. Len(frames) /\ n + 1 = Len(frames) /\ n \in 0 .. Len(frames)
    BY <2>2, LessByOne
  <2> QED
    BY <2>1, <2>3 DEF Innermost
<1>2. /\ callers \in Seq(Calls) /\ Len(callers) = n /\ DOMAIN callers = 1 .. n
      /\ \A k \in 1 .. n : callers[k] = frames[k]
  <2>1. callers \in Seq(Calls) /\ Len(callers) = n /\ \A k \in 1 .. n : callers[k] = frames[k]
    BY <1>1, FirstPart
  <2> QED
    BY <2>1
<1>3. n \in 1 .. n /\ frames[n] \in Calls
  BY <1>1
<1>4. frames' = [callers EXCEPT ![n] = [frames[n] EXCEPT !.next = frames[n].next + 1]]
  BY <1>2, <1>3
<1> HIDE DEF callers
<1>5. [frames[n] EXCEPT !.next = frames[n].next + 1] \in Calls
  BY <1>3 DEF Calls
<1>6. /\ frames' \in Seq(Calls) /\ Len(frames') = n /\ frames' # <<>>
      /\ \A k \in 1 .. n - 1 : frames'[k] = frames[k]
      /\ frames'[n] = [frames[n] EXCEPT !.next = frames[n].next + 1]
  BY <1>1, <1>2, <1>4, <1>5
<1>7. /\ frames'[n].expected = frames[n].expected /\ frames'[n].actual = frames[n].actual
      /\ frames'[n].next = frames[n].next + 1 /\ frames[n].next \in Nat
  BY <1>3, <1>6 DEF Calls
<1>8. \A k \in 1 .. n : /\ frames'[k].expected = frames[k].expected
                       /\ frames'[k].actual = frames[k].actual
  <2>1. \A k \in 1 .. n : k \in 1 .. n - 1 \/ k = n
    BY <1>1
  <2> QED
    BY <1>6, <1>7, <2>1
<1>9. Innermost.expected = Innermost.actual
  BY ReturnTells
<1>10. \A k \in 1 .. n : CallInv(k)
  BY <1>1 DEF DiffInv, WalkInv
<1>11. ASSUME NEW k \in 1 .. n - 1 PROVE CallInv(k)'
  <2>1. /\ k \in 1 .. n /\ k + 1 \in 1 .. n /\ k < Len(frames) /\ frames'[k] = frames[k]
    BY <1>1, <1>6
  <2>2. CallInv(k)
    BY <1>10, <2>1
  <2>3. /\ frames'[k + 1].expected = frames[k + 1].expected
        /\ frames'[k + 1].actual = frames[k + 1].actual
    BY <1>8, <2>1
  <2> QED
    BY <2>1, <2>2, <2>3 DEF CallInv, HasNext
<1>12. \A k \in {n} : CallInv(k)'
  <2>1. /\ HasNext(frames[n])
        /\ frames[n].expected.items[frames[n].next] = frames[n].actual.items[frames[n].next]
    BY <1>1, <1>3, <1>9, <1>10 DEF CallInv
  <2>2. ASSUME NEW i \in 1 .. frames'[n].next - 1
        PROVE  /\ i \in DOMAIN frames[n].expected.items \cap DOMAIN frames[n].actual.items
               /\ frames[n].expected.items[i] = frames[n].actual.items[i]
    <3>1. i \in 1 .. frames[n].next - 1 \/ i = frames[n].next
      BY <1>7
    <3>2. CallInv(n)
      BY <1>3, <1>10
    <3> QED
      BY <2>1, <3>1, <3>2 DEF CallInv, HasNext
  <2>3. ~(n < Len(frames'))
    BY <1>1, <1>6
  <2> QED
    BY <1>7, <2>2, <2>3 DEF CallInv
<1>13. \A k \in 1 .. Len(frames') : CallInv(k)'
  <2>1. \A k \in 1 .. Len(frames') : k \in 1 .. n - 1 \/ k \in {n}
    BY <1>1, <1>6
  <2> QED
    BY <1>11, <1>12, <2>1
<1>14. WalkInv'
  <2>1. 1 \in 1 .. n /\ \A k \in 1 .. n : k \in 1 .. Len(frames)
    BY <1>1
  <2> QED
    BY <1>6, <1>8, <1>13, <2>1 DEF DiffInv, WalkInv
<1>15. ComparisonType' /\ DiffExplainsFailure'
  BY DEF DiffInv, ComparisonType, DiffExplainsFailure
<1> QED
  BY <1>14, <1>15 DEF DiffInv

\* Either way.
LEMMA ReturnStep == DiffInv /\ Return => DiffInv'
<1> SUFFICES ASSUME DiffInv, Return PROVE DiffInv'
  OBVIOUS
<1> DEFINE topLevel == Len(frames) = 1
           diff == Difference(Innermost.expected, Innermost.actual, Path, topLevel)
<1>1. comparison.at = "walking" /\ ~HasNext(Innermost)
  BY DEF Return
<1>2. CASE diff # NoDiff \/ topLevel
  <2>1. comparison' = [comparison EXCEPT !.at = "judged", !.diff = diff]
    BY <1>2 DEF Return
  <2> QED
    BY <1>1, <1>2, <2>1, ReturnJudges
<1>3. CASE ~(diff # NoDiff \/ topLevel)
  <2>1. /\ frames' = [SubSeq(frames, 1, Len(frames) - 1)
                      EXCEPT ![Len(frames) - 1].next = @ + 1]
        /\ comparison' = comparison /\ Len(frames) # 1
    BY <1>3 DEF Return
  <2>2. topLevel = FALSE
    BY <2>1
  <2>3. Difference(Innermost.expected, Innermost.actual, Path, FALSE) = NoDiff
    BY <1>3, <2>2
  <2> QED
    BY <1>1, <2>1, <2>3, ReturnContinues
<1> QED
  BY <1>2, <1>3

\* A difference is shown exactly when compareOutputs says the case failed, and it is one,
\* with everything before it the same: for outputs of any size and depth (diff.ts).
THEOREM FailuresExplained == DiffSpec => []DiffExplainsFailure
<1>1. DiffInv /\ [DiffNext]_diffVars => DiffInv'
  BY DiffStutters, JudgeStep, WalkStep, ReturnStep DEF DiffNext
<1>2. DiffInv => DiffExplainsFailure
  BY DEF DiffInv
<1> QED
  BY <1>1, <1>2, DiffStarts, PTL DEF DiffSpec
=============================================================================
