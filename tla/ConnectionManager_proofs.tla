---------------------- MODULE ConnectionManager_proofs ----------------------
(***************************************************************************)
(* What TLAPS proves about the WebSocket fan-out, for any number of        *)
(* sockets, users and broadcasting tasks and any limit: the two structures *)
(* of the manager agree, the limit is only exceeded through overlapping    *)
(* handshakes, live clients stay tracked, no broadcast sends to a socket   *)
(* twice, and each removal makes a broadcast skip at most one client.      *)
(***************************************************************************)
EXTENDS ConnectionManager, TLAPS, FiniteSetTheorems, WellFoundedInduction

(***************************************************************************)
(* Induction on the natural numbers, for a set in place of a predicate: a  *)
(* set of naturals that is not empty has a smallest member.                *)
(***************************************************************************)
Less == {p \in Nat \X Nat : p[1] < p[2]}

LEMMA Smallest ==
  ASSUME NEW T \in SUBSET Nat, T # {}
  PROVE  \E x \in T : \A y \in T : x <= y
<1>1. IsWellFoundedOn(Less, Nat)
  BY NatLessThanWellFounded, Zenon DEF OpToRel, Less
<1>2. PICK x \in T : \A y \in T : ~(<<y, x>> \in Less)
  BY <1>1, WFMin
<1>3. ASSUME NEW y \in T
      PROVE  x <= y
  <2>1. <<y, x>> \in Nat \X Nat
    OBVIOUS
  <2>2. QED
    BY <1>2, <2>1 DEF Less
<1>4. QED
  BY <1>2, <1>3

LEMMA Induction ==
  ASSUME NEW T, 0 \in T, \A n \in Nat : n \in T => n + 1 \in T
  PROVE  Nat \subseteq T
<1>1. SUFFICES ASSUME Nat \ T # {}
               PROVE  FALSE
  OBVIOUS
<1>2. PICK x \in Nat \ T : \A y \in Nat \ T : x <= y
  BY <1>1, Smallest
<1>3. x # 0 /\ x - 1 \in Nat
  BY <1>2
<1>4. QED
  BY <1>2, <1>3
-----------------------------------------------------------------------------
(***************************************************************************)
(* Without(list, gone) reads the list from left to right. f[i] is what it  *)
(* has kept of the first i elements.                                       *)
(***************************************************************************)
Kept(before, e, gone) == IF e \in gone THEN before ELSE Append(before, e)

Filters(f, n, list, gone) ==
  /\ f[0] = <<>>
  /\ \A i \in 1 .. n : f[i] = Kept(f[i - 1], list[i], gone)

LEMMA FiltersExists ==
  ASSUME NEW S, NEW list \in Seq(S), NEW gone
  PROVE  \E f : /\ f = [i \in 0 .. Len(list) |-> f[i]]
                /\ Filters(f, Len(list), list, gone)
<1> DEFINE T == {n \in Nat : \E f : Filters(f, n, list, gone)}
<1>1. 0 \in T
  <2> DEFINE f0 == [i \in 0 .. 0 |-> <<>>]
  <2>1. Filters(f0, 0, list, gone)
    BY DEF Filters
  <2>2. QED
    BY <2>1
<1>2. ASSUME NEW n \in Nat, n \in T
      PROVE  n + 1 \in T
  <2>1. PICK f : Filters(f, n, list, gone)
    BY <1>2
  <2> DEFINE v == Kept(f[n], list[n + 1], gone)
             g == [i \in 0 .. n + 1 |-> IF i = n + 1 THEN v ELSE f[i]]
  <2>2. /\ \A i \in 0 .. n : g[i] = f[i]
        /\ g[n + 1] = v
    OBVIOUS
  <2> HIDE DEF g
  <2>3. ASSUME NEW i \in 1 .. n
        PROVE  g[i] = Kept(g[i - 1], list[i], gone)
    <3>1. f[i] = Kept(f[i - 1], list[i], gone)
      BY <2>1 DEF Filters
    <3>2. i \in 0 .. n /\ i - 1 \in 0 .. n
      OBVIOUS
    <3>3. QED
      BY <3>1, <3>2, <2>2
  <2>4. g[0] = <<>>
    BY <2>1, <2>2 DEF Filters
  <2>5. g[n + 1] = Kept(g[n + 1 - 1], list[n + 1], gone)
    BY <2>2
  <2>6. Filters(g, n + 1, list, gone)
    BY <2>3, <2>4, <2>5 DEF Filters
  <2>7. QED
    BY <2>6
<1>3. Nat \subseteq T
  BY <1>1, <1>2, Induction
<1>4. PICK f : Filters(f, Len(list), list, gone)
  BY <1>3
<1> DEFINE g == [i \in 0 .. Len(list) |-> f[i]]
<1>5. \A i \in 0 .. Len(list) : g[i] = f[i]
  OBVIOUS
<1>6. g = [i \in 0 .. Len(list) |-> g[i]]
  OBVIOUS
<1> HIDE DEF g
<1>7. ASSUME NEW i \in 1 .. Len(list)
      PROVE  g[i] = Kept(g[i - 1], list[i], gone)
  <2>1. f[i] = Kept(f[i - 1], list[i], gone)
    BY <1>4 DEF Filters
  <2>2. i \in 0 .. Len(list) /\ i - 1 \in 0 .. Len(list)
    OBVIOUS
  <2>3. QED
    BY <2>1, <2>2, <1>5
<1>8. Filters(g, Len(list), list, gone)
  BY <1>4, <1>5, <1>7 DEF Filters
<1>9. QED
  BY <1>6, <1>8

LEMMA WithoutFilters ==
  ASSUME NEW S, NEW list \in Seq(S), NEW gone
  PROVE  \E f : /\ Filters(f, Len(list), list, gone)
                /\ Without(list, gone) = f[Len(list)]
<1> DEFINE Body(f, n) ==
             IF n = 0 THEN <<>>
             ELSE IF list[n] \in gone THEN f[n - 1] ELSE Append(f[n - 1], list[n])
           Solves(f) == f = [n \in 0 .. Len(list) |-> Body(f, n)]
           kept == CHOOSE f : Solves(f)
<1>1. \E f : Solves(f)
  <2>1. PICK f : /\ f = [i \in 0 .. Len(list) |-> f[i]]
                 /\ Filters(f, Len(list), list, gone)
    BY FiltersExists
  <2>2. ASSUME NEW n \in 0 .. Len(list)
        PROVE  f[n] = Body(f, n)
    <3>1. n = 0 \/ n \in 1 .. Len(list)
      OBVIOUS
    <3>2. QED
      BY <2>1, <3>1 DEF Filters, Kept
  <2> HIDE DEF Body
  <2>3. Solves(f)
    BY <2>1, <2>2
  <2>4. QED
    BY <2>3
<1>2. Solves(kept)
  BY <1>1
<1>3. Without(list, gone) = kept[Len(list)]
  BY DEF Without
<1> HIDE DEF kept
<1>4. \A n \in 0 .. Len(list) : kept[n] = Body(kept, n)
  <2> HIDE DEF Body
  <2>1. QED
    BY <1>2
<1>5. kept[0] = <<>>
  BY <1>4
<1>6. ASSUME NEW n \in 1 .. Len(list)
      PROVE  kept[n] = Kept(kept[n - 1], list[n], gone)
  BY <1>4 DEF Kept
<1>7. QED
  BY <1>3, <1>5, <1>6 DEF Filters

(***************************************************************************)
(* Where the kept elements w of the first n come from: the j-th is the     *)
(* h[j]-th of the list, in the same order; it moved to the left, by no     *)
(* more places than there are elements to drop; and nothing else is lost.  *)
(***************************************************************************)
Drop(n, list, gone) == {i \in 1 .. n : list[i] \in gone}

Places(h, w, n, list, gone) ==
  /\ h \in [1 .. Len(w) -> 1 .. n]
  /\ \A j \in 1 .. Len(w) :
       /\ w[j] = list[h[j]] /\ w[j] \notin gone
       /\ j <= h[j] /\ h[j] <= j + Cardinality(Drop(n, list, gone))
  /\ \A j, k \in 1 .. Len(w) : j < k => h[j] < h[k]
  /\ \A i \in 1 .. n : list[i] \notin gone => \E j \in 1 .. Len(w) : h[j] = i

Placed(w, n, list, gone, S) ==
  /\ w \in Seq(S)
  /\ Len(w) + Cardinality(Drop(n, list, gone)) = n
  /\ \E h : Places(h, w, n, list, gone)

LEMMA DropFinite ==
  ASSUME NEW n \in Nat, NEW list, NEW gone
  PROVE  /\ IsFiniteSet(Drop(n, list, gone))
         /\ Cardinality(Drop(n, list, gone)) \in Nat
<1>1. IsFiniteSet(1 .. n)
  BY FS_Interval
<1>2. Drop(n, list, gone) \in SUBSET (1 .. n)
  BY DEF Drop
<1>3. QED
  BY <1>1, <1>2, FS_Subset, FS_CardinalityType

LEMMA DropNext ==
  ASSUME NEW n \in Nat, NEW list, NEW gone
  PROVE  Cardinality(Drop(n + 1, list, gone)) =
           Cardinality(Drop(n, list, gone)) + (IF list[n + 1] \in gone THEN 1 ELSE 0)
<1>1. CASE list[n + 1] \in gone
  <2>1. Drop(n + 1, list, gone) = Drop(n, list, gone) \cup {n + 1}
    BY <1>1 DEF Drop
  <2>2. n + 1 \notin Drop(n, list, gone)
    BY DEF Drop
  <2>3. QED
    BY <1>1, <2>1, <2>2, DropFinite, FS_AddElement
<1>2. CASE list[n + 1] \notin gone
  <2>1. Drop(n + 1, list, gone) = Drop(n, list, gone)
    BY <1>2 DEF Drop
  <2>2. QED
    BY <1>2, <2>1, DropFinite
<1>3. QED
  BY <1>1, <1>2

LEMMA KeptPlaced ==
  ASSUME NEW S, NEW list \in Seq(S), NEW gone, NEW n \in Nat, n < Len(list),
         NEW w, Placed(w, n, list, gone, S)
  PROVE  Placed(Kept(w, list[n + 1], gone), n + 1, list, gone, S)
<1> DEFINE g == Cardinality(Drop(n, list, gone))
           e == list[n + 1]
<1>1. PICK h : Places(h, w, n, list, gone)
  BY DEF Placed
<1>2. /\ w \in Seq(S) /\ Len(w) \in Nat /\ g \in Nat /\ Len(w) + g = n
      /\ e \in S
  BY DropFinite DEF Placed
<1>h. /\ h \in [1 .. Len(w) -> 1 .. n]
      /\ \A j \in 1 .. Len(w) : h[j] \in 1 .. n /\ h[j] \in 1 .. n + 1
      /\ \A j, i \in 1 .. Len(w) : j < i => h[j] < h[i]
  <2>1. h \in [1 .. Len(w) -> 1 .. n]
    BY <1>1 DEF Places
  <2>2. \A j \in 1 .. Len(w) : h[j] \in 1 .. n /\ h[j] \in 1 .. n + 1
    BY <2>1
  <2>3. \A j, i \in 1 .. Len(w) : j < i => h[j] < h[i]
    BY <1>1 DEF Places
  <2>4. QED
    BY <2>1, <2>2, <2>3
<1>3. CASE e \in gone
  <2>1. Kept(w, e, gone) = w
    BY <1>3 DEF Kept
  <2>2. Cardinality(Drop(n + 1, list, gone)) = g + 1
    BY <1>3, <1>2, DropNext
  <2>a. h \in [1 .. Len(w) -> 1 .. n + 1]
    BY <1>h
  <2>b. ASSUME NEW j \in 1 .. Len(w)
        PROVE  h[j] <= j + Cardinality(Drop(n + 1, list, gone))
    BY <1>1, <1>2, <1>h, <2>2 DEF Places
  <2>c. ASSUME NEW i \in 1 .. n + 1, list[i] \notin gone
        PROVE  \E j \in 1 .. Len(w) : h[j] = i
    <3>1. i \in 1 .. n
      BY <2>c, <1>3
    <3>2. QED
      BY <3>1, <2>c, <1>1 DEF Places
  <2>3. Places(h, w, n + 1, list, gone)
    BY <1>1, <2>a, <2>b, <2>c DEF Places
  <2>4. QED
    BY <1>2, <2>1, <2>2, <2>3 DEF Placed
<1>4. CASE e \notin gone
  <2> DEFINE x == Append(w, e)
             last == Len(w) + 1
             k == [j \in 1 .. last |-> IF j = last THEN n + 1 ELSE h[j]]
  <2>1. Kept(w, e, gone) = x
    BY <1>4 DEF Kept
  <2>2. Cardinality(Drop(n + 1, list, gone)) = g
    BY <1>4, <1>2, DropNext
  <2>3. /\ x \in Seq(S) /\ Len(x) = last /\ x[last] = e
        /\ \A j \in 1 .. Len(w) : x[j] = w[j]
    BY <1>2
  <2>d. /\ \A j \in 1 .. Len(w) : j \in 1 .. last /\ k[j] = h[j] /\ h[j] \in 1 .. n
        /\ k[last] = n + 1
    BY <1>h, <1>2
  <2>e. \A j \in 1 .. last : k[j] \in 1 .. n + 1
    BY <1>h, <1>2
  <2>4. /\ k \in [1 .. last -> 1 .. n + 1] /\ k[last] = n + 1
        /\ \A j \in 1 .. Len(w) : k[j] = h[j] /\ h[j] \in 1 .. n
    BY <2>d, <2>e
  <2> HIDE DEF x, k
  <2>5. ASSUME NEW j \in 1 .. last
        PROVE  /\ x[j] = list[k[j]] /\ x[j] \notin gone
               /\ j <= k[j] /\ k[j] <= j + g
    <3>1. CASE j = last
      BY <3>1, <1>2, <1>4, <2>3, <2>4
    <3>2. CASE j \in 1 .. Len(w)
      BY <3>2, <1>1, <2>3, <2>4 DEF Places
    <3>3. QED
      BY <3>1, <3>2, <1>2
  <2>6. ASSUME NEW i \in 1 .. last, NEW j \in 1 .. last, i < j
        PROVE  k[i] < k[j]
    <3>1. i \in 1 .. Len(w)
      BY <2>6, <1>2
    <3>2. CASE j = last
      <4>1. k[i] = h[i] /\ h[i] \in 1 .. n
        BY <3>1, <2>4
      <4>2. k[j] = n + 1
        BY <3>2, <2>4
      <4>3. QED
        BY <4>1, <4>2
    <3>3. CASE j \in 1 .. Len(w)
      <4>1. h[i] < h[j]
        BY <3>1, <3>3, <2>6, <1>h
      <4>2. k[i] = h[i] /\ k[j] = h[j]
        BY <3>1, <3>3, <2>4
      <4>3. QED
        BY <4>1, <4>2
    <3>4. QED
      BY <3>2, <3>3, <1>2
  <2>7. ASSUME NEW i \in 1 .. n + 1, list[i] \notin gone
        PROVE  \E j \in 1 .. last : k[j] = i
    <3>1. CASE i = n + 1
      BY <3>1, <1>2, <2>4
    <3>2. CASE i \in 1 .. n
      <4>1. PICK j \in 1 .. Len(w) : h[j] = i
        BY <3>2, <2>7, <1>1 DEF Places
      <4>2. QED
        BY <4>1, <2>4, <1>2
    <3>3. QED
      BY <3>1, <3>2
  <2>8. Places(k, x, n + 1, list, gone)
    BY <1>2, <2>2, <2>3, <2>4, <2>5, <2>6, <2>7 DEF Places
  <2>9. QED
    BY <1>2, <2>1, <2>2, <2>3, <2>8 DEF Placed
<1>5. QED
  BY <1>3, <1>4

LEMMA WithoutPlaced ==
  ASSUME NEW S, NEW list \in Seq(S), NEW gone
  PROVE  Placed(Without(list, gone), Len(list), list, gone, S)
<1>1. PICK f : /\ Filters(f, Len(list), list, gone)
               /\ Without(list, gone) = f[Len(list)]
  BY WithoutFilters
<1> DEFINE T == {n \in Nat : n <= Len(list) => Placed(f[n], n, list, gone, S)}
<1>2. 0 \in T
  <2>1. f[0] = <<>> /\ <<>> \in Seq(S) /\ Len(<<>>) = 0
    BY <1>1 DEF Filters
  <2>2. Drop(0, list, gone) = {}
    BY DEF Drop
  <2>3. Cardinality(Drop(0, list, gone)) = 0
    BY <2>2, FS_EmptySet
  <2> DEFINE none == [j \in 1 .. 0 |-> j]
  <2>4. none \in [1 .. 0 -> 1 .. 0]
    OBVIOUS
  <2> HIDE DEF none
  <2>5. Places(none, <<>>, 0, list, gone)
    BY <2>1, <2>4 DEF Places
  <2>6. Placed(<<>>, 0, list, gone, S)
    BY <2>1, <2>3, <2>5 DEF Placed
  <2>7. QED
    BY <2>1, <2>6
<1>3. ASSUME NEW n \in Nat, n \in T
      PROVE  n + 1 \in T
  <2>1. SUFFICES ASSUME n + 1 <= Len(list)
                 PROVE  Placed(f[n + 1], n + 1, list, gone, S)
    OBVIOUS
  <2>2. n < Len(list) /\ Placed(f[n], n, list, gone, S)
    BY <1>3, <2>1
  <2>3. n + 1 \in 1 .. Len(list) /\ (n + 1) - 1 = n
    BY <2>1
  <2>4. f[n + 1] = Kept(f[n], list[n + 1], gone)
    BY <1>1, <2>3 DEF Filters
  <2>5. QED
    BY <2>2, <2>4, KeptPlaced
<1>4. Nat \subseteq T
  BY <1>2, <1>3, Induction
<1>5. QED
  BY <1>1, <1>4

(***************************************************************************)
(* What the rest of the proofs uses of it: exactly the removed elements    *)
(* are missing, none is doubled, nothing moves to the right, and at most   *)
(* as many elements pass a given position k from the right as are removed. *)
(***************************************************************************)
LEMMA WithoutFacts ==
  ASSUME NEW S, NEW list \in Seq(S), NEW gone
  PROVE  /\ Without(list, gone) \in Seq(S)
         /\ Tracked(Without(list, gone)) = Tracked(list) \ gone
         /\ IsInjective(list) => IsInjective(Without(list, gone))
<1> DEFINE w == Without(list, gone)
           n == Len(list)
<1>1. Placed(w, n, list, gone, S)
  BY WithoutPlaced
<1> HIDE DEF w
<1>2. PICK h : Places(h, w, n, list, gone)
  BY <1>1 DEF Placed
<1>3. /\ w \in Seq(S) /\ Len(w) \in Nat /\ DOMAIN w = 1 .. Len(w)
      /\ n \in Nat /\ DOMAIN list = 1 .. n
  BY <1>1 DEF Placed
<1>4. /\ \A j \in 1 .. Len(w) : h[j] \in 1 .. n
      /\ \A j \in 1 .. Len(w) : w[j] = list[h[j]] /\ w[j] \notin gone /\ j <= h[j]
      /\ \A j, k \in 1 .. Len(w) : j < k => h[j] < h[k]
  BY <1>2 DEF Places
<1>5. \A i \in 1 .. n : list[i] \notin gone => \E j \in 1 .. Len(w) : h[j] = i
  BY <1>2 DEF Places
<1>6. Tracked(w) = Tracked(list) \ gone
  <2>1. ASSUME NEW j \in 1 .. Len(w)
        PROVE  w[j] \in Tracked(list) \ gone
    BY <1>3, <1>4 DEF Tracked, ToSet
  <2>2. ASSUME NEW i \in 1 .. n, list[i] \notin gone
        PROVE  list[i] \in Tracked(w)
    <3>1. PICK j \in 1 .. Len(w) : h[j] = i
      BY <2>2, <1>5
    <3>2. w[j] = list[i]
      BY <3>1, <1>4
    <3>3. QED
      BY <3>2, <1>3 DEF Tracked, ToSet
  <2>3. QED
    BY <2>1, <2>2, <1>3 DEF Tracked, ToSet
<1>7. ASSUME IsInjective(list)
      PROVE  IsInjective(w)
  <2>1. ASSUME NEW j \in 1 .. Len(w), NEW k \in 1 .. Len(w), w[j] = w[k]
        PROVE  j = k
    <3>1. list[h[j]] = list[h[k]] /\ h[j] \in 1 .. n /\ h[k] \in 1 .. n
      BY <2>1, <1>4
    <3>2. h[j] = h[k]
      BY <3>1, <1>3, <1>7 DEF IsInjective
    <3>3. QED
      BY <3>1, <3>2, <1>3, <1>4
  <2>2. QED
    BY <2>1, <1>3 DEF IsInjective
<1>8. QED
  BY <1>3, <1>6, <1>7 DEF w

From(list, k) == {list[i] : i \in k .. Len(list)}

LEMMA WithoutMovesLeft ==
  ASSUME NEW S, NEW list \in Seq(S), NEW gone, NEW k \in Nat \ {0}
  PROVE  From(Without(list, gone), k) \subseteq From(list, k)
<1> DEFINE w == Without(list, gone)
           n == Len(list)
<1>1. Placed(w, n, list, gone, S)
  BY WithoutPlaced
<1> HIDE DEF w
<1>2. SUFFICES ASSUME NEW j \in k .. Len(w)
               PROVE  w[j] \in From(list, k)
  BY DEF From, w
<1>3. PICK h : Places(h, w, n, list, gone)
  BY <1>1 DEF Placed
<1>4. w \in Seq(S) /\ Len(w) \in Nat /\ n \in Nat
  BY <1>1 DEF Placed
<1>5. j \in 1 .. Len(w)
  BY <1>2, <1>4
<1>6. h[j] \in 1 .. n /\ j <= h[j] /\ w[j] = list[h[j]]
  BY <1>3, <1>5 DEF Places
<1>7. h[j] \in k .. n
  BY <1>2, <1>4, <1>6
<1>8. QED
  BY <1>6, <1>7 DEF From

Passing(k, list, gone, S) ==
  {s \in S \ gone :
     /\ \E i \in k .. Len(list) : list[i] = s
     /\ \A j \in k .. Len(Without(list, gone)) : Without(list, gone)[j] # s}

LEMMA FewPass ==
  ASSUME NEW S, IsFiniteSet(S), NEW list \in Seq(S), IsInjective(list),
         NEW gone, NEW k \in Nat \ {0}
  PROVE  /\ IsFiniteSet(Passing(k, list, gone, S))
         /\ Cardinality(Passing(k, list, gone, S)) <= Cardinality(gone \cap Tracked(list))
<1> DEFINE w == Without(list, gone)
           n == Len(list)
           D == Drop(n, list, gone)
           g == Cardinality(D)
           M == Passing(k, list, gone, S)
           I == (k - g) .. (k - 1)
<1>1. Placed(w, n, list, gone, S)
  BY WithoutPlaced
<1>2. n \in Nat /\ DOMAIN list = 1 .. n /\ IsFiniteSet(D) /\ g \in Nat
  BY DropFinite
<1>3. PICK h : Places(h, w, n, list, gone)
  BY <1>1 DEF Placed
<1>4. w \in Seq(S) /\ Len(w) \in Nat
  BY <1>1 DEF Placed
<1>5. ASSUME NEW s \in M
      PROVE  \E j \in I : w[j] = s
  <2>1. PICK i \in k .. n : list[i] = s
    BY DEF Passing
  <2>2. i \in 1 .. n /\ list[i] \notin gone
    BY <2>1, <1>2 DEF Passing
  <2>3. PICK j \in 1 .. Len(w) : h[j] = i
    BY <2>2, <1>3 DEF Places
  <2>4. w[j] = s /\ i <= j + g
    BY <2>1, <2>3, <1>3 DEF Places
  <2>5. j \notin k .. Len(w)
    BY <2>4 DEF Passing
  <2>6. j \in I
    BY <2>1, <2>3, <2>4, <2>5, <1>2, <1>4
  <2>7. QED
    BY <2>4, <2>6
<1>6. IsFiniteSet(I) /\ Cardinality(I) = g
  <2>1. k - g \in Int /\ k - 1 \in Int
    BY <1>2
  <2>2. /\ IsFiniteSet(I)
        /\ Cardinality(I) = IF k - g > k - 1 THEN 0 ELSE (k - 1) - (k - g) + 1
    BY <2>1, FS_Interval
  <2>3. QED
    BY <2>2, <1>2
<1> HIDE DEF w, n, D, g, M, I
<1>7. IsFiniteSet(M) /\ Cardinality(M) <= g
  <2> DEFINE f == [s \in M |-> CHOOSE j \in I : w[j] = s]
  <2>1. \A s \in M : f[s] \in I /\ w[f[s]] = s
    BY <1>5
  <2>2. f \in [M -> I]
    BY <2>1
  <2> HIDE DEF f
  <2>3. f \in Injection(M, I)
    BY <2>1, <2>2 DEF Injection, IsInjective
  <2>4. QED
    BY <2>3, <1>6, FS_Injection
<1>8. /\ g <= Cardinality(gone \cap Tracked(list))
      /\ Cardinality(gone \cap Tracked(list)) \in Nat
  <2> DEFINE G == gone \cap Tracked(list)
             f == [i \in D |-> list[i]]
  <2>1. IsFiniteSet(G)
    <3>1. G \in SUBSET S
      BY <1>2 DEF Tracked, ToSet, n
    <3>2. QED
      BY <3>1, FS_Subset
  <2>2. \A i \in D : i \in 1 .. n /\ list[i] \in G
    BY <1>2 DEF D, Drop, Tracked, ToSet
  <2>3. f \in [D -> G]
    BY <2>2
  <2>4. \A i, j \in D : f[i] = f[j] => i = j
    BY <2>2, <1>2 DEF IsInjective
  <2> HIDE DEF f, G
  <2>5. f \in Injection(D, G)
    BY <2>3, <2>4 DEF Injection, IsInjective
  <2>6. g <= Cardinality(G)
    BY <2>1, <2>5, FS_Injection DEF g
  <2>7. QED
    BY <2>1, <2>6, FS_CardinalityType DEF G
<1>9. QED
  BY <1>2, <1>7, <1>8, FS_CardinalityType DEF M, g, D
-----------------------------------------------------------------------------
(***************************************************************************)
(* The invariant. A socket is tracked only while its endpoint runs and, as *)
(* long as its client is there, it is; a broadcast removes only those      *)
(* whose clients are gone.                                                 *)
(***************************************************************************)
Turn == {Idle} \cup [state : {"sending"}, next : Nat \ {0}, target : Sockets,
                     failed : SUBSET Sockets]

Notes == [sent : SUBSET Sockets, owed : SUBSET Sockets, removals : Nat]

Books ==
  /\ bc \in [Broadcasters -> Turn]
  /\ seen \in [broadcast : [Broadcasters -> Notes], overlapped : [Users -> BOOLEAN]]

Running == {"greeting", "receiving"}

TrackedRuns == \A s \in Tracked(active) : pc[s] \in Running

FailedAreGone ==
  \A b \in Broadcasters : bc[b].state = "sending" =>
    \A s \in bc[b].failed : ~up[s]

Structures ==
  /\ StructuresAgree /\ Books
  /\ TrackedRuns /\ FailedAreGone /\ LiveClientsTracked

(***************************************************************************)
(* Until two handshakes of a user have overlapped, a handshake is alone    *)
(* and was admitted below the limit.                                       *)
(***************************************************************************)
RoomForHandshake ==
  \A u \in Users : ~seen.overlapped[u] =>
    \A s \in Accepting(u) :
      /\ Accepting(u) = {s}
      /\ Cardinality(userConns[u]) < MAX_CONNECTIONS_PER_USER

Limits == LimitUnlessOverlap /\ RoomForHandshake

(***************************************************************************)
(* What a broadcast has sent to is past its handshake, so that what joins  *)
(* later is new to it.                                                     *)
(***************************************************************************)
SentAccepted ==
  \A b \in Broadcasters : \A s \in seen.broadcast[b].sent :
    pc[s] \in Running \cup {"closed"}

Sends == SentAccepted /\ NoDoubleSend /\ EachRemovalSkipsAtMostOne

IInv == Structures /\ Limits /\ Sends

(***************************************************************************)
(* What the actions do, in terms of the places they change.                *)
(***************************************************************************)
LEMMA SequenceFacts ==
  ASSUME NEW list \in Seq(Sockets)
  PROVE  /\ Len(list) \in Nat /\ DOMAIN list = 1 .. Len(list)
         /\ \A i \in 1 .. Len(list) : list[i] \in Sockets /\ list[i] \in Tracked(list)
         /\ Tracked(list) \subseteq Sockets
         /\ \A s \in Tracked(list) : \E i \in 1 .. Len(list) : list[i] = s
         /\ list # <<>> => 1 \in 1 .. Len(list) /\ Head(list) = list[1]
  BY DEF Tracked, ToSet

LEMMA AppendFacts ==
  ASSUME NEW list \in Seq(Sockets), NEW s \in Sockets
  PROVE  /\ Append(list, s) \in Seq(Sockets)
         /\ Len(Append(list, s)) = Len(list) + 1
         /\ Append(list, s)[Len(list) + 1] = s
         /\ \A i \in 1 .. Len(list) : Append(list, s)[i] = list[i]
         /\ Tracked(Append(list, s)) = Tracked(list) \cup {s}
         /\ IsInjective(list) /\ s \notin Tracked(list) => IsInjective(Append(list, s))
<1> DEFINE l == Append(list, s)
<1>1. /\ l \in Seq(Sockets) /\ Len(l) = Len(list) + 1 /\ l[Len(list) + 1] = s
      /\ \A i \in 1 .. Len(list) : l[i] = list[i]
  OBVIOUS
<1>2. Len(list) \in Nat /\ DOMAIN list = 1 .. Len(list) /\ DOMAIN l = 1 .. Len(list) + 1
  BY <1>1
<1> HIDE DEF l
<1>3. Tracked(l) = Tracked(list) \cup {s}
  BY <1>1, <1>2 DEF Tracked, ToSet
<1>4. ASSUME IsInjective(list), s \notin Tracked(list)
      PROVE  IsInjective(l)
  <2>1. ASSUME NEW i \in 1 .. Len(list) + 1, NEW j \in 1 .. Len(list) + 1, l[i] = l[j]
        PROVE  i = j
    <3>1. \A k \in 1 .. Len(list) : list[k] # s
      BY <1>2, <1>4 DEF Tracked, ToSet
    <3>2. \A k, m \in 1 .. Len(list) : list[k] = list[m] => k = m
      BY <1>2, <1>4 DEF IsInjective
    <3>3. QED
      BY <3>1, <3>2, <2>1, <1>1, <1>2
  <2>2. QED
    BY <2>1, <1>2 DEF IsInjective
<1>5. QED
  BY <1>1, <1>3, <1>4 DEF l

LEMMA NoteRemovalFacts ==
  ASSUME NEW h \in [Broadcasters -> Notes], Books, active \in Seq(Sockets),
         NEW gone \in SUBSET Sockets
  PROVE  /\ NoteRemoval(h, gone) \in [Broadcasters -> Notes]
         /\ \A b \in Broadcasters :
              NoteRemoval(h, gone)[b] =
                IF bc[b].state = "idle" THEN h[b]
                ELSE [sent |-> h[b].sent \ gone, owed |-> h[b].owed \ gone,
                      removals |-> h[b].removals + Cardinality(gone \cap Tracked(active))]
<1> DEFINE c == Cardinality(gone \cap Tracked(active))
<1>1. c \in Nat
  <2>1. gone \cap Tracked(active) \in SUBSET Sockets
    OBVIOUS
  <2>2. QED
    BY <2>1, ManagerAssumption, FS_Subset, FS_CardinalityType
<1> HIDE DEF c
<1>2. ASSUME NEW b \in Broadcasters
      PROVE  [sent |-> h[b].sent \ gone, owed |-> h[b].owed \ gone,
              removals |-> h[b].removals + c] \in Notes
  <2>1. h[b] \in Notes
    OBVIOUS
  <2>2. QED
    BY <2>1, <1>1 DEF Notes
<1>3. QED
  BY <1>2 DEF NoteRemoval, c

LEMMA YieldFacts ==
  ASSUME Structures, NEW b \in Broadcasters, NEW i \in 1 .. Len(active),
         NEW failed \in SUBSET Sockets, Yield(b, i, failed)
  PROVE  /\ Books'
         /\ bc'[b] = [state |-> "sending", next |-> i + 1, target |-> active[i],
                      failed |-> failed]
         /\ seen'.overlapped = seen.overlapped
         /\ seen'.broadcast[b] =
              [sent |-> seen.broadcast[b].sent \cup {active[i]},
               owed |-> seen.broadcast[b].owed \ {active[i]},
               removals |-> seen.broadcast[b].removals]
         /\ \A a \in Broadcasters \ {b} :
              bc'[a] = bc[a] /\ seen'.broadcast[a] = seen.broadcast[a]
<1>1. active[i] \in Sockets /\ i + 1 \in Nat \ {0}
  BY SequenceFacts DEF Structures, StructuresAgree, TypeOK
<1>2. /\ bc \in [Broadcasters -> Turn] /\ seen.broadcast[b] \in Notes
      /\ seen.broadcast \in [Broadcasters -> Notes] /\ seen.overlapped \in [Users -> BOOLEAN]
      /\ seen = [broadcast |-> seen.broadcast, overlapped |-> seen.overlapped]
  BY DEF Structures, Books
<1> DEFINE now == [state |-> "sending", next |-> i + 1, target |-> active[i],
                   failed |-> failed]
           note == [sent |-> seen.broadcast[b].sent \cup {active[i]},
                    owed |-> seen.broadcast[b].owed \ {active[i]},
                    removals |-> seen.broadcast[b].removals]
<1>3. now \in Turn /\ note \in Notes
  BY <1>1, <1>2 DEF Turn, Notes
<1>4. bc' = [bc EXCEPT ![b] = now]
  BY DEF Yield
<1>5. seen' = [broadcast |-> [seen.broadcast EXCEPT ![b] = note],
               overlapped |-> seen.overlapped]
  BY <1>2 DEF Yield, Notes
<1> HIDE DEF now, note
<1>6. QED
  BY <1>2, <1>3, <1>4, <1>5 DEF Books, now, note

LEMMA StartFacts ==
  ASSUME Structures, NEW b \in Broadcasters, BroadcastStarts(b)
  PROVE  /\ Books' /\ 1 \in 1 .. Len(active)
         /\ bc'[b] = [state |-> "sending", next |-> 2, target |-> active[1], failed |-> {}]
         /\ seen'.overlapped = seen.overlapped
         /\ seen'.broadcast[b] =
              [sent |-> {active[1]}, owed |-> Tracked(active) \ {active[1]}, removals |-> 0]
         /\ \A a \in Broadcasters \ {b} :
              bc'[a] = bc[a] /\ seen'.broadcast[a] = seen.broadcast[a]
<1>1. /\ active \in Seq(Sockets) /\ 1 \in 1 .. Len(active) /\ Head(active) = active[1]
      /\ active[1] \in Sockets /\ Tracked(active) \subseteq Sockets
  BY SequenceFacts DEF Structures, StructuresAgree, TypeOK, BroadcastStarts
<1>2. /\ bc \in [Broadcasters -> Turn]
      /\ seen.broadcast \in [Broadcasters -> Notes] /\ seen.overlapped \in [Users -> BOOLEAN]
      /\ seen = [broadcast |-> seen.broadcast, overlapped |-> seen.overlapped]
  BY DEF Structures, Books
<1> DEFINE now == [state |-> "sending", next |-> 2, target |-> active[1], failed |-> {}]
           note == [sent |-> {active[1]}, owed |-> Tracked(active) \ {active[1]},
                    removals |-> 0]
<1>3. now \in Turn /\ note \in Notes
  BY <1>1 DEF Turn, Notes
<1>4. bc' = [bc EXCEPT ![b] = now]
  BY <1>1 DEF BroadcastStarts
<1>5. seen' = [broadcast |-> [seen.broadcast EXCEPT ![b] = note],
               overlapped |-> seen.overlapped]
  BY <1>1, <1>2 DEF BroadcastStarts
<1> HIDE DEF now, note
<1>6. QED
  BY <1>1, <1>2, <1>3, <1>4, <1>5 DEF Books, now, note

LEMMA CleanUpFacts ==
  ASSUME Structures, NEW b \in Broadcasters, NEW failed \in SUBSET Sockets,
         CleanUp(b, failed)
  PROVE  /\ Books' /\ bc'[b] = Idle
         /\ seen'.overlapped = seen.overlapped
         /\ seen'.broadcast[b] = NothingSeen
         /\ \A a \in Broadcasters \ {b} :
              /\ bc'[a] = bc[a]
              /\ seen'.broadcast[a] = NoteRemoval(seen.broadcast, failed)[a]
<1>1. /\ bc \in [Broadcasters -> Turn]
      /\ seen.broadcast \in [Broadcasters -> Notes] /\ seen.overlapped \in [Users -> BOOLEAN]
      /\ seen = [broadcast |-> seen.broadcast, overlapped |-> seen.overlapped]
  BY DEF Structures, Books
<1>2. NoteRemoval(seen.broadcast, failed) \in [Broadcasters -> Notes]
  BY <1>1, NoteRemovalFacts DEF Structures, StructuresAgree, TypeOK
<1>3. Idle \in Turn /\ NothingSeen \in Notes
  BY DEF Turn, Notes, NothingSeen
<1> DEFINE h == NoteRemoval(seen.broadcast, failed)
<1>4. bc' = [bc EXCEPT ![b] = Idle]
  BY DEF CleanUp
<1>5. seen' = [seen EXCEPT !.broadcast = [h EXCEPT ![b] = NothingSeen]]
  BY DEF CleanUp
<1> HIDE DEF h
<1>6. seen' = [broadcast |-> [h EXCEPT ![b] = NothingSeen], overlapped |-> seen.overlapped]
  BY <1>1, <1>5
<1>7. QED
  BY <1>1, <1>2, <1>3, <1>4, <1>6 DEF Books, h

LEMMA EndFacts ==
  ASSUME Structures, NEW s \in Sockets, EndpointEnds(s)
  PROVE  /\ Books' /\ bc' = bc
         /\ seen'.overlapped = seen.overlapped
         /\ \A a \in Broadcasters :
              seen'.broadcast[a] = NoteRemoval(seen.broadcast, {s})[a]
<1>1. /\ bc \in [Broadcasters -> Turn]
      /\ seen.broadcast \in [Broadcasters -> Notes] /\ seen.overlapped \in [Users -> BOOLEAN]
      /\ seen = [broadcast |-> seen.broadcast, overlapped |-> seen.overlapped]
  BY DEF Structures, Books
<1>2. NoteRemoval(seen.broadcast, {s}) \in [Broadcasters -> Notes]
  BY <1>1, NoteRemovalFacts DEF Structures, StructuresAgree, TypeOK
<1> DEFINE h == NoteRemoval(seen.broadcast, {s})
<1>3. seen' = [seen EXCEPT !.broadcast = h] /\ bc' = bc
  BY DEF EndpointEnds
<1> HIDE DEF h
<1>4. seen' = [broadcast |-> h, overlapped |-> seen.overlapped]
  BY <1>1, <1>3
<1>5. QED
  BY <1>1, <1>2, <1>3, <1>4 DEF Books, h

LEMMA AdmitFacts ==
  ASSUME Structures, NEW s \in Sockets, Admit(s)
  PROVE  /\ Books' /\ bc' = bc
         /\ seen'.broadcast = seen.broadcast
         /\ seen'.overlapped = [seen.overlapped EXCEPT ![Owner[s]] =
                                  @ \/ Accepting(Owner[s]) # {}]
<1>1. /\ bc \in [Broadcasters -> Turn]
      /\ seen.broadcast \in [Broadcasters -> Notes] /\ seen.overlapped \in [Users -> BOOLEAN]
      /\ seen = [broadcast |-> seen.broadcast, overlapped |-> seen.overlapped]
  BY DEF Structures, Books
<1>2. Owner[s] \in Users
  BY ManagerAssumption
<1> DEFINE more == seen.overlapped[Owner[s]] \/ Accepting(Owner[s]) # {}
<1>3. more \in BOOLEAN
  BY <1>1, <1>2
<1>4. seen' = [seen EXCEPT !.overlapped[Owner[s]] = more] /\ bc' = bc
  BY DEF Admit
<1> HIDE DEF more
<1>5. seen' = [broadcast |-> seen.broadcast,
               overlapped |-> [seen.overlapped EXCEPT ![Owner[s]] = more]]
  BY <1>1, <1>4
<1>6. Books'
  BY <1>1, <1>2, <1>3, <1>4, <1>5 DEF Books
<1>7. seen'.overlapped = [seen.overlapped EXCEPT ![Owner[s]] = more]
  BY <1>5
<1>8. seen'.broadcast = seen.broadcast
  BY <1>5
<1>9. QED
  BY <1>4, <1>6, <1>7, <1>8, Zenon DEF more

(***************************************************************************)
(* A step of a broadcast under way sends to the next socket or cleans up;  *)
(* the sockets whose sends have failed are without a client.               *)
(***************************************************************************)
LEMMA BroadcastStep ==
  ASSUME Structures, NEW b \in Broadcasters, SendOk(b) \/ SendFails(b)
  PROVE  /\ bc[b].state = "sending" /\ bc[b].next \in Nat \ {0}
         /\ UNCHANGED <<pc, up>>
         /\ \E failed \in SUBSET Sockets :
              /\ \A s \in failed : ~up[s]
              /\ \/ bc[b].next \in 1 .. Len(active) /\ Yield(b, bc[b].next, failed)
                 \/ bc[b].next > Len(active) /\ CleanUp(b, failed)
<1>1. bc[b] \in Turn /\ bc[b].state = "sending" /\ UNCHANGED <<pc, up>>
  BY DEF Structures, Books, SendOk, SendFails
<1>2. /\ bc[b].next \in Nat \ {0} /\ bc[b].target \in Sockets
      /\ bc[b].failed \in SUBSET Sockets
  BY <1>1 DEF Turn, Idle
<1>3. \A s \in bc[b].failed : ~up[s]
  BY <1>1 DEF Structures, FailedAreGone
<1>4. PICK failed \in SUBSET Sockets : /\ \A s \in failed : ~up[s]
                                       /\ Advance(b, bc[b].next, failed)
  <2>1. CASE SendOk(b)
    BY <2>1, <1>2, <1>3 DEF SendOk
  <2>2. CASE SendFails(b)
    <3>1. bc[b].failed \cup {bc[b].target} \in SUBSET Sockets
      BY <1>2
    <3>2. \A s \in bc[b].failed \cup {bc[b].target} : ~up[s]
      BY <2>2, <1>3 DEF SendFails
    <3>3. QED
      BY <3>1, <3>2, <2>2 DEF SendFails
  <2>3. QED
    BY <2>1, <2>2
<1>5. Len(active) \in Nat
  BY SequenceFacts DEF Structures, StructuresAgree, TypeOK
<1>6. QED
  BY <1>1, <1>2, <1>4, <1>5 DEF Advance
-----------------------------------------------------------------------------
(***************************************************************************)
(* The structures.                                                         *)
(***************************************************************************)
Places5 == {"new", "accepting", "greeting", "receiving", "closed"}

Tables(p, u, list, conns) ==
  /\ p \in [Sockets -> Places5] /\ u \in [Sockets -> BOOLEAN]
  /\ list \in Seq(Sockets) /\ IsInjective(list)
  /\ conns \in [Users -> SUBSET Sockets]
  /\ \A x \in Users : conns[x] = {s \in Tracked(list) : Owner[s] = x}

LEMMA StructuresTables == Structures => Tables(pc, up, active, userConns)
BY DEF Structures, StructuresAgree, TypeOK, Tables, Places5

LEMMA TurnType ==
  ASSUME NEW x \in Turn
  PROVE  \/ x = Idle
         \/ x \in [state : {"sending"}, next : Nat, target : Sockets,
                   failed : SUBSET Sockets]
BY DEF Turn

LEMMA TablesAgree ==
  /\ Tables(pc, up, active, userConns) /\ Books => StructuresAgree
  /\ Tables(pc', up', active', userConns') /\ Books' => StructuresAgree'
<1>1. ASSUME Tables(pc, up, active, userConns), Books
      PROVE  StructuresAgree
  BY <1>1, TurnType DEF Books, StructuresAgree, TypeOK, Tables, Places5
<1>2. ASSUME Tables(pc', up', active', userConns'), Books'
      PROVE  StructuresAgree'
  BY <1>2, TurnType DEF Books, StructuresAgree, TypeOK, Tables, Places5
<1>3. QED
  BY <1>1, <1>2

LEMMA NothingToClean ==
  ASSUME Structures, NEW u \in Users
  PROVE  /\ Cleaned(userConns, u, active) = userConns[u]
         /\ [userConns EXCEPT ![u] = Cleaned(userConns, u, active)] = userConns
<1>1. Tables(pc, up, active, userConns)
  BY StructuresTables
<1>2. Cleaned(userConns, u, active) = userConns[u]
  BY <1>1 DEF Tables, Cleaned
<1>3. QED
  BY <1>1, <1>2 DEF Tables

LEMMA StructuresInit == Init => Structures
<1> SUFFICES ASSUME Init
             PROVE  Structures
  OBVIOUS
<1>1. Tracked(active) = {} /\ active \in Seq(Sockets) /\ IsInjective(active)
  BY DEF Init, Tracked, ToSet, IsInjective
<1>2. Books
  BY DEF Init, Books, Turn, Notes, NothingSeen
<1>3. Tables(pc, up, active, userConns)
  BY <1>1 DEF Init, Tables, Places5
<1>4. TrackedRuns
  BY <1>1 DEF TrackedRuns
<1>5. FailedAreGone
  BY DEF Init, FailedAreGone, Idle
<1>6. LiveClientsTracked
  BY DEF Init, LiveClientsTracked
<1>7. QED
  BY <1>2, <1>3, <1>4, <1>5, <1>6, TablesAgree DEF Structures

LEMMA DisconnectTables ==
  ASSUME Structures, NEW gone \in SUBSET Sockets, Disconnect(gone)
  PROVE  /\ Tracked(active') = Tracked(active) \ gone
         /\ active' \in Seq(Sockets) /\ IsInjective(active')
         /\ userConns' \in [Users -> SUBSET Sockets]
         /\ \A u \in Users : userConns'[u] = {s \in Tracked(active') : Owner[s] = u}
<1>1. Tables(pc, up, active, userConns)
  BY StructuresTables
<1>2. /\ active' \in Seq(Sockets) /\ IsInjective(active')
      /\ Tracked(active') = Tracked(active) \ gone
  BY <1>1, WithoutFacts DEF Tables, Disconnect
<1>3. /\ userConns' \in [Users -> SUBSET Sockets]
      /\ \A u \in Users : userConns'[u] = userConns[u] \ gone
  BY <1>1 DEF Tables, Disconnect
<1>4. ASSUME NEW u \in Users
      PROVE  userConns'[u] = {s \in Tracked(active') : Owner[s] = u}
  BY <1>1, <1>2, <1>3 DEF Tables
<1>5. QED
  BY <1>2, <1>3, <1>4

(***************************************************************************)
(* Every step leaves the structures in agreement. Handshakes add a socket  *)
(* to both, disconnects take the same sockets out of both, and a broadcast *)
(* takes out only sockets whose clients are gone.                          *)
(***************************************************************************)
LEMMA StructuresEndpoint ==
  ASSUME Structures, NEW s \in Sockets, Endpoint(s)
  PROVE  Structures'
<1>1. /\ Tables(pc, up, active, userConns) /\ Books /\ TrackedRuns /\ FailedAreGone
      /\ LiveClientsTracked
  BY StructuresTables DEF Structures
<1>2. Owner[s] \in Users
  BY ManagerAssumption
<1>3. CASE Reject(s)
  <2>1. userConns' = userConns
    BY <1>2, <1>3, NothingToClean DEF Reject
  <2>2. Tables(pc', up', active', userConns')
    BY <1>1, <1>3, <2>1 DEF Reject, Tables, Places5
  <2>3. Books'
    BY <1>1, <1>3 DEF Reject, Books
  <2>4. TrackedRuns'
    BY <1>1, <1>3 DEF Reject, TrackedRuns, Running, Tables
  <2>5. FailedAreGone'
    BY <1>1, <1>3 DEF Reject, FailedAreGone, Tables, Books, Turn
  <2>6. LiveClientsTracked'
    BY <1>1, <1>3 DEF Reject, LiveClientsTracked, Tables
  <2>7. QED
    BY <2>2, <2>3, <2>4, <2>5, <2>6, TablesAgree DEF Structures
<1>4. CASE Admit(s)
  <2>1. userConns' = userConns
    BY <1>2, <1>4, NothingToClean DEF Admit
  <2>2. Tables(pc', up', active', userConns')
    BY <1>1, <1>4, <2>1 DEF Admit, Tables, Places5
  <2>3. Books'
    BY <1>4, AdmitFacts
  <2>4. TrackedRuns'
    BY <1>1, <1>4 DEF Admit, TrackedRuns, Running, Tables
  <2>5. FailedAreGone'
    BY <1>1, <1>4 DEF Admit, FailedAreGone
  <2>6. LiveClientsTracked'
    BY <1>1, <1>4 DEF Admit, LiveClientsTracked, Tables
  <2>7. QED
    BY <2>2, <2>3, <2>4, <2>5, <2>6, TablesAgree DEF Structures
<1>5. CASE Accept(s)
  <2>1. active' = Append(active, s) /\ active \in Seq(Sockets)
    BY <1>1, <1>5 DEF Accept, Tables
  <2>2. s \notin Tracked(active)
    BY <1>1, <1>5 DEF Accept, TrackedRuns, Running
  <2>3. /\ active' \in Seq(Sockets) /\ IsInjective(active')
        /\ Tracked(active') = Tracked(active) \cup {s}
    BY <1>1, <2>1, <2>2, AppendFacts DEF Tables
  <2> DEFINE more == [userConns EXCEPT ![Owner[s]] = @ \cup {s}]
  <2>4. userConns' = [more EXCEPT ![Owner[s]] = more[Owner[s]] \cap Tracked(active')]
    BY <1>5 DEF Accept, Cleaned
  <2>5. more[Owner[s]] = userConns[Owner[s]] \cup {s}
    BY <1>1, <1>2 DEF Tables
  <2>6. \A x \in Users : x # Owner[s] => userConns'[x] = userConns[x]
    BY <1>1, <2>4 DEF Tables
  <2>7. userConns'[Owner[s]] = (userConns[Owner[s]] \cup {s}) \cap Tracked(active')
    BY <1>1, <1>2, <2>4, <2>5 DEF Tables
  <2>8. ASSUME NEW x \in Users
        PROVE  userConns'[x] = {t \in Tracked(active') : Owner[t] = x}
    <3>1. userConns[x] = {t \in Tracked(active) : Owner[t] = x}
      BY <1>1 DEF Tables
    <3>2. QED
      BY <3>1, <2>3, <2>6, <2>7
  <2>9. userConns' = [x \in Users |-> userConns'[x]]
    BY <1>1, <2>4 DEF Tables
  <2>10. userConns' \in [Users -> SUBSET Sockets]
    <3>1. \A x \in Users : userConns'[x] \in SUBSET Sockets
      BY <2>3, <2>8, SequenceFacts
    <3>2. QED
      BY <2>9, <3>1
  <2>11. pc' \in [Sockets -> Places5] /\ up' = up
    BY <1>1, <1>5 DEF Accept, Tables, Places5
  <2>12. Tables(pc', up', active', userConns')
    BY <1>1, <2>3, <2>8, <2>10, <2>11 DEF Tables
  <2>13. Books'
    BY <1>1, <1>5 DEF Accept, Books
  <2>14. TrackedRuns'
    BY <1>1, <1>5, <2>3 DEF Accept, TrackedRuns, Running, Tables
  <2>15. FailedAreGone'
    BY <1>1, <1>5 DEF Accept, FailedAreGone
  <2>16. LiveClientsTracked'
    BY <1>1, <1>5, <2>3 DEF Accept, LiveClientsTracked, Tables
  <2>17. QED
    BY <2>12, <2>13, <2>14, <2>15, <2>16, TablesAgree DEF Structures
<1>6. CASE AcceptFails(s) \/ Greet(s) \/ ClientLeaves(s)
  <2>1. Tables(pc', up', active', userConns')
    BY <1>1, <1>6 DEF AcceptFails, Greet, ClientLeaves, Tables, Places5
  <2>2. Books'
    BY <1>1, <1>6 DEF AcceptFails, Greet, ClientLeaves, Books
  <2>a. active' = active /\ bc' = bc /\ Tracked(active) \subseteq Sockets
    BY <1>1, <1>6, SequenceFacts DEF AcceptFails, Greet, ClientLeaves, Tables
  <2>b. \A t \in Sockets : /\ up'[t] => up[t]
                           /\ pc[t] \in Running => pc'[t] \in Running
    BY <1>1, <1>6 DEF AcceptFails, Greet, ClientLeaves, Running, Tables
  <2>3. TrackedRuns'
    BY <1>1, <2>a, <2>b DEF TrackedRuns
  <2>4. FailedAreGone'
    <3>1. \A b \in Broadcasters : bc[b].state = "sending" => bc[b].failed \subseteq Sockets
      BY <1>1 DEF Books, Turn, Idle
    <3>2. QED
      BY <1>1, <2>a, <2>b, <3>1 DEF FailedAreGone
  <2>5. LiveClientsTracked'
    BY <1>1, <1>6 DEF AcceptFails, Greet, ClientLeaves, LiveClientsTracked, Tables
  <2>6. QED
    BY <2>1, <2>2, <2>3, <2>4, <2>5, TablesAgree DEF Structures
<1>7. CASE EndpointEnds(s)
  <2>1. /\ Tracked(active') = Tracked(active) \ {s}
        /\ active' \in Seq(Sockets) /\ IsInjective(active')
        /\ userConns' \in [Users -> SUBSET Sockets]
        /\ \A u \in Users : userConns'[u] = {t \in Tracked(active') : Owner[t] = u}
    BY <1>7, DisconnectTables DEF EndpointEnds
  <2>2. pc' \in [Sockets -> Places5] /\ up' \in [Sockets -> BOOLEAN]
    BY <1>1, <1>7 DEF EndpointEnds, Tables, Places5
  <2>3. Tables(pc', up', active', userConns')
    BY <2>1, <2>2 DEF Tables
  <2>4. Books'
    BY <1>7, EndFacts
  <2>5. TrackedRuns'
    <3>1. Tracked(active) \subseteq Sockets
      BY <1>1, SequenceFacts DEF Tables
    <3>2. \A t \in Sockets \ {s} : pc'[t] = pc[t]
      BY <1>1, <1>7 DEF EndpointEnds, Tables
    <3>3. QED
      BY <1>1, <2>1, <3>1, <3>2 DEF TrackedRuns
  <2>6. FailedAreGone'
    <3>1. bc' = bc /\ \A t \in Sockets : up'[t] => up[t]
      BY <1>1, <1>7 DEF EndpointEnds, Tables
    <3>2. \A b \in Broadcasters : bc[b].state = "sending" => bc[b].failed \subseteq Sockets
      BY <1>1 DEF Books, Turn, Idle
    <3>3. QED
      BY <1>1, <3>1, <3>2 DEF FailedAreGone
  <2>7. LiveClientsTracked'
    BY <1>1, <1>7, <2>1 DEF EndpointEnds, LiveClientsTracked, Tables
  <2>8. QED
    BY <2>3, <2>4, <2>5, <2>6, <2>7, TablesAgree DEF Structures
<1>8. QED
  BY <1>3, <1>4, <1>5, <1>6, <1>7 DEF Endpoint

LEMMA StructuresBroadcast ==
  ASSUME Structures, NEW b \in Broadcasters, Broadcast(b)
  PROVE  Structures'
<1>1. /\ Tables(pc, up, active, userConns) /\ Books /\ TrackedRuns /\ FailedAreGone
      /\ LiveClientsTracked
  BY StructuresTables DEF Structures
<1>2. CASE BroadcastStarts(b)
  <2>1. UNCHANGED <<pc, up, active, userConns>>
    BY <1>2 DEF BroadcastStarts
  <2>2. Books' /\ bc'[b].failed = {} /\ \A a \in Broadcasters \ {b} : bc'[a] = bc[a]
    BY <1>2, StartFacts
  <2>3. Tables(pc', up', active', userConns') /\ TrackedRuns' /\ LiveClientsTracked'
    BY <1>1, <2>1 DEF TrackedRuns, LiveClientsTracked
  <2>4. FailedAreGone'
    BY <1>1, <2>1, <2>2 DEF FailedAreGone
  <2>5. QED
    BY <2>2, <2>3, <2>4, TablesAgree DEF Structures
<1>3. ASSUME SendOk(b) \/ SendFails(b)
      PROVE  Structures'
  <2>1. UNCHANGED <<pc, up>>
    BY <1>3, BroadcastStep
  <2>2. PICK failed \in SUBSET Sockets :
          /\ \A s \in failed : ~up[s]
          /\ \/ bc[b].next \in 1 .. Len(active) /\ Yield(b, bc[b].next, failed)
             \/ bc[b].next > Len(active) /\ CleanUp(b, failed)
    BY <1>3, BroadcastStep
  <2>3. CASE bc[b].next \in 1 .. Len(active) /\ Yield(b, bc[b].next, failed)
    <3>1. /\ Books' /\ bc'[b].failed = failed
          /\ \A a \in Broadcasters \ {b} : bc'[a] = bc[a]
      <4>1. ASSUME NEW i \in 1 .. Len(active), Yield(b, i, failed)
            PROVE  /\ Books' /\ bc'[b].failed = failed
                   /\ \A a \in Broadcasters \ {b} : bc'[a] = bc[a]
        <5>1. /\ Books'
              /\ bc'[b] = [state |-> "sending", next |-> i + 1, target |-> active[i],
                           failed |-> failed]
              /\ \A a \in Broadcasters \ {b} : bc'[a] = bc[a]
          BY <4>1, YieldFacts
        <5>2. QED
          BY <5>1
      <4>2. QED
        BY <2>3, <4>1
    <3>2. UNCHANGED <<active, userConns>>
      BY <2>3 DEF Yield
    <3>3. Tables(pc', up', active', userConns') /\ TrackedRuns' /\ LiveClientsTracked'
      BY <1>1, <2>1, <3>2 DEF TrackedRuns, LiveClientsTracked
    <3>4. FailedAreGone'
      BY <1>1, <2>1, <2>2, <3>1 DEF FailedAreGone
    <3>5. QED
      BY <3>1, <3>3, <3>4, TablesAgree DEF Structures
  <2>4. CASE CleanUp(b, failed)
    <3>1. /\ Books' /\ bc'[b] = Idle
          /\ \A a \in Broadcasters \ {b} : bc'[a] = bc[a]
      BY <2>4, CleanUpFacts
    <3>2. /\ Tracked(active') = Tracked(active) \ failed
          /\ active' \in Seq(Sockets) /\ IsInjective(active')
          /\ userConns' \in [Users -> SUBSET Sockets]
          /\ \A u \in Users : userConns'[u] = {t \in Tracked(active') : Owner[t] = u}
      BY <2>4, DisconnectTables DEF CleanUp
    <3>3. Tables(pc', up', active', userConns')
      BY <1>1, <2>1, <3>2 DEF Tables
    <3>4. TrackedRuns' /\ LiveClientsTracked'
      BY <1>1, <2>1, <2>2, <3>2 DEF TrackedRuns, LiveClientsTracked
    <3>5. FailedAreGone'
      BY <1>1, <2>1, <3>1 DEF FailedAreGone, Idle
    <3>6. QED
      BY <3>1, <3>3, <3>4, <3>5, TablesAgree DEF Structures
  <2>5. QED
    BY <2>2, <2>3, <2>4
<1>4. QED
  BY <1>2, <1>3 DEF Broadcast

LEMMA StructuresNext == Structures /\ [Next]_vars => Structures'
<1> SUFFICES ASSUME Structures, [Next]_vars
             PROVE  Structures'
  OBVIOUS
<1>1. ASSUME NEW s \in Sockets, Endpoint(s)
      PROVE  Structures'
  BY <1>1, StructuresEndpoint
<1>2. ASSUME NEW b \in Broadcasters, Broadcast(b)
      PROVE  Structures'
  BY <1>2, StructuresBroadcast
<1>3. CASE UNCHANGED vars
  BY <1>3 DEF vars, Structures, StructuresAgree, TypeOK, Books, TrackedRuns, FailedAreGone,
              LiveClientsTracked
<1>4. QED
  BY <1>1, <1>2, <1>3 DEF Next, Finished
-----------------------------------------------------------------------------
(***************************************************************************)
(* The limit.                                                              *)
(***************************************************************************)
LEMMA UserConnsFinite ==
  ASSUME Structures, NEW u \in Users
  PROVE  /\ IsFiniteSet(userConns[u]) /\ Cardinality(userConns[u]) \in Nat
         /\ \A part \in SUBSET userConns[u] :
              Cardinality(part) \in Nat /\ Cardinality(part) <= Cardinality(userConns[u])
<1>1. userConns[u] \in SUBSET Sockets
  BY DEF Structures, StructuresAgree, TypeOK
<1>2. IsFiniteSet(userConns[u])
  BY <1>1, ManagerAssumption, FS_Subset
<1>3. QED
  BY <1>2, FS_Subset, FS_CardinalityType

LEMMA LimitsInit == Init => Limits
<1> SUFFICES ASSUME Init
             PROVE  Limits
  OBVIOUS
<1>1. \A u \in Users : userConns[u] = {} /\ Accepting(u) = {}
  BY DEF Init, Accepting
<1>2. MAX_CONNECTIONS_PER_USER \in Nat \ {0} /\ Cardinality({}) = 0
  BY ManagerAssumption, FS_EmptySet
<1>3. ASSUME NEW u \in Users
      PROVE  Cardinality(userConns[u]) <= MAX_CONNECTIONS_PER_USER
  <2>1. Cardinality(userConns[u]) = 0
    BY <1>1, <1>2
  <2>2. QED
    BY <2>1, <1>2
<1>4. LimitUnlessOverlap
  BY <1>3 DEF LimitUnlessOverlap
<1>5. RoomForHandshake
  BY <1>1 DEF RoomForHandshake
<1>6. QED
  BY <1>4, <1>5 DEF Limits

LEMMA LimitsShrink ==
  ASSUME Structures, Limits, seen'.overlapped = seen.overlapped,
         \A u \in Users : userConns'[u] \subseteq userConns[u],
         \A u \in Users : Accepting(u)' \subseteq Accepting(u)
  PROVE  Limits'
<1>1. MAX_CONNECTIONS_PER_USER \in Nat
  BY ManagerAssumption
<1>2. ASSUME NEW u \in Users
      PROVE  /\ Cardinality(userConns[u]) \in Nat /\ Cardinality(userConns'[u]) \in Nat
             /\ Cardinality(userConns'[u]) <= Cardinality(userConns[u])
  BY UserConnsFinite
<1>3. LimitUnlessOverlap'
  BY <1>1, <1>2 DEF Limits, LimitUnlessOverlap
<1>4. ASSUME NEW u \in Users, ~seen'.overlapped[u], NEW s \in Accepting(u)'
      PROVE  /\ Accepting(u)' = {s}
             /\ Cardinality(userConns'[u]) < MAX_CONNECTIONS_PER_USER
  <2>1. ~seen.overlapped[u] /\ s \in Accepting(u)
    BY <1>4
  <2>2. Accepting(u) = {s} /\ Cardinality(userConns[u]) < MAX_CONNECTIONS_PER_USER
    BY <2>1 DEF Limits, RoomForHandshake
  <2>3. Accepting(u)' = {s}
    BY <2>2, <1>4
  <2>4. QED
    BY <2>2, <2>3, <1>1, <1>2
<1>5. RoomForHandshake'
  BY <1>4 DEF RoomForHandshake
<1>6. QED
  BY <1>3, <1>5 DEF Limits

LEMMA LimitsAdmit ==
  ASSUME Structures, Limits, NEW s \in Sockets, Admit(s)
  PROVE  Limits'
<1> DEFINE o == Owner[s]
<1>1. o \in Users /\ MAX_CONNECTIONS_PER_USER \in Nat
  BY ManagerAssumption
<1>2. userConns' = userConns
  BY <1>1, NothingToClean DEF Admit
<1>3. Cardinality(userConns[o]) < MAX_CONNECTIONS_PER_USER
  BY <1>1, NothingToClean DEF Admit, CanConnect
<1>4. /\ seen'.overlapped = [seen.overlapped EXCEPT ![o] = @ \/ Accepting(o) # {}]
      /\ seen.overlapped \in [Users -> BOOLEAN]
  BY AdmitFacts DEF Structures, Books
<1>5. \A u \in Users : ~seen'.overlapped[u] =>
        ~seen.overlapped[u] /\ (u = o => Accepting(u) = {})
  BY <1>1, <1>4
<1>6. /\ \A u \in Users \ {o} : Accepting(u)' = Accepting(u)
      /\ Accepting(o)' = Accepting(o) \cup {s}
  <2>1. pc \in [Sockets -> Places5]
    BY StructuresTables DEF Tables
  <2>2. pc[s] = "new" /\ pc'[s] = "accepting" /\ \A t \in Sockets \ {s} : pc'[t] = pc[t]
    BY <2>1 DEF Admit
  <2>3. QED
    BY <2>2 DEF Accepting
<1>7. LimitUnlessOverlap'
  BY <1>2, <1>5 DEF Limits, LimitUnlessOverlap
<1>8. ASSUME NEW u \in Users, ~seen'.overlapped[u], NEW t \in Accepting(u)'
      PROVE  /\ Accepting(u)' = {t}
             /\ Cardinality(userConns'[u]) < MAX_CONNECTIONS_PER_USER
  <2>1. CASE u = o
    <3>1. Accepting(u)' = {s}
      BY <2>1, <1>5, <1>6, <1>8
    <3>2. QED
      BY <3>1, <2>1, <1>2, <1>3
  <2>2. CASE u # o
    <3>1. ~seen.overlapped[u] /\ Accepting(u)' = Accepting(u)
      BY <2>2, <1>5, <1>6, <1>8
    <3>2. QED
      BY <3>1, <1>2 DEF Limits, RoomForHandshake
  <2>3. QED
    BY <2>1, <2>2
<1>9. RoomForHandshake'
  BY <1>8 DEF RoomForHandshake
<1>10. QED
  BY <1>7, <1>9 DEF Limits

LEMMA LimitsAccept ==
  ASSUME Structures, Structures', Limits, NEW s \in Sockets, Accept(s)
  PROVE  Limits'
<1> DEFINE o == Owner[s]
<1>1. o \in Users /\ MAX_CONNECTIONS_PER_USER \in Nat
  BY ManagerAssumption
<1>2. seen' = seen
  BY DEF Accept
<1>3. /\ userConns'[o] = userConns[o] \cup {s}
      /\ \A u \in Users \ {o} : userConns'[u] = userConns[u]
  <2>1. active' = Append(active, s) /\ active \in Seq(Sockets)
    BY StructuresTables DEF Accept, Tables
  <2>2. Tracked(active') = Tracked(active) \cup {s}
    BY <2>1, AppendFacts
  <2>3. /\ \A u \in Users : userConns[u] = {t \in Tracked(active) : Owner[t] = u}
        /\ \A u \in Users : userConns'[u] = {t \in Tracked(active') : Owner[t] = u}
    BY DEF Structures, StructuresAgree
  <2>4. s \in Sockets /\ Owner[s] = o
    OBVIOUS
  <2> HIDE DEF o
  <2>5. userConns'[o] = userConns[o] \cup {s}
    BY <1>1, <2>2, <2>3, <2>4
  <2>6. ASSUME NEW u \in Users \ {o}
        PROVE  userConns'[u] = userConns[u]
    <3>1. userConns[u] = {t \in Tracked(active) : Owner[t] = u}
      BY <2>3
    <3>2. userConns'[u] = {t \in Tracked(active) \cup {s} : Owner[t] = u}
      BY <2>2, <2>3
    <3>3. Owner[s] # u
      BY <2>4
    <3>4. QED
      BY <3>1, <3>2, <3>3
  <2>7. QED
    BY <2>5, <2>6
<1>4. /\ s \in Accepting(o)
      /\ \A u \in Users \ {o} : Accepting(u)' = Accepting(u)
      /\ Accepting(o)' = Accepting(o) \ {s}
  <2>1. pc \in [Sockets -> Places5]
    BY StructuresTables DEF Tables
  <2>2. /\ pc[s] = "accepting" /\ pc'[s] # "accepting"
        /\ \A t \in Sockets \ {s} : pc'[t] = pc[t]
    BY <2>1 DEF Accept
  <2>3. QED
    BY <2>2 DEF Accepting
<1>5. ASSUME ~seen.overlapped[o]
      PROVE  /\ Accepting(o)' = {}
             /\ Cardinality(userConns'[o]) <= MAX_CONNECTIONS_PER_USER
  <2>1. Accepting(o) = {s} /\ Cardinality(userConns[o]) < MAX_CONNECTIONS_PER_USER
    BY <1>1, <1>4, <1>5 DEF Limits, RoomForHandshake
  <2>2. IsFiniteSet(userConns[o]) /\ Cardinality(userConns[o]) \in Nat
    BY <1>1, UserConnsFinite
  <2>3. Cardinality(userConns[o] \cup {s}) <= Cardinality(userConns[o]) + 1
    <3>1. Cardinality(userConns[o] \cup {s}) =
            IF s \in userConns[o] THEN Cardinality(userConns[o])
            ELSE Cardinality(userConns[o]) + 1
      BY <2>2, FS_AddElement
    <3>2. QED
      BY <3>1, <2>2
  <2>4. Cardinality(userConns[o] \cup {s}) \in Nat
    BY <2>2, FS_AddElement, FS_CardinalityType
  <2>5. QED
    BY <2>1, <2>2, <2>3, <2>4, <1>1, <1>3, <1>4
<1>6. LimitUnlessOverlap'
  <2>1. ASSUME NEW u \in Users, ~seen.overlapped[u]
        PROVE  Cardinality(userConns'[u]) <= MAX_CONNECTIONS_PER_USER
    <3>1. CASE u = o
      BY <2>1, <3>1, <1>5
    <3>2. CASE u # o
      BY <2>1, <3>2, <1>3 DEF Limits, LimitUnlessOverlap
    <3>3. QED
      BY <3>1, <3>2
  <2>2. QED
    BY <2>1, <1>2 DEF LimitUnlessOverlap
<1>7. RoomForHandshake'
  <2>1. ASSUME NEW u \in Users, ~seen.overlapped[u], NEW t \in Accepting(u)'
        PROVE  /\ Accepting(u)' = {t}
               /\ Cardinality(userConns'[u]) < MAX_CONNECTIONS_PER_USER
    <3>1. u # o
      BY <2>1, <1>5
    <3>2. Accepting(u)' = Accepting(u) /\ userConns'[u] = userConns[u]
      BY <3>1, <1>3, <1>4
    <3>3. QED
      BY <2>1, <3>2 DEF Limits, RoomForHandshake
  <2>2. QED
    BY <2>1, <1>2 DEF RoomForHandshake
<1>8. QED
  BY <1>6, <1>7 DEF Limits

LEMMA LimitsNext == Structures /\ Structures' /\ Limits /\ [Next]_vars => Limits'
<1> SUFFICES ASSUME Structures, Structures', Limits, [Next]_vars
             PROVE  Limits'
  OBVIOUS
<1>1. pc \in [Sockets -> Places5] /\ userConns \in [Users -> SUBSET Sockets]
  BY StructuresTables DEF Tables
<1>2. ASSUME NEW s \in Sockets, Endpoint(s)
      PROVE  Limits'
  <2>1. CASE Admit(s)
    BY <2>1, LimitsAdmit
  <2>2. CASE Accept(s)
    BY <2>2, LimitsAccept
  <2>3. CASE Reject(s)
    <3>1. Owner[s] \in Users
      BY ManagerAssumption
    <3>2. userConns' = userConns /\ seen' = seen
      BY <2>3, <3>1, NothingToClean DEF Reject
    <3>3. \A u \in Users : Accepting(u)' \subseteq Accepting(u)
      BY <2>3, <1>1 DEF Reject, Accepting
    <3>4. QED
      BY <3>2, <3>3, LimitsShrink
  <2>4. CASE AcceptFails(s) \/ Greet(s) \/ ClientLeaves(s)
    <3>1. userConns' = userConns /\ seen' = seen
      BY <2>4 DEF AcceptFails, Greet, ClientLeaves
    <3>2. \A u \in Users : Accepting(u)' \subseteq Accepting(u)
      BY <2>4, <1>1 DEF AcceptFails, Greet, ClientLeaves, Accepting
    <3>3. QED
      BY <3>1, <3>2, LimitsShrink
  <2>5. CASE EndpointEnds(s)
    <3>1. seen'.overlapped = seen.overlapped
      BY <2>5, EndFacts
    <3>2. \A u \in Users : userConns'[u] \subseteq userConns[u]
      BY <2>5, <1>1 DEF EndpointEnds, Disconnect
    <3>3. \A u \in Users : Accepting(u)' \subseteq Accepting(u)
      BY <2>5, <1>1 DEF EndpointEnds, Accepting
    <3>4. QED
      BY <3>1, <3>2, <3>3, LimitsShrink
  <2>6. QED
    BY <1>2, <2>1, <2>2, <2>3, <2>4, <2>5 DEF Endpoint
<1>3. ASSUME NEW b \in Broadcasters, Broadcast(b)
      PROVE  Limits'
  <2>1. CASE BroadcastStarts(b)
    <3>1. userConns' = userConns /\ pc' = pc /\ seen'.overlapped = seen.overlapped
      BY <2>1, StartFacts DEF BroadcastStarts
    <3>2. QED
      BY <3>1, LimitsShrink DEF Accepting
  <2>2. CASE SendOk(b) \/ SendFails(b)
    <3>1. pc' = pc
      BY <2>2, BroadcastStep
    <3>2. PICK failed \in SUBSET Sockets :
            \/ bc[b].next \in 1 .. Len(active) /\ Yield(b, bc[b].next, failed)
            \/ CleanUp(b, failed)
      BY <2>2, BroadcastStep
    <3>3. ASSUME NEW i \in 1 .. Len(active), Yield(b, i, failed)
          PROVE  seen'.overlapped = seen.overlapped /\ userConns' = userConns
      BY <3>3, YieldFacts DEF Yield
    <3>4. ASSUME CleanUp(b, failed)
          PROVE  /\ seen'.overlapped = seen.overlapped
                 /\ \A u \in Users : userConns'[u] \subseteq userConns[u]
      BY <3>4, <1>1, CleanUpFacts DEF CleanUp, Disconnect
    <3>5. QED
      BY <3>1, <3>2, <3>3, <3>4, LimitsShrink DEF Accepting
  <2>3. QED
    BY <1>3, <2>1, <2>2 DEF Broadcast
<1>4. CASE UNCHANGED vars
  BY <1>4, LimitsShrink DEF vars, Accepting
<1>5. QED
  BY <1>2, <1>3, <1>4 DEF Next, Finished
-----------------------------------------------------------------------------
(***************************************************************************)
(* The broadcasts. Sends says the same of every broadcast: of its place x  *)
(* in the list and of the notes n about it.                                *)
(***************************************************************************)
PassedOver(list, x, n) == {s \in n.owed : \A i \in x.next .. Len(list) : list[i] # s}

Sound(p, list, x, n) ==
  /\ \A s \in n.sent : p[s] \in Running \cup {"closed"}
  /\ x.state = "sending" =>
       /\ \A i \in x.next .. Len(list) : list[i] \notin n.sent
       /\ Cardinality(PassedOver(list, x, n)) <= n.removals

LEMMA SendsSound ==
  /\ Sends => \A b \in Broadcasters : Sound(pc, active, bc[b], seen.broadcast[b])
  /\ (\A b \in Broadcasters : Sound(pc, active, bc[b], seen.broadcast[b])) => Sends
BY DEF Sends, Sound, SentAccepted, NoDoubleSend, EachRemovalSkipsAtMostOne, Missed, PassedOver

LEMMA SoundSends ==
  (\A b \in Broadcasters : Sound(pc', active', bc'[b], seen'.broadcast[b])) => Sends'
BY DEF Sends, Sound, SentAccepted, NoDoubleSend, EachRemovalSkipsAtMostOne, Missed, PassedOver

LEMMA PassedOverFinite ==
  ASSUME NEW n \in Notes, NEW part, part \subseteq n.owed
  PROVE  IsFiniteSet(part) /\ Cardinality(part) \in Nat
<1>1. part \in SUBSET Sockets
  BY DEF Notes
<1>2. QED
  BY <1>1, ManagerAssumption, FS_Subset, FS_CardinalityType

LEMMA SmallerPart ==
  ASSUME NEW n \in Notes, NEW whole, whole \subseteq n.owed, NEW part, part \subseteq whole
  PROVE  Cardinality(part) <= Cardinality(whole)
BY PassedOverFinite, FS_Subset

(* A socket joins at the end of the list.                                  *)
LEMMA SoundAppend ==
  ASSUME NEW p, NEW list \in Seq(Sockets), NEW x \in Turn, NEW n \in Notes,
         Sound(p, list, x, n), NEW s \in Sockets, p[s] = "accepting"
  PROVE  Sound(p, Append(list, s), x, n)
<1> DEFINE l == Append(list, s)
<1>1. s \notin n.sent
  BY DEF Sound, Running
<1>2. ASSUME x.state = "sending"
      PROVE  /\ \A i \in x.next .. Len(l) : l[i] \notin n.sent
             /\ Cardinality(PassedOver(l, x, n)) <= n.removals
  <2>1. x.next \in Nat \ {0}
    BY <1>2 DEF Turn, Idle
  <2>2. /\ Len(list) \in Nat /\ Len(l) = Len(list) + 1 /\ l[Len(list) + 1] = s
        /\ \A i \in 1 .. Len(list) : l[i] = list[i]
    BY AppendFacts, SequenceFacts
  <2> HIDE DEF l
  <2>3. ASSUME NEW i \in x.next .. Len(l)
        PROVE  l[i] \notin n.sent
    <3>1. CASE i = Len(list) + 1
      BY <3>1, <2>2, <1>1
    <3>2. CASE i \in x.next .. Len(list)
      BY <3>2, <2>1, <2>2, <1>2 DEF Sound
    <3>3. QED
      BY <3>1, <3>2, <2>1, <2>2
  <2>4. PassedOver(l, x, n) \subseteq PassedOver(list, x, n)
    <3>1. ASSUME NEW t, \A i \in x.next .. Len(l) : l[i] # t
          PROVE  \A i \in x.next .. Len(list) : list[i] # t
      BY <3>1, <2>1, <2>2
    <3>2. QED
      BY <3>1 DEF PassedOver
  <2>5. Cardinality(PassedOver(l, x, n)) <= Cardinality(PassedOver(list, x, n))
    BY <2>4, SmallerPart DEF PassedOver
  <2>6. /\ Cardinality(PassedOver(l, x, n)) \in Nat
        /\ Cardinality(PassedOver(list, x, n)) \in Nat /\ n.removals \in Nat
    BY PassedOverFinite DEF PassedOver, Notes
  <2>7. Cardinality(PassedOver(list, x, n)) <= n.removals
    BY <1>2 DEF Sound
  <2>8. QED
    BY <2>3, <2>5, <2>6, <2>7
<1>3. QED
  BY <1>2 DEF Sound

(* Sockets leave the list, and the count of removals goes up with them.    *)
LEMMA SoundWithout ==
  ASSUME NEW p, NEW list \in Seq(Sockets), IsInjective(list), NEW x \in Turn,
         NEW n \in Notes, Sound(p, list, x, n), NEW gone \in SUBSET Sockets,
         NEW m, m = [sent |-> n.sent \ gone, owed |-> n.owed \ gone,
                     removals |-> n.removals + Cardinality(gone \cap Tracked(list))]
  PROVE  Sound(p, Without(list, gone), x, m)
<1> DEFINE w == Without(list, gone)
           c == Cardinality(gone \cap Tracked(list))
<1>1. m.sent \subseteq n.sent /\ m.owed = n.owed \ gone /\ m.removals = n.removals + c
  OBVIOUS
<1>2. ASSUME x.state = "sending"
      PROVE  /\ \A i \in x.next .. Len(w) : w[i] \notin m.sent
             /\ Cardinality(PassedOver(w, x, m)) <= m.removals
  <2>1. x.next \in Nat \ {0}
    BY <1>2 DEF Turn, Idle
  <2>2. \A i \in x.next .. Len(w) : \E k \in x.next .. Len(list) : list[k] = w[i]
    <3>1. ASSUME NEW i \in x.next .. Len(w)
          PROVE  \E k \in x.next .. Len(list) : list[k] = w[i]
      <4>1. PICK k \in Nat \ {0} : k = x.next
        BY <2>1
      <4>2. From(w, k) \subseteq From(list, k)
        BY WithoutMovesLeft
      <4>3. w[i] \in From(w, k)
        BY <4>1 DEF From
      <4>4. QED
        BY <4>1, <4>2, <4>3 DEF From
    <3>2. QED
      BY <3>1
  <2>3. \A i \in x.next .. Len(w) : w[i] \notin m.sent
    BY <2>2, <1>1, <1>2 DEF Sound
  <2> DEFINE A == PassedOver(list, x, n)
             B == Passing(x.next, list, gone, Sockets)
             C == PassedOver(w, x, m)
  <2>4. C \subseteq A \cup B
    <3>1. ASSUME NEW s \in C, s \notin A
          PROVE  s \in B
      <4>1. s \in n.owed /\ s \notin gone /\ \A i \in x.next .. Len(w) : w[i] # s
        BY <1>1 DEF PassedOver
      <4>2. \E i \in x.next .. Len(list) : list[i] = s
        BY <3>1, <4>1 DEF PassedOver
      <4>3. s \in Sockets
        BY <4>1 DEF Notes
      <4>4. QED
        BY <4>1, <4>2, <4>3 DEF Passing
    <3>2. QED
      BY <3>1
  <2>5. IsFiniteSet(B) /\ Cardinality(B) <= c /\ Cardinality(B) \in Nat
    BY <2>1, FewPass, ManagerAssumption, FS_CardinalityType
  <2>6. IsFiniteSet(A) /\ Cardinality(A) \in Nat /\ Cardinality(A) <= n.removals
    BY <1>2, PassedOverFinite DEF PassedOver, Sound
  <2>7. c \in Nat
    <3>1. gone \cap Tracked(list) \in SUBSET Sockets
      OBVIOUS
    <3>2. QED
      BY <3>1, ManagerAssumption, FS_Subset, FS_CardinalityType
  <2> HIDE DEF A, B, C, c, w
  <2>8. /\ IsFiniteSet(A \cup B) /\ Cardinality(A \cup B) \in Nat
        /\ Cardinality(A \cup B) <= Cardinality(A) + Cardinality(B)
    <3>1. /\ IsFiniteSet(A \cup B)
          /\ Cardinality(A \cup B) = Cardinality(A) + Cardinality(B) - Cardinality(A \cap B)
      BY <2>5, <2>6, FS_Union
    <3>2. Cardinality(A \cap B) \in Nat /\ Cardinality(A \cup B) \in Nat
      BY <2>5, <2>6, <3>1, FS_Intersection, FS_CardinalityType
    <3>3. QED
      BY <3>1, <3>2, <2>5, <2>6
  <2>9. Cardinality(C) \in Nat /\ Cardinality(C) <= Cardinality(A \cup B)
    BY <2>4, <2>8, FS_Subset, FS_CardinalityType
  <2>10. n.removals \in Nat
    BY DEF Notes
  <2>11. Cardinality(C) <= m.removals
    BY <1>1, <2>5, <2>6, <2>7, <2>8, <2>9, <2>10
  <2>12. QED
    BY <2>3, <2>11 DEF C, w
<1>3. QED
  BY <1>1, <1>2 DEF Sound

(* The next socket is sent to.                                             *)
LEMMA SoundYield ==
  ASSUME NEW p, NEW list \in Seq(Sockets), IsInjective(list), NEW x \in Turn,
         NEW n \in Notes, Sound(p, list, x, n), x.state = "sending",
         NEW i \in 1 .. Len(list), i = x.next, p[list[i]] \in Running,
         NEW y, y.state = "sending", y.next = i + 1,
         NEW m, m = [sent |-> n.sent \cup {list[i]}, owed |-> n.owed \ {list[i]},
                     removals |-> n.removals]
  PROVE  Sound(p, list, y, m)
<1>1. Len(list) \in Nat /\ DOMAIN list = 1 .. Len(list)
  BY SequenceFacts
<1>2. \A s \in m.sent : p[s] \in Running \cup {"closed"}
  BY DEF Sound
<1>3. ASSUME NEW k \in y.next .. Len(list)
      PROVE  list[k] \notin m.sent
  <2>1. k \in 1 .. Len(list) /\ k \in x.next .. Len(list) /\ k # i
    BY <1>1
  <2>2. list[k] # list[i]
    BY <2>1, <1>1 DEF IsInjective
  <2>3. list[k] \notin n.sent
    BY <2>1 DEF Sound
  <2>4. QED
    BY <2>2, <2>3
<1>4. PassedOver(list, y, m) \subseteq PassedOver(list, x, n)
  <2>1. ASSUME NEW s \in PassedOver(list, y, m), NEW k \in x.next .. Len(list)
        PROVE  list[k] # s
    <3>1. s # list[i] /\ \A j \in i + 1 .. Len(list) : list[j] # s
      BY DEF PassedOver
    <3>2. k = i \/ k \in i + 1 .. Len(list)
      BY <1>1
    <3>3. QED
      BY <3>1, <3>2
  <2>2. QED
    BY <2>1 DEF PassedOver
<1>5. Cardinality(PassedOver(list, y, m)) <= n.removals
  <2>1. Cardinality(PassedOver(list, y, m)) <= Cardinality(PassedOver(list, x, n))
    BY <1>4, SmallerPart DEF PassedOver
  <2>2. /\ Cardinality(PassedOver(list, x, n)) \in Nat /\ n.removals \in Nat
        /\ Cardinality(PassedOver(list, y, m)) \in Nat
    BY <1>4, PassedOverFinite DEF PassedOver, Notes
  <2>3. QED
    BY <2>1, <2>2 DEF Sound
<1>6. QED
  BY <1>2, <1>3, <1>5 DEF Sound

(* A broadcast starts with the first socket of the list.                   *)
LEMMA SoundStart ==
  ASSUME NEW p, NEW list \in Seq(Sockets), IsInjective(list), 1 \in 1 .. Len(list),
         p[list[1]] \in Running,
         NEW y, y.state = "sending", y.next = 2,
         NEW m, m = [sent |-> {list[1]}, owed |-> Tracked(list) \ {list[1]}, removals |-> 0]
  PROVE  Sound(p, list, y, m)
<1>1. Len(list) \in Nat /\ DOMAIN list = 1 .. Len(list)
  BY SequenceFacts
<1>2. ASSUME NEW k \in y.next .. Len(list)
      PROVE  list[k] \notin m.sent
  <2>1. k \in 1 .. Len(list) /\ k # 1
    BY <1>1
  <2>2. QED
    BY <2>1, <1>1 DEF IsInjective
<1>3. PassedOver(list, y, m) = {}
  <2>1. ASSUME NEW s \in PassedOver(list, y, m)
        PROVE  FALSE
    <3>1. s \in Tracked(list) /\ s # list[1] /\ \A j \in 2 .. Len(list) : list[j] # s
      BY DEF PassedOver
    <3>2. PICK k \in 1 .. Len(list) : list[k] = s
      BY <3>1, SequenceFacts
    <3>3. QED
      BY <3>1, <3>2, <1>1
  <2>2. QED
    BY <2>1
<1>4. Cardinality(PassedOver(list, y, m)) <= m.removals
  <2>1. Cardinality(PassedOver(list, y, m)) = 0 /\ m.removals = 0
    BY <1>3, FS_EmptySet
  <2>2. QED
    BY <2>1
<1>5. QED
  BY <1>2, <1>4 DEF Sound

(* Endpoints only move on.                                                 *)
LEMMA SoundForward ==
  ASSUME NEW p, NEW list, NEW x, NEW n \in Notes, Sound(p, list, x, n), NEW q,
         \A s \in Sockets : p[s] \in Running \cup {"closed"} => q[s] \in Running \cup {"closed"}
  PROVE  Sound(q, list, x, n)
<1>1. n.sent \subseteq Sockets
  BY DEF Notes
<1>2. QED
  BY <1>1 DEF Sound

LEMMA PcForward ==
  ASSUME Structures, NEW s \in Sockets, Endpoint(s), NEW t \in Sockets,
         pc[t] \in Running \cup {"closed"}
  PROVE  pc'[t] \in Running \cup {"closed"}
<1>1. pc \in [Sockets -> Places5]
  BY StructuresTables DEF Tables
<1>2. CASE Reject(s) \/ Admit(s) \/ Accept(s)
  BY <1>1, <1>2 DEF Reject, Admit, Accept, Running
<1>3. CASE AcceptFails(s) \/ Greet(s) \/ EndpointEnds(s) \/ ClientLeaves(s)
  BY <1>1, <1>3 DEF AcceptFails, Greet, EndpointEnds, ClientLeaves, Running
<1>4. QED
  BY <1>2, <1>3 DEF Endpoint

LEMMA SendsInit == Init => Sends
<1> SUFFICES ASSUME Init
             PROVE  Sends
  OBVIOUS
<1>1. ASSUME NEW b \in Broadcasters
      PROVE  Sound(pc, active, bc[b], seen.broadcast[b])
  BY DEF Init, Sound, Idle, NothingSeen
<1>2. QED
  BY <1>1, SendsSound

(* What a removal leaves of one broadcast that goes on.                    *)
LEMMA SoundRemoval ==
  ASSUME Structures, Sends, NEW a \in Broadcasters, NEW gone \in SUBSET Sockets,
         active' = Without(active, gone), bc'[a] = bc[a],
         seen'.broadcast[a] = NoteRemoval(seen.broadcast, gone)[a]
  PROVE  Sound(pc, active', bc'[a], seen'.broadcast[a])
<1>1. /\ Sound(pc, active, bc[a], seen.broadcast[a])
      /\ bc[a] \in Turn /\ seen.broadcast[a] \in Notes
      /\ seen.broadcast \in [Broadcasters -> Notes]
      /\ active \in Seq(Sockets) /\ IsInjective(active)
  BY SendsSound, StructuresTables DEF Structures, Books, Tables
<1> DEFINE m == NoteRemoval(seen.broadcast, gone)[a]
<1>2. m = IF bc[a].state = "idle" THEN seen.broadcast[a]
          ELSE [sent |-> seen.broadcast[a].sent \ gone,
                owed |-> seen.broadcast[a].owed \ gone,
                removals |-> seen.broadcast[a].removals + Cardinality(gone \cap Tracked(active))]
  BY <1>1, NoteRemovalFacts DEF Structures
<1> HIDE DEF m
<1>3. CASE bc[a].state = "idle"
  <2>1. Sound(pc, Without(active, gone), bc[a], m)
    BY <1>1, <1>2, <1>3 DEF Sound
  <2>2. QED
    BY <2>1 DEF m
<1>4. CASE bc[a].state # "idle"
  <2>1. Sound(pc, Without(active, gone), bc[a], m)
    BY <1>1, <1>2, <1>4, SoundWithout
  <2>2. QED
    BY <2>1 DEF m
<1>5. QED
  BY <1>3, <1>4

LEMMA SendsNext == Structures /\ Structures' /\ Sends /\ [Next]_vars => Sends'
<1> SUFFICES ASSUME Structures, Structures', Sends, [Next]_vars
             PROVE  Sends'
  OBVIOUS
<1>1. /\ pc \in [Sockets -> Places5] /\ active \in Seq(Sockets) /\ IsInjective(active)
      /\ Tracked(active) \subseteq Sockets
      /\ \A i \in 1 .. Len(active) : pc[active[i]] \in Running
  <2>1. Tables(pc, up, active, userConns)
    BY StructuresTables
  <2>2. QED
    BY <2>1, SequenceFacts DEF Tables, Structures, TrackedRuns
<1>2. ASSUME NEW a \in Broadcasters
      PROVE  /\ Sound(pc, active, bc[a], seen.broadcast[a])
             /\ bc[a] \in Turn /\ seen.broadcast[a] \in Notes /\ seen'.broadcast[a] \in Notes
  BY SendsSound DEF Structures, Books
<1>3. ASSUME NEW s \in Sockets, Endpoint(s)
      PROVE  Sends'
  <2>1. ASSUME NEW t \in Sockets, pc[t] \in Running \cup {"closed"}
        PROVE  pc'[t] \in Running \cup {"closed"}
    BY <1>3, <2>1, PcForward
  <2>2. ASSUME NEW a \in Broadcasters
        PROVE  Sound(pc, active', bc'[a], seen'.broadcast[a])
    <3>1. CASE Reject(s) \/ Admit(s)
      <4>1. active' = active /\ bc' = bc /\ seen'.broadcast = seen.broadcast
        BY <3>1, AdmitFacts DEF Reject, Admit
      <4>2. QED
        BY <4>1, <1>2
    <3>2. CASE AcceptFails(s) \/ Greet(s) \/ ClientLeaves(s)
      <4>1. active' = active /\ bc' = bc /\ seen' = seen
        BY <3>2 DEF AcceptFails, Greet, ClientLeaves
      <4>2. QED
        BY <4>1, <1>2
    <3>3. CASE Accept(s)
      <4>1. /\ active' = Append(active, s) /\ bc' = bc /\ seen' = seen
            /\ pc[s] = "accepting"
        BY <3>3 DEF Accept
      <4>2. Sound(pc, Append(active, s), bc[a], seen.broadcast[a])
        BY <4>1, <1>1, <1>2, SoundAppend
      <4>3. QED
        BY <4>1, <4>2
    <3>4. CASE EndpointEnds(s)
      <4>1. /\ active' = Without(active, {s}) /\ bc'[a] = bc[a]
            /\ seen'.broadcast[a] = NoteRemoval(seen.broadcast, {s})[a]
        BY <3>4, EndFacts DEF EndpointEnds, Disconnect
      <4>2. {s} \in SUBSET Sockets
        OBVIOUS
      <4>3. QED
        BY <4>1, <4>2, SoundRemoval
    <3>5. QED
      BY <1>3, <3>1, <3>2, <3>3, <3>4 DEF Endpoint
  <2>3. ASSUME NEW a \in Broadcasters
        PROVE  Sound(pc', active', bc'[a], seen'.broadcast[a])
    BY <2>1, <2>2, <1>2, SoundForward
  <2>4. QED
    BY <2>3, SoundSends
<1>4. ASSUME NEW b \in Broadcasters, BroadcastStarts(b)
      PROVE  Sends'
  <2>1. pc' = pc /\ active' = active
    BY <1>4 DEF BroadcastStarts
  <2>2. Sound(pc, active, bc'[b], seen'.broadcast[b])
    BY <1>1, <1>4, StartFacts, SoundStart
  <2>3. \A a \in Broadcasters \ {b} : bc'[a] = bc[a] /\ seen'.broadcast[a] = seen.broadcast[a]
    BY <1>4, StartFacts
  <2>4. ASSUME NEW a \in Broadcasters
        PROVE  Sound(pc', active', bc'[a], seen'.broadcast[a])
    BY <1>2, <2>1, <2>2, <2>3
  <2>5. QED
    BY <2>4, SoundSends
<1>5. ASSUME NEW b \in Broadcasters, SendOk(b) \/ SendFails(b)
      PROVE  Sends'
  <2>1. bc[b].state = "sending" /\ pc' = pc
    BY <1>5, BroadcastStep
  <2>2. PICK failed \in SUBSET Sockets :
          \/ bc[b].next \in 1 .. Len(active) /\ Yield(b, bc[b].next, failed)
          \/ CleanUp(b, failed)
    BY <1>5, BroadcastStep
  <2>3. ASSUME NEW i \in 1 .. Len(active), i = bc[b].next, Yield(b, i, failed)
        PROVE  Sends'
    <3>1. active' = active
      BY <2>3 DEF Yield
    <3>2. /\ bc'[b] = [state |-> "sending", next |-> i + 1, target |-> active[i],
                       failed |-> failed]
          /\ seen'.broadcast[b] =
               [sent |-> seen.broadcast[b].sent \cup {active[i]},
                owed |-> seen.broadcast[b].owed \ {active[i]},
                removals |-> seen.broadcast[b].removals]
          /\ \A a \in Broadcasters \ {b} :
               bc'[a] = bc[a] /\ seen'.broadcast[a] = seen.broadcast[a]
      BY <2>3, YieldFacts
    <3>3. bc'[b].state = "sending" /\ bc'[b].next = i + 1
      BY <3>2
    <3>4. Sound(pc, active, bc'[b], seen'.broadcast[b])
      BY <1>1, <1>2, <2>1, <2>3, <3>2, <3>3, SoundYield
    <3>5. ASSUME NEW a \in Broadcasters
          PROVE  Sound(pc', active', bc'[a], seen'.broadcast[a])
      BY <1>2, <2>1, <3>1, <3>2, <3>4
    <3>6. QED
      BY <3>5, SoundSends
  <2>4. ASSUME CleanUp(b, failed)
        PROVE  Sends'
    <3>1. active' = Without(active, failed)
      BY <2>4 DEF CleanUp, Disconnect
    <3>2. /\ bc'[b] = Idle /\ seen'.broadcast[b] = NothingSeen
          /\ \A a \in Broadcasters \ {b} :
               /\ bc'[a] = bc[a]
               /\ seen'.broadcast[a] = NoteRemoval(seen.broadcast, failed)[a]
      BY <2>4, CleanUpFacts
    <3>3. ASSUME NEW a \in Broadcasters
          PROVE  Sound(pc, active', bc'[a], seen'.broadcast[a])
      <4>1. CASE a = b
        BY <3>2, <4>1 DEF Sound, Idle, NothingSeen
      <4>2. CASE a # b
        BY <3>1, <3>2, <4>2, SoundRemoval
      <4>3. QED
        BY <4>1, <4>2
    <3>4. QED
      BY <2>1, <3>3, SoundSends
  <2>5. QED
    BY <2>2, <2>3, <2>4
<1>6. CASE UNCHANGED vars
  BY <1>6 DEF vars, Sends, SentAccepted, NoDoubleSend, EachRemovalSkipsAtMostOne, Missed
<1>7. QED
  BY <1>3, <1>4, <1>5, <1>6 DEF Next, Broadcast, Finished
-----------------------------------------------------------------------------
(* The invariant holds of every behaviour.                                 *)
LEMMA Invariant == Spec => []IInv
<1>1. Init => IInv
  BY StructuresInit, LimitsInit, SendsInit DEF IInv
<1>2. IInv /\ [Next]_vars => IInv'
  BY StructuresNext, LimitsNext, SendsNext DEF IInv
<1>3. QED
  BY <1>1, <1>2, PTL DEF Spec

(* connect() and disconnect() keep active_connections and the per-user     *)
(* lists in agreement, whatever else runs between their awaits: no socket  *)
(* is listed twice, and a user's entry holds exactly the user's active     *)
(* sockets.                                                                *)
THEOREM ManagerStructuresAgree == Spec => []StructuresAgree
<1>1. IInv => StructuresAgree
  BY DEF IInv, Structures
<1>2. QED
  BY <1>1, Invariant, PTL

(* can_connect() is checked before the handshake is awaited and the socket *)
(* tracked after it: unless two handshakes of a user overlap, the user has *)
(* at most MAX_CONNECTIONS_PER_USER connections.                           *)
THEOREM ManagerLimitUnlessOverlap == Spec => []LimitUnlessOverlap
<1>1. IInv => LimitUnlessOverlap
  BY DEF IInv, Limits
<1>2. QED
  BY <1>1, Invariant, PTL

(* broadcast() iterates over a list that joins and removals change under   *)
(* it, and sends to no socket twice.                                       *)
THEOREM ManagerNoDoubleSend == Spec => []NoDoubleSend
<1>1. IInv => NoDoubleSend
  BY DEF IInv, Sends
<1>2. QED
  BY <1>1, Invariant, PTL

(* Each connection removed while broadcast() iterates makes it pass over   *)
(* at most one client that was there from the start.                       *)
THEOREM ManagerEachRemovalSkipsAtMostOne == Spec => []EachRemovalSkipsAtMostOne
<1>1. IInv => EachRemovalSkipsAtMostOne
  BY DEF IInv, Sends
<1>2. QED
  BY <1>1, Invariant, PTL

(* broadcast() disconnects only sockets whose sends have failed: a client  *)
(* that is there, with its endpoint running, stays tracked.                *)
THEOREM ManagerLiveClientsTracked == Spec => []LiveClientsTracked
<1>1. IInv => LiveClientsTracked
  BY DEF IInv, Structures
<1>2. QED
  BY <1>1, Invariant, PTL
=============================================================================
