--------------------------- MODULE PipelineProofs ---------------------------
(***************************************************************************)
(* Lemmas about the operators of Pipeline.                                 *)
(***************************************************************************)
EXTENDS Pipeline, FiniteSetTheorems, WellFoundedInduction, TLAPS

(* A nonempty set of naturals has a least element.                         *)
LEMMA LeastNat ==
  ASSUME NEW T, T \subseteq Nat, T # {}
  PROVE  \E x \in T : \A y \in T : x <= y
<1>1. \E x \in T : \A y \in T : ~ (<<y, x>> \in OpToRel(<, Nat))
  BY NatLessThanWellFounded, WFMin
<1>2. \A x, y \in Nat : (<<y, x>> \in OpToRel(<, Nat)) <=> y < x
  BY DEF OpToRel
<1>3. \E R : /\ \E x \in T : \A y \in T : ~ (<<y, x>> \in R)
             /\ \A x, y \in Nat : (<<y, x>> \in R) <=> y < x
  BY <1>1, <1>2, Zenon
<1>4. PICK R : /\ \E x \in T : \A y \in T : ~ (<<y, x>> \in R)
               /\ \A x, y \in Nat : (<<y, x>> \in R) <=> y < x
  BY <1>3
<1>5. PICK x \in T : \A y \in T : ~ (<<y, x>> \in R)
  BY <1>4
<1>6. ASSUME NEW y \in T PROVE x <= y
  <2>1. x \in Nat /\ y \in Nat
    OBVIOUS
  <2>2. ~ (y < x)
    BY <2>1, <1>5, <1>4
  <2> QED
    BY <2>1, <2>2
<1> QED
  BY <1>6

(* Induction, over a set of numbers: the library states it over a          *)
(* predicate.                                                              *)
LEMMA NatInSet ==
  ASSUME NEW S, 0 \in S, \A n \in Nat : n \in S => n + 1 \in S
  PROVE  Nat \subseteq S
<1> SUFFICES ASSUME Nat \ S # {} PROVE FALSE
  OBVIOUS
<1>1. PICK x \in Nat \ S : \A y \in Nat \ S : x <= y
  <2>1. Nat \ S \subseteq Nat
    OBVIOUS
  <2> QED
    BY <2>1, LeastNat
<1>2. x # 0 /\ x - 1 \in Nat /\ x - 1 \in S /\ (x - 1) + 1 = x
  BY <1>1
<1> QED
  BY <1>1, <1>2
-----------------------------------------------------------------------------
(* Arranged.                                                               *)

\* R orders I: a strict total order.
Orders(R, I) ==
  /\ \A i \in I : <<i, i>> \notin R
  /\ \A i, j \in I : i # j => <<i, j>> \in R \/ <<j, i>> \in R
  /\ \A i, j, k \in I : <<i, j>> \in R /\ <<j, k>> \in R => <<i, k>> \in R

Before(I, R, i) == {j \in I : <<j, i>> \in R}
Place(I, R, i) == Cardinality(Before(I, R, i))

(* Every element has a place below the number of elements, and one further *)
(* in the order has a higher one.                                          *)
LEMMA PlaceRises ==
  ASSUME NEW I, IsFiniteSet(I), NEW R, Orders(R, I)
  PROVE  /\ \A i \in I : Place(I, R, i) \in 0 .. Cardinality(I) - 1
         /\ \A i, j \in I : <<i, j>> \in R => Place(I, R, i) < Place(I, R, j)
<1>1. ASSUME NEW i \in I PROVE Place(I, R, i) \in 0 .. Cardinality(I) - 1
  <2>1. Before(I, R, i) \subseteq I \ {i}
    BY DEF Orders, Before
  <2>2. IsFiniteSet(I \ {i}) /\ Cardinality(I \ {i}) = Cardinality(I) - 1
    BY FS_RemoveElement
  <2>3. IsFiniteSet(Before(I, R, i)) /\ Cardinality(Before(I, R, i)) <= Cardinality(I \ {i})
    BY <2>1, <2>2, FS_Subset
  <2> QED
    BY <2>2, <2>3, FS_CardinalityType DEF Place
<1>2. ASSUME NEW i \in I, NEW j \in I, <<i, j>> \in R
      PROVE  Place(I, R, i) < Place(I, R, j)
  <2>1. Before(I, R, i) \subseteq Before(I, R, j)
    BY <1>2 DEF Orders, Before
  <2>2. i \in Before(I, R, j) /\ i \notin Before(I, R, i)
    BY <1>2 DEF Orders, Before
  <2>3. IsFiniteSet(Before(I, R, j)) /\ IsFiniteSet(Before(I, R, i))
    BY FS_Subset DEF Before
  <2>4. Cardinality(Before(I, R, i)) <= Cardinality(Before(I, R, j) \ {i})
    BY <2>1, <2>2, <2>3, FS_Subset, FS_RemoveElement
  <2>5. /\ Cardinality(Before(I, R, i)) \in Nat /\ Cardinality(Before(I, R, j)) \in Nat
        /\ Cardinality(Before(I, R, j) \ {i}) = Cardinality(Before(I, R, j)) - 1
    BY <2>2, <2>3, FS_RemoveElement, FS_CardinalityType
  <2> QED
    BY <2>4, <2>5 DEF Place
<1> QED
  BY <1>1, <1>2

(* Every place is taken.                                                   *)
LEMMA PlacesTaken ==
  ASSUME NEW I, IsFiniteSet(I), NEW R, Orders(R, I),
         NEW n \in 0 .. Cardinality(I) - 1
  PROVE  \E i \in I : Place(I, R, i) = n
<1>0. Cardinality(I) \in Nat
  BY FS_CardinalityType
<1> DEFINE f == [i \in I |-> Place(I, R, i)]
           N == 0 .. Cardinality(I) - 1
<1>1. f \in [I -> N]
  BY PlaceRises
<1>2. \A i, j \in I : f[i] = f[j] => i = j
  <2> SUFFICES ASSUME NEW i \in I, NEW j \in I, f[i] = f[j], i # j PROVE FALSE
    OBVIOUS
  <2>1. <<i, j>> \in R \/ <<j, i>> \in R
    BY DEF Orders
  <2>2. Place(I, R, i) < Place(I, R, j) \/ Place(I, R, j) < Place(I, R, i)
    BY <2>1, PlaceRises
  <2>3. f[i] = Place(I, R, i) /\ f[j] = Place(I, R, j) /\ Place(I, R, i) \in Nat
        /\ Place(I, R, j) \in Nat
    BY <1>0, PlaceRises
  <2> QED
    BY <2>2, <2>3
<1>3. IsFiniteSet(N) /\ Cardinality(N) = Cardinality(I)
  BY <1>0, FS_Interval
<1>4. f \in Injection(I, N)
  BY <1>1, <1>2 DEF Injection, IsInjective
<1>5. f \in Surjection(I, N)
  BY <1>3, <1>4, FS_Injection
<1> QED
  BY <1>5 DEF Surjection

(* Arranged lists the elements at I in the order R: e is the order of the  *)
(* indices.                                                                *)
LEMMA ArrangedInOrder ==
  ASSUME NEW s, NEW I, IsFiniteSet(I), NEW R, Orders(R, I)
  PROVE  \E e \in [1 .. Cardinality(I) -> I] :
           /\ Arranged(s, I, R) = [k \in 1 .. Cardinality(I) |-> s[e[k]]]
           /\ \A i \in I : \E k \in 1 .. Cardinality(I) : e[k] = i
           /\ \A j, k \in 1 .. Cardinality(I) : j < k => <<e[j], e[k]>> \in R
<1> DEFINE N == 1 .. Cardinality(I)
           e == [k \in N |-> CHOOSE i \in I : Place(I, R, i) = k - 1]
<1>0. Cardinality(I) \in Nat
  BY FS_CardinalityType
<1>1. ASSUME NEW k \in N PROVE e[k] \in I /\ Place(I, R, e[k]) = k - 1
  <2>1. k - 1 \in 0 .. Cardinality(I) - 1
    BY <1>0
  <2>2. \E i \in I : Place(I, R, i) = k - 1
    BY <2>1, PlacesTaken
  <2> QED
    BY <2>2
<1>2. e \in [N -> I]
  BY <1>1
<1>3. Arranged(s, I, R) = [k \in N |-> s[e[k]]]
  <2>1. Arranged(s, I, R) =
          [k \in N |-> s[CHOOSE i \in I : Place(I, R, i) = k - 1]]
    BY Zenon DEF Arranged, Place, Before
  <2>2. \A k \in N : e[k] = CHOOSE i \in I : Place(I, R, i) = k - 1
    OBVIOUS
  <2> QED
    BY <2>1, <2>2, Zenon
<1>4. ASSUME NEW i \in I PROVE \E k \in N : e[k] = i
  <2> DEFINE k == Place(I, R, i) + 1
  <2>1. k \in N
    BY <1>0, PlaceRises
  <2>2. e[k] \in I /\ Place(I, R, e[k]) = Place(I, R, i)
    BY <1>0, <1>1, <2>1, PlaceRises
  <2>3. e[k] = i
    <3> SUFFICES ASSUME e[k] # i PROVE FALSE
      OBVIOUS
    <3>1. <<e[k], i>> \in R \/ <<i, e[k]>> \in R
      BY <2>2 DEF Orders
    <3>2. Place(I, R, e[k]) < Place(I, R, i) \/ Place(I, R, i) < Place(I, R, e[k])
      BY <2>2, <3>1, PlaceRises
    <3>3. Place(I, R, i) \in Nat
      BY <1>0, PlaceRises
    <3> QED
      BY <2>2, <3>2, <3>3
  <2> QED
    BY <2>1, <2>3
<1>5. ASSUME NEW j \in N, NEW k \in N, j < k PROVE <<e[j], e[k]>> \in R
  <2>1. /\ e[j] \in I /\ Place(I, R, e[j]) = j - 1
        /\ e[k] \in I /\ Place(I, R, e[k]) = k - 1
    BY <1>1
  <2>2. e[j] # e[k]
    BY <1>0, <1>5, <2>1
  <2>3. CASE <<e[k], e[j]>> \in R
    <3>1. Place(I, R, e[k]) < Place(I, R, e[j])
      BY <2>1, <2>3, PlaceRises
    <3> QED
      BY <1>0, <1>5, <2>1, <3>1
  <2> QED
    BY <2>1, <2>2, <2>3 DEF Orders
<1> QED
  BY <1>2, <1>3, <1>4, <1>5
-----------------------------------------------------------------------------
(* Merged.                                                                 *)

(* The recursive function is there: some function satisfies its equation   *)
(* up to every m.                                                          *)
LEMMA MergedExists ==
  ASSUME NEW ts, NEW m \in Nat
  PROVE  \E g : g = [n \in 0 .. m |-> IF n = 0 THEN <<>> ELSE MergeNext(g[n - 1], ts[n])]
<1> DEFINE Fits(g, k) == g = [n \in 0 .. k |-> IF n = 0 THEN <<>>
                                            ELSE MergeNext(g[n - 1], ts[n])]
           S == {k \in Nat : \E g : Fits(g, k)}
<1>1. 0 \in S
  <2>1. Fits([n \in 0 .. 0 |-> <<>>], 0)
    OBVIOUS
  <2> QED
    BY <2>1
<1>2. ASSUME NEW k \in Nat, k \in S PROVE k + 1 \in S
  <2>1. PICK g : Fits(g, k)
    BY <1>2
  <2> DEFINE h == [n \in 0 .. k + 1 |-> IF n = k + 1 THEN MergeNext(g[k], ts[k + 1])
                                       ELSE g[n]]
  <2>2. ASSUME NEW n \in 0 .. k + 1
        PROVE  h[n] = IF n = 0 THEN <<>> ELSE MergeNext(h[n - 1], ts[n])
    <3>1. CASE n = k + 1
      BY <3>1
    <3>2. CASE n # k + 1
      <4>1. n \in 0 .. k /\ h[n] = g[n]
        BY <3>2
      <4>2. n # 0 => n - 1 \in 0 .. k + 1 /\ h[n - 1] = g[n - 1]
        BY <4>1
      <4>3. g[n] = IF n = 0 THEN <<>> ELSE MergeNext(g[n - 1], ts[n])
        BY <2>1, <4>1
      <4> QED
        BY <4>1, <4>2, <4>3
    <3> QED
      BY <3>1, <3>2
  <2> HIDE DEF h
  <2>3. Fits(h, k + 1)
    BY <2>2 DEF h
  <2> QED
    BY <2>3
<1> HIDE DEF S
<1>3. Nat \subseteq S
  BY <1>1, <1>2, NatInSet
<1> QED
  BY <1>3 DEF S

(* Its defining equation.                                                  *)
LEMMA MergedEquation ==
  ASSUME NEW ts, Len(ts) \in Nat
  PROVE  /\ Merged(ts)[0] = <<>>
         /\ \A n \in 1 .. Len(ts) :
              Merged(ts)[n] = MergeNext(Merged(ts)[n - 1], ts[n])
<1> DEFINE Fits(g) == g = [n \in 0 .. Len(ts) |-> IF n = 0 THEN <<>>
                                            ELSE MergeNext(g[n - 1], ts[n])]
<1>1. \E g : Fits(g)
  BY MergedExists
<1>2. Merged(ts) = CHOOSE g : Fits(g)
  BY DEF Merged
<1>3. Fits(Merged(ts))
  BY <1>1, <1>2
<1> QED
  BY <1>3
-----------------------------------------------------------------------------
(* Sequences that list a set: every element once.                          *)

Lists(d, X) ==
  /\ d \in Seq(X)
  /\ \A x \in X : \E k \in 1 .. Len(d) : d[k] = x
  /\ \A j, k \in 1 .. Len(d) : d[j] = d[k] => j = k

DistinctChannels(X) == \A x, y \in X : x.channel = y.channel => x = y

(* Two listings of disjoint sets, one after the other, list the union.     *)
LEMMA ListsConcat ==
  ASSUME NEW X, NEW Y, NEW d, NEW e, Lists(d, X), Lists(e, Y), X \cap Y = {}
  PROVE  Lists(d \o e, X \cup Y)
<1>1. d \in Seq(X \cup Y) /\ e \in Seq(X \cup Y) /\ d \o e \in Seq(X \cup Y)
  BY DEF Lists
<1>2. /\ Len(d \o e) = Len(d) + Len(e) /\ Len(d) \in Nat /\ Len(e) \in Nat
      /\ \A k \in 1 .. Len(d) : (d \o e)[k] = d[k]
      /\ \A k \in 1 .. Len(e) : (d \o e)[Len(d) + k] = e[k]
  BY <1>1
<1>3. \A k \in 1 .. Len(d \o e) :
        \/ k \in 1 .. Len(d) /\ (d \o e)[k] = d[k] /\ d[k] \in X
        \/ k - Len(d) \in 1 .. Len(e) /\ (d \o e)[k] = e[k - Len(d)] /\ e[k - Len(d)] \in Y
  <2> SUFFICES ASSUME NEW k \in 1 .. Len(d \o e), k \notin 1 .. Len(d)
               PROVE  /\ k - Len(d) \in 1 .. Len(e) /\ (d \o e)[k] = e[k - Len(d)]
                      /\ e[k - Len(d)] \in Y
    BY <1>2 DEF Lists
  <2>1. k - Len(d) \in 1 .. Len(e) /\ Len(d) + (k - Len(d)) = k
    BY <1>2
  <2> QED
    BY <1>2, <2>1 DEF Lists
<1>4. ASSUME NEW x \in X \cup Y PROVE \E k \in 1 .. Len(d \o e) : (d \o e)[k] = x
  <2>1. CASE x \in X
    <3>1. PICK k \in 1 .. Len(d) : d[k] = x
      BY <2>1 DEF Lists
    <3> QED
      BY <1>2, <3>1
  <2>2. CASE x \in Y
    <3>1. PICK k \in 1 .. Len(e) : e[k] = x
      BY <2>2 DEF Lists
    <3>2. Len(d) + k \in 1 .. Len(d \o e)
      BY <1>2
    <3> QED
      BY <1>2, <3>1, <3>2
  <2> QED
    BY <2>1, <2>2
<1>5. ASSUME NEW j \in 1 .. Len(d \o e), NEW k \in 1 .. Len(d \o e),
             (d \o e)[j] = (d \o e)[k]
      PROVE  j = k
  <2>1. CASE j \in 1 .. Len(d) /\ k \in 1 .. Len(d)
    BY <1>2, <1>5, <2>1 DEF Lists
  <2>2. CASE j - Len(d) \in 1 .. Len(e) /\ k - Len(d) \in 1 .. Len(e)
    <3>1. e[j - Len(d)] = e[k - Len(d)]
      BY <1>2, <1>3, <1>5, <2>2
    <3>2. j - Len(d) = k - Len(d)
      BY <2>2, <3>1 DEF Lists
    <3> QED
      BY <1>2, <3>2
  <2> QED
    BY <1>2, <1>3, <1>5, <2>1, <2>2
<1> QED
  BY <1>1, <1>4, <1>5 DEF Lists

(* Arranging a finite set of positions by an order lists the elements at   *)
(* them, each once.                                                        *)
LEMMA ArrangedLists ==
  ASSUME NEW s, NEW I, IsFiniteSet(I), NEW R, Orders(R, I),
         \A i, j \in I : s[i] = s[j] => i = j
  PROVE  Lists(Arranged(s, I, R), {s[i] : i \in I})
<1> DEFINE N == 1 .. Cardinality(I)
           d == Arranged(s, I, R)
<1>0. Cardinality(I) \in Nat
  BY FS_CardinalityType
<1>1. PICK e \in [N -> I] :
        /\ d = [k \in N |-> s[e[k]]]
        /\ \A i \in I : \E k \in N : e[k] = i
        /\ \A j, k \in N : j < k => <<e[j], e[k]>> \in R
  BY ArrangedInOrder
<1> HIDE DEF d
<1>2. d \in Seq({s[i] : i \in I}) /\ Len(d) = Cardinality(I)
  BY <1>0, <1>1
<1>3. ASSUME NEW i \in I PROVE \E k \in N : d[k] = s[i]
  BY <1>1
<1>4. ASSUME NEW j \in N, NEW k \in N, d[j] = d[k] PROVE j = k
  <2>1. e[j] = e[k] /\ e[j] \in I
    BY <1>1, <1>4
  <2>2. ~ (j < k) /\ ~ (k < j)
    BY <1>1, <2>1 DEF Orders
  <2> QED
    BY <1>0, <2>2
<1> QED
  BY <1>2, <1>3, <1>4 DEF Lists, d

(* The elements at some positions, in the order of the queue, list those   *)
(* elements.                                                               *)
LEMMA SelectedLists ==
  ASSUME NEW T, NEW s \in Seq(T), NEW I \in SUBSET DOMAIN s,
         \A i, j \in I : s[i] = s[j] => i = j
  PROVE  Lists(Selected(s, I), {s[i] : i \in I})
<1> DEFINE R == {p \in I \X I : p[1] < p[2]}
<1>1. I \subseteq 1 .. Len(s) /\ Len(s) \in Nat
  OBVIOUS
<1>2. IsFiniteSet(I)
  BY <1>1, FS_Interval, FS_Subset
<1>3. \A i, j \in I : <<i, j>> \in R <=> i < j
  OBVIOUS
<1>4. Orders(R, I)
  BY <1>1, <1>3 DEF Orders
<1> QED
  BY <1>2, <1>4, ArrangedLists DEF Selected

(* sort_by is stable: it orders the indices.                               *)
LEMMA SortsBeforeOrders ==
  ASSUME NEW s, NEW I, I \subseteq Nat,
         \A i \in I : s[i].channel \in Int /\ s[i].req.fd \in Int /\ s[i].req.offset \in Int
  PROVE  /\ Orders({p \in I \X I : SortsBefore(s, p[1], p[2])}, I)
         /\ \A i, j \in I : <<i, j>> \in {p \in I \X I : SortsBefore(s, p[1], p[2])}
                              <=> SortsBefore(s, i, j)
<1> DEFINE R == {p \in I \X I : SortsBefore(s, p[1], p[2])}
<1>1. \A i, j \in I : <<i, j>> \in R <=> SortsBefore(s, i, j)
  OBVIOUS
<1>2. \A i \in I : ~ SortsBefore(s, i, i)
  BY DEF SortsBefore
<1>3. \A i, j \in I : i # j => SortsBefore(s, i, j) \/ SortsBefore(s, j, i)
  BY DEF SortsBefore
<1>4. \A i, j, k \in I : SortsBefore(s, i, j) /\ SortsBefore(s, j, k) => SortsBefore(s, i, k)
  BY DEF SortsBefore
<1> QED
  BY <1>1, <1>2, <1>3, <1>4 DEF Orders

(* Sorting the elements at some positions by channel, descriptor and       *)
(* offset lists those elements.                                            *)
LEMMA SortedLists ==
  ASSUME NEW T, NEW s \in Seq(T), NEW I \in SUBSET DOMAIN s,
         \A i, j \in I : s[i] = s[j] => i = j,
         \A t \in T : t.channel \in Int /\ t.req.fd \in Int /\ t.req.offset \in Int
  PROVE  Lists(Sorted(s, I), {s[i] : i \in I})
<1>1. I \subseteq 1 .. Len(s) /\ Len(s) \in Nat /\ I \subseteq Nat
  OBVIOUS
<1>2. IsFiniteSet(I)
  BY <1>1, FS_Interval, FS_Subset
<1>3. \A i \in I : s[i] \in T
  OBVIOUS
<1>4. Orders({p \in I \X I : SortsBefore(s, p[1], p[2])}, I)
  BY <1>1, <1>3, SortsBeforeOrders
<1> QED
  BY <1>2, <1>4, ArrangedLists DEF Sorted
-----------------------------------------------------------------------------
(* Requests of different channels: nothing is merged.                      *)

LEMMA SinglesList ==
  ASSUME NEW X, NEW d, Lists(d, X), DistinctChannels(X)
  PROVE  Lists(PassThroughDrain(d), {Single(t) : t \in X})
<1>1. d \in Seq(X) /\ Len(d) \in Nat /\ DOMAIN d = 1 .. Len(d)
  BY DEF Lists
<1> DEFINE e == PassThroughDrain(d)
<1>2. e = [k \in 1 .. Len(d) |-> Single(d[k])]
  BY <1>1 DEF PassThroughDrain
<1>3. e \in Seq({Single(t) : t \in X}) /\ Len(e) = Len(d)
  BY <1>1, <1>2
<1>4. ASSUME NEW x \in {Single(t) : t \in X} PROVE \E k \in 1 .. Len(e) : e[k] = x
  <2>1. PICK t \in X : x = Single(t)
    BY <1>4
  <2>2. PICK k \in 1 .. Len(d) : d[k] = t
    BY DEF Lists
  <2> QED
    BY <1>2, <1>3, <2>1, <2>2
<1>5. ASSUME NEW j \in 1 .. Len(e), NEW k \in 1 .. Len(e), e[j] = e[k] PROVE j = k
  <2>1. Single(d[j]) = Single(d[k]) /\ d[j] \in X /\ d[k] \in X
    BY <1>1, <1>2, <1>3, <1>5
  <2>2. d[j].channel = d[k].channel
    BY <2>1 DEF Single
  <2> QED
    BY <1>3, <2>1, <2>2 DEF DistinctChannels, Lists
<1> HIDE DEF e
<1>6. Lists(e, {Single(t) : t \in X})
  BY <1>3, <1>4, <1>5 DEF Lists
<1> QED
  BY <1>6 DEF e

(* When no two operations share a channel, merge_adjacent merges nothing.  *)
LEMMA MergeApart ==
  ASSUME NEW X, NEW d, Lists(d, X), DistinctChannels(X)
  PROVE  MergeAdjacent(d) = PassThroughDrain(d)
<1>1. d \in Seq(X) /\ Len(d) \in Nat /\ DOMAIN d = 1 .. Len(d)
  BY DEF Lists
<1> DEFINE Y == {Single(t) : t \in X}
           first(n) == [k \in 1 .. n |-> Single(d[k])]
           S == {n \in Nat : n <= Len(d) => Merged(d)[n] = first(n)}
<1>2. 0 \in S
  BY <1>1, MergedEquation
<1>3. ASSUME NEW n \in Nat, n \in S PROVE n + 1 \in S
  <2> SUFFICES ASSUME n + 1 <= Len(d) PROVE Merged(d)[n + 1] = first(n + 1)
    OBVIOUS
  <2>1. Merged(d)[n + 1] = MergeNext(first(n), d[n + 1])
    <3>1. n + 1 \in 1 .. Len(d) /\ (n + 1) - 1 = n
      BY <1>1
    <3>2. Merged(d)[n + 1] = MergeNext(Merged(d)[(n + 1) - 1], d[n + 1])
      BY <1>1, <3>1, MergedEquation
    <3> QED
      BY <1>1, <1>3, <3>1, <3>2
  <2>2. \A k \in 1 .. Len(d) : d[k] \in X /\ Single(d[k]) \in Y
    BY <1>1
  <2>3. first(n) \in Seq(Y) /\ Len(first(n)) = n
    BY <1>1, <2>2
  <2>4. first(n) # <<>> => ~ Joins(first(n)[Len(first(n))], d[n + 1])
    <3> SUFFICES ASSUME n # 0 PROVE ~ Joins(Single(d[n]), d[n + 1])
      BY <2>3
    <3>1. n \in 1 .. Len(d) /\ n + 1 \in 1 .. Len(d)
      BY <1>1
    <3>2. d[n].channel # d[n + 1].channel
      <4>1. d[n] # d[n + 1]
        BY <3>1 DEF Lists
      <4> QED
        BY <2>2, <3>1, <4>1 DEF DistinctChannels
    <3> QED
      BY <3>2 DEF Joins, Single
  <2>5. MergeNext(first(n), d[n + 1]) = Append(first(n), Single(d[n + 1]))
    BY <2>4 DEF MergeNext
  <2>6. Append(first(n), Single(d[n + 1])) = first(n + 1)
    <3>1. Single(d[n + 1]) \in Y
      BY <1>1, <2>2
    <3> QED
      BY <2>3, <3>1
  <2> QED
    BY <2>1, <2>5, <2>6
<1> HIDE DEF S
<1>4. Len(d) \in S
  BY <1>1, <1>2, <1>3, NatInSet
<1>5. Merged(d)[Len(d)] = first(Len(d))
  BY <1>4 DEF S
<1> QED
  BY <1>1, <1>5 DEF MergeAdjacent, PassThroughDrain

Queues == {"Critical", "High", "Low"}

\* What the sorts and the queues look at.
Sortable(X) ==
  \A t \in X : t.channel \in Int /\ t.req.fd \in Int /\ t.req.offset \in Int

(* Sorted and merged, the operations at some positions still list them,    *)
(* each as a merge of one.                                                 *)
LEMMA MergedLists ==
  ASSUME NEW T, NEW s \in Seq(T), NEW I \in SUBSET DOMAIN s, Sortable(T),
         DistinctChannels(T), \A i, j \in DOMAIN s : s[i] = s[j] => i = j
  PROVE  Lists(MergeAdjacent(Sorted(s, I)), {Single(s[i]) : i \in I})
<1> DEFINE X == {s[i] : i \in I}
<1>1. Lists(Sorted(s, I), X)
  BY SortedLists DEF Sortable
<1>2. \A i \in I : s[i] \in T
  OBVIOUS
<1>3. DistinctChannels(X)
  BY <1>2 DEF DistinctChannels
<1>4. {Single(t) : t \in X} = {Single(s[i]) : i \in I}
  OBVIOUS
<1> QED
  BY <1>1, <1>3, <1>4, MergeApart, SinglesList

(* The merged classes of a drain, one after the other, list everything     *)
(* that was pending.                                                       *)
LEMMA DrainMergedLists ==
  ASSUME NEW T, NEW s \in Seq(T), Sortable(T),
         DistinctChannels(T), \A i, j \in DOMAIN s : s[i] = s[j] => i = j
  PROVE  Lists(DrainMerged(s), {Single(s[i]) : i \in DOMAIN s})
<1> DEFINE reads == OfKind(s, "Read")
           writes == OfKind(s, "Write")
           others == DOMAIN s \ (reads \cup writes)
           made(I) == {Single(s[i]) : i \in I}
<1>1. /\ reads \subseteq DOMAIN s /\ writes \subseteq DOMAIN s /\ reads \cap writes = {}
      /\ others \subseteq DOMAIN s
      /\ others \cup reads \cup writes = DOMAIN s
  BY DEF OfKind
<1>2. Lists(PassThroughDrain(Selected(s, others)), made(others))
  <2>1. Lists(Selected(s, others), {s[i] : i \in others})
    BY <1>1, SelectedLists
  <2>2. \A i \in others : s[i] \in T
    BY <1>1
  <2>3. DistinctChannels({s[i] : i \in others})
    BY <2>2 DEF DistinctChannels
  <2>4. {Single(t) : t \in {s[i] : i \in others}} = made(others)
    OBVIOUS
  <2> QED
    BY <2>1, <2>3, <2>4, SinglesList
<1>3. /\ Lists(MergeAdjacent(Sorted(s, reads)), made(reads))
      /\ Lists(MergeAdjacent(Sorted(s, writes)), made(writes))
  BY <1>1, MergedLists
<1>4. \A i, j \in DOMAIN s : Single(s[i]) = Single(s[j]) => i = j
  <2> SUFFICES ASSUME NEW i \in DOMAIN s, NEW j \in DOMAIN s, Single(s[i]) = Single(s[j])
               PROVE  i = j
    OBVIOUS
  <2>1. s[i].channel = s[j].channel
    BY DEF Single
  <2>2. s[i] \in T /\ s[j] \in T
    OBVIOUS
  <2> QED
    BY <2>1, <2>2 DEF DistinctChannels
<1>5. /\ made(others) \cap made(reads) = {}
      /\ (made(others) \cup made(reads)) \cap made(writes) = {}
      /\ made(others) \cup made(reads) \cup made(writes) = made(DOMAIN s)
  <2> HIDE DEF reads, writes
  <2> QED
    BY <1>1, <1>4
<1> HIDE DEF reads, writes, others, made
<1>6. DrainMerged(s) = (PassThroughDrain(Selected(s, others)) \o MergeAdjacent(Sorted(s, reads)))
                         \o MergeAdjacent(Sorted(s, writes))
  BY DEF DrainMerged, reads, writes, others
<1> DEFINE front == PassThroughDrain(Selected(s, others)) \o MergeAdjacent(Sorted(s, reads))
<1>7. Lists(front, made(others) \cup made(reads))
  BY <1>2, <1>3, <1>5, ListsConcat
<1> HIDE DEF front
<1>8. Lists(front \o MergeAdjacent(Sorted(s, writes)),
            (made(others) \cup made(reads)) \cup made(writes))
  BY <1>3, <1>5, <1>7, ListsConcat
<1>9. Lists(DrainMerged(s), made(DOMAIN s))
  BY <1>5, <1>6, <1>8 DEF front
<1> QED
  BY <1>9 DEF made

(* A queue of the scheduler lists the operations of its priority.          *)
LEMMA QueueLists ==
  ASSUME NEW X, NEW d, Lists(d, X), NEW p
  PROVE  Lists(Queue(d, p), {x \in X : x.req.priority = p})
<1> DEFINE I == {k \in DOMAIN d : d[k].req.priority = p}
<1>1. d \in Seq(X) /\ DOMAIN d = 1 .. Len(d) /\ I \in SUBSET DOMAIN d
  BY DEF Lists
<1>2. \A j, k \in I : d[j] = d[k] => j = k
  BY <1>1 DEF Lists
<1>3. Lists(Selected(d, I), {d[k] : k \in I})
  BY <1>1, <1>2, SelectedLists
<1>4. {d[k] : k \in I} = {x \in X : x.req.priority = p}
  BY <1>1 DEF Lists
<1> QED
  BY <1>3, <1>4 DEF Queue

(* The scheduler hands out everything it was given, once.                  *)
LEMMA SchedulerLists ==
  ASSUME NEW X, NEW d, Lists(d, X), \A x \in X : x.req.priority \in Queues
  PROVE  Lists(DrainByPriority(d), X)
<1> DEFINE of(p) == {x \in X : x.req.priority = p}
<1>1. /\ of("Critical") \cap of("High") = {}
      /\ (of("Critical") \cup of("High")) \cap of("Low") = {}
      /\ of("Critical") \cup of("High") \cup of("Low") = X
  BY DEF Queues
<1>2. \A p \in Queues : Lists(Queue(d, p), of(p))
  BY QueueLists
<1> HIDE DEF of
<1>3. DrainByPriority(d) = (Queue(d, "Critical") \o Queue(d, "High")) \o Queue(d, "Low")
  BY DEF DrainByPriority
<1> DEFINE front == Queue(d, "Critical") \o Queue(d, "High")
<1>4. Lists(front, of("Critical") \cup of("High"))
  BY <1>1, <1>2, ListsConcat DEF Queues
<1> HIDE DEF front
<1>5. Lists(front \o Queue(d, "Low"), (of("Critical") \cup of("High")) \cup of("Low"))
  BY <1>1, <1>2, <1>4, ListsConcat DEF Queues
<1> QED
  BY <1>1, <1>3, <1>5 DEF front

(* One request per channel at most: the stage Batched makes of each an     *)
(* operation of its own, and hands each out once.                          *)
LEMMA BatchedDrainLists ==
  ASSUME NEW T, NEW s \in Seq(T), Sortable(T), DistinctChannels(T),
         \A i, j \in DOMAIN s : s[i] = s[j] => i = j,
         \A t \in T : t.req.priority \in Queues
  PROVE  Lists(BatchedDrain(s), {Single(s[i]) : i \in DOMAIN s})
<1> DEFINE X == {Single(s[i]) : i \in DOMAIN s}
<1>1. Lists(DrainMerged(s), X)
  BY DrainMergedLists
<1>2. ASSUME NEW x \in X PROVE x.req.priority \in Queues
  <2>1. PICK i \in DOMAIN s : x = Single(s[i])
    OBVIOUS
  <2>2. s[i] \in T
    OBVIOUS
  <2> QED
    BY <2>1, <2>2 DEF Single
<1> QED
  BY <1>1, <1>2, SchedulerLists DEF BatchedDrain
=============================================================================
