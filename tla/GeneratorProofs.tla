--------------------------- MODULE GeneratorProofs ---------------------------
(***************************************************************************)
(* That the nodes of a cluster find each other once generate has laid it   *)
(* out, for every number of validators and sentries, and that at every     *)
(* step before, and wherever it stops, its files are what the numbers of   *)
(* the nodes make of them.                                                 *)
(* First, what generate and the genesis do with lists: filtering, summing, *)
(* sorting and numbering.                                                  *)
(***************************************************************************)
EXTENDS Generator, FiniteSetTheorems, TLAPS
-----------------------------------------------------------------------------
(* Induction and lists                                                     *)

\* A sequence, of whatever.
IsList(s) == s \in Seq(Range(s))

\* The least number of a set of them, from which induction follows.
LEMMA Below == IsWellFoundedOn({p \in Nat \X Nat : p[1] < p[2]}, Nat)
BY NatLessThanWellFounded, Zenon DEF OpToRel

\* A set of numbers has a least one.
LEMMA Least ==
    ASSUME NEW T, T \subseteq Nat, T # {}
    PROVE  \E x \in T : \A y \in T : x <= y
<1>1. PICK x \in T : \A y \in T : ~ (<<y, x>> \in {p \in Nat \X Nat : p[1] < p[2]})
    BY Below, WFMin, Zenon
<1>2. \A y \in T : ~(y < x)
    <2> TAKE y \in T
    <2>1. ~(<<y, x>> \in {p \in Nat \X Nat : p[1] < p[2]})
        BY <1>1, Zenon
    <2>2. <<y, x>> \in Nat \X Nat
        BY Zenon
    <2>3. ~(<<y, x>>[1] < <<y, x>>[2])
        BY <2>1, <2>2, Zenon
    <2> QED  BY <2>3
<1>3. \A y \in T : x <= y
    BY <1>2
<1> QED  BY <1>3

\* Induction, about a set of numbers.
LEMMA Inductive ==
    ASSUME NEW S, 0 \in S, \A n \in Nat : n \in S => n + 1 \in S
    PROVE  \A n \in Nat : n \in S
<1> SUFFICES ASSUME NEW m \in Nat, m \notin S PROVE FALSE
    OBVIOUS
<1>1. PICK x \in Nat \ S : \A y \in Nat \ S : x <= y
    <2>1. Nat \ S \subseteq Nat /\ Nat \ S # {}
        OBVIOUS
    <2> QED  BY <2>1, Least, Zenon
<1>2. x # 0 /\ x - 1 \in Nat /\ x - 1 < x
    BY <1>1
<1>3. x - 1 \in S
    BY <1>1, <1>2
<1> QED  BY <1>1, <1>2, <1>3

\* Append, about a sequence of whatever.
LEMMA Appended ==
    ASSUME NEW s, IsList(s), NEW x
    PROVE  /\ IsList(Append(s, x))
           /\ Len(Append(s, x)) = Len(s) + 1
           /\ DOMAIN Append(s, x) = 1..(Len(s) + 1)
           /\ \A k \in 1..Len(s) : Append(s, x)[k] = s[k]
           /\ Append(s, x)[Len(s) + 1] = x
           /\ Range(Append(s, x)) = Range(s) \union {x}
<1> DEFINE S == Range(s) \union {x}
<1>1. s \in Seq(S) /\ x \in S
    BY DEF IsList
<1> HIDE DEF S
<1>2. PICK t : t = Append(s, x)
    BY Zenon
<1>3. /\ t \in Seq(S)
      /\ Len(s) \in Nat /\ Len(t) = Len(s) + 1
      /\ DOMAIN s = 1..Len(s) /\ DOMAIN t = 1..(Len(s) + 1)
      /\ \A k \in 1..Len(s) : t[k] = s[k]
      /\ t[Len(s) + 1] = x
    BY <1>1, <1>2
<1>4. Range(t) = Range(s) \union {x}
    BY <1>3 DEF Range
<1>5. IsList(t)
    BY <1>3, <1>4, Zenon DEF S, IsList
<1> QED  BY <1>2, <1>3, <1>4, <1>5, Zenon

\* filterStringValue, by its steps.
IsFiltered(new, list, filter) ==
    new = [k \in 0..Len(list) |->
              IF k = 0 THEN << >>
              ELSE IF list[k] # filter THEN Append(new[k - 1], list[k]) ELSE new[k - 1]]

\* There is such a function: the recursion is well founded.
LEMMA FilterExists ==
    ASSUME NEW list, Len(list) \in Nat, NEW filter
    PROVE  \E new : IsFiltered(new, list, filter)
<1> DEFINE Part(f, n) ==
        f = [k \in 0..n |->
                IF k = 0 THEN << >>
                ELSE IF list[k] # filter THEN Append(f[k - 1], list[k]) ELSE f[k - 1]]
<1> DEFINE S == {n \in Nat : \E f : Part(f, n)}
<1>1. 0 \in S
    <2>1. Part([k \in 0..0 |-> << >>], 0)
        OBVIOUS
    <2> QED  BY <2>1, Zenon
<1>2. ASSUME NEW n \in Nat, n \in S PROVE n + 1 \in S
    <2>1. PICK f : Part(f, n)
        BY <1>2
    <2>2. PICK x : x = IF list[n + 1] # filter THEN Append(f[n], list[n + 1]) ELSE f[n]
        BY Zenon
    <2>3. PICK g : g = [k \in 0..(n + 1) |-> IF k = n + 1 THEN x ELSE f[k]]
        BY Zenon
    <2>4. \A k \in 0..(n + 1) : k = n + 1 \/ k \in 0..n
        OBVIOUS
    <2>5. \A k \in 0..n : g[k] = f[k] /\ k # n + 1 /\ k \in 0..(n + 1)
        BY <2>3
    <2>6. ASSUME NEW k \in 0..(n + 1)
          PROVE  g[k] = IF k = 0 THEN << >>
                        ELSE IF list[k] # filter THEN Append(g[k - 1], list[k]) ELSE g[k - 1]
        <3>1. CASE k = n + 1
            <4>1. g[k] = x /\ k # 0 /\ k - 1 = n /\ n \in 0..n
                BY <2>3, <3>1
            <4> QED  BY <2>2, <2>5, <3>1, <4>1, Zenon
        <3>2. CASE k \in 0..n /\ k # 0
            <4>1. k - 1 \in 0..n
                BY <3>2
            <4>2. f[k] = IF list[k] # filter THEN Append(f[k - 1], list[k]) ELSE f[k - 1]
                BY <2>1, <3>2, Zenon
            <4> QED  BY <2>5, <3>2, <4>1, <4>2, Zenon
        <3>3. CASE k = 0
            <4>1. 0 \in 0..n
                OBVIOUS
            <4>2. f[0] = << >>
                BY <2>1, <4>1, Zenon
            <4> QED  BY <2>5, <3>3, <4>1, <4>2, Zenon
        <3> QED  BY <2>4, <3>1, <3>2, <3>3, Zenon
    <2>7. Part(g, n + 1)
        <3>1. g = [k \in 0..(n + 1) |-> g[k]]
            BY <2>3, Zenon
        <3> QED  BY <2>6, <3>1, Zenon
    <2>8. n + 1 \in Nat
        OBVIOUS
    <2> QED  BY <2>7, <2>8, Zenon
<1>3. \A n \in Nat : n \in S
    <2> HIDE DEF S
    <2> QED  BY <1>1, <1>2, Inductive, Zenon
<1> QED  BY <1>3, Zenon DEF IsFiltered

\* The positions that a filter keeps.
Kept(list, filter, n) == {k \in 1..n : list[k] # filter}

\* A filtered list has the values of the list, but the filtered one, and each as
\* often as it was there.
LEMMA Filtered ==
    ASSUME NEW list, IsList(list), NEW filter
    PROVE  /\ Range(filterStringValue(list, filter)) = {list[k] : k \in Kept(list, filter, Len(list))}
           /\ Len(filterStringValue(list, filter)) = Cardinality(Kept(list, filter, Len(list)))
<1>0. Len(list) \in Nat
    BY DEF IsList
<1>1. PICK new : IsFiltered(new, list, filter) /\ filterStringValue(list, filter) = new[Len(list)]
    <2>1. filterStringValue(list, filter) = (CHOOSE new : IsFiltered(new, list, filter))[Len(list)]
        BY Zenon DEF filterStringValue, IsFiltered
    <2> QED  BY <1>0, <2>1, FilterExists, Zenon
<1> DEFINE Fine(k) ==
        /\ IsList(new[k])
        /\ Range(new[k]) = {list[j] : j \in Kept(list, filter, k)}
        /\ IsFiniteSet(Kept(list, filter, k))
        /\ Len(new[k]) = Cardinality(Kept(list, filter, k))
<1> DEFINE S == {k \in Nat : k <= Len(list) => Fine(k)}
<1>2. 0 \in S
    <2>1. new[0] = << >>
        BY <1>0, <1>1 DEF IsFiltered
    <2>2. Kept(list, filter, 0) = {}
        BY DEF Kept
    <2>3. IsFiniteSet({}) /\ Cardinality({}) = 0
        BY FS_EmptySet, Zenon
    <2>4. IsList(<< >>) /\ Range(<< >>) = {} /\ Len(<< >>) = 0
        BY DEF Range, IsList
    <2>5. {list[j] : j \in {}} = {}
        OBVIOUS
    <2>6. Fine(0)
        BY <2>1, <2>2, <2>3, <2>4, <2>5, Zenon
    <2> QED  BY <2>6
<1>3. ASSUME NEW k \in Nat, k \in S PROVE k + 1 \in S
    <2> SUFFICES ASSUME k + 1 <= Len(list) PROVE Fine(k + 1)
        OBVIOUS
    <2>1. Fine(k) /\ k + 1 \in 0..Len(list) /\ k + 1 # 0 /\ (k + 1) - 1 = k
        BY <1>0, <1>3
    <2>2. new[k + 1] = IF list[k + 1] # filter THEN Append(new[k], list[k + 1]) ELSE new[k]
        <3>1. new[k + 1] = IF list[k + 1] # filter
                           THEN Append(new[(k + 1) - 1], list[k + 1]) ELSE new[(k + 1) - 1]
            BY <1>1, <2>1, Zenon DEF IsFiltered
        <3> QED  BY <2>1, <3>1, Zenon
    <2>3. CASE list[k + 1] # filter
        <3>1. /\ Kept(list, filter, k + 1) = Kept(list, filter, k) \union {k + 1}
              /\ k + 1 \notin Kept(list, filter, k)
            BY <2>3 DEF Kept
        <3>2. /\ IsFiniteSet(Kept(list, filter, k + 1))
              /\ Cardinality(Kept(list, filter, k + 1)) = Cardinality(Kept(list, filter, k)) + 1
            <4>1. PICK K : K = Kept(list, filter, k)
                BY Zenon
            <4>2. IsFiniteSet(K) /\ k + 1 \notin K
                BY <2>1, <3>1, <4>1, Zenon
            <4>3. IsFiniteSet(K \union {k + 1}) /\ Cardinality(K \union {k + 1}) = Cardinality(K) + 1
                BY <4>2, FS_AddElement
            <4> QED  BY <3>1, <4>1, <4>3, Zenon
        <3>3. new[k + 1] = Append(new[k], list[k + 1])
            BY <2>2, <2>3, Zenon
        <3>4. /\ IsList(new[k + 1])
              /\ Len(new[k + 1]) = Len(new[k]) + 1
              /\ Range(new[k + 1]) = Range(new[k]) \union {list[k + 1]}
            <4>1. IsList(new[k])
                BY <2>1, Zenon
            <4>2. PICK a, x : a = new[k] /\ x = list[k + 1]
                BY Zenon
            <4>3. /\ IsList(Append(a, x))
                  /\ Len(Append(a, x)) = Len(a) + 1
                  /\ Range(Append(a, x)) = Range(a) \union {x}
                <5>1. IsList(a)
                    BY <4>1, <4>2, Zenon
                <5> QED  BY <5>1, Appended
            <4> QED  BY <3>3, <4>2, <4>3, Zenon
        <3>5. {list[j] : j \in Kept(list, filter, k) \union {k + 1}} =
                  {list[j] : j \in Kept(list, filter, k)} \union {list[k + 1]}
            OBVIOUS
        <3> QED  BY <2>1, <3>1, <3>2, <3>4, <3>5, Zenon
    <2>4. CASE list[k + 1] = filter
        <3>1. Kept(list, filter, k + 1) = Kept(list, filter, k)
            BY <2>4 DEF Kept
        <3>2. new[k + 1] = new[k]
            BY <2>2, <2>4, Zenon
        <3> QED  BY <2>1, <3>1, <3>2, Zenon
    <2> QED  BY <2>3, <2>4, Zenon
<1>4. \A k \in Nat : k \in S
    <2> HIDE DEF S
    <2> QED  BY <1>2, <1>3, Inductive, Zenon
<1>5. Fine(Len(list))
    <2>1. Len(list) <= Len(list)
        BY <1>0
    <2> QED  BY <1>0, <1>4, <2>1, Zenon
<1> QED  BY <1>1, <1>5, Zenon

LEMMA ListDomain ==
    ASSUME NEW s, IsList(s)
    PROVE  Len(s) \in Nat /\ DOMAIN s = 1..Len(s)
BY DEF IsList

\* The first n numbers of a larger range.
LEMMA FirstNumbers ==
    ASSUME NEW n \in Nat
    PROVE  IsFiniteSet(1..n) /\ Cardinality(1..n) = n
<1>1. 1 \in Int /\ n \in Int
    OBVIOUS
<1>2. IsFiniteSet(1..n) /\ Cardinality(1..n) = IF 1 > n THEN 0 ELSE n - 1 + 1
    BY <1>1, FS_Interval, Zenon
<1> QED  BY <1>2
-----------------------------------------------------------------------------
(* Sums                                                                    *)

\* The element that a fold over a set takes first.
Pick(s) == CHOOSE x \in s : TRUE

\* The totals of all subsets, by the element taken first.
IsTotals(t, f, D) ==
    t = [s \in SUBSET D |-> IF s = {} THEN 0 ELSE f[Pick(s)] + t[s \ {Pick(s)}]]

\* The subsets of at most n elements.
Upto(D, n) == {s \in SUBSET D : Cardinality(s) <= n}

Summed(t, f, D) == IsFiniteSet(D) /\ (\A x \in D : f[x] \in Int) /\ IsTotals(t, f, D)

\* A permutation of the positions, and the values moved along with it.
Moves(p, E, D, f, g, R) ==
    /\ p \in [E -> D]
    /\ \A x, y \in E : p[x] = p[y] => x = y
    /\ \A x \in E : g[x] = f[p[x]]
    /\ \A y \in R : \E x \in E : y = p[x]
    /\ \A x \in E : p[x] \in R

\* One value more.
Extends(f, g, x, D) ==
    /\ IsFiniteSet(D) /\ x \notin D
    /\ DOMAIN f = D \union {x} /\ DOMAIN g = D /\ f[x] \in Int
    /\ \A k \in D : f[k] = g[k] /\ g[k] \in Int

\* A sum over a finite domain: nothing sums to 0, whole numbers sum to one, a value more
\* adds itself, and a permutation of the values leaves the sum.
LEMMA Sums ==
    /\ \A f : DOMAIN f = {} => SumFunction(f) = 0
    /\ \A D, f : IsFiniteSet(D) /\ DOMAIN f = D /\ (\A k \in D : f[k] \in Int)
                  => SumFunction(f) \in Int
    /\ \A f, g, x, D : Extends(f, g, x, D) => SumFunction(f) = f[x] + SumFunction(g)
    /\ \A D, f, g, p :
          IsFiniteSet(D) /\ DOMAIN f = D /\ DOMAIN g = D /\ (\A k \in D : f[k] \in Int)
              /\ Moves(p, D, D, f, g, D)
          => SumFunction(g) = SumFunction(f)
<1>1. ASSUME NEW s, s # {} PROVE Pick(s) \in s
    BY <1>1, Zenon DEF Pick
\* A set without one of its elements is smaller.
<1>2. ASSUME NEW D, IsFiniteSet(D), NEW s \in SUBSET D, s # {}, NEW x \in s
      PROVE  /\ s \ {x} \in SUBSET D
             /\ Cardinality(s) \in Nat /\ Cardinality(s \ {x}) \in Nat
             /\ Cardinality(s \ {x}) + 1 = Cardinality(s)
    <2> USE <1>2
    <2>1. IsFiniteSet(s)
        BY FS_Subset, Zenon
    <2>2. IsFiniteSet(s \ {x}) /\ Cardinality(s \ {x}) = Cardinality(s) - 1
        BY <2>1, FS_RemoveElement, Zenon
    <2>3. Cardinality(s) \in Nat /\ Cardinality(s \ {x}) \in Nat
        BY <2>1, <2>2, FS_CardinalityType, Zenon
    <2> QED  BY <2>2, <2>3
\* There is such a function: the recursion ends with the empty set.
<1>3. ASSUME NEW D, IsFiniteSet(D), NEW f
      PROVE  \E t : IsTotals(t, f, D)
    <2> USE <1>3
    <2> DEFINE Part(t, n) ==
            t = [s \in Upto(D, n) |-> IF s = {} THEN 0 ELSE f[Pick(s)] + t[s \ {Pick(s)}]]
    <2> DEFINE S == {n \in Nat : \E t : Part(t, n)}
    <2>1. 0 \in S
        <3>1. \A s \in Upto(D, 0) : s = {}
            <4> TAKE s \in Upto(D, 0)
            <4>1. IsFiniteSet(s)
                BY FS_Subset, Zenon DEF Upto
            <4>2. Cardinality(s) \in Nat /\ Cardinality(s) <= 0
                BY <4>1, FS_CardinalityType, Zenon DEF Upto
            <4>3. Cardinality(s) = 0
                BY <4>2
            <4> QED  BY <4>1, <4>3, FS_EmptySet, Zenon
        <3> DEFINE t == [s \in Upto(D, 0) |-> 0]
        <3>2. Part(t, 0)
            BY <3>1, Zenon
        <3> QED  BY <3>2, Zenon
    <2>2. ASSUME NEW n \in Nat, n \in S PROVE n + 1 \in S
        <3>1. PICK t : Part(t, n)
            BY <2>2
        <3> DEFINE u == [s \in Upto(D, n + 1) |-> IF s = {} THEN 0 ELSE f[Pick(s)] + t[s \ {Pick(s)}]]
        <3>2. \A s \in Upto(D, n) : s \in Upto(D, n + 1)
            <4> TAKE s \in Upto(D, n)
            <4>1. IsFiniteSet(s)
                BY FS_Subset, Zenon DEF Upto
            <4>2. Cardinality(s) \in Nat /\ Cardinality(s) <= n
                BY <4>1, FS_CardinalityType, Zenon DEF Upto
            <4>3. Cardinality(s) <= n + 1
                BY <4>2
            <4> QED  BY <4>3, Zenon DEF Upto
        <3>3. \A s \in Upto(D, n + 1) : s # {} => s \ {Pick(s)} \in Upto(D, n)
            <4> SUFFICES ASSUME NEW s \in Upto(D, n + 1), s # {} PROVE s \ {Pick(s)} \in Upto(D, n)
                BY Zenon
            <4>1. s \in SUBSET D /\ Cardinality(s) <= n + 1
                BY Zenon DEF Upto
            <4>2. /\ s \ {Pick(s)} \in SUBSET D
                  /\ Cardinality(s) \in Nat /\ Cardinality(s \ {Pick(s)}) \in Nat
                  /\ Cardinality(s \ {Pick(s)}) + 1 = Cardinality(s)
                BY <4>1, <1>1, <1>2, Zenon
            <4>3. Cardinality(s \ {Pick(s)}) <= n
                BY <4>1, <4>2
            <4> QED  BY <4>2, <4>3, Zenon DEF Upto
        <3>4. \A s \in Upto(D, n) : u[s] = t[s]
            <4> TAKE s \in Upto(D, n)
            <4>1. t[s] = IF s = {} THEN 0 ELSE f[Pick(s)] + t[s \ {Pick(s)}]
                BY <3>1, Zenon
            <4> QED  BY <3>2, <4>1, Zenon
        <3>5. Part(u, n + 1)
            BY <3>3, <3>4, Zenon
        <3>6. n + 1 \in Nat
            OBVIOUS
        <3> QED  BY <3>5, <3>6, Zenon
    <2>3. \A n \in Nat : n \in S
        <3> HIDE DEF S
        <3> QED  BY <2>1, <2>2, Inductive, Zenon
    <2>4. Upto(D, Cardinality(D)) = SUBSET D
        BY FS_Subset, Zenon DEF Upto
    <2>5. Cardinality(D) \in Nat
        BY FS_CardinalityType, Zenon
    <2>6. PICK t : Part(t, Cardinality(D))
        BY <2>3, <2>5, Zenon
    <2>7. IsTotals(t, f, D)
        BY <2>4, <2>6, Zenon DEF IsTotals
    <2> QED  BY <2>7, Zenon
<1>4. \A a, b, c \in Int : a + (b + c) = b + (a + c)
    OBVIOUS
\* The order in which the values are taken does not matter.
<1>5. ASSUME NEW D, NEW f, NEW t, Summed(t, f, D)
      PROVE  \A s \in SUBSET D : t[s] \in Int /\ \A x \in s : t[s] = f[x] + t[s \ {x}]
    <2> USE <1>5
    <2>d. IsFiniteSet(D) /\ (\A x \in D : f[x] \in Int) /\ IsTotals(t, f, D)
        BY Zenon DEF Summed
    <2> USE <2>d
    <2> DEFINE Pulls(s) == t[s] \in Int /\ \A x \in s : t[s] = f[x] + t[s \ {x}]
    <2> DEFINE S == {n \in Nat : \A s \in Upto(D, n) : Pulls(s)}
    <2>0. \A s \in SUBSET D : t[s] = IF s = {} THEN 0 ELSE f[Pick(s)] + t[s \ {Pick(s)}]
        BY Zenon DEF IsTotals
    <2>1. 0 \in S
        <3>1. \A s \in Upto(D, 0) : s = {}
            <4> TAKE s \in Upto(D, 0)
            <4>1. IsFiniteSet(s)
                BY FS_Subset, Zenon DEF Upto
            <4>2. Cardinality(s) \in Nat /\ Cardinality(s) <= 0
                BY <4>1, FS_CardinalityType, Zenon DEF Upto
            <4>3. Cardinality(s) = 0
                BY <4>2
            <4> QED  BY <4>1, <4>3, FS_EmptySet, Zenon
        <3>2. Pulls({})
            <4>1. t[{}] = 0
                BY <2>0, Zenon
            <4> QED  BY <4>1
        <3> QED  BY <3>1, <3>2, Zenon
    <2>2. ASSUME NEW n \in Nat, n \in S PROVE n + 1 \in S
        <3>1. \A s \in Upto(D, n) : Pulls(s)
            BY <2>2, Zenon
        <3>2. ASSUME NEW s \in Upto(D, n + 1), s # {} PROVE Pulls(s)
            <4>1. s \in SUBSET D /\ Cardinality(s) <= n + 1
                BY Zenon DEF Upto
            <4>2. ASSUME NEW x \in s PROVE s \ {x} \in Upto(D, n)
                <5>1. /\ s \ {x} \in SUBSET D
                      /\ Cardinality(s) \in Nat /\ Cardinality(s \ {x}) \in Nat
                      /\ Cardinality(s \ {x}) + 1 = Cardinality(s)
                    BY <3>2, <4>1, <1>2, Zenon
                <5>2. Cardinality(s \ {x}) <= n
                    BY <4>1, <5>1
                <5> QED  BY <5>1, <5>2, Zenon DEF Upto
            <4> DEFINE c == Pick(s)
            <4>3. c \in s
                BY <3>2, <1>1, Zenon
            <4> HIDE DEF c
            <4>4. t[s] = f[c] + t[s \ {c}]
                BY <2>0, <3>2, <4>1, Zenon DEF c
            <4>5. t[s \ {c}] \in Int /\ f[c] \in Int
                BY <3>1, <4>1, <4>2, <4>3, Zenon
            <4>6. ASSUME NEW x \in s PROVE t[s] = f[x] + t[s \ {x}]
                <5>1. CASE x = c
                    BY <4>4, <5>1, Zenon
                <5>2. CASE x # c
                    <6> DEFINE rest == s \ {c, x}
                    <6>1. (s \ {c}) \ {x} = rest /\ (s \ {x}) \ {c} = rest
                        OBVIOUS
                    <6>2. rest \in Upto(D, n)
                        <7>1. s \ {c} \in Upto(D, n) /\ x \in s \ {c}
                            BY <4>2, <4>3, <5>2, Zenon
                        <7>2. s \ {c} \in SUBSET D /\ s \ {c} # {} /\ Cardinality(s \ {c}) <= n
                            BY <7>1, Zenon DEF Upto
                        <7>3. /\ (s \ {c}) \ {x} \in SUBSET D
                              /\ Cardinality(s \ {c}) \in Nat /\ Cardinality((s \ {c}) \ {x}) \in Nat
                              /\ Cardinality((s \ {c}) \ {x}) + 1 = Cardinality(s \ {c})
                            BY <7>1, <7>2, <1>2, Zenon
                        <7>4. Cardinality((s \ {c}) \ {x}) <= n
                            BY <7>2, <7>3
                        <7>5. (s \ {c}) \ {x} \in Upto(D, n)
                            BY <7>3, <7>4, Zenon DEF Upto
                        <7> QED  BY <6>1, <7>5, Zenon
                    <6>3. t[s \ {c}] = f[x] + t[(s \ {c}) \ {x}]
                        BY <3>1, <4>2, <4>3, <5>2, Zenon
                    <6>4. t[s \ {x}] = f[c] + t[(s \ {x}) \ {c}]
                        BY <3>1, <4>2, <4>3, <5>2, Zenon
                    <6>5. t[rest] \in Int
                        BY <3>1, <6>2, Zenon
                    <6>6. f[x] \in Int
                        BY <4>1, Zenon
                    <6> HIDE DEF rest
                    <6>7. t[s] = f[c] + (f[x] + t[rest]) /\ t[s \ {x}] = f[c] + t[rest]
                        BY <4>4, <6>1, <6>3, <6>4, Zenon
                    <6>8. f[c] + (f[x] + t[rest]) = f[x] + (f[c] + t[rest])
                        BY <4>5, <6>5, <6>6, <1>4, Zenon
                    <6> QED  BY <6>7, <6>8, Zenon
                <5> QED  BY <5>1, <5>2, Zenon
            <4>7. t[s] \in Int
                BY <4>4, <4>5
            <4> QED  BY <4>6, <4>7, Zenon
        <3>3. Pulls({})
            <4>1. t[{}] = 0
                BY <2>0, Zenon
            <4> QED  BY <4>1
        <3>4. n + 1 \in Nat
            OBVIOUS
        <3> QED  BY <3>2, <3>3, <3>4, Zenon
    <2>3. \A n \in Nat : n \in S
        <3> HIDE DEF S
        <3> QED  BY <2>1, <2>2, Inductive, Zenon
    <2>4. Cardinality(D) \in Nat /\ Upto(D, Cardinality(D)) = SUBSET D
        BY FS_Subset, FS_CardinalityType, Zenon DEF Upto
    <2> QED  BY <2>3, <2>4, Zenon
\* Nor do the positions they are at.
<1>6. ASSUME NEW D, NEW f, NEW t, Summed(t, f, D), NEW E, NEW g, NEW u, Summed(u, g, E),
             NEW p, NEW R, Moves(p, E, D, f, g, R)
      PROVE  u[E] = t[R]
    <2> USE <1>6
    <2>d. /\ IsFiniteSet(D) /\ (\A x \in D : f[x] \in Int) /\ IsTotals(t, f, D)
          /\ IsFiniteSet(E) /\ IsTotals(u, g, E)
        BY Zenon DEF Summed
    <2>e. /\ p \in [E -> D] /\ \A x, y \in E : p[x] = p[y] => x = y
          /\ \A x \in E : g[x] = f[p[x]]
          /\ \A y \in R : \E x \in E : y = p[x]
          /\ \A x \in E : p[x] \in R
        BY Zenon DEF Moves
    <2>f. \A x \in E : p[x] \in D
        BY <2>e
    <2> USE <2>d, <2>e
    <2> DEFINE Image(s) == {p[x] : x \in s}
    <2> DEFINE S == {n \in Nat : \A s \in Upto(E, n) : u[s] = t[Image(s)]}
    <2>0. \A s \in SUBSET E : u[s] = IF s = {} THEN 0 ELSE g[Pick(s)] + u[s \ {Pick(s)}]
        BY Zenon DEF IsTotals
    <2>b. \A s \in SUBSET D : t[s] \in Int /\ \A x \in s : t[s] = f[x] + t[s \ {x}]
        BY <1>5
    <2>a. u[{}] = t[Image({})]
        <3>1. u[{}] = 0 /\ t[{}] = 0
            BY <2>0, Zenon DEF IsTotals
        <3>2. Image({}) = {}
            OBVIOUS
        <3> QED  BY <3>1, <3>2, Zenon
    <2>1. 0 \in S
        <3>1. \A s \in Upto(E, 0) : s = {}
            <4> TAKE s \in Upto(E, 0)
            <4>1. IsFiniteSet(s)
                BY FS_Subset, Zenon DEF Upto
            <4>2. Cardinality(s) \in Nat /\ Cardinality(s) <= 0
                BY <4>1, FS_CardinalityType, Zenon DEF Upto
            <4>3. Cardinality(s) = 0
                BY <4>2
            <4> QED  BY <4>1, <4>3, FS_EmptySet, Zenon
        <3> QED  BY <2>a, <3>1, Zenon
    <2>2. ASSUME NEW n \in Nat, n \in S PROVE n + 1 \in S
        <3>1. \A s \in Upto(E, n) : u[s] = t[Image(s)]
            BY <2>2, Zenon
        <3>2. ASSUME NEW s \in Upto(E, n + 1), s # {} PROVE u[s] = t[Image(s)]
            <4>1. s \in SUBSET E /\ Cardinality(s) <= n + 1
                BY Zenon DEF Upto
            <4> DEFINE c == Pick(s)
            <4>2. c \in s
                BY <3>2, <1>1, Zenon
            <4>3. u[s] = g[c] + u[s \ {c}]
                BY <2>0, <3>2, <4>1, Zenon
            <4> HIDE DEF c
            <4>4. s \ {c} \in Upto(E, n)
                <5>1. /\ s \ {c} \in SUBSET E
                      /\ Cardinality(s) \in Nat /\ Cardinality(s \ {c}) \in Nat
                      /\ Cardinality(s \ {c}) + 1 = Cardinality(s)
                    BY <3>2, <4>1, <4>2, <1>2, Zenon
                <5>2. Cardinality(s \ {c}) <= n
                    BY <4>1, <5>1
                <5> QED  BY <5>1, <5>2, Zenon DEF Upto
            <4>5. u[s \ {c}] = t[Image(s \ {c})]
                BY <3>1, <4>4, Zenon
            <4>6. Image(s) \in SUBSET D /\ p[c] \in Image(s)
                BY <2>f, <4>1, <4>2
            <4>7. Image(s \ {c}) = Image(s) \ {p[c]}
                BY <4>1, <4>2
            <4>8. t[Image(s)] = f[p[c]] + t[Image(s) \ {p[c]}]
                BY <2>b, <4>6, Zenon
            <4>9. g[c] = f[p[c]]
                BY <4>1, <4>2, Zenon
            <4>10. u[s] = f[p[c]] + t[Image(s \ {c})]
                BY <4>3, <4>5, <4>9, Zenon
            <4> HIDE DEF Image
            <4> QED  BY <4>7, <4>8, <4>10, Zenon
        <3>3. n + 1 \in Nat
            OBVIOUS
        <3> QED  BY <2>a, <3>2, <3>3, Zenon
    <2>3. \A n \in Nat : n \in S
        <3> HIDE DEF S
        <3> QED  BY <2>1, <2>2, Inductive, Zenon
    <2>4. Cardinality(E) \in Nat /\ E \in Upto(E, Cardinality(E))
        BY FS_Subset, FS_CardinalityType, Zenon DEF Upto
    <2>5. u[E] = t[Image(E)]
        BY <2>3, <2>4, Zenon
    <2>6. Image(E) = R
        BY <2>e
    <2> QED  BY <2>5, <2>6, Zenon
\* SumFunction is the total of its domain.
<1>7. ASSUME NEW D, IsFiniteSet(D), NEW f, DOMAIN f = D, \A k \in D : f[k] \in Int
      PROVE  \E t : Summed(t, f, D) /\ SumFunction(f) = t[D]
    <2> USE <1>7
    <2>1. SumFunction(f) = (CHOOSE t : IsTotals(t, f, D))[D]
        BY Zenon DEF SumFunction, SumFunctionOnSet, FoldFunctionOnSet, MapThenFoldSet, IsTotals, Pick
    <2>2. IsTotals((CHOOSE t : IsTotals(t, f, D)), f, D)
        BY <1>3, Zenon
    <2> QED  BY <2>1, <2>2, Zenon DEF Summed
<1>8. ASSUME NEW f, DOMAIN f = {}
      PROVE  SumFunction(f) = 0
    <2> USE <1>8
    <2>1. IsFiniteSet({})
        BY FS_EmptySet
    <2>2. PICK t : Summed(t, f, {}) /\ SumFunction(f) = t[{}]
        BY <2>1, <1>7, Zenon
    <2>3. t[{}] = 0
        BY <2>1, <2>2, Zenon DEF Summed, IsTotals
    <2> QED  BY <2>1, <2>2, <2>3, Zenon
<1>9. ASSUME NEW D, IsFiniteSet(D), NEW f, DOMAIN f = D, \A k \in D : f[k] \in Int
      PROVE  SumFunction(f) \in Int
    <2> USE <1>9
    <2>1. PICK t : Summed(t, f, D) /\ SumFunction(f) = t[D]
        BY <1>7, Zenon
    <2> QED  BY <2>1, <1>5
\* A value more adds itself to the sum.
<1>10. ASSUME NEW f, NEW g, NEW x, NEW D, Extends(f, g, x, D)
       PROVE  SumFunction(f) = f[x] + SumFunction(g)
    <2> USE <1>10
    <2> USE DEF Extends
    <2>1. PICK E : E = D \union {x}
        BY Zenon
    <2>2. /\ IsFiniteSet(E) /\ x \in E /\ E \in SUBSET E /\ E \ {x} = D /\ D \subseteq E
        <3>1. x \in E /\ E \in SUBSET E /\ E \ {x} = D /\ D \subseteq E
            BY <2>1, Zenon
        <3>2. IsFiniteSet(E)
            BY <2>1, FS_AddElement, Zenon
        <3> QED  BY <3>1, <3>2, Zenon
    <2>3. \A k \in E : f[k] \in Int
        BY <2>1, Zenon
    <2>4. PICK t : Summed(t, f, E) /\ SumFunction(f) = t[E]
        BY <2>1, <2>2, <2>3, <1>7, Zenon
    <2>5. PICK u : Summed(u, g, D) /\ SumFunction(g) = u[D]
        BY <1>7, Zenon
    <2>6. \A s \in SUBSET E : t[s] \in Int /\ \A k \in s : t[s] = f[k] + t[s \ {k}]
        BY <2>4, <1>5
    <2>7. t[E] = f[x] + t[D]
        <3> HIDE <1>10 DEF Extends
        <3>1. \A k \in E : t[E] = f[k] + t[E \ {k}]
            BY <2>2, <2>6, Zenon
        <3>2. t[E] = f[x] + t[E \ {x}]
            BY <2>2, <3>1, Zenon
        <3> QED  BY <2>2, <3>2, Zenon
    <2>8. PICK p : p = [k \in D |-> k]
        BY Zenon
    <2>9. Moves(p, D, E, f, g, D)
        <3>1. \A k \in D : p[k] = k /\ g[k] = f[k]
            BY <2>8, Zenon
        <3>2. p \in [D -> E]
            BY <2>2, <2>8, Zenon
        <3> HIDE DEF Extends
        <3> QED  BY <3>1, <3>2, Zenon DEF Moves
    <2>10. u[D] = t[D]
        BY <2>4, <2>5, <2>9, <1>6
    <2> QED  BY <2>4, <2>5, <2>7, <2>10, Zenon
\* A permutation of the values leaves the sum.
<1>11. ASSUME NEW D, IsFiniteSet(D), NEW f, NEW g, DOMAIN f = D, DOMAIN g = D,
              \A k \in D : f[k] \in Int, NEW p, Moves(p, D, D, f, g, D)
       PROVE  SumFunction(g) = SumFunction(f)
    <2> USE <1>11
    <2>1. PICK t : Summed(t, f, D) /\ SumFunction(f) = t[D]
        BY <1>7, Zenon
    <2>2. \A k \in D : g[k] \in Int
        <3>1. TAKE k \in D
        <3>2. p[k] \in D /\ g[k] = f[p[k]]
            BY Zenon DEF Moves
        <3> QED  BY <3>2, Zenon
    <2>3. PICK u : Summed(u, g, D) /\ SumFunction(g) = u[D]
        BY <2>2, <1>7, Zenon
    <2>4. u[D] = t[D]
        BY <2>1, <2>3, <1>6
    <2> QED  BY <2>1, <2>3, <2>4, Zenon
<1> QED  BY <1>8, <1>9, <1>10, <1>11, Zenon
-----------------------------------------------------------------------------
(* Sorting                                                                 *)

\* The entries up to one, in the order of their numbers.
UpTo(key, j) == {k \in DOMAIN key : key[k] < key[j] \/ (key[k] = key[j] /\ k <= j)}

\* The sort keys of a list of n entries.
Keys(key, n) == n \in Nat /\ DOMAIN key = 1..n /\ \A k \in 1..n : key[k] \in Int

\* An entry comes before another.
Before(key, j, k) == key[j] < key[k] \/ (key[j] = key[k] /\ j < k)

\* Where the entry of a position was before the sorting.
Order(key, D) == [m \in D |-> CHOOSE j \in D : Place(key, j) = m]

\* Keys in order.
Rising(key, n) == \A m, j \in 1..n : m < j => key[m] <= key[j]

\* A rearrangement of the first n positions.
Reorders(q, n) ==
    /\ q \in [1..n -> 1..n]
    /\ \A m \in 1..n : \E j \in 1..n : q[j] = m
    /\ \A m, j \in 1..n : q[m] = q[j] => m = j

\* The rearrangement that sorts.
IsOrder(q, key, n) ==
    /\ Reorders(q, n)
    /\ \A m \in 1..n : Place(key, q[m]) = m
    /\ \A m, j \in 1..n : m < j => key[q[m]] <= key[q[j]]

\* A list with its entries elsewhere.
Rearranged(t, s, q) ==
    /\ IsList(t) /\ Len(t) = Len(s)
    /\ \A m \in 1..Len(s) : t[m] = s[q[m]]

\* The balances are sorted by the bytes of their addresses.
AddressKeys(b) == [k \in DOMAIN b |-> Bytes(b[k].address)]

\* What sorting does: a list in order stays as it is, and the balances are rearranged
\* so that sorting them once more changes nothing.
LEMMA Sorting ==
    /\ \A s, key : IsList(s) /\ Keys(key, Len(s)) /\ Rising(key, Len(s)) => Sorted(s, key) = s
    /\ \A b, q, t :
          IsList(b) /\ (\A k \in 1..Len(b) : b[k].address \in Int)
              /\ q = Order(AddressKeys(b), 1..Len(b)) /\ t = SanitizeGenesisBalances(b)
          => Rearranged(t, b, q) /\ Reorders(q, Len(b)) /\ SanitizeGenesisBalances(t) = t
\* Place counts a finite set, and is a position of the list.
<1>1. ASSUME NEW key, NEW n, Keys(key, n), NEW j \in 1..n
      PROVE  /\ IsFiniteSet(UpTo(key, j)) /\ j \in UpTo(key, j)
             /\ Place(key, j) = Cardinality(UpTo(key, j))
             /\ Place(key, j) \in 1..n
    <2> USE <1>1
    <2>1. n \in Nat /\ DOMAIN key = 1..n /\ key[j] \in Int
        BY Zenon DEF Keys
    <2>2. PICK D : D = 1..n
        BY Zenon
    <2>3. IsFiniteSet(D) /\ Cardinality(D) = n
        BY <2>1, <2>2, FirstNumbers, Zenon
    <2>4. UpTo(key, j) \in SUBSET D
        BY <2>1, <2>2, Zenon DEF UpTo
    <2>5. /\ IsFiniteSet(UpTo(key, j)) /\ Cardinality(UpTo(key, j)) <= n
        BY <2>3, <2>4, FS_Subset, Zenon
    <2>6. j \in UpTo(key, j)
        <3>1. j <= j
            BY <2>1
        <3> QED  BY <2>1, <3>1, Zenon DEF UpTo
    <2>7. Cardinality(UpTo(key, j)) \in Nat /\ Cardinality(UpTo(key, j)) # 0
        BY <2>5, <2>6, FS_CardinalityType, FS_EmptySet, Zenon
    <2>8. Place(key, j) = Cardinality(UpTo(key, j))
        BY Zenon DEF Place, UpTo
    <2>9. PICK c : c = Cardinality(UpTo(key, j))
        BY Zenon
    <2>10. c \in 1..n
        BY <2>1, <2>5, <2>7, <2>9
    <2> QED  BY <2>5, <2>6, <2>8, <2>9, <2>10, Zenon
\* Of two entries one comes before the other.
<1>2. ASSUME NEW key, NEW n, Keys(key, n), NEW j \in 1..n, NEW k \in 1..n
      PROVE  Before(key, j, k) \/ Before(key, k, j) \/ j = k
    <2> USE <1>2
    <2>1. n \in Nat /\ key[j] \in Int /\ key[k] \in Int
        BY Zenon DEF Keys
    <2> QED  BY <2>1 DEF Before
\* Places are in the order of the keys: an entry before another has a lower one.
<1>3. ASSUME NEW key, NEW n, Keys(key, n), NEW j \in 1..n, NEW k \in 1..n, Before(key, j, k)
      PROVE  Place(key, j) < Place(key, k)
    <2> USE <1>3
    <2>1. n \in Nat /\ DOMAIN key = 1..n /\ \A m \in 1..n : key[m] \in Int
        BY Zenon DEF Keys
    <2>2. UpTo(key, j) \in SUBSET UpTo(key, k)
        <3> SUFFICES ASSUME NEW m \in UpTo(key, j) PROVE m \in UpTo(key, k)
            BY Zenon
        <3>1. m \in 1..n /\ (key[m] < key[j] \/ (key[m] = key[j] /\ m <= j))
            BY <2>1, Zenon DEF UpTo
        <3>2. PICK a \in Int, b \in Int, c \in Int : a = key[m] /\ b = key[j] /\ c = key[k]
            BY <2>1, <3>1, Zenon
        <3>3. (a < b \/ (a = b /\ m <= j)) /\ (b < c \/ (b = c /\ j < k))
            BY <3>1, <3>2, Zenon DEF Before
        <3>4. a < c \/ (a = c /\ m <= k)
            BY <2>1, <3>1, <3>3
        <3> QED  BY <2>1, <3>1, <3>2, <3>4, Zenon DEF UpTo
    <2>3. k \notin UpTo(key, j)
        <3>1. PICK b \in Int, c \in Int : b = key[j] /\ c = key[k]
            BY <2>1, Zenon
        <3>2. b < c \/ (b = c /\ j < k)
            BY <3>1, Zenon DEF Before
        <3>3. ~(c < b \/ (c = b /\ k <= j))
            BY <2>1, <3>2
        <3> QED  BY <3>1, <3>3, Zenon DEF UpTo
    <2>4. /\ IsFiniteSet(UpTo(key, k)) /\ k \in UpTo(key, k)
          /\ Place(key, k) = Cardinality(UpTo(key, k)) /\ Place(key, k) \in 1..n
          /\ Place(key, j) = Cardinality(UpTo(key, j)) /\ Place(key, j) \in 1..n
        BY <1>1, Zenon
    <2>5. /\ Cardinality(UpTo(key, j)) <= Cardinality(UpTo(key, k))
          /\ Cardinality(UpTo(key, k)) # Cardinality(UpTo(key, j))
        BY <2>2, <2>3, <2>4, FS_Subset, Zenon
    <2>6. PICK x \in 1..n, y \in 1..n : x = Place(key, j) /\ y = Place(key, k)
        BY <2>4, Zenon
    <2>7. x <= y /\ x # y
        BY <2>4, <2>5, <2>6, Zenon
    <2>8. x < y
        BY <2>1, <2>7
    <2> QED  BY <2>6, <2>8, Zenon
\* No two entries have one place, so every place has an entry.
<1>4. ASSUME NEW key, NEW n, Keys(key, n), NEW m \in 1..n
      PROVE  \E j \in 1..n : Place(key, j) = m
    <2> USE <1>4
    <2>0. n \in Nat
        BY Zenon DEF Keys
    <2>1. PICK D, p : D = 1..n /\ p = [j \in D |-> Place(key, j)]
        BY Zenon
    <2>2. p \in [D -> D]
        BY <2>1, <1>1, Zenon
    <2>3. \A j, k \in D : p[j] = p[k] => j = k
        <3> SUFFICES ASSUME NEW j \in 1..n, NEW k \in 1..n, Place(key, j) = Place(key, k)
                     PROVE  j = k
            BY <2>1, Zenon
        <3>1. Place(key, j) \in 1..n /\ Place(key, k) \in 1..n
            BY <1>1, Zenon
        <3>2. PICK x \in 1..n : x = Place(key, j) /\ x = Place(key, k)
            BY <3>1, Zenon
        <3>3. ~(x < x)
            BY <2>0
        <3>4. ~Before(key, j, k) /\ ~Before(key, k, j)
            BY <3>2, <3>3, <1>3, Zenon
        <3> QED  BY <3>4, <1>2, Zenon
    <2>4. p \in Injection(D, D)
        BY <2>2, <2>3 DEF Injection, IsInjective
    <2>5. IsFiniteSet(D)
        BY <2>0, <2>1, FirstNumbers, Zenon
    <2>6. p \in Surjection(D, D)
        BY <2>4, <2>5, FS_Injection, Zenon
    <2>7. \E j \in D : p[j] = m
        BY <2>1, <2>6, Zenon DEF Surjection
    <2> QED  BY <2>1, <2>7, Zenon
\* The rearrangement of the sorting sorts.
<1>5. ASSUME NEW key, NEW n, Keys(key, n), NEW q, q = Order(key, 1..n)
      PROVE  IsOrder(q, key, n)
    <2> USE <1>5
    <2>0. n \in Nat /\ \A k \in 1..n : key[k] \in Int
        BY Zenon DEF Keys
    <2>1. \A m \in 1..n : q[m] \in 1..n /\ Place(key, q[m]) = m
        BY <1>4, Zenon DEF Order
    <2>2. q \in [1..n -> 1..n]
        BY <2>1, Zenon DEF Order
    <2>3. \A m, j \in 1..n : q[m] = q[j] => m = j
        BY <2>1, Zenon
    <2>4. \A m \in 1..n : \E j \in 1..n : q[j] = m
        <3> TAKE m \in 1..n
        <3>1. PICK D : D = 1..n
            BY Zenon
        <3>2. q \in Injection(D, D)
            BY <2>2, <2>3, <3>1, Zenon DEF Injection, IsInjective
        <3>3. IsFiniteSet(D)
            BY <2>0, <3>1, FirstNumbers, Zenon
        <3>4. q \in Surjection(D, D)
            BY <3>2, <3>3, FS_Injection, Zenon
        <3> QED  BY <3>1, <3>4, Zenon DEF Surjection
    <2>5. ASSUME NEW m \in 1..n, NEW j \in 1..n, m < j
          PROVE  key[q[m]] <= key[q[j]]
        <3>1. PICK a \in 1..n, b \in 1..n : a = q[m] /\ b = q[j]
            BY <2>1, Zenon
        <3>2. Place(key, a) = m /\ Place(key, b) = j
            BY <2>1, <3>1, Zenon
        <3>3. ~(j < m)
            BY <2>0, <2>5
        <3>4. ~Before(key, b, a)
            BY <3>2, <3>3, <1>3, Zenon
        <3>5. PICK x \in Int, y \in Int : x = key[a] /\ y = key[b]
            BY <2>0, Zenon
        <3>6. ~(y < x)
            BY <3>4, <3>5, Zenon DEF Before
        <3>7. x <= y
            BY <3>6
        <3> QED  BY <3>1, <3>5, <3>7, Zenon
    <2> QED  BY <2>1, <2>2, <2>3, <2>4, <2>5, Zenon DEF IsOrder, Reorders
\* A list in order stays as it is.
<1>6. ASSUME NEW key, NEW n, Keys(key, n), Rising(key, n)
      PROVE  \A m \in 1..n : Order(key, 1..n)[m] = m
    <2> USE <1>6
    <2>0. n \in Nat /\ DOMAIN key = 1..n /\ \A k \in 1..n : key[k] \in Int
        BY Zenon DEF Keys
    <2>1. ASSUME NEW j \in 1..n PROVE Place(key, j) = j
        <3>1. j \in Nat /\ \A k \in 1..j : k \in 1..n
            BY <2>0
        <3>2. ASSUME NEW k \in 1..n
              PROVE  (key[k] < key[j] \/ (key[k] = key[j] /\ k <= j)) <=> k \in 1..j
            <4>1. PICK a \in Int, b \in Int : a = key[k] /\ b = key[j]
                BY <2>0, Zenon
            <4>2. (k < j => a <= b) /\ (j < k => b <= a)
                BY <4>1, Zenon DEF Rising
            <4>3. (a < b \/ (a = b /\ k <= j)) <=> k \in 1..j
                <5>1. k = j => a = b
                    BY <4>1, Zenon
                <5> QED  BY <2>0, <4>2, <5>1
            <4> QED  BY <4>1, <4>3, Zenon
        <3>3. UpTo(key, j) = 1..j
            BY <2>0, <3>1, <3>2, Zenon DEF UpTo
        <3> QED  BY <3>1, <3>3, FirstNumbers, <1>1, Zenon
    <2>2. PICK q : q = Order(key, 1..n)
        BY Zenon
    <2>3. \A m \in 1..n : q[m] \in 1..n /\ Place(key, q[m]) = m
        <3>1. IsOrder(q, key, n)
            BY <2>2, <1>5, Zenon
        <3> QED  BY <3>1, Zenon DEF IsOrder, Reorders
    <2>4. \A m \in 1..n : Place(key, q[m]) = q[m]
        BY <2>1, <2>3, Zenon
    <2> QED  BY <2>2, <2>3, <2>4, Zenon
\* Sorted rearranges a list so that its keys are in order.
<1>7. ASSUME NEW s, IsList(s), NEW key, Keys(key, Len(s)), NEW t, t = Sorted(s, key)
      PROVE  Rearranged(t, s, Order(key, 1..Len(s)))
    <2> USE <1>7
    <2>1. Len(s) \in Nat /\ DOMAIN s = 1..Len(s)
        BY ListDomain, Zenon
    <2>2. PICK D, n : D = DOMAIN s /\ n = Len(s)
        BY Zenon
    <2>3. t = [m \in DOMAIN s |-> s[CHOOSE j \in DOMAIN s : Place(key, j) = m]]
        BY Zenon DEF Sorted
    <2>4. \A m \in D : t[m] = s[Order(key, D)[m]]
        <3>1. \A m \in DOMAIN s : t[m] = s[CHOOSE j \in DOMAIN s : Place(key, j) = m]
            BY <2>3, Zenon
        <3>2. \A m \in DOMAIN s : Order(key, DOMAIN s)[m] = CHOOSE j \in DOMAIN s : Place(key, j) = m
            BY Zenon DEF Order
        <3>3. \A m \in DOMAIN s : t[m] = s[Order(key, DOMAIN s)[m]]
            BY <3>1, <3>2, Zenon
        <3> QED  BY <2>2, <3>3, Zenon
    <2>5. DOMAIN t = D /\ t = [m \in D |-> t[m]]
        BY <2>2, <2>3
    <2>6. D = 1..n /\ n \in Nat
        BY <2>1, <2>2, Zenon
    <2>7. t \in Seq(Range(t)) /\ Len(t) = n
        <3>1. \A m \in D : t[m] \in Range(t)
            BY <2>5, Zenon DEF Range
        <3> QED  BY <2>5, <2>6, <3>1
    <2> QED  BY <2>2, <2>4, <2>6, <2>7, Zenon DEF IsList, Rearranged
\* Sorting a list that is in order changes nothing.
<1>8. ASSUME NEW s, IsList(s), NEW key, Keys(key, Len(s)), Rising(key, Len(s))
      PROVE  Sorted(s, key) = s
    <2> USE <1>8
    <2>1. Len(s) \in Nat /\ DOMAIN s = 1..Len(s)
        BY ListDomain, Zenon
    <2>2. PICK n, q, t : n = Len(s) /\ q = Order(key, 1..Len(s)) /\ t = Sorted(s, key)
        BY Zenon
    <2>3. \A m \in 1..n : q[m] = m
        BY <2>2, <1>6, Zenon
    <2>4. Rearranged(t, s, q)
        BY <2>2, <1>7, Zenon
    <2>5. \A m \in 1..n : t[m] = s[m]
        BY <2>2, <2>3, <2>4, Zenon DEF Rearranged
    <2>6. IsList(t) /\ Len(t) = n
        BY <2>2, <2>4, Zenon DEF Rearranged
    <2>7. t = s
        <3>1. s = [m \in 1..n |-> s[m]] /\ t = [m \in 1..n |-> t[m]]
            BY <2>2, <2>6 DEF IsList
        <3> QED  BY <2>5, <3>1, Zenon
    <2> QED  BY <2>2, <2>7, Zenon
<1>9. \A x \in Int : Bytes(x) \in Int
    BY DEF Bytes
\* Sorting the balances once more changes nothing.
<1>10. ASSUME NEW b, IsList(b), \A k \in 1..Len(b) : b[k].address \in Int,
              NEW q, q = Order(AddressKeys(b), 1..Len(b)),
              NEW t, t = SanitizeGenesisBalances(b)
       PROVE  Rearranged(t, b, q) /\ Reorders(q, Len(b)) /\ SanitizeGenesisBalances(t) = t
    <2> USE <1>10
    <2>1. PICK n : n = Len(b)
        BY Zenon
    <2>2. n \in Nat /\ DOMAIN b = 1..n
        BY <2>1, ListDomain, Zenon
    <2>3. PICK key : key = AddressKeys(b)
        BY Zenon
    <2>4. DOMAIN key = 1..n /\ \A m \in 1..n : key[m] = Bytes(b[m].address)
        BY <2>2, <2>3, Zenon DEF AddressKeys
    <2>5. \A m \in 1..n : key[m] \in Int
        BY <2>1, <2>4, <1>9, Zenon
    <2>6. Keys(key, n)
        BY <2>2, <2>4, <2>5, Zenon DEF Keys
    <2>7. q = Order(key, 1..n) /\ t = Sorted(b, key)
        BY <2>1, <2>3, Zenon DEF SanitizeGenesisBalances, AddressKeys
    <2>8. Rearranged(t, b, q)
        BY <2>1, <2>6, <2>7, <1>7, Zenon
    <2>9. IsOrder(q, key, n)
        BY <2>6, <2>7, <1>5, Zenon
    <2>10. IsList(t) /\ Len(t) = n /\ \A m \in 1..n : t[m] = b[q[m]]
        BY <2>1, <2>8, Zenon DEF Rearranged
    <2>11. PICK new : new = AddressKeys(t)
        BY Zenon
    <2>12. DOMAIN t = 1..n
        BY <2>10, ListDomain, Zenon
    <2>13. \A m \in 1..n : q[m] \in 1..n
        BY <2>9, Zenon DEF IsOrder, Reorders
    <2>14. DOMAIN new = 1..n /\ \A m \in 1..n : new[m] = Bytes(t[m].address)
        BY <2>11, <2>12, Zenon DEF AddressKeys
    <2>15. \A m \in 1..n : new[m] = key[q[m]]
        <3> TAKE m \in 1..n
        <3>1. PICK j \in 1..n : j = q[m]
            BY <2>13, Zenon
        <3>2. new[m] = Bytes(t[m].address) /\ t[m] = b[j] /\ key[j] = Bytes(b[j].address)
            BY <2>4, <2>10, <2>14, <3>1, Zenon
        <3> QED  BY <3>1, <3>2, Zenon
    <2>16. Keys(new, n)
        <3>1. \A m \in 1..n : new[m] \in Int
            BY <2>5, <2>13, <2>15, Zenon
        <3> QED  BY <2>2, <2>14, <3>1, Zenon DEF Keys
    <2>17. Rising(new, n)
        BY <2>9, <2>15, Zenon DEF Rising, IsOrder
    <2>18. Sorted(t, new) = t
        BY <2>10, <2>16, <2>17, <1>8, Zenon
    <2>19. SanitizeGenesisBalances(t) = Sorted(t, new)
        BY <2>11, Zenon DEF SanitizeGenesisBalances, AddressKeys
    <2> QED  BY <2>1, <2>8, <2>9, <2>18, <2>19, Zenon DEF IsOrder
<1> QED  BY <1>8, <1>10, Zenon
-----------------------------------------------------------------------------
(* Numbering                                                               *)

\* Accounts before their first Save, and the numbers they get.
WithoutNumbers(s) ==
    \A k \in 1..Len(s) : s[k] = [address |-> s[k].address, number |-> 0]

GivenNumbers(list, accounts) ==
    /\ IsList(list) /\ Len(list) = Len(accounts)
    /\ \A k \in 1..Len(accounts) :
           list[k] = [address |-> accounts[k].address, number |-> k - 1]
    /\ SanitizeGenesisAccounts(list) = list

\* The numbering, by its steps.
NumberFirst(accounts) ==
    [list |-> << >>, used |-> {accounts[k].number : k \in DOMAIN accounts}]

IsNumbering(done, accounts) ==
    done = [k \in 0..Len(accounts) |->
               IF k = 0 THEN NumberFirst(accounts) ELSE NumberAccount(accounts, done[k - 1], k)]

\* Accounts sorted by their numbers, as the numbering leaves them.
ByNumber(list) == Sorted(list, [k \in DOMAIN list |-> list[k].number])

\* The number that the k-th account gets, after the ones before it.
NextNumber(accounts, done, k) ==
    IF \E j \in 1..k : accounts[j].number = accounts[k + 1].number
    THEN FreeNumber(done[k].used) ELSE accounts[k + 1].number

\* So far the first k accounts have their numbers.
NumberedTo(accounts, done, k) ==
    /\ IsNumbering(done, accounts)
    /\ Len(accounts) \in Nat /\ k \in Nat /\ k < Len(accounts)
    /\ IsList(done[k].list) /\ Len(done[k].list) = k

\* A list with one entry more.
Grown(new, old, k, y) ==
    /\ IsList(new) /\ Len(new) = k + 1
    /\ \A j \in 1..k : new[j] = old[j]
    /\ new[k + 1] = y

\* Accounts without numbers get them in their order, and keep them (genesis.go:225-244).
LEMMA NumbersGiven ==
    \A accounts, list :
        IsList(accounts) /\ WithoutNumbers(accounts) /\ list = SanitizeGenesisAccounts(accounts)
        => GivenNumbers(list, accounts)
\* There is such a function: SanitizeGenesisAccounts is a loop.
<1>1. ASSUME NEW accounts, Len(accounts) \in Nat
      PROVE  \E f : IsNumbering(f, accounts)
    <2> USE <1>1
    <2> DEFINE Part(f, n) ==
            f = [k \in 0..n |-> IF k = 0 THEN NumberFirst(accounts) ELSE NumberAccount(accounts, f[k - 1], k)]
    <2> DEFINE S == {n \in Nat : \E f : Part(f, n)}
    <2>1. 0 \in S
        <3>1. PICK f : f = [k \in 0..0 |-> NumberFirst(accounts)]
            BY Zenon
        <3>2. \A k \in 0..0 : k = 0
            OBVIOUS
        <3>3. Part(f, 0)
            BY <3>1, <3>2, Zenon
        <3> QED  BY <3>3, Zenon
    <2>2. ASSUME NEW n \in Nat, n \in S PROVE n + 1 \in S
        <3>1. PICK f : Part(f, n)
            BY <2>2
        <3>2. PICK x : x = NumberAccount(accounts, f[n], n + 1)
            BY Zenon
        <3>3. PICK g : g = [k \in 0..(n + 1) |-> IF k = n + 1 THEN x ELSE f[k]]
            BY Zenon
        <3>4. \A k \in 0..(n + 1) : k = n + 1 \/ k \in 0..n
            OBVIOUS
        <3>5. \A k \in 0..n : g[k] = f[k] /\ k # n + 1 /\ k \in 0..(n + 1)
            BY <3>3
        <3>6. ASSUME NEW k \in 0..(n + 1)
              PROVE  g[k] = IF k = 0 THEN NumberFirst(accounts) ELSE NumberAccount(accounts, g[k - 1], k)
            <4>1. CASE k = n + 1
                <5>1. g[k] = x /\ k # 0 /\ k - 1 = n /\ n \in 0..n
                    BY <3>3, <4>1
                <5> QED  BY <3>2, <3>5, <4>1, <5>1, Zenon
            <4>2. CASE k \in 0..n /\ k # 0
                <5>1. k - 1 \in 0..n
                    BY <4>2
                <5>2. f[k] = NumberAccount(accounts, f[k - 1], k)
                    BY <3>1, <4>2, Zenon
                <5> QED  BY <3>5, <4>2, <5>1, <5>2, Zenon
            <4>3. CASE k = 0
                <5>1. 0 \in 0..n
                    OBVIOUS
                <5>2. f[0] = NumberFirst(accounts)
                    BY <3>1, <5>1, Zenon
                <5> QED  BY <3>5, <4>3, <5>1, <5>2, Zenon
            <4> QED  BY <3>4, <4>1, <4>2, <4>3, Zenon
        <3>7. Part(g, n + 1)
            <4>1. g = [k \in 0..(n + 1) |-> g[k]]
                BY <3>3, Zenon
            <4> QED  BY <3>6, <4>1, Zenon
        <3>8. n + 1 \in Nat
            OBVIOUS
        <3> QED  BY <3>7, <3>8, Zenon
    <2>3. \A n \in Nat : n \in S
        <3> HIDE DEF S
        <3> QED  BY <2>1, <2>2, Inductive, Zenon
    <2> QED  BY <2>3, Zenon DEF IsNumbering
\* The numbering is the last step of its loop.
<1>2. ASSUME NEW accounts, IsList(accounts)
      PROVE  \E done : /\ IsNumbering(done, accounts)
                       /\ SanitizeGenesisAccounts(accounts) = ByNumber(done[Len(accounts)].list)
    <2> USE <1>2
    <2>0. Len(accounts) \in Nat
        BY ListDomain, Zenon
    <2>1. IsNumbering((CHOOSE d : IsNumbering(d, accounts)), accounts)
        BY <2>0, <1>1, Zenon
    <2>2. SanitizeGenesisAccounts(accounts) =
              ByNumber((CHOOSE d : IsNumbering(d, accounts))[Len(accounts)].list)
        BY Zenon DEF SanitizeGenesisAccounts, IsNumbering, NumberFirst, ByNumber
    <2> QED  BY <2>1, <2>2, Zenon
\* One step of the numbering.
<1>3. ASSUME NEW accounts, NEW done, NEW k, NumberedTo(accounts, done, k),
             NEW x, x = NextNumber(accounts, done, k)
      PROVE  /\ Grown(done[k + 1].list, done[k].list, k, [accounts[k + 1] EXCEPT !.number = x])
             /\ done[k + 1].used = done[k].used \union {x}
    <2> USE <1>3
    <2>0. /\ IsNumbering(done, accounts) /\ k \in Nat /\ k < Len(accounts) /\ Len(accounts) \in Nat
          /\ IsList(done[k].list) /\ Len(done[k].list) = k
        BY Zenon DEF NumberedTo
    <2>1. k + 1 \in 0..Len(accounts) /\ k + 1 # 0 /\ (k + 1) - 1 = k
        BY <2>0
    <2>2. done[k + 1] = NumberAccount(accounts, done[(k + 1) - 1], k + 1)
        BY <2>0, <2>1, Zenon DEF IsNumbering
    <2>3. done[k + 1] = NumberAccount(accounts, done[k], k + 1)
        BY <2>1, <2>2, Zenon
    <2>4. done[k + 1] = [list |-> Append(done[k].list, [accounts[k + 1] EXCEPT !.number = x]),
                         used |-> done[k].used \union {x}]
        BY <2>1, <2>3, Zenon DEF NumberAccount, NextNumber
    <2>5. PICK a, y : a = done[k].list /\ y = [accounts[k + 1] EXCEPT !.number = x]
        BY Zenon
    <2>6. done[k + 1].list = Append(a, y) /\ done[k + 1].used = done[k].used \union {x}
        BY <2>4, <2>5
    <2>7. IsList(a) /\ Len(a) = k
        BY <2>0, <2>5, Zenon
    <2>8. /\ IsList(Append(a, y)) /\ Len(Append(a, y)) = k + 1
          /\ \A j \in 1..k : Append(a, y)[j] = a[j]
          /\ Append(a, y)[k + 1] = y
        BY <2>7, Appended
    <2> QED  BY <2>5, <2>6, <2>8, Zenon DEF Grown
\* Accounts in the order of their numbers.
<1>4. ASSUME NEW accounts, IsList(accounts), NEW n, n = Len(accounts),
             \A k \in 1..n : accounts[k] = [address |-> accounts[k].address, number |-> k - 1]
      PROVE  ByNumber(accounts) = accounts
    <2> USE <1>4
    <2>0. n \in Nat /\ DOMAIN accounts = 1..n
        BY ListDomain, Zenon
    <2>1. PICK key : key = [k \in DOMAIN accounts |-> accounts[k].number]
        BY Zenon
    <2>2. \A j \in 1..n : accounts[j].number = j - 1
        <3> TAKE j \in 1..n
        <3>1. PICK r, a, c : r = accounts[j] /\ a = accounts[j].address /\ c = j - 1
            BY Zenon
        <3>2. r = [address |-> a, number |-> c]
            BY <3>1, Zenon
        <3>3. r.number = c
            BY <3>2
        <3> QED  BY <3>1, <3>3, Zenon
    <2>3. DOMAIN key = 1..n /\ \A j \in 1..n : key[j] = j - 1
        BY <2>0, <2>1, <2>2, Zenon
    <2>4. \A j \in 1..n : key[j] \in Int
        BY <2>0, <2>3
    <2>5. Keys(key, n)
        BY <2>0, <2>3, <2>4, Zenon DEF Keys
    <2>6. Rising(key, n)
        BY <2>0, <2>3 DEF Rising
    <2>7. Sorted(accounts, key) = accounts
        BY <2>5, <2>6, Sorting, Zenon
    <2> QED  BY <2>1, <2>7, Zenon DEF ByNumber
\* Accounts whose numbers differ keep them.
<1>5. ASSUME NEW accounts, IsList(accounts), NEW n, n = Len(accounts),
             \A k \in 1..n : accounts[k] = [address |-> accounts[k].address, number |-> k - 1]
      PROVE  SanitizeGenesisAccounts(accounts) = accounts
    <2> USE <1>5
    <2>0. n \in Nat /\ DOMAIN accounts = 1..n
        BY ListDomain, Zenon
    <2>1. PICK done : IsNumbering(done, accounts) /\
                      SanitizeGenesisAccounts(accounts) = ByNumber(done[n].list)
        BY <1>2, Zenon
    <2> DEFINE Fine(k) ==
            /\ IsList(done[k].list) /\ Len(done[k].list) = k
            /\ \A j \in 1..k : done[k].list[j] = accounts[j]
    <2> DEFINE S == {k \in Nat : k <= n => Fine(k)}
    <2>2. 0 \in S
        <3>1. 0 \in 0..n
            BY <2>0
        <3>2. done[0] = NumberFirst(accounts)
            BY <2>1, <3>1, Zenon DEF IsNumbering
        <3>3. done[0].list = << >>
            BY <3>2 DEF NumberFirst
        <3>4. IsList(<< >>) /\ Len(<< >>) = 0 /\ 1..0 = {}
            BY DEF Range, IsList
        <3>5. Fine(0)
            BY <3>3, <3>4, Zenon
        <3> QED  BY <3>5
    <2>3. ASSUME NEW k \in Nat, k \in S PROVE k + 1 \in S
        <3> SUFFICES ASSUME k + 1 <= n PROVE Fine(k + 1)
            OBVIOUS
        <3>1. Fine(k) /\ k < n /\ k + 1 \in 1..n
            BY <2>0, <2>3
        <3>2. PICK x : x = NextNumber(accounts, done, k)
            BY Zenon
        <3>3. x = k
            <4>1. \A j \in 1..n : accounts[j].number = j - 1
                <5> TAKE j \in 1..n
                <5>1. PICK r, a, c : r = accounts[j] /\ a = accounts[j].address /\ c = j - 1
                    BY Zenon
                <5>2. r = [address |-> a, number |-> c]
                    BY <5>1, Zenon
                <5>3. r.number = c
                    BY <5>2
                <5> QED  BY <5>1, <5>3, Zenon
            <4>2. \A j \in 1..k : j \in 1..n /\ j - 1 # (k + 1) - 1
                BY <2>0, <3>1
            <4>3. ~ \E j \in 1..k : accounts[j].number = accounts[k + 1].number
                BY <3>1, <4>1, <4>2, Zenon
            <4>4. x = (k + 1) - 1
                BY <3>1, <3>2, <4>1, <4>3, Zenon DEF NextNumber
            <4> QED  BY <4>4
        <3>4. /\ IsList(done[k + 1].list) /\ Len(done[k + 1].list) = k + 1
              /\ \A j \in 1..k : done[k + 1].list[j] = done[k].list[j]
              /\ done[k + 1].list[k + 1] = [accounts[k + 1] EXCEPT !.number = x]
            <4>1. NumberedTo(accounts, done, k)
                BY <2>0, <2>1, <3>1, Zenon DEF NumberedTo
            <4>2. /\ Grown(done[k + 1].list, done[k].list, k, [accounts[k + 1] EXCEPT !.number = x])
                  /\ done[k + 1].used = done[k].used \union {x}
                BY <3>2, <4>1, <1>3
            <4> QED  BY <4>2, Zenon DEF Grown
        <3>5. [accounts[k + 1] EXCEPT !.number = x] = accounts[k + 1]
            <4>1. PICK r, a : r = accounts[k + 1] /\ a = accounts[k + 1].address
                BY Zenon
            <4>2. r = [address |-> a, number |-> k]
                <5>1. r = [address |-> a, number |-> (k + 1) - 1] /\ (k + 1) - 1 = k
                    BY <3>1, <4>1
                <5> QED  BY <5>1, Zenon
            <4>3. [r EXCEPT !.number = x] = r
                BY <3>3, <4>2
            <4> QED  BY <4>1, <4>3, Zenon
        <3>6. \A j \in 1..(k + 1) : j = k + 1 \/ j \in 1..k
            OBVIOUS
        <3> QED  BY <3>1, <3>4, <3>5, <3>6, Zenon
    <2>4. \A k \in Nat : k \in S
        <3> HIDE DEF S
        <3> QED  BY <2>2, <2>3, Inductive, Zenon
    <2>5. Fine(n)
        <3>1. n <= n
            BY <2>0
        <3> QED  BY <2>0, <2>4, <3>1, Zenon
    <2>6. PICK list : list = done[n].list
        BY Zenon
    <2>7. list = accounts
        <3>1. IsList(list) /\ Len(list) = n /\ \A j \in 1..n : list[j] = accounts[j]
            BY <2>5, <2>6, Zenon
        <3>2. list = [j \in 1..n |-> list[j]] /\ accounts = [j \in 1..n |-> accounts[j]]
            BY <3>1 DEF IsList
        <3> QED  BY <3>1, <3>2, Zenon
    <2>8. ByNumber(accounts) = accounts
        BY <1>4, Zenon
    <2> QED  BY <2>1, <2>6, <2>7, <2>8, Zenon
\* The lowest number after the first ones.
<1>6. ASSUME NEW m \in Nat
      PROVE  FreeNumber(0..m) = m + 1
    <2> USE <1>6
    <2>1. Cardinality(0..m) = m + 1
        <3>1. 0 \in Int /\ m \in Int
            OBVIOUS
        <3>2. Cardinality(0..m) = IF 0 > m THEN 0 ELSE m - 0 + 1
            BY <3>1, FS_Interval, Zenon
        <3> QED  BY <3>2
    <2>2. FreeNumber(0..m) = CHOOSE n \in 0..(m + 1) : n \notin 0..m /\ 0..(n - 1) \subseteq 0..m
        BY <2>1, Zenon DEF FreeNumber
    <2>3. m + 1 \in 0..(m + 1) /\ m + 1 \notin 0..m /\ 0..((m + 1) - 1) \subseteq 0..m
        OBVIOUS
    <2>4. \A n \in 0..(m + 1) : n \notin 0..m => n = m + 1
        OBVIOUS
    <2> QED  BY <2>2, <2>3, <2>4, Zenon
\* Accounts without numbers get them in their order, and keep them.
<1>7. ASSUME NEW accounts, IsList(accounts), NEW n, n = Len(accounts),
             \A k \in 1..n : accounts[k] = [address |-> accounts[k].address, number |-> 0],
             NEW list, list = SanitizeGenesisAccounts(accounts)
      PROVE  /\ IsList(list) /\ Len(list) = n
             /\ \A k \in 1..n : list[k] = [address |-> accounts[k].address, number |-> k - 1]
             /\ SanitizeGenesisAccounts(list) = list
    <2> USE <1>7
    <2>0. n \in Nat /\ DOMAIN accounts = 1..n
        BY ListDomain, Zenon
    <2>1. PICK done : IsNumbering(done, accounts) /\
                      SanitizeGenesisAccounts(accounts) = ByNumber(done[n].list)
        BY <1>2, Zenon
    <2>2. \A j \in 1..n : accounts[j].number = 0
        <3> TAKE j \in 1..n
        <3>1. PICK r, a : r = accounts[j] /\ a = accounts[j].address
            BY Zenon
        <3>2. r = [address |-> a, number |-> 0]
            BY <3>1, Zenon
        <3>3. r.number = 0
            BY <3>2
        <3> QED  BY <3>1, <3>3, Zenon
    <2> DEFINE Fine(k) ==
            /\ IsList(done[k].list) /\ Len(done[k].list) = k
            /\ \A j \in 1..k : done[k].list[j] = [address |-> accounts[j].address, number |-> j - 1]
            /\ done[k].used = IF k = 0 THEN {accounts[j].number : j \in 1..n} ELSE 0..(k - 1)
    <2> DEFINE S == {k \in Nat : k <= n => Fine(k)}
    <2>3. 0 \in S
        <3>1. 0 \in 0..n
            BY <2>0
        <3>2. done[0] = NumberFirst(accounts)
            BY <2>1, <3>1, Zenon DEF IsNumbering
        <3>3. done[0].list = << >> /\ done[0].used = {accounts[j].number : j \in DOMAIN accounts}
            BY <3>2 DEF NumberFirst
        <3>4. IsList(<< >>) /\ Len(<< >>) = 0 /\ 1..0 = {}
            BY DEF Range, IsList
        <3>5. Fine(0)
            BY <2>0, <3>3, <3>4, Zenon
        <3> QED  BY <3>5
    <2>4. ASSUME NEW k \in Nat, k \in S PROVE k + 1 \in S
        <3> SUFFICES ASSUME k + 1 <= n PROVE Fine(k + 1)
            OBVIOUS
        <3>1. Fine(k) /\ k < n /\ k + 1 \in 1..n
            BY <2>0, <2>4
        <3>2. PICK x : x = NextNumber(accounts, done, k)
            BY Zenon
        <3>3. x = k /\ done[k].used \union {x} = 0..k
            <4>1. CASE k = 0
                <5>1. ~ \E j \in 1..k : accounts[j].number = accounts[k + 1].number
                    BY <4>1
                <5>2. x = 0
                    BY <2>2, <3>1, <3>2, <5>1, Zenon DEF NextNumber
                <5>3. done[k].used \subseteq {0}
                    <6>1. done[k].used = {accounts[j].number : j \in 1..n}
                        BY <3>1, <4>1, Zenon
                    <6> QED  BY <2>2, <6>1, Zenon
                <5>4. 0..0 = {0}
                    OBVIOUS
                <5> QED  BY <4>1, <5>2, <5>3, <5>4, Zenon
            <4>2. CASE k # 0
                <5>1. 1 \in 1..k /\ 1 \in 1..n /\ k - 1 \in Nat /\ (k - 1) + 1 = k
                    BY <3>1, <4>2
                <5>2. \E j \in 1..k : accounts[j].number = accounts[k + 1].number
                    BY <2>2, <3>1, <5>1, Zenon
                <5>3. x = FreeNumber(0..(k - 1))
                    BY <3>1, <3>2, <4>2, <5>2, Zenon DEF NextNumber
                <5>4. x = k
                    BY <5>1, <5>3, <1>6, Zenon
                <5>5. 0..(k - 1) \union {k} = 0..k
                    OBVIOUS
                <5> QED  BY <3>1, <4>2, <5>4, <5>5, Zenon
            <4> QED  BY <4>1, <4>2, Zenon
        <3>4. /\ IsList(done[k + 1].list) /\ Len(done[k + 1].list) = k + 1
              /\ \A j \in 1..k : done[k + 1].list[j] = done[k].list[j]
              /\ done[k + 1].list[k + 1] = [accounts[k + 1] EXCEPT !.number = x]
              /\ done[k + 1].used = done[k].used \union {x}
            <4>1. NumberedTo(accounts, done, k)
                BY <2>0, <2>1, <3>1, Zenon DEF NumberedTo
            <4>2. /\ Grown(done[k + 1].list, done[k].list, k, [accounts[k + 1] EXCEPT !.number = x])
                  /\ done[k + 1].used = done[k].used \union {x}
                BY <3>2, <4>1, <1>3
            <4> QED  BY <4>2, Zenon DEF Grown
        <3>5. [accounts[k + 1] EXCEPT !.number = x] =
                  [address |-> accounts[k + 1].address, number |-> (k + 1) - 1]
            <4>1. PICK r, a : r = accounts[k + 1] /\ a = accounts[k + 1].address
                BY Zenon
            <4>2. r = [address |-> a, number |-> 0]
                BY <3>1, <4>1, Zenon
            <4>3. [r EXCEPT !.number = x] = [address |-> a, number |-> (k + 1) - 1]
                BY <3>3, <4>2
            <4> QED  BY <4>1, <4>3, Zenon
        <3>6. \A j \in 1..(k + 1) : j = k + 1 \/ j \in 1..k
            OBVIOUS
        <3>7. k + 1 # 0 /\ (k + 1) - 1 = k
            OBVIOUS
        <3>8. done[k + 1].used = 0..((k + 1) - 1)
            BY <3>3, <3>4, <3>7, Zenon
        <3> QED  BY <3>1, <3>4, <3>5, <3>6, <3>7, <3>8, Zenon
    <2>5. \A k \in Nat : k \in S
        <3> HIDE DEF S
        <3> QED  BY <2>3, <2>4, Inductive, Zenon
    <2>6. Fine(n)
        <3>1. n <= n
            BY <2>0
        <3> QED  BY <2>0, <2>5, <3>1, Zenon
    <2>7. PICK new : new = done[n].list
        BY Zenon
    <2>8. /\ IsList(new) /\ Len(new) = n
          /\ \A k \in 1..n : new[k] = [address |-> accounts[k].address, number |-> k - 1]
        BY <2>6, <2>7, Zenon
    <2>9. \A k \in 1..n : new[k] = [address |-> new[k].address, number |-> k - 1]
        <3> TAKE k \in 1..n
        <3>1. PICK r, a, c : r = new[k] /\ a = accounts[k].address /\ c = k - 1
            BY Zenon
        <3>2. r = [address |-> a, number |-> c]
            BY <2>8, <3>1, Zenon
        <3>3. r.address = a
            BY <3>2
        <3> QED  BY <3>1, <3>2, <3>3, Zenon
    <2>10. ByNumber(new) = new /\ SanitizeGenesisAccounts(new) = new
        BY <2>8, <2>9, <1>4, <1>5, ZenonT(30)
    <2> QED  BY <2>1, <2>7, <2>8, <2>10, Zenon
<1> QED  BY <1>7, Zenon DEF WithoutNumbers, GivenNumbers
-----------------------------------------------------------------------------
(* The cluster, by the numbers of its nodes                                *)

\* While generate runs and once it has finished.
Live == Running \union {"done"}

ConfigFields == {"home", "peerID", "ip", "ports", "persistentPeers", "privatePeerIds", "nodeKey",
                 "validatorKey", "prodLike", "txIndexer", "discardABCIResponses",
                 "portsExposed", "dependsOn"}

GenFields == {"genesis", "peers", "configs", "validatorIDs", "sentryIDs"}

\* The directory, the address and the ports of the m-th node, from its number alone:
\* GenerateValidator and GenerateSentry come to them in loops.
Home(e, m) == IF m <= e.validators THEN <<"validators", m - 1>>
              ELSE <<"sentry-nodes", m - e.validators - 1>>

Address(e, m) == IF e.localNative THEN Localhost ELSE ipInSubnet(e.subnet, m)

PortsOf(e, m) == IF e.localNative THEN shiftPorts(DefaultPorts, m - 1) ELSE DefaultPorts

\* A node's configuration has what its number gives it.
Assigned(e, cfg, m) ==
    /\ DOMAIN cfg = ConfigFields
    /\ cfg.home = Home(e, m)
    /\ cfg.peerID = NodeID(cfg.nodeKey)
    /\ cfg.ip = Address(e, m)
    /\ cfg.ports = PortsOf(e, m)

\* A node's directory has its key, and listens on its ports and on no others.
Holds(dir, cfg) ==
    /\ DOMAIN dir = DOMAIN EmptyDir
    /\ dir.node_key = cfg.nodeKey
    /\ dir.config.p2p = cfg.ports["P2P"]
    /\ dir.config.p2p \in dir.config.listens
    /\ dir.config.listens \union dir.app.listens \subseteq Range(cfg.ports)

\* The nodes so far: configurations and directories go together, and a node's key
\* was drawn after those of the nodes before it.
Cluster(e, configs, nodes, next) ==
    /\ IsList(configs)
    /\ DOMAIN nodes = {Home(e, m) : m \in 1..Len(configs)}
    /\ \A m \in 1..Len(configs) :
          /\ Assigned(e, configs[m], m)
          /\ Holds(nodes[Home(e, m)], configs[m])
          /\ configs[m].nodeKey \in 1..(next - 1)
    /\ \A m, n \in 1..Len(configs) : n < m => configs[n].nodeKey < configs[m].nodeKey

\* How far the loops of GenerateConfigs are, by the number of nodes there are.
Progress(e, at, k, count) ==
    /\ e \in Environments /\ ~Refused(e)
    /\ k \in Nat
    /\ at = "validators" => count = k /\ k < e.validators
    /\ at \in {"instances", "genesis"} => count = e.validators
    /\ at \in {"genesis", "peers"} => k < e.validators
    /\ at = "sentries" => count = e.validators + k
    /\ at \in {"peers", "compose", "done"} => count >= e.validators
    /\ count > 0 /\ ~e.localNative => e.subnet \in 0..(Octet - 1)
    /\ at = "sentries" => e.sentries > 0
    /\ at = "compose" => ~e.localNative
    /\ e.localNative => count <= e.validators

\* The list of peers is that of the validators; a sentry has the whole of it, a
\* validator whose second Save is done has it without itself.
Peers(e, at, k, g, nodes) ==
    /\ IsList(g.peers)
    /\ Len(g.peers) = IF at = "validators" THEN Len(g.configs) ELSE e.validators
    /\ \A m \in 1..Len(g.peers) : g.peers[m] = PeerAddress(g.configs[m])
    /\ \A m \in 1..Len(g.configs) :
          LET saved == nodes[Home(e, m)].config.persistentPeers
          IN  /\ m > e.validators => saved = g.peers
              /\ \/ at = "peers" /\ m <= k
                 \/ at \in {"compose", "done"} /\ m <= e.validators
                 => saved = filterStringValue(g.peers, PeerAddress(g.configs[m]))

\* docker-compose.yml is written in the end, from the configurations.
Composed(e, at, g, compose) ==
    compose = IF at = "done" /\ ~e.localNative
              THEN GenerateDockerCompose(e.chainID, e.subnet, g.configs) ELSE Missing

\* The keys drawn are counted, the deployment has its files, and the flags are some
\* that were given.
GenTypeOK ==
    /\ nextKey \in Nat \ {0}
    /\ DOMAIN disk = DOMAIN NoFiles
    /\ pc # "idle" => env \in Environments

\* The inductive invariant behind Connected (generator.go:75-224): the files are
\* what the number of each node makes of them, at every step of the command.
ClusterInv ==
    pc \in Live =>
        /\ DOMAIN gen = GenFields
        /\ Progress(env, pc, i, Len(gen.configs))
        /\ Cluster(env, gen.configs, disk.nodes, nextKey)
        /\ Peers(env, pc, i, gen, disk.nodes)
        /\ Composed(env, pc, gen, disk.compose)
-----------------------------------------------------------------------------
(* What a step of generate leaves                                          *)

\* Nodes of different numbers have different directories.
LEMMA HomesDiffer ==
    ASSUME NEW e, e.validators \in Int, NEW m \in Int, NEW n \in Int, Home(e, m) = Home(e, n)
    PROVE  m = n
BY DEF Home

\* config.toml as Save writes it.
LEMMA SavedConfig ==
    ASSUME NEW dir, DOMAIN dir = DOMAIN EmptyDir, NEW cfg, DOMAIN cfg.ports = DOMAIN DefaultPorts,
           NEW d, d = SaveNodeConfig(dir, cfg)
    PROVE  /\ DOMAIN d = DOMAIN EmptyDir
           /\ d.node_key = cfg.nodeKey
           /\ d.priv_validator_key = IF cfg.validatorKey = NoKey THEN dir.priv_validator_key
                                     ELSE cfg.validatorKey
           /\ d.config.persistentPeers = cfg.persistentPeers
           /\ d.config.p2p = cfg.ports["P2P"]
           /\ d.config.p2p \in d.config.listens
           /\ d.config.listens \subseteq Range(cfg.ports)
           /\ d.app = dir.app
           /\ d.genesis = dir.genesis
<1>1. PICK L : L = IF cfg.prodLike THEN {"P2P", "RPC", "PProf", "Prometheus"}
                   ELSE {"P2P", "RPC"} \union (IF cfg.portsExposed THEN {"Prometheus"} ELSE {})
    BY Zenon
<1>2. "P2P" \in L /\ L \subseteq DOMAIN cfg.ports
    BY <1>1 DEF DefaultPorts
<1>3. d = [dir EXCEPT
            !.node_key = cfg.nodeKey,
            !.priv_validator_key = IF cfg.validatorKey = NoKey THEN @ ELSE cfg.validatorKey,
            !.config = [written |-> TRUE, persistentPeers |-> cfg.persistentPeers,
                        privatePeerIds |-> cfg.privatePeerIds, p2p |-> cfg.ports["P2P"],
                        listens |-> {cfg.ports[p] : p \in L},
                        indexer |-> IF cfg.prodLike THEN cfg.txIndexer ELSE "kv",
                        discards |-> cfg.prodLike /\ cfg.discardABCIResponses]]
    BY <1>1, Zenon DEF SaveNodeConfig
<1>4. /\ DOMAIN d = DOMAIN EmptyDir
      /\ d.node_key = cfg.nodeKey
      /\ d.priv_validator_key = IF cfg.validatorKey = NoKey THEN dir.priv_validator_key
                                ELSE cfg.validatorKey
      /\ d.config.persistentPeers = cfg.persistentPeers
      /\ d.config.p2p = cfg.ports["P2P"]
      /\ d.config.listens = {cfg.ports[p] : p \in L}
      /\ d.app = dir.app
      /\ d.genesis = dir.genesis
    BY <1>3 DEF EmptyDir
<1>5. /\ cfg.ports["P2P"] \in {cfg.ports[p] : p \in L}
      /\ {cfg.ports[p] : p \in L} \subseteq Range(cfg.ports)
    BY <1>2, Zenon DEF Range
<1> QED  BY <1>4, <1>5, Zenon

\* app.toml as Save writes it.
LEMMA SavedApp ==
    ASSUME NEW dir, DOMAIN dir = DOMAIN EmptyDir, NEW e, NEW cfg,
           DOMAIN cfg.ports = DOMAIN DefaultPorts,
           NEW d, d = SaveAppConfig(dir, AppConfig(e, cfg))
    PROVE  /\ DOMAIN d = DOMAIN EmptyDir
           /\ d.node_key = dir.node_key
           /\ d.priv_validator_key = dir.priv_validator_key
           /\ d.config = dir.config
           /\ d.app.listens \subseteq Range(cfg.ports)
           /\ d.genesis = dir.genesis
<1>1. PICK L : L = IF e.evmEnabled THEN {"API", "GRPC", "EVMRPC", "EVMWSPort"}
                   ELSE {"API", "GRPC", "GRPCWeb"}
    BY Zenon
<1>2. L \subseteq DOMAIN cfg.ports
    BY <1>1 DEF DefaultPorts
<1>3. PICK a : a = AppConfig(e, cfg)
    BY Zenon
<1>4. a.evmEnabled = e.evmEnabled /\ a.ports = cfg.ports
    BY <1>3 DEF AppConfig
<1>5. d = [dir EXCEPT !.app =
            [written |-> TRUE, minimumGasPrices |-> a.minimumGasPrices,
             template |-> IF a.evmEnabled THEN "evm"
                          ELSE IF a.prodLike THEN "prod" ELSE "plain",
             listens |-> {a.ports[p] : p \in L}]]
    <2>1. d = SaveAppConfig(dir, a)
        BY <1>3, Zenon
    <2>2. L = IF a.evmEnabled THEN {"API", "GRPC", "EVMRPC", "EVMWSPort"}
              ELSE {"API", "GRPC", "GRPCWeb"}
        BY <1>1, <1>4, Zenon
    <2> QED  BY <2>1, <2>2, Zenon DEF SaveAppConfig
<1>6. /\ DOMAIN d = DOMAIN EmptyDir
      /\ d.node_key = dir.node_key
      /\ d.priv_validator_key = dir.priv_validator_key
      /\ d.config = dir.config
      /\ d.app.listens = {a.ports[p] : p \in L}
      /\ d.genesis = dir.genesis
    BY <1>5 DEF EmptyDir
<1>7. {a.ports[p] : p \in L} \subseteq Range(cfg.ports)
    BY <1>2, <1>4, Zenon DEF Range
<1> QED  BY <1>6, <1>7, Zenon

\* A key below the next one stays below it.
LEMMA MoreKeys ==
    ASSUME NEW e, NEW configs, NEW nodes, NEW next \in Nat, NEW later \in Nat, next <= later,
           Cluster(e, configs, nodes, next)
    PROVE  Cluster(e, configs, nodes, later)
<1>1. 1..(next - 1) \subseteq 1..(later - 1)
    OBVIOUS
<1> QED  BY <1>1, Zenon DEF Cluster

\* One node more.
LEMMA NodeAdded ==
    ASSUME NEW e, e.validators \in Int, NEW configs, NEW nodes, NEW next \in Nat \ {0},
           NEW later \in Nat, next < later, Cluster(e, configs, nodes, next),
           NEW cfg, Assigned(e, cfg, Len(configs) + 1), cfg.nodeKey = next,
           NEW dir, Holds(dir, cfg)
    PROVE  Cluster(e, Append(configs, cfg), Put(nodes, cfg.home, dir), later)
<1> DEFINE n == Len(configs)
<1>1. IsList(configs)
    BY Zenon DEF Cluster
<1>2. n \in Nat
    BY <1>1, ListDomain, Zenon
<1>3. PICK new, files : new = Append(configs, cfg) /\ files = Put(nodes, cfg.home, dir)
    BY Zenon
<1>4. /\ IsList(new)
      /\ Len(new) = n + 1
      /\ \A k \in 1..n : new[k] = configs[k]
      /\ new[n + 1] = cfg
    BY <1>1, <1>3, Appended
<1>5. /\ DOMAIN nodes = {Home(e, m) : m \in 1..n}
      /\ \A m \in 1..n : /\ Assigned(e, configs[m], m)
                         /\ Holds(nodes[Home(e, m)], configs[m])
                         /\ configs[m].nodeKey \in 1..(next - 1)
      /\ \A m, k \in 1..n : k < m => configs[k].nodeKey < configs[m].nodeKey
    BY Zenon DEF Cluster
<1>6. cfg.home = Home(e, n + 1)
    BY Zenon DEF Assigned
<1>7. \A m \in 1..(n + 1) : m \in 1..n \/ m = n + 1
    BY <1>2
<1>8. \A m \in 1..n : m \in 1..(n + 1) /\ m # n + 1 /\ m \in Int
    BY <1>2
<1>9. \A m \in 1..n : Home(e, m) # Home(e, n + 1)
    <2>1. n + 1 \in Int
        BY <1>2
    <2> QED  BY <1>8, <2>1, HomesDiffer, Zenon
<1> HIDE DEF n
<1>10. DOMAIN files = {Home(e, m) : m \in 1..(n + 1)}
    <2>1. DOMAIN files = {Home(e, m) : m \in 1..n} \union {Home(e, n + 1)}
        BY <1>3, <1>5, <1>6, Zenon DEF Put
    <2>2. n + 1 \in 1..(n + 1)
        BY <1>2
    <2> QED  BY <1>7, <1>8, <2>1, <2>2, Zenon
<1>11. /\ files[Home(e, n + 1)] = dir
       /\ \A m \in 1..n : files[Home(e, m)] = nodes[Home(e, m)]
    BY <1>3, <1>5, <1>6, <1>9, Zenon DEF Put
<1>12. ASSUME NEW m \in 1..(n + 1)
       PROVE  /\ Assigned(e, new[m], m)
              /\ Holds(files[Home(e, m)], new[m])
              /\ new[m].nodeKey \in 1..(later - 1)
    <2>1. CASE m = n + 1
        <3>1. next \in 1..(later - 1)
            OBVIOUS
        <3> QED  BY <1>4, <1>11, <2>1, <3>1, Zenon DEF n
    <2>2. CASE m \in 1..n
        <3>1. 1..(next - 1) \subseteq 1..(later - 1)
            OBVIOUS
        <3> QED  BY <1>4, <1>5, <1>11, <2>2, <3>1, Zenon
    <2> QED  BY <1>7, <2>1, <2>2, Zenon
<1>13. ASSUME NEW m \in 1..(n + 1), NEW k \in 1..(n + 1), k < m
       PROVE  new[k].nodeKey < new[m].nodeKey
    <2>1. k \in 1..n
        BY <1>2, <1>13
    <2>2. CASE m = n + 1
        <3>1. configs[k].nodeKey \in 1..(next - 1)
            BY <1>5, <2>1, Zenon
        <3>2. new[m].nodeKey = next /\ new[k].nodeKey = configs[k].nodeKey
            BY <1>4, <2>1, <2>2, Zenon
        <3> QED  BY <3>1, <3>2
    <2>3. CASE m \in 1..n
        BY <1>4, <1>5, <1>13, <2>1, <2>3, Zenon
    <2> QED  BY <1>7, <2>2, <2>3, Zenon
<1>14. Cluster(e, new, files, later)
    BY <1>4, <1>10, <1>12, <1>13, Zenon DEF Cluster
<1> QED  BY <1>3, <1>14, Zenon

LEMMA ListOf ==
    ASSUME NEW n \in Nat, NEW s, DOMAIN s = 1..n, s = [k \in 1..n |-> s[k]]
    PROVE  IsList(s) /\ Len(s) = n
<1>1. \A k \in 1..n : s[k] \in Range(s)
    BY Zenon DEF Range
<1> QED  BY <1>1 DEF IsList

\* A function or a list with another value in one place, and what is known of it.
Replaced(s, m, x) == [s EXCEPT ![m] = x]

Edited(new, s, m, x) ==
    /\ IsList(new)
    /\ Len(new) = Len(s)
    /\ \A k \in 1..Len(s) : new[k] = IF k = m THEN x ELSE s[k]

LEMMA EntryReplaced ==
    ASSUME NEW s, IsList(s), NEW m, NEW x, NEW new, new = Replaced(s, m, x)
    PROVE  Edited(new, s, m, x)
<1>1. PICK n : n = Len(s)
    BY Zenon
<1>2. n \in Nat /\ DOMAIN s = 1..n
    BY <1>1, ListDomain, Zenon
<1>3. /\ DOMAIN new = 1..n
      /\ \A k \in 1..n : new[k] = IF k = m THEN x ELSE s[k]
      /\ new = [k \in 1..n |-> new[k]]
    BY <1>2, Zenon DEF Replaced
<1>4. IsList(new) /\ Len(new) = n
    BY <1>2, <1>3, ListOf, Zenon
<1> QED  BY <1>1, <1>3, <1>4, Zenon DEF Edited

\* One node saved again.
LEMMA NodeSaved ==
    ASSUME NEW e, e.validators \in Int, NEW configs, NEW nodes, NEW next,
           Cluster(e, configs, nodes, next), NEW m \in 1..Len(configs),
           NEW cfg, Assigned(e, cfg, m), cfg.nodeKey = configs[m].nodeKey,
           NEW dir, Holds(dir, cfg)
    PROVE  Cluster(e, [configs EXCEPT ![m] = cfg], [nodes EXCEPT ![Home(e, m)] = dir], next)
<1> DEFINE n == Len(configs)
<1>1. IsList(configs)
    BY Zenon DEF Cluster
<1>2. n \in Nat
    BY <1>1, ListDomain, Zenon
<1>3. PICK new, files : new = [configs EXCEPT ![m] = cfg] /\ files = [nodes EXCEPT ![Home(e, m)] = dir]
    BY Zenon
<1>4. /\ IsList(new)
      /\ Len(new) = n
      /\ \A k \in 1..n : new[k] = IF k = m THEN cfg ELSE configs[k]
    <2>1. new = Replaced(configs, m, cfg)
        BY <1>3, Zenon DEF Replaced
    <2>2. Edited(new, configs, m, cfg)
        BY <1>1, <2>1, EntryReplaced, Zenon
    <2> QED  BY <2>2, Zenon DEF Edited
<1>5. /\ DOMAIN nodes = {Home(e, k) : k \in 1..n}
      /\ \A k \in 1..n : /\ Assigned(e, configs[k], k)
                         /\ Holds(nodes[Home(e, k)], configs[k])
                         /\ configs[k].nodeKey \in 1..(next - 1)
      /\ \A j, k \in 1..n : k < j => configs[k].nodeKey < configs[j].nodeKey
    BY Zenon DEF Cluster
<1>6. \A k \in 1..n : k \in Int
    BY <1>2
<1>7. \A k \in 1..n : Home(e, k) = Home(e, m) => k = m
    BY <1>6, HomesDiffer, Zenon
<1>8. /\ DOMAIN files = {Home(e, k) : k \in 1..n}
      /\ \A k \in 1..n : files[Home(e, k)] = IF k = m THEN dir ELSE nodes[Home(e, k)]
    BY <1>3, <1>5, <1>7, Zenon
<1>9. \A k \in 1..n : /\ Assigned(e, new[k], k)
                      /\ Holds(files[Home(e, k)], new[k])
                      /\ new[k].nodeKey = configs[k].nodeKey
    BY <1>4, <1>5, <1>8, Zenon
<1>10. Cluster(e, new, files, next)
    BY <1>4, <1>5, <1>8, <1>9, Zenon DEF Cluster
<1> QED  BY <1>3, <1>10, Zenon

\* Nothing is claimed of a command that does not run.
LEMMA Idle ==
    ASSUME pc' \notin Live
    PROVE  ClusterInv'
BY Zenon DEF ClusterInv

\* What a command line may ask for.
LEMMA EnvTypes ==
    ASSUME NEW e \in Environments
    PROVE  /\ e.validators \in Int /\ e.sentries \in Int /\ e.instances \in Int
           /\ e.accountsPerInstance \in Int
           /\ e.subnet \in 0..(Octet - 1) \union {BadSubnet}
BY GeneratorAssumption, Zenon

\* GenerateConfigs begins with no nodes.
LEMMA ClusterStarts ==
    ASSUME NEW e \in Environments, GenerateConfigs(e)
    PROVE  ClusterInv'
<1>1. CASE Refused(e)
    BY <1>1, Idle DEF GenerateConfigs, Live, Running
<1>2. CASE ~Refused(e)
    <2>1. /\ pc' = "validators" /\ env' = e /\ i' = 0 /\ disk' = NoFiles /\ gen' = Fresh(e)
        BY <1>2, Zenon DEF GenerateConfigs
    <2>2. /\ DOMAIN gen' = GenFields
          /\ gen'.configs = << >> /\ gen'.peers = << >>
          /\ disk'.nodes = << >> /\ disk'.compose = Missing
        BY <2>1 DEF Fresh, NoFiles, GenFields
    <2>3. IsList(<< >>) /\ Len(<< >>) = 0 /\ DOMAIN << >> = {} /\ 1..0 = {}
        BY DEF IsList, Range
    <2>4. Progress(e, "validators", 0, 0)
        BY <1>2, EnvTypes DEF Progress, Refused
    <2>5. Cluster(e, << >>, << >>, nextKey')
        BY <2>3, Zenon DEF Cluster
    <2>6. Peers(e, "validators", 0, gen', << >>)
        <3>1. Len(gen'.configs) = 0 /\ Len(gen'.peers) = 0 /\ IsList(gen'.peers)
            BY <2>2, <2>3, Zenon
        <3> QED  BY <2>3, <3>1, Zenon DEF Peers
    <2>7. Composed(e, "validators", gen', Missing)
        BY DEF Composed
    <2> QED  BY <2>1, <2>2, <2>3, <2>4, <2>5, <2>6, <2>7, Zenon DEF ClusterInv
<1> QED  BY <1>1, <1>2, Zenon

\* The invariant of a command that is under way.
LEMMA UnderWay ==
    ASSUME GenTypeOK, ClusterInv, pc \in Live
    PROVE  /\ nextKey \in Nat \ {0} /\ DOMAIN disk = DOMAIN NoFiles
           /\ DOMAIN gen = GenFields
           /\ env.validators \in Int /\ env.sentries \in Int /\ env.validators > 0
           /\ Progress(env, pc, i, Len(gen.configs))
           /\ Cluster(env, gen.configs, disk.nodes, nextKey)
           /\ Peers(env, pc, i, gen, disk.nodes)
           /\ Composed(env, pc, gen, disk.compose)
           /\ IsList(gen.configs) /\ IsList(gen.peers)
           /\ Len(gen.configs) \in Nat /\ Len(gen.peers) \in Nat
           /\ i \in Nat
<1>1. /\ nextKey \in Nat \ {0} /\ DOMAIN disk = DOMAIN NoFiles
    BY Zenon DEF GenTypeOK
<1>2. /\ DOMAIN gen = GenFields
      /\ Progress(env, pc, i, Len(gen.configs))
      /\ Cluster(env, gen.configs, disk.nodes, nextKey)
      /\ Peers(env, pc, i, gen, disk.nodes)
      /\ Composed(env, pc, gen, disk.compose)
    BY Zenon DEF ClusterInv
<1>3. env \in Environments /\ ~Refused(env) /\ i \in Nat
    BY <1>2, Zenon DEF Progress
<1>4. env.validators \in Int /\ env.sentries \in Int /\ env.validators > 0
    BY <1>3, EnvTypes DEF Refused
<1>5. IsList(gen.configs) /\ IsList(gen.peers)
    BY <1>2, Zenon DEF Cluster, Peers
<1>6. Len(gen.configs) \in Nat /\ Len(gen.peers) \in Nat
    BY <1>5, ListDomain, Zenon
<1> QED  BY <1>1, <1>2, <1>3, <1>4, <1>5, <1>6, Zenon

\* What Save leaves in a node's directory.
LEMMA SavedNode ==
    ASSUME NEW dir, DOMAIN dir = DOMAIN EmptyDir, NEW e, NEW cfg,
           DOMAIN cfg.ports = DOMAIN DefaultPorts,
           NEW d, d = SaveAppConfig(SaveNodeConfig(dir, cfg), AppConfig(e, cfg))
    PROVE  /\ Holds(d, cfg)
           /\ d.config.persistentPeers = cfg.persistentPeers
           /\ d.priv_validator_key = IF cfg.validatorKey = NoKey THEN dir.priv_validator_key
                                     ELSE cfg.validatorKey
           /\ d.genesis = dir.genesis
<1>1. PICK c : c = SaveNodeConfig(dir, cfg)
    BY Zenon
<1>2. /\ DOMAIN c = DOMAIN EmptyDir
      /\ c.node_key = cfg.nodeKey
      /\ c.priv_validator_key = IF cfg.validatorKey = NoKey THEN dir.priv_validator_key
                                ELSE cfg.validatorKey
      /\ c.config.persistentPeers = cfg.persistentPeers
      /\ c.config.p2p = cfg.ports["P2P"]
      /\ c.config.p2p \in c.config.listens
      /\ c.config.listens \subseteq Range(cfg.ports)
      /\ c.genesis = dir.genesis
    BY <1>1, SavedConfig
<1>3. d = SaveAppConfig(c, AppConfig(e, cfg))
    BY <1>1, Zenon
<1>4. /\ DOMAIN d = DOMAIN EmptyDir
      /\ d.node_key = c.node_key
      /\ d.priv_validator_key = c.priv_validator_key
      /\ d.config = c.config
      /\ d.app.listens \subseteq Range(cfg.ports)
      /\ d.genesis = c.genesis
    BY <1>2, <1>3, SavedApp
<1> QED  BY <1>2, <1>4, Zenon DEF Holds

\* The ports by their names.
LEMMA PortNames ==
    ASSUME NEW e, NEW cfg, NEW m, Assigned(e, cfg, m)
    PROVE  DOMAIN cfg.ports = DOMAIN DefaultPorts
<1>1. DOMAIN shiftPorts(DefaultPorts, m - 1) = DOMAIN DefaultPorts
    BY Zenon DEF shiftPorts
<1>2. cfg.ports = PortsOf(e, m)
    BY Zenon DEF Assigned
<1> QED  BY <1>1, <1>2, Zenon DEF PortsOf

\* The files of a directory by their names.
LEMMA DirFields ==
    ASSUME NEW e, NEW configs, NEW next, Cluster(e, configs, disk.nodes, next), NEW home
    PROVE  DOMAIN Dir(home) = DOMAIN EmptyDir
<1>1. CASE home \in DOMAIN disk.nodes
    <2>1. PICK m \in 1..Len(configs) : home = Home(e, m)
        BY <1>1, Zenon DEF Cluster
    <2>2. DOMAIN disk.nodes[home] = DOMAIN EmptyDir
        BY <2>1, Zenon DEF Cluster, Holds
    <2> QED  BY <1>1, <2>2, Zenon DEF Dir
<1>2. CASE home \notin DOMAIN disk.nodes
    BY <1>2, Zenon DEF Dir
<1> QED  BY <1>1, <1>2, Zenon

\* What GenerateValidator gives a node is what its number asks for.
LEMMA ValidatorAssigned ==
    ASSUME NEW e, e.validators \in Int, NEW k \in Nat, k < e.validators, NEW key, NEW vkey
    PROVE  /\ Assigned(e, ValidatorConfig(e, k, key, vkey), k + 1)
           /\ ValidatorConfig(e, k, key, vkey).nodeKey = key
           /\ ValidatorConfig(e, k, key, vkey).validatorKey = vkey
<1>1. PICK cfg : cfg = ValidatorConfig(e, k, key, vkey)
    BY Zenon
<1>2. /\ DOMAIN cfg = ConfigFields
      /\ cfg.home = <<"validators", k>>
      /\ cfg.peerID = NodeID(key)
      /\ cfg.nodeKey = key /\ cfg.validatorKey = vkey
      /\ cfg.ip = IF e.localNative THEN Localhost ELSE ipInSubnet(e.subnet, k + 1)
      /\ cfg.ports = IF e.localNative THEN shiftPorts(DefaultPorts, k) ELSE DefaultPorts
    BY <1>1 DEF ValidatorConfig, ConfigFields
<1>3. Home(e, k + 1) = <<"validators", k>> /\ (k + 1) - 1 = k
    BY DEF Home
<1>4. Assigned(e, cfg, k + 1)
    BY <1>2, <1>3, Zenon DEF Assigned, Address, PortsOf
<1> QED  BY <1>1, <1>2, <1>4, Zenon

\* And so is what GenerateSentry gives it.
LEMMA SentryAssigned ==
    ASSUME NEW e, e.validators \in Int, NEW k \in Nat, ~e.localNative, NEW key, NEW peers, NEW ids
    PROVE  /\ Assigned(e, SentryConfig(e, k, key, peers, ids), e.validators + k + 1)
           /\ SentryConfig(e, k, key, peers, ids).nodeKey = key
           /\ SentryConfig(e, k, key, peers, ids).validatorKey = NoKey
           /\ SentryConfig(e, k, key, peers, ids).persistentPeers = peers
<1>1. PICK cfg : cfg = SentryConfig(e, k, key, peers, ids)
    BY Zenon
<1>2. /\ DOMAIN cfg = ConfigFields
      /\ cfg.home = <<"sentry-nodes", k>>
      /\ cfg.peerID = NodeID(key)
      /\ cfg.nodeKey = key /\ cfg.validatorKey = NoKey
      /\ cfg.persistentPeers = peers
      /\ cfg.ip = ipInSubnet(e.subnet, e.validators + k + 1)
      /\ cfg.ports = DefaultPorts
    BY <1>1 DEF SentryConfig, ConfigFields
<1>3. Home(e, e.validators + k + 1) = <<"sentry-nodes", k>>
    BY DEF Home
<1>4. Assigned(e, cfg, e.validators + k + 1)
    BY <1>2, <1>3, Zenon DEF Assigned, Address, PortsOf
<1> QED  BY <1>1, <1>2, <1>4, Zenon

\* Every step of generate keeps the invariant.
LEMMA ClusterStep ==
    ASSUME GenTypeOK, ClusterInv, [GenNext]_genVars
    PROVE  ClusterInv'
<1>1. CASE UNCHANGED genVars
    <2>1. UNCHANGED <<env, pc, i, gen, disk, nextKey>>
        BY <1>1 DEF genVars
    <2>2. /\ env' = env /\ pc' = pc /\ i' = i /\ gen' = gen /\ disk' = disk
          /\ nextKey' = nextKey
        BY <2>1
    <2> QED  BY <2>2, Zenon DEF ClusterInv
<1>2. ASSUME NEW e \in Environments, GenerateConfigs(e) PROVE ClusterInv'
    BY <1>2, ClusterStarts, Zenon
<1>3. ASSUME NEW e \in Environments, RemoveAllFails(e) PROVE ClusterInv'
    <2>1. pc' \notin Live
        BY <1>3 DEF RemoveAllFails, Live, Running
    <2> QED  BY <2>1, Zenon DEF ClusterInv
\* One case per step of generate.
<1>4. CASE GenerateValidator
    <2> USE <1>4
    <2>0. pc = "validators" /\ pc \in Live
        BY DEF GenerateValidator, Live, Running
    <2>1. /\ nextKey \in Nat \ {0} /\ DOMAIN disk = DOMAIN NoFiles
          /\ DOMAIN gen = GenFields
          /\ env.validators \in Int /\ env.sentries \in Int /\ env.validators > 0
          /\ Progress(env, pc, i, Len(gen.configs))
          /\ Cluster(env, gen.configs, disk.nodes, nextKey)
          /\ Peers(env, pc, i, gen, disk.nodes)
          /\ Composed(env, pc, gen, disk.compose)
          /\ IsList(gen.configs) /\ IsList(gen.peers)
          /\ Len(gen.configs) \in Nat /\ Len(gen.peers) \in Nat
          /\ i \in Nat
        BY <2>0, UnderWay, Zenon
    <2>2. PICK cfg, dir, peer :
            /\ cfg = ValidatorConfig(env, i, nextKey, nextKey + 1)
            /\ dir = SaveAppConfig(SaveNodeConfig(Dir(cfg.home), cfg), AppConfig(env, cfg))
            /\ peer = PeerAddress(cfg)
        BY Zenon
    <2>3. /\ disk'.nodes = Put(disk.nodes, cfg.home, dir)
          /\ disk'.compose = disk.compose
          /\ DOMAIN gen' = GenFields
          /\ gen'.peers = Append(gen.peers, peer)
          /\ gen'.configs = Append(gen.configs, cfg)
        BY <2>1, <2>2 DEF GenerateValidator, NoFiles, GenFields
    <2>4. /\ nextKey' = nextKey + 3 /\ env' = env
          /\ env.localNative \/ env.subnet # BadSubnet
          /\ \/ i + 1 < env.validators /\ pc' = "validators" /\ i' = i + 1
             \/ ~(i + 1 < env.validators) /\ pc' = "instances" /\ i' = 0
        BY <2>0, Zenon DEF GenerateValidator, Iterate
    <2>5. Len(gen.configs) = i /\ i < env.validators /\ env \in Environments /\ ~Refused(env)
        BY <2>0, <2>1, Zenon DEF Progress
    <2>6. /\ Assigned(env, cfg, i + 1) /\ cfg.nodeKey = nextKey
        BY <2>1, <2>2, <2>5, ValidatorAssigned, SMTT(30)
    <2>7. Holds(dir, cfg)
        <3>1. DOMAIN cfg.ports = DOMAIN DefaultPorts
            BY <2>6, PortNames, Zenon
        <3>2. DOMAIN Dir(cfg.home) = DOMAIN EmptyDir
            BY <2>1, DirFields, Zenon
        <3> QED  BY <2>2, <3>1, <3>2, SavedNode
    <2>8. Cluster(env, gen'.configs, disk'.nodes, nextKey')
        <3>1. nextKey' \in Nat /\ nextKey < nextKey'
            BY <2>1, <2>4
        <3>2. Assigned(env, cfg, Len(gen.configs) + 1)
            BY <2>5, <2>6, Zenon
        <3>3. Cluster(env, Append(gen.configs, cfg), Put(disk.nodes, cfg.home, dir), nextKey')
            BY <2>1, <2>6, <2>7, <3>1, <3>2, NodeAdded, Zenon
        <3> QED  BY <2>3, <3>3, Zenon
    <2>9. /\ Len(gen'.configs) = i + 1 /\ gen'.configs[i + 1] = cfg
          /\ \A k \in 1..i : gen'.configs[k] = gen.configs[k]
        <3>1. PICK old, more : old = gen.configs /\ more = Append(old, cfg)
            BY Zenon
        <3>2. IsList(old) /\ Len(old) = i /\ gen'.configs = more
            BY <2>1, <2>3, <2>5, <3>1, Zenon
        <3>3. Len(more) = i + 1 /\ more[i + 1] = cfg /\ \A k \in 1..i : more[k] = old[k]
            BY <3>1, <3>2, Appended
        <3> QED  BY <3>1, <3>2, <3>3, Zenon
    <2>10. Len(gen.peers) = i /\ \A m \in 1..i : gen.peers[m] = PeerAddress(gen.configs[m])
        BY <2>0, <2>1, <2>5, Zenon DEF Peers
    <2>11. /\ IsList(gen'.peers)
           /\ Len(gen'.peers) = i + 1 /\ gen'.peers[i + 1] = peer
           /\ \A k \in 1..i : gen'.peers[k] = gen.peers[k]
        BY <2>1, <2>3, <2>10, Appended, SMTT(30)
    <2>12. Progress(env, pc', i', i + 1)
        <3>1. env.subnet \in 0..(Octet - 1) \union {BadSubnet}
            BY <2>5, EnvTypes, Zenon
        <3> QED  BY <2>1, <2>4, <2>5, <3>1, SMTT(30) DEF Progress
    <2>13. Peers(env, pc', i', gen', disk'.nodes)
        <3>1. \A m \in 1..(i + 1) : gen'.peers[m] = PeerAddress(gen'.configs[m])
            <4>1. \A m \in 1..(i + 1) : m = i + 1 \/ m \in 1..i
                BY <2>1
            <4> QED  BY <2>2, <2>9, <2>10, <2>11, <4>1, Zenon
        <3>2. /\ pc' \notin {"peers", "compose", "done"}
              /\ i + 1 = IF pc' = "validators" THEN i + 1 ELSE env.validators
              /\ \A m \in 1..(i + 1) : ~(m > env.validators)
            BY <2>1, <2>4, <2>5, SMTT(30)
        <3> QED  BY <2>9, <2>11, <3>1, <3>2, Zenon DEF Peers
    <2>14. Composed(env, pc', gen', disk'.compose)
        BY <2>0, <2>1, <2>3, <2>4 DEF Composed
    <2> QED  BY <2>3, <2>4, <2>8, <2>9, <2>12, <2>13, <2>14, Zenon DEF ClusterInv
<1>5. CASE GenerateInstance
    <2> USE <1>5
    <2>0. pc = "instances" /\ pc \in Live
        BY DEF GenerateInstance, Live, Running
    <2>1. /\ nextKey \in Nat \ {0} /\ DOMAIN disk = DOMAIN NoFiles
          /\ DOMAIN gen = GenFields
          /\ env.validators \in Int /\ env.sentries \in Int /\ env.validators > 0
          /\ Progress(env, pc, i, Len(gen.configs))
          /\ Cluster(env, gen.configs, disk.nodes, nextKey)
          /\ Peers(env, pc, i, gen, disk.nodes)
          /\ Composed(env, pc, gen, disk.compose)
          /\ i \in Nat
        BY <2>0, UnderWay, Zenon
    <2>2. /\ disk'.nodes = disk.nodes /\ disk'.compose = disk.compose
          /\ DOMAIN gen' = GenFields
          /\ gen'.peers = gen.peers /\ gen'.configs = gen.configs
        BY <2>1 DEF GenerateInstance, NoFiles, GenFields
    <2>3. /\ nextKey' = nextKey + env.accountsPerInstance /\ env' = env
          /\ env.accountsPerInstance >= 0
          /\ \/ pc' = "instances" /\ i' = i + 1
             \/ pc' = "genesis" /\ i' = 0
        BY <2>0, Zenon DEF GenerateInstance, Iterate
    <2>4. env.accountsPerInstance \in Int
        BY <2>1, EnvTypes, Zenon DEF Progress
    <2>5. Cluster(env, gen'.configs, disk'.nodes, nextKey')
        <3>1. nextKey \in Nat /\ nextKey' \in Nat /\ nextKey <= nextKey'
            BY <2>1, <2>3, <2>4, SMTT(30)
        <3>2. Cluster(env, gen.configs, disk.nodes, nextKey')
            BY <2>1, <3>1, MoreKeys, Zenon
        <3> QED  BY <2>2, <3>2, Zenon
    <2>6. Progress(env, pc', i', Len(gen'.configs))
        <3>1. Progress(env, pc', i', Len(gen.configs))
            BY <2>0, <2>1, <2>3 DEF Progress
        <3> QED  BY <2>2, <3>1, Zenon
    <2>7. Peers(env, pc', i', gen', disk'.nodes)
        <3>1. pc \notin {"validators", "peers", "compose", "done"}
              /\ pc' \notin {"validators", "peers", "compose", "done"}
            BY <2>0, <2>3
        <3> QED  BY <2>1, <2>2, <3>1, Zenon DEF Peers
    <2>8. Composed(env, pc', gen', disk'.compose)
        BY <2>0, <2>1, <2>2, <2>3 DEF Composed
    <2> QED  BY <2>2, <2>3, <2>5, <2>6, <2>7, <2>8, Zenon DEF ClusterInv
<1>6. CASE SaveValidatorGenesis
    <2> USE <1>6
    <2>0. pc = "genesis" /\ pc \in Live
        BY DEF SaveValidatorGenesis, Live, Running
    <2>1. /\ nextKey \in Nat \ {0} /\ DOMAIN disk = DOMAIN NoFiles
          /\ DOMAIN gen = GenFields
          /\ env.validators \in Int /\ env.sentries \in Int /\ env.validators > 0
          /\ Progress(env, pc, i, Len(gen.configs))
          /\ Cluster(env, gen.configs, disk.nodes, nextKey)
          /\ Peers(env, pc, i, gen, disk.nodes)
          /\ Composed(env, pc, gen, disk.compose)
          /\ IsList(gen.configs) /\ Len(gen.configs) \in Nat
          /\ i \in Nat
        BY <2>0, UnderWay, Zenon
    <2>2. PICK doc : doc = [written |-> TRUE, doc |-> SaveGenesis(gen.genesis)]
        BY Zenon
    <2>3. /\ disk'.nodes = [disk.nodes EXCEPT ![<<"validators", i>>].genesis = doc]
          /\ disk'.compose = disk.compose
          /\ DOMAIN gen' = GenFields
          /\ gen'.peers = gen.peers /\ gen'.configs = gen.configs
        BY <2>1, <2>2 DEF SaveValidatorGenesis, NoFiles, GenFields
    <2>4. /\ nextKey' = nextKey /\ env' = env
          /\ \/ i + 1 < env.validators /\ pc' = "genesis" /\ i' = i + 1
             \/ pc' = "sentries" /\ i' = 0 /\ env.sentries > 0
             \/ pc' = "peers" /\ i' = 0
        BY <2>0, Zenon DEF SaveValidatorGenesis, Iterate
    <2>5. Len(gen.configs) = env.validators /\ i < env.validators
        BY <2>0, <2>1, Zenon DEF Progress
    <2>6. i + 1 \in 1..Len(gen.configs) /\ Home(env, i + 1) = <<"validators", i>>
        BY <2>1, <2>5 DEF Home
    <2>7. PICK old, dir : old = disk.nodes[Home(env, i + 1)] /\ dir = [old EXCEPT !.genesis = doc]
        BY Zenon
    <2>8. /\ Holds(old, gen.configs[i + 1])
          /\ Assigned(env, gen.configs[i + 1], i + 1)
          /\ DOMAIN disk.nodes = {Home(env, m) : m \in 1..Len(gen.configs)}
        BY <2>1, <2>6, <2>7, Zenon DEF Cluster
    <2>9. /\ DOMAIN dir = DOMAIN EmptyDir /\ dir.config = old.config /\ dir.app = old.app
          /\ dir.node_key = old.node_key
        BY <2>7, <2>8 DEF Holds, EmptyDir
    <2>10. Holds(dir, gen.configs[i + 1])
        BY <2>8, <2>9, Zenon DEF Holds
    <2>11. disk'.nodes = [disk.nodes EXCEPT ![Home(env, i + 1)] = dir]
        BY <2>3, <2>6, <2>7, Zenon
    <2>12. [gen.configs EXCEPT ![i + 1] = gen.configs[i + 1]] = gen.configs
        <3>1. DOMAIN gen.configs = 1..Len(gen.configs)
            BY <2>1, ListDomain, Zenon
        <3>2. gen.configs = [k \in 1..Len(gen.configs) |-> gen.configs[k]]
            BY <2>1 DEF IsList
        <3> QED  BY <3>1, <3>2, Zenon
    <2>13. Cluster(env, gen'.configs, disk'.nodes, nextKey')
        <3>1. Cluster(env, [gen.configs EXCEPT ![i + 1] = gen.configs[i + 1]],
                      [disk.nodes EXCEPT ![Home(env, i + 1)] = dir], nextKey)
            BY <2>1, <2>6, <2>8, <2>10, NodeSaved, Zenon
        <3> QED  BY <2>3, <2>4, <2>11, <2>12, <3>1, Zenon
    <2>14. Progress(env, pc', i', Len(gen'.configs))
        <3>1. Progress(env, pc', i', Len(gen.configs))
            BY <2>0, <2>1, <2>4, <2>5 DEF Progress
        <3> QED  BY <2>3, <3>1, Zenon
    <2>15. Peers(env, pc', i', gen', disk'.nodes)
        <3>1. /\ pc # "validators"
              /\ pc' \notin {"validators", "compose", "done"}
              /\ \A m \in 1..Len(gen.configs) : ~(pc' = "peers" /\ m <= i') /\ ~(m > env.validators)
            BY <2>0, <2>1, <2>4, <2>5
        <3> QED  BY <2>1, <2>3, <3>1, Zenon DEF Peers
    <2>16. Composed(env, pc', gen', disk'.compose)
        BY <2>0, <2>1, <2>3, <2>4 DEF Composed
    <2> QED  BY <2>3, <2>4, <2>13, <2>14, <2>15, <2>16, Zenon DEF ClusterInv
<1>7. CASE GenerateSentry
    <2> USE <1>7
    <2>0. pc = "sentries" /\ pc \in Live
        BY DEF GenerateSentry, Live, Running
    <2>1. /\ nextKey \in Nat \ {0} /\ DOMAIN disk = DOMAIN NoFiles
          /\ DOMAIN gen = GenFields
          /\ env.validators \in Int /\ env.sentries \in Int /\ env.validators > 0
          /\ Progress(env, pc, i, Len(gen.configs))
          /\ Cluster(env, gen.configs, disk.nodes, nextKey)
          /\ Peers(env, pc, i, gen, disk.nodes)
          /\ Composed(env, pc, gen, disk.compose)
          /\ IsList(gen.configs) /\ IsList(gen.peers)
          /\ Len(gen.configs) \in Nat /\ Len(gen.peers) \in Nat
          /\ i \in Nat
        BY <2>0, UnderWay, Zenon
    <2>2. PICK cfg, dir, saved :
            /\ cfg = SentryConfig(env, i, nextKey, gen.peers, gen.validatorIDs)
            /\ dir = SaveAppConfig(SaveNodeConfig(Dir(cfg.home), cfg), AppConfig(env, cfg))
            /\ saved = [dir EXCEPT !.genesis = [written |-> TRUE, doc |-> SaveGenesis(gen.genesis)]]
        BY Zenon
    <2>3. /\ disk'.nodes = Put(disk.nodes, cfg.home, saved)
          /\ disk'.compose = disk.compose
          /\ DOMAIN gen' = GenFields
          /\ gen'.peers = gen.peers
          /\ gen'.configs = Append(gen.configs, cfg)
        BY <2>1, <2>2 DEF GenerateSentry, NoFiles, GenFields
    <2>4. /\ nextKey' = nextKey + 1 /\ env' = env
          /\ \/ pc' = "sentries" /\ i' = i + 1
             \/ pc' = "peers" /\ i' = 0
        BY <2>0, Zenon DEF GenerateSentry, Iterate
    <2>5. /\ Len(gen.configs) = env.validators + i /\ env \in Environments /\ ~Refused(env)
          /\ env.sentries > 0
        BY <2>0, <2>1, Zenon DEF Progress
    <2>6. ~env.localNative
        BY <2>1, <2>5, SMTT(30) DEF Refused, Accepted
    <2>7. /\ Assigned(env, cfg, env.validators + i + 1) /\ cfg.nodeKey = nextKey
          /\ cfg.persistentPeers = gen.peers
        BY <2>1, <2>2, <2>6, SentryAssigned
    <2>8. Holds(saved, cfg) /\ saved.config.persistentPeers = gen.peers
        <3>1. DOMAIN cfg.ports = DOMAIN DefaultPorts
            BY <2>7, PortNames, Zenon
        <3>2. DOMAIN Dir(cfg.home) = DOMAIN EmptyDir
            BY <2>1, DirFields, Zenon
        <3>3. Holds(dir, cfg) /\ dir.config.persistentPeers = cfg.persistentPeers
            BY <2>2, <3>1, <3>2, SavedNode
        <3>4. /\ DOMAIN saved = DOMAIN EmptyDir /\ saved.config = dir.config /\ saved.app = dir.app
              /\ saved.node_key = dir.node_key
            BY <2>2, <3>3 DEF Holds, EmptyDir
        <3> QED  BY <2>7, <3>3, <3>4, Zenon DEF Holds
    <2>9. Cluster(env, gen'.configs, disk'.nodes, nextKey')
        <3>1. nextKey' \in Nat /\ nextKey < nextKey'
            BY <2>1, <2>4, SMTT(30)
        <3>2. Assigned(env, cfg, Len(gen.configs) + 1)
            BY <2>5, <2>7, Zenon
        <3>3. Cluster(env, Append(gen.configs, cfg), Put(disk.nodes, cfg.home, saved), nextKey')
            BY <2>1, <2>7, <2>8, <3>1, <3>2, NodeAdded, Zenon
        <3> QED  BY <2>3, <3>3, Zenon
    <2>10. PICK n \in Nat : n = Len(gen.configs)
        BY <2>1, Zenon
    <2>11. /\ Len(gen'.configs) = n + 1 /\ gen'.configs[n + 1] = cfg
           /\ \A k \in 1..n : gen'.configs[k] = gen.configs[k]
        BY <2>1, <2>3, <2>10, Appended, SMTT(30)
    <2>12. Progress(env, pc', i', n + 1)
        <3>1. n > 0 /\ n = env.validators + i
            BY <2>1, <2>5, <2>10
        <3>2. ~env.localNative => env.subnet \in 0..(Octet - 1)
            BY <2>1, <2>10, <3>1, Zenon DEF Progress
        <3>3. /\ pc' \notin {"validators", "instances", "genesis", "compose"}
              /\ i' \in Nat
              /\ pc' = "peers" => i' < env.validators
              /\ pc' = "sentries" => n + 1 = env.validators + i'
              /\ n + 1 >= env.validators
            <4>1. i \in Nat /\ env.validators \in Int /\ env.validators > 0
                BY <2>1, Zenon
            <4>2. n + 1 >= env.validators /\ n + 1 = env.validators + (i + 1) /\ i + 1 \in Nat
                BY <3>1, <4>1
            <4>3. CASE pc' = "sentries" /\ i' = i + 1
                BY <4>2, <4>3
            <4>4. CASE pc' = "peers" /\ i' = 0
                BY <4>1, <4>2, <4>4
            <4> QED  BY <2>4, <4>3, <4>4, Zenon
        <3> QED  BY <2>5, <2>6, <3>2, <3>3, Zenon DEF Progress
    <2>13. Peers(env, pc', i', gen', disk'.nodes)
        <3>1. /\ Len(gen.peers) = env.validators
              /\ \A m \in 1..env.validators : gen.peers[m] = PeerAddress(gen.configs[m])
              /\ \A m \in 1..n : m > env.validators =>
                    disk.nodes[Home(env, m)].config.persistentPeers = gen.peers
            BY <2>0, <2>1, <2>10, Zenon DEF Peers
        <3>2. \A m \in 1..env.validators : m \in 1..n
            BY <2>1, <2>5, <2>10, SMTT(30)
        <3>3. \A m \in 1..(n + 1) : m = n + 1 \/ m \in 1..n
            OBVIOUS
        <3>4. /\ \A m \in 1..n : Home(env, m) # Home(env, n + 1)
              /\ cfg.home = Home(env, n + 1)
            <4>1. \A m \in 1..n : m \in Int /\ m # n + 1
                OBVIOUS
            <4>2. n + 1 \in Int
                OBVIOUS
            <4>3. cfg.home = Home(env, n + 1)
                BY <2>5, <2>7, <2>10, Zenon DEF Assigned
            <4> QED  BY <2>1, <4>1, <4>2, <4>3, HomesDiffer, Zenon
        <3>5. DOMAIN disk.nodes = {Home(env, m) : m \in 1..n}
            BY <2>1, <2>10, Zenon DEF Cluster
        <3>6. /\ disk'.nodes[Home(env, n + 1)] = saved
              /\ \A m \in 1..n : disk'.nodes[Home(env, m)] = disk.nodes[Home(env, m)]
            BY <2>3, <3>4, <3>5, Zenon DEF Put
        <3>7. \A m \in 1..(n + 1) : m > env.validators =>
                  disk'.nodes[Home(env, m)].config.persistentPeers = gen.peers
            BY <2>8, <3>1, <3>3, <3>6, Zenon
        <3>8. \A m \in 1..env.validators : gen.peers[m] = PeerAddress(gen'.configs[m])
            BY <2>11, <3>1, <3>2, Zenon
        <3>9. /\ pc' \notin {"validators", "compose", "done"}
              /\ \A m \in 1..(n + 1) : ~(pc' = "peers" /\ m <= i')
            BY <2>4
        <3> QED  BY <2>1, <2>3, <2>11, <3>1, <3>7, <3>8, <3>9, Zenon DEF Peers
    <2>14. Composed(env, pc', gen', disk'.compose)
        BY <2>0, <2>1, <2>3, <2>4 DEF Composed
    <2> QED  BY <2>3, <2>4, <2>9, <2>11, <2>12, <2>13, <2>14, Zenon DEF ClusterInv
<1>8. CASE SaveValidatorPeers
    <2> USE <1>8
    <2>0. pc = "peers" /\ pc \in Live
        BY DEF SaveValidatorPeers, Live, Running
    <2>1. /\ nextKey \in Nat \ {0} /\ DOMAIN disk = DOMAIN NoFiles
          /\ DOMAIN gen = GenFields
          /\ env.validators \in Int /\ env.sentries \in Int /\ env.validators > 0
          /\ Progress(env, pc, i, Len(gen.configs))
          /\ Cluster(env, gen.configs, disk.nodes, nextKey)
          /\ Peers(env, pc, i, gen, disk.nodes)
          /\ Composed(env, pc, gen, disk.compose)
          /\ IsList(gen.configs) /\ IsList(gen.peers)
          /\ Len(gen.configs) \in Nat /\ Len(gen.peers) \in Nat
          /\ i \in Nat
        BY <2>0, UnderWay, Zenon
    <2>2. PICK n \in Nat : n = Len(gen.configs)
        BY <2>1, Zenon
    <2>3. /\ n >= env.validators /\ i < env.validators
          /\ i + 1 \in 1..n /\ i + 1 \in 1..env.validators
          /\ Home(env, i + 1) = <<"validators", i>>
        <3>1. n >= env.validators /\ i < env.validators
            BY <2>0, <2>1, <2>2 DEF Progress
        <3> QED  BY <2>1, <3>1, SMTT(30) DEF Home
    <2>4. PICK old, cfg, dir, file :
            /\ old = gen.configs[i + 1]
            /\ cfg = [old EXCEPT !.persistentPeers = filterStringValue(gen.peers, PeerAddress(old)),
                                 !.privatePeerIds = gen.validatorIDs]
            /\ file = disk.nodes[Home(env, i + 1)]
            /\ dir = SaveNodeConfig(file, cfg)
        BY Zenon
    <2>5. /\ Assigned(env, old, i + 1) /\ Holds(file, old)
        BY <2>1, <2>2, <2>3, <2>4, Zenon DEF Cluster
    <2>6. /\ DOMAIN cfg = ConfigFields
          /\ cfg.home = old.home /\ cfg.peerID = old.peerID /\ cfg.ip = old.ip
          /\ cfg.ports = old.ports /\ cfg.nodeKey = old.nodeKey
          /\ cfg.persistentPeers = filterStringValue(gen.peers, PeerAddress(old))
        BY <2>4, <2>5 DEF Assigned, ConfigFields
    <2>7. Assigned(env, cfg, i + 1) /\ PeerAddress(cfg) = PeerAddress(old)
        BY <2>5, <2>6, Zenon DEF Assigned, PeerAddress
    <2>8. /\ disk'.nodes = [disk.nodes EXCEPT ![Home(env, i + 1)] = dir]
          /\ disk'.compose = disk.compose
          /\ DOMAIN gen' = GenFields
          /\ gen'.peers = gen.peers
          /\ gen'.configs = [gen.configs EXCEPT ![i + 1] = cfg]
        <3>1. cfg.home = Home(env, i + 1)
            BY <2>7, Zenon DEF Assigned
        <3>2. /\ gen' = [gen EXCEPT !.configs[i + 1] = cfg]
              /\ disk' = [disk EXCEPT !.nodes[cfg.home] = SaveNodeConfig(@, cfg)]
            BY <2>4, Zenon DEF SaveValidatorPeers
        <3>3. /\ disk'.nodes = [disk.nodes EXCEPT ![cfg.home] = SaveNodeConfig(disk.nodes[cfg.home], cfg)]
              /\ disk'.compose = disk.compose
              /\ DOMAIN gen' = GenFields
              /\ gen'.peers = gen.peers
              /\ gen'.configs = [gen.configs EXCEPT ![i + 1] = cfg]
            BY <2>1, <3>2 DEF NoFiles, GenFields
        <3> QED  BY <2>4, <3>1, <3>3, Zenon
    <2>9. /\ nextKey' = nextKey /\ env' = env
          /\ \/ i + 1 < env.validators /\ pc' = "peers" /\ i' = i + 1
             \/ ~(i + 1 < env.validators) /\ pc' = "done" /\ i' = 0 /\ env.localNative
             \/ ~(i + 1 < env.validators) /\ pc' = "compose" /\ i' = 0 /\ ~env.localNative
        BY <2>0, Zenon DEF SaveValidatorPeers, Iterate
    <2>10. Holds(dir, cfg) /\ dir.config.persistentPeers = cfg.persistentPeers
        <3>1. DOMAIN cfg.ports = DOMAIN DefaultPorts
            BY <2>7, PortNames, Zenon
        <3>2. DOMAIN file = DOMAIN EmptyDir /\ file.app.listens \subseteq Range(cfg.ports)
            BY <2>5, <2>6, Zenon DEF Holds
        <3>3. /\ DOMAIN dir = DOMAIN EmptyDir
              /\ dir.node_key = cfg.nodeKey
              /\ dir.config.persistentPeers = cfg.persistentPeers
              /\ dir.config.p2p = cfg.ports["P2P"]
              /\ dir.config.p2p \in dir.config.listens
              /\ dir.config.listens \subseteq Range(cfg.ports)
              /\ dir.app = file.app
            <4>1. dir = SaveNodeConfig(file, cfg)
                BY <2>4, Zenon
            <4> QED  BY <3>1, <3>2, <4>1, SavedConfig
        <3> QED  BY <3>2, <3>3, Zenon DEF Holds
    <2>11. Cluster(env, gen'.configs, disk'.nodes, nextKey')
        <3>1. i + 1 \in 1..Len(gen.configs) /\ cfg.nodeKey = gen.configs[i + 1].nodeKey
            BY <2>2, <2>3, <2>4, <2>6, Zenon
        <3>2. Cluster(env, [gen.configs EXCEPT ![i + 1] = cfg],
                      [disk.nodes EXCEPT ![Home(env, i + 1)] = dir], nextKey)
            BY <2>1, <2>7, <2>10, <3>1, NodeSaved, Zenon
        <3> QED  BY <2>8, <2>9, <3>2, Zenon
    <2>12. /\ Len(gen'.configs) = n
           /\ \A m \in 1..n : PeerAddress(gen'.configs[m]) = PeerAddress(gen.configs[m])
        <3>1. DOMAIN gen.configs = 1..n
            BY <2>1, <2>2, ListDomain, Zenon
        <3>2. DOMAIN gen'.configs = 1..n
            BY <2>8, <3>1, Zenon
        <3>3. IsList(gen'.configs)
            BY <2>11, Zenon DEF Cluster
        <3>4. Len(gen'.configs) = n
            BY <3>2, <3>3 DEF IsList
        <3>5. \A m \in 1..n : gen'.configs[m] = IF m = i + 1 THEN cfg ELSE gen.configs[m]
            BY <2>8, <3>1, Zenon
        <3> QED  BY <2>4, <2>7, <3>4, <3>5, Zenon
    <2>13. Progress(env, pc', i', n)
        <3>1. /\ env \in Environments /\ ~Refused(env)
              /\ n > 0 /\ ~env.localNative => env.subnet \in 0..(Octet - 1)
              /\ env.localNative => n <= env.validators
            BY <2>1, <2>2, Zenon DEF Progress
        <3>2. /\ pc' \in {"peers", "compose", "done"}
              /\ i' \in Nat
              /\ pc' = "peers" => i' < env.validators
              /\ pc' = "compose" => ~env.localNative
            <4>1. i + 1 \in Nat /\ 0 \in Nat
                BY <2>1
            <4> QED  BY <2>9, <4>1, Zenon
        <3>3. n >= env.validators
            BY <2>3, Zenon
        <3> QED  BY <3>1, <3>2, <3>3, Zenon DEF Progress
    <2>14. Peers(env, pc', i', gen', disk'.nodes)
        <3>1. /\ Len(gen.peers) = env.validators
              /\ \A m \in 1..env.validators : gen.peers[m] = PeerAddress(gen.configs[m])
              /\ \A m \in 1..n : m > env.validators =>
                    disk.nodes[Home(env, m)].config.persistentPeers = gen.peers
              /\ \A m \in 1..n : m <= i =>
                    disk.nodes[Home(env, m)].config.persistentPeers =
                        filterStringValue(gen.peers, PeerAddress(gen.configs[m]))
            BY <2>0, <2>1, <2>2, Zenon DEF Peers
        <3>2. \A m \in 1..env.validators : m \in 1..n
            BY <2>1, <2>3
        <3>3. DOMAIN disk.nodes = {Home(env, m) : m \in 1..n}
            BY <2>1, <2>2, Zenon DEF Cluster
        <3>4. \A m \in 1..n : Home(env, m) = Home(env, i + 1) => m = i + 1
            <4>1. \A m \in 1..n : m \in Int
                OBVIOUS
            <4>2. i + 1 \in Int
                BY <2>1
            <4> QED  BY <2>1, <4>1, <4>2, HomesDiffer, Zenon
        <3>5. \A m \in 1..n : disk'.nodes[Home(env, m)] = IF m = i + 1 THEN dir ELSE disk.nodes[Home(env, m)]
            BY <2>8, <3>3, <3>4, Zenon
        <3>6. \A m \in 1..n : m > env.validators =>
                  disk'.nodes[Home(env, m)].config.persistentPeers = gen.peers
            <4>1. \A m \in 1..n : m > env.validators => m # i + 1
                BY <2>1, <2>3
            <4> QED  BY <3>1, <3>5, <4>1, Zenon
        <3>7. \A m \in 1..n : m <= i \/ m = i + 1 =>
                  disk'.nodes[Home(env, m)].config.persistentPeers =
                      filterStringValue(gen.peers, PeerAddress(gen'.configs[m]))
            <4>1. dir.config.persistentPeers =
                      filterStringValue(gen.peers, PeerAddress(gen.configs[i + 1]))
                BY <2>4, <2>6, <2>10, Zenon
            <4> TAKE m \in 1..n
            <4>2. CASE m = i + 1
                BY <2>12, <3>5, <4>1, <4>2, Zenon
            <4>3. CASE m # i + 1 /\ m <= i
                BY <2>12, <3>1, <3>5, <4>3, Zenon
            <4> QED  BY <4>2, <4>3, Zenon
        <3>8. \A m \in 1..n : \/ pc' = "peers" /\ m <= i'
                              \/ pc' \in {"compose", "done"} /\ m <= env.validators
                              => m <= i \/ m = i + 1
            BY <2>1, <2>3, <2>9
        <3>9. pc' # "validators"
            BY <2>9
        <3>10. \A m \in 1..env.validators : gen.peers[m] = PeerAddress(gen'.configs[m])
            BY <2>12, <3>1, <3>2, Zenon
        <3> QED  BY <2>1, <2>8, <2>12, <3>1, <3>6, <3>7, <3>8, <3>9, <3>10, Zenon DEF Peers
    <2>15. Composed(env, pc', gen', disk'.compose)
        BY <2>0, <2>1, <2>8, <2>9 DEF Composed
    <2> QED  BY <2>8, <2>9, <2>11, <2>12, <2>13, <2>14, <2>15, Zenon DEF ClusterInv
<1>9. CASE WriteDockerCompose
    <2> USE <1>9
    <2>0. pc = "compose" /\ pc \in Live
        BY DEF WriteDockerCompose, Live, Running
    <2>1. /\ nextKey \in Nat \ {0} /\ DOMAIN disk = DOMAIN NoFiles
          /\ DOMAIN gen = GenFields
          /\ env.validators \in Int /\ env.sentries \in Int /\ env.validators > 0
          /\ Progress(env, pc, i, Len(gen.configs))
          /\ Cluster(env, gen.configs, disk.nodes, nextKey)
          /\ Peers(env, pc, i, gen, disk.nodes)
          /\ Composed(env, pc, gen, disk.compose)
          /\ IsList(gen.configs) /\ IsList(gen.peers)
          /\ Len(gen.configs) \in Nat /\ Len(gen.peers) \in Nat
          /\ i \in Nat
        BY <2>0, UnderWay, Zenon
    <2>2. /\ disk'.nodes = disk.nodes
          /\ disk'.compose = GenerateDockerCompose(env.chainID, env.subnet, gen.configs)
        BY <2>1 DEF WriteDockerCompose, NoFiles
    <2>3. pc' = "done" /\ UNCHANGED <<env, i, gen, nextKey>>
        BY Zenon DEF WriteDockerCompose
    <2>4. Progress(env, "done", i, Len(gen.configs))
        BY <2>0, <2>1 DEF Progress
    <2>5. Peers(env, "done", i, gen, disk.nodes)
        BY <2>0, <2>1 DEF Peers
    <2>6. Composed(env, "done", gen, disk'.compose)
        <3>1. ~env.localNative
            BY <2>0, <2>1, Zenon DEF Progress
        <3> QED  BY <2>2, <3>1, Zenon DEF Composed
    <2> QED  BY <2>1, <2>2, <2>3, <2>4, <2>5, <2>6, Zenon DEF ClusterInv
<1>10. CASE GeneratorPanics
    <2>1. pc' \notin Live
        BY <1>10 DEF GeneratorPanics, Live, Running
    <2> QED  BY <2>1, Zenon DEF ClusterInv
<1> QED  BY <1>1, <1>2, <1>3, <1>4, <1>5, <1>6, <1>7, <1>8, <1>9, <1>10, Zenon DEF GenNext

\* Every step of generate keeps the types.
LEMMA GenTypeStep ==
    ASSUME GenTypeOK, [GenNext]_genVars
    PROVE  GenTypeOK'
<1>0. nextKey \in Nat \ {0} /\ DOMAIN disk = DOMAIN NoFiles
    BY Zenon DEF GenTypeOK
<1>1. CASE UNCHANGED genVars
    BY <1>1 DEF GenTypeOK, genVars
<1>2. ASSUME NEW e \in Environments, GenerateConfigs(e) PROVE GenTypeOK'
    <2>1. (disk' = disk \/ disk' = NoFiles) /\ env' = e /\ nextKey' = nextKey
        BY <1>2, Zenon DEF GenerateConfigs
    <2> QED  BY <1>0, <2>1, Zenon DEF GenTypeOK
<1>3. ASSUME NEW e \in Environments, RemoveAllFails(e) PROVE GenTypeOK'
    <2>1. env' = e /\ nextKey' = nextKey
        BY <1>3, Zenon DEF RemoveAllFails
    <2>2. DOMAIN disk' = DOMAIN NoFiles
        BY <1>0, <1>3 DEF RemoveAllFails, NoFiles
    <2> QED  BY <1>0, <2>1, <2>2, Zenon DEF GenTypeOK
<1>4. CASE GenerateInstance
    <2>1. /\ pc # "idle" /\ env' = env
          /\ env.accountsPerInstance >= 0 /\ nextKey' = nextKey + env.accountsPerInstance
        BY <1>4 DEF GenerateInstance
    <2>2. env \in Environments
        BY <2>1, Zenon DEF GenTypeOK
    <2>3. env.accountsPerInstance \in Int
        BY <2>2, EnvTypes, Zenon
    <2>4. nextKey' \in Nat \ {0}
        BY <1>0, <2>1, <2>3
    <2>5. DOMAIN disk' = DOMAIN NoFiles
        BY <1>0, <1>4 DEF GenerateInstance, NoFiles
    <2> QED  BY <2>1, <2>2, <2>4, <2>5, Zenon DEF GenTypeOK
<1>5. CASE \/ GenerateValidator \/ SaveValidatorGenesis \/ GenerateSentry
           \/ SaveValidatorPeers \/ WriteDockerCompose \/ GeneratorPanics
    <2>1. nextKey' = nextKey \/ nextKey' = nextKey + 1 \/ nextKey' = nextKey + 3
        BY <1>5, Zenon DEF GenerateValidator, SaveValidatorGenesis, GenerateSentry,
            SaveValidatorPeers, WriteDockerCompose, GeneratorPanics
    <2>2. nextKey' \in Nat \ {0}
        BY <1>0, <2>1
    <2>3. pc # "idle" /\ env' = env
        BY <1>5 DEF Running, GenerateValidator, SaveValidatorGenesis, GenerateSentry,
            SaveValidatorPeers, WriteDockerCompose, GeneratorPanics
    <2>4. DOMAIN disk' = DOMAIN NoFiles
        <3>1. CASE GenerateValidator
            BY <1>0, <3>1 DEF GenerateValidator, NoFiles
        <3>2. CASE SaveValidatorGenesis
            BY <1>0, <3>2 DEF SaveValidatorGenesis, NoFiles
        <3>3. CASE GenerateSentry
            BY <1>0, <3>3 DEF GenerateSentry, NoFiles
        <3>4. CASE SaveValidatorPeers
            BY <1>0, <3>4 DEF SaveValidatorPeers, NoFiles
        <3>5. CASE WriteDockerCompose
            BY <1>0, <3>5 DEF WriteDockerCompose, NoFiles
        <3>6. CASE GeneratorPanics
            BY <1>0, <3>6, Zenon DEF GeneratorPanics
        <3> QED  BY <1>5, <3>1, <3>2, <3>3, <3>4, <3>5, <3>6, Zenon
    <2> QED  BY <2>2, <2>3, <2>4, Zenon DEF GenTypeOK
<1> QED  BY <1>1, <1>2, <1>3, <1>4, <1>5, Zenon DEF GenNext

\* The types, at every step of every generate.
LEMMA GenTypeCorrect == GenSpec => []GenTypeOK
<1>1. GenInit => GenTypeOK
    BY DEF GenInit, NoFiles, GenTypeOK
<1> QED  BY <1>1, GenTypeStep, PTL DEF GenSpec

\* What generate has laid down is, at every step and whatever ran before, what the
\* numbers of the nodes make of it (generator.go:75-224), for any cluster.
THEOREM ClusterInvariant == GenSpec => []ClusterInv
<1>1. GenInit => ClusterInv
    <2> SUFFICES ASSUME GenInit PROVE ClusterInv
        OBVIOUS
    <2>1. pc \notin Live
        BY DEF GenInit, Live, Running
    <2> QED  BY <2>1, Zenon DEF ClusterInv
<1>2. GenTypeOK /\ ClusterInv /\ [GenNext]_genVars => ClusterInv'
    BY ClusterStep, Zenon
<1> QED  BY <1>1, <1>2, GenTypeCorrect, PTL DEF GenSpec
-----------------------------------------------------------------------------
(* Who listens where, and who knows whom                                   *)

\* As many as there are to begin with.
LEMMA Counted ==
    ASSUME NEW S, IsFiniteSet(S), NEW f, DOMAIN f = S, f = [x \in S |-> f[x]],
           \A x, y \in S : f[x] = f[y] => x = y
    PROVE  Cardinality({f[x] : x \in S}) = Cardinality(S)
<1>1. PICK T : T = {f[x] : x \in S}
    BY Zenon
<1>2. f \in [S -> T] /\ \A t \in T : \E x \in S : f[x] = t
    BY <1>1
<1>3. f \in Bijection(S, T)
    BY <1>2 DEF Bijection, Injection, Surjection, IsInjective
<1>4. ExistsBijection(S, T)
    BY <1>3, Zenon DEF ExistsBijection
<1>5. Cardinality(T) = Cardinality(S)
    BY <1>4, FS_Bijection, Zenon
<1> QED  BY <1>1, <1>5, Zenon

\* The shifted ports of four nodes on one host.
LEMMA ShiftedPorts ==
    ASSUME NEW a \in 0..3, NEW b \in 0..3, a # b
    PROVE  Range(shiftPorts(DefaultPorts, a)) \intersect Range(shiftPorts(DefaultPorts, b)) = {}
<1> DEFINE P == {26657, 26656, 10337, 9900, 9091, 6060, 26660, 8545, 8546, 26658}
<1>1. \A p \in DOMAIN DefaultPorts : DefaultPorts[p] \in P
    BY DEF DefaultPorts
<1>2. \A x, y \in P : x + 100 * a # y + 100 * b
    OBVIOUS
<1> HIDE DEF P
<1>3. \A c : \A x \in Range(shiftPorts(DefaultPorts, c)) : \E p \in P : x = p + 100 * c
    <2> TAKE c
    <2> DEFINE d == shiftPorts(DefaultPorts, c)
    <2>1. DOMAIN d = DOMAIN DefaultPorts
        BY Zenon DEF shiftPorts
    <2>2. \A p \in DOMAIN DefaultPorts : d[p] = DefaultPorts[p] + 100 * c
        BY Zenon DEF shiftPorts
    <2> HIDE DEF d
    <2>3. \A x \in Range(d) : \E p \in P : x = p + 100 * c
        BY <1>1, <2>1, <2>2, Zenon DEF Range
    <2> QED  BY <2>3, Zenon DEF d
<1> SUFFICES ASSUME NEW x \in Range(shiftPorts(DefaultPorts, a)),
                    x \in Range(shiftPorts(DefaultPorts, b))
             PROVE  FALSE
    BY Zenon
<1>4. (\E p \in P : x = p + 100 * a) /\ (\E q \in P : x = q + 100 * b)
    BY <1>3, Zenon
<1> QED  BY <1>2, <1>4, Zenon

\* A finished cluster is connected.
LEMMA ClusterConnected ==
    ASSUME GenTypeOK, ClusterInv
    PROVE  Connected
<1> SUFFICES ASSUME pc = "done", Fits, NEW h \in DOMAIN disk.nodes
             PROVE  LET dir    == disk.nodes[h]
                        Others == {v \in DOMAIN disk.nodes : v # h /\ v[1] = "validators"}
                    IN  /\ \A k \in DOMAIN disk.nodes \ {h} :
                              Endpoints(h) \intersect Endpoints(k) = {}
                        /\ dir.config.p2p \in dir.config.listens
                        /\ Range(dir.config.persistentPeers) =
                              {[id |-> NodeID(disk.nodes[v].node_key), ip |-> IPOf(v),
                                port |-> disk.nodes[v].config.p2p] : v \in Others}
                        /\ Len(dir.config.persistentPeers) = Cardinality(Others)
    BY Zenon DEF Connected
<1>0. pc \in Live
    BY DEF Live
\* The address of a node in docker-compose.yml.
<1>1. ASSUME NEW m \in 1..Len(gen.configs)
      PROVE  IPOf(Home(env, m)) = gen.configs[m].ip
    <2> USE <1>1
    <2>1. /\ env.validators \in Int
          /\ Cluster(env, gen.configs, disk.nodes, nextKey)
          /\ Composed(env, pc, gen, disk.compose)
          /\ IsList(gen.configs)
        BY <1>0, UnderWay, Zenon
    <2>2. Assigned(env, gen.configs[m], m)
        BY <2>1, Zenon DEF Cluster
    <2>3. CASE env.localNative
        <3>1. disk.compose = Missing
            BY <2>1, <2>3, Zenon DEF Composed
        <3>2. ~disk.compose.written
            BY <3>1 DEF Missing
        <3> QED  BY <2>2, <2>3, <3>2, Zenon DEF IPOf, Assigned, Address
    <2>4. CASE ~env.localNative
        <3>1. PICK services :
                services = [k \in DOMAIN gen.configs |->
                    [home |-> gen.configs[k].home, ip |-> gen.configs[k].ip,
                     ports |-> IF gen.configs[k].portsExposed THEN gen.configs[k].ports ELSE << >>,
                     dependsOn |-> gen.configs[k].dependsOn]]
            BY Zenon
        <3>2. disk.compose = [written |-> TRUE, chainID |-> env.chainID, subnet |-> env.subnet,
                              services |-> services]
            BY <2>1, <2>4, <3>1, Zenon DEF Composed, GenerateDockerCompose
        <3>3. disk.compose.written /\ disk.compose.services = services
            BY <3>2
        <3>4. DOMAIN gen.configs = 1..Len(gen.configs)
            BY <2>1, ListDomain, Zenon
        <3>5. DOMAIN services = 1..Len(gen.configs)
            BY <3>1, <3>4, Zenon
        <3>6. \A k \in 1..Len(gen.configs) :
                  services[k].home = gen.configs[k].home /\ services[k].ip = gen.configs[k].ip
            BY <3>1, <3>4
        <3>7. \A k \in 1..Len(gen.configs) : gen.configs[k].home = Home(env, k)
            BY <2>1, Zenon DEF Cluster, Assigned
        <3>8. \A k \in 1..Len(gen.configs) : Home(env, k) = Home(env, m) => k = m
            <4>1. \A k \in 1..Len(gen.configs) : k \in Int
                OBVIOUS
            <4> QED  BY <2>1, <4>1, HomesDiffer, Zenon
        <3>9. \A s \in Range(services) : s.home = Home(env, m) => s.ip = gen.configs[m].ip
            <4> TAKE s \in Range(services)
            <4>1. PICK k \in 1..Len(gen.configs) : s = services[k]
                BY <3>5, Zenon DEF Range
            <4> QED  BY <3>6, <3>7, <3>8, <4>1, Zenon
        <3>10. services[m] \in Range(services) /\ services[m].home = Home(env, m)
            BY <3>5, <3>6, <3>7, Zenon DEF Range
        <3> QED  BY <3>3, <3>9, <3>10, Zenon DEF IPOf
    <2> QED  BY <2>3, <2>4, Zenon
\* Two nodes of a cluster that fits its network have different addresses or ports.
<1>2. ASSUME NEW m \in 1..Len(gen.configs), NEW k \in 1..Len(gen.configs), m # k
      PROVE  \/ Address(env, m) # Address(env, k)
             \/ Range(PortsOf(env, m)) \intersect Range(PortsOf(env, k)) = {}
    <2> USE <1>2
    <2>1. /\ env.validators \in Int
          /\ Progress(env, pc, i, Len(gen.configs))
          /\ Len(gen.configs) \in Nat
        BY <1>0, UnderWay, Zenon
    <2>2. CASE env.localNative
        <3>1. /\ Len(gen.configs) <= env.validators /\ ~Refused(env)
            BY <2>1, <2>2, Zenon DEF Progress
        <3>2. env.validators <= 4
            BY <2>2, <3>1, Zenon DEF Refused, Accepted
        <3>3. m - 1 \in 0..3 /\ k - 1 \in 0..3 /\ m - 1 # k - 1
            BY <2>1, <3>1, <3>2
        <3> QED  BY <2>2, <3>3, ShiftedPorts, Zenon DEF PortsOf
    <2>3. CASE ~env.localNative
        <3>1. env.subnet \in 0..(Octet - 1) /\ env.subnet + Len(gen.configs) + 1 < Octet
            <4>1. Len(gen.configs) > 0
                BY <2>1
            <4> QED  BY <2>1, <2>3, <4>1, Zenon DEF Progress, Fits
        <3>2. PICK x, y, N : x = env.subnet + m + 1 /\ y = env.subnet + k + 1 /\ N = Octet
            BY Zenon
        <3>3. x \in 0..(N - 1) /\ y \in 0..(N - 1) /\ x # y /\ N \in Nat \ {0}
            <4>1. PICK s, n : s = env.subnet /\ n = Len(gen.configs)
                BY Zenon
            <4>2. /\ s \in 0..(N - 1) /\ s + n + 1 < N /\ n \in Nat /\ N \in Nat \ {0}
                  /\ m \in 1..n /\ k \in 1..n /\ x = s + m + 1 /\ y = s + k + 1
                BY <2>1, <3>1, <3>2, <4>1, GeneratorAssumption, Zenon
            <4> QED  BY <4>2
        <3>4. x % N = x /\ y % N = y
            BY <3>3
        <3>5. ipInSubnet(env.subnet, m).octet = x /\ ipInSubnet(env.subnet, k).octet = y
            BY <3>2, <3>4 DEF ipInSubnet
        <3> QED  BY <2>3, <3>3, <3>5, Zenon DEF Address
    <2> QED  BY <2>2, <2>3, Zenon
\* The node of a number, as the others know it.
<1>3. ASSUME NEW m \in 1..Len(gen.configs)
      PROVE  PeerAddress(gen.configs[m]) =
                 [id |-> NodeID(disk.nodes[Home(env, m)].node_key), ip |-> IPOf(Home(env, m)),
                  port |-> disk.nodes[Home(env, m)].config.p2p]
    <2> USE <1>3
    <2>1. Cluster(env, gen.configs, disk.nodes, nextKey)
        BY <1>0, UnderWay, Zenon
    <2>2. Assigned(env, gen.configs[m], m) /\ Holds(disk.nodes[Home(env, m)], gen.configs[m])
        BY <2>1, Zenon DEF Cluster
    <2> QED  BY <2>2, <1>1, Zenon DEF Assigned, Holds, PeerAddress
\* The validators' entries in the list of peers differ.
<1>4. ASSUME NEW m \in 1..Len(gen.configs), NEW k \in 1..Len(gen.configs),
             PeerAddress(gen.configs[m]) = PeerAddress(gen.configs[k])
      PROVE  m = k
    <2> USE <1>4
    <2>1. Cluster(env, gen.configs, disk.nodes, nextKey) /\ nextKey \in Nat
        BY <1>0, UnderWay, Zenon
    <2>2. /\ \A j \in {m, k} : gen.configs[j].peerID = NodeID(gen.configs[j].nodeKey)
          /\ \A j \in {m, k} : gen.configs[j].nodeKey \in 1..(nextKey - 1)
          /\ m < k => gen.configs[m].nodeKey < gen.configs[k].nodeKey
          /\ k < m => gen.configs[k].nodeKey < gen.configs[m].nodeKey
        BY <2>1, Zenon DEF Cluster, Assigned
    <2>3. PICK a, b : a = gen.configs[m] /\ b = gen.configs[k]
        BY Zenon
    <2>4. a.peerID = b.peerID
        <3>1. PeerAddress(a).id = PeerAddress(b).id
            BY <2>3, Zenon
        <3> QED  BY <3>1 DEF PeerAddress
    <2>5. NodeID(a.nodeKey) = NodeID(b.nodeKey)
        BY <2>2, <2>3, <2>4, Zenon
    <2>6. a.nodeKey = b.nodeKey
        BY <2>5 DEF NodeID
    <2>7. PICK x \in Int : x = a.nodeKey
        BY <2>1, <2>2, <2>3, SMTT(30)
    <2>8. (m < k => x < x) /\ (k < m => x < x)
        BY <2>2, <2>3, <2>6, <2>7, Zenon
    <2> QED  BY <2>7, <2>8
\* The validators other than a node.
<1>5. ASSUME NEW m \in 1..Len(gen.configs), NEW O,
             O = {v \in DOMAIN disk.nodes : v # Home(env, m) /\ v[1] = "validators"}
      PROVE  /\ O = {Home(env, k) : k \in (1..env.validators) \ {m}}
             /\ Cardinality(O) = Cardinality((1..env.validators) \ {m})
             /\ \A k \in 1..env.validators : k \in 1..Len(gen.configs)
    <2> USE <1>5
    <2>1. /\ env.validators \in Int
          /\ Progress(env, pc, i, Len(gen.configs))
          /\ Cluster(env, gen.configs, disk.nodes, nextKey)
          /\ Len(gen.configs) \in Nat
        BY <1>0, UnderWay, Zenon
    <2>2. PICK n \in Nat, V \in Int : n = Len(gen.configs) /\ V = env.validators
        BY <2>1, Zenon
    <2>3. n >= V
        BY <2>1, <2>2, Zenon DEF Progress
    <2>4. DOMAIN disk.nodes = {Home(env, k) : k \in 1..n}
        BY <2>1, <2>2, Zenon DEF Cluster
    <2>5. \A k \in 1..n : Home(env, k)[1] = "validators" <=> k \in 1..V
        BY <2>2, <2>3 DEF Home
    <2>6. \A k, j \in 1..n : Home(env, k) = Home(env, j) => k = j
        <3>1. \A k \in 1..n : k \in Int
            OBVIOUS
        <3> QED  BY <2>1, <3>1, HomesDiffer, Zenon
    <2>7. \A k \in 1..V : k \in 1..n
        BY <2>2, <2>3
    <2>8. O = {Home(env, k) : k \in (1..V) \ {m}}
        <3>1. ASSUME NEW v \in O PROVE v \in {Home(env, k) : k \in (1..V) \ {m}}
            <4>1. PICK k \in 1..n : v = Home(env, k)
                BY <2>4, Zenon
            <4> QED  BY <2>5, <4>1, Zenon
        <3>2. ASSUME NEW k \in (1..V) \ {m} PROVE Home(env, k) \in O
            <4>1. k \in 1..n /\ m \in 1..n
                BY <2>2, <2>7, Zenon
            <4> QED  BY <2>4, <2>5, <2>6, <4>1, Zenon
        <3> QED  BY <3>1, <3>2, Zenon
    <2>9. PICK S : S = (1..V) \ {m}
        BY Zenon
    <2>10. IsFiniteSet(S)
        <3>1. IsFiniteSet(1..V)
            BY <2>2, FS_Interval
        <3> QED  BY <2>9, <3>1, FS_RemoveElement, Zenon
    <2>11. PICK f : f = [k \in S |-> Home(env, k)]
        BY Zenon
    <2>12. \A x, y \in S : f[x] = f[y] => x = y
        BY <2>6, <2>7, <2>9, <2>11, Zenon
    <2>13. DOMAIN f = S /\ f = [x \in S |-> f[x]] /\ O = {f[x] : x \in S}
        BY <2>8, <2>9, <2>11
    <2>14. Cardinality(O) = Cardinality(S)
        BY <2>10, <2>12, <2>13, Counted
    <2> QED  BY <2>2, <2>7, <2>8, <2>9, <2>14, Zenon
\* Every entry of a saved list of peers is a node of the cluster.
<1>6. ASSUME NEW m \in 1..Len(gen.configs), NEW peers,
             peers = disk.nodes[Home(env, m)].config.persistentPeers
      PROVE  /\ Range(peers) = {PeerAddress(gen.configs[k]) : k \in (1..env.validators) \ {m}}
             /\ Len(peers) = Cardinality((1..env.validators) \ {m})
    <2> USE <1>6
    <2>1. /\ env.validators \in Int /\ env.validators > 0
          /\ Peers(env, pc, i, gen, disk.nodes)
          /\ Progress(env, pc, i, Len(gen.configs))
          /\ Len(gen.configs) \in Nat
        BY <1>0, UnderWay, Zenon
    <2>2. PICK V \in Nat : V = env.validators
        BY <2>1
    <2>3. /\ IsList(gen.peers) /\ Len(gen.peers) = V
          /\ \A k \in 1..V : gen.peers[k] = PeerAddress(gen.configs[k])
        BY <2>1, <2>2 DEF Peers
    <2>4. DOMAIN gen.peers = 1..V
        BY <2>3, ListDomain, Zenon
    <2>5. \A k \in 1..V : k \in 1..Len(gen.configs)
        <3>1. Len(gen.configs) >= V
            BY <2>1, <2>2, Zenon DEF Progress
        <3> QED  BY <2>1, <2>2, <3>1
    <2>6. IsFiniteSet(1..V) /\ Cardinality(1..V) = V
        BY <2>2, FirstNumbers, Zenon
    <2>7. m \in 1..V <=> ~(m > V)
        BY <2>1, <2>2
    <2>8. CASE m > V
        <3>1. peers = gen.peers
            BY <2>1, <2>2, <2>8, Zenon DEF Peers
        <3>2. (1..V) \ {m} = 1..V
            BY <2>7, <2>8, Zenon
        <3> QED  BY <2>2, <2>3, <2>4, <2>6, <3>1, <3>2, Zenon DEF Range
    <2>9. CASE m \in 1..V
        <3>1. peers = filterStringValue(gen.peers, PeerAddress(gen.configs[m]))
            <4>1. m <= env.validators
                BY <2>2, <2>9
            <4> QED  BY <2>1, <4>1, Zenon DEF Peers
        <3>2. Kept(gen.peers, PeerAddress(gen.configs[m]), V) = (1..V) \ {m}
            <4>1. \A k \in 1..V : PeerAddress(gen.configs[k]) = PeerAddress(gen.configs[m]) => k = m
                BY <2>5, <1>4, Zenon
            <4> QED  BY <2>3, <2>9, <4>1, Zenon DEF Kept
        <3>3. /\ Range(peers) = {gen.peers[k] : k \in (1..V) \ {m}}
              /\ Len(peers) = Cardinality((1..V) \ {m})
            <4>1. PICK peer : peer = PeerAddress(gen.configs[m])
                BY Zenon
            <4>2. /\ Range(filterStringValue(gen.peers, peer)) =
                         {gen.peers[k] : k \in Kept(gen.peers, peer, Len(gen.peers))}
                  /\ Len(filterStringValue(gen.peers, peer)) =
                         Cardinality(Kept(gen.peers, peer, Len(gen.peers)))
                BY <2>3, Filtered, Zenon
            <4> QED  BY <2>3, <3>1, <3>2, <4>1, <4>2, Zenon
        <3>4. {gen.peers[k] : k \in (1..V) \ {m}} = {PeerAddress(gen.configs[k]) : k \in (1..V) \ {m}}
            BY <2>3, Zenon
        <3> QED  BY <2>2, <3>3, <3>4, Zenon
    <2> QED  BY <2>7, <2>8, <2>9, Zenon
\* Two nodes of the cluster have no address and port in common.
<1>7. ASSUME NEW m \in 1..Len(gen.configs), NEW k \in 1..Len(gen.configs), m # k
      PROVE  Endpoints(Home(env, m)) \intersect Endpoints(Home(env, k)) = {}
    <2> USE <1>7
    <2>1. Cluster(env, gen.configs, disk.nodes, nextKey)
        BY <1>0, UnderWay, Zenon
    <2>2. ASSUME NEW j \in 1..Len(gen.configs)
          PROVE  Endpoints(Home(env, j)) \subseteq {Address(env, j)} \X Range(PortsOf(env, j))
        <3>1. Assigned(env, gen.configs[j], j) /\ Holds(disk.nodes[Home(env, j)], gen.configs[j])
            BY <2>1, <2>2, Zenon DEF Cluster
        <3>2. IPOf(Home(env, j)) = Address(env, j)
            BY <2>2, <3>1, <1>1, Zenon DEF Assigned
        <3>3. PICK L : L = disk.nodes[Home(env, j)].config.listens
                              \union disk.nodes[Home(env, j)].app.listens
            BY Zenon
        <3>4. L \subseteq Range(PortsOf(env, j))
            BY <3>1, <3>3, Zenon DEF Assigned, Holds
        <3>5. Endpoints(Home(env, j)) = {Address(env, j)} \X L
            BY <3>2, <3>3, Zenon DEF Endpoints
        <3> QED  BY <3>4, <3>5
    <2>3. PICK A, B, P, Q : /\ A = Address(env, m) /\ B = Address(env, k)
                            /\ P = Range(PortsOf(env, m)) /\ Q = Range(PortsOf(env, k))
        BY Zenon
    <2>4. A # B \/ P \intersect Q = {}
        BY <2>3, <1>2, Zenon
    <2>5. ({A} \X P) \intersect ({B} \X Q) = {}
        BY <2>4
    <2> QED  BY <2>2, <2>3, <2>5, Zenon
<1>8. Cluster(env, gen.configs, disk.nodes, nextKey)
    BY <1>0, UnderWay, Zenon
<1>9. DOMAIN disk.nodes = {Home(env, m) : m \in 1..Len(gen.configs)}
    BY <1>8, Zenon DEF Cluster
<1>10. PICK m \in 1..Len(gen.configs) : h = Home(env, m)
    BY <1>9, Zenon
<1>11. PICK peers, O, S : /\ peers = disk.nodes[h].config.persistentPeers
                         /\ O = {v \in DOMAIN disk.nodes : v # h /\ v[1] = "validators"}
                         /\ S = (1..env.validators) \ {m}
    BY Zenon
<1>12. \A k \in DOMAIN disk.nodes \ {h} : Endpoints(h) \intersect Endpoints(k) = {}
    <2> TAKE v \in DOMAIN disk.nodes \ {h}
    <2>1. PICK k \in 1..Len(gen.configs) : v = Home(env, k)
        BY <1>9, Zenon
    <2>2. k # m
        BY <1>10, <2>1, Zenon
    <2> QED  BY <1>10, <2>1, <2>2, <1>7, Zenon
<1>13. disk.nodes[h].config.p2p \in disk.nodes[h].config.listens
    BY <1>8, <1>10, Zenon DEF Cluster, Holds
<1>14. /\ Range(peers) = {PeerAddress(gen.configs[k]) : k \in S}
      /\ Len(peers) = Cardinality(S)
    BY <1>10, <1>11, <1>6, Zenon
<1>15. /\ O = {Home(env, k) : k \in S}
      /\ Cardinality(O) = Cardinality(S)
      /\ \A k \in S : k \in 1..Len(gen.configs)
    BY <1>10, <1>11, <1>5, Zenon
<1>16. \A k \in S : PeerAddress(gen.configs[k]) =
          [id |-> NodeID(disk.nodes[Home(env, k)].node_key), ip |-> IPOf(Home(env, k)),
           port |-> disk.nodes[Home(env, k)].config.p2p]
    BY <1>15, <1>3, Zenon
<1>17. {PeerAddress(gen.configs[k]) : k \in S} =
           {[id |-> NodeID(disk.nodes[v].node_key), ip |-> IPOf(v),
             port |-> disk.nodes[v].config.p2p] : v \in O}
    BY <1>15, <1>16, Zenon
<1> QED  BY <1>11, <1>12, <1>13, <1>14, <1>15, <1>17, Zenon

\* Connected for any cluster that fits its subnet: no two nodes listen at the same
\* address and port, and a node's peers are the validators other than itself, each
\* with the address, the port and the id it is started with (ipInSubnet, shiftPorts
\* and the second pass, generator.go:201-212).
THEOREM NodesConnected == GenSpec => []Connected
BY GenTypeCorrect, ClusterInvariant, ClusterConnected, PTL
=============================================================================
