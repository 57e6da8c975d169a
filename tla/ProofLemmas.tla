---------------------------- MODULE ProofLemmas ----------------------------
(***************************************************************************)
(* Lemmas about sets of numbers, sequences and what is defined by          *)
(* recursion over them, on which several proofs rest.                      *)
(*                                                                         *)
(* Induction over numbers is induction over a set of numbers (UpTo): it    *)
(* needs no predicate as a parameter.                                      *)
(***************************************************************************)
EXTENDS Integers, FiniteSetsExt, SequencesExt, SequenceTheorems, FiniteSetTheorems,
        WellFoundedInduction, TLAPS

LEMMA ConcatAssociates ==
  ASSUME NEW S, NEW a \in Seq(S), NEW b \in Seq(S), NEW c \in Seq(S)
  PROVE  (a \o b) \o c = a \o (b \o c)
  BY ConcatAssociative, SMTT(30)

\* A set of numbers has a minimum: the intervals below its members are finite, and
\* finite sets are well-founded.
LEMMA MinOfNats ==
  ASSUME NEW S \in SUBSET Nat, S # {}
  PROVE  Min(S) \in S /\ \A y \in S : Min(S) =< y
  <1> DEFINE Below == {1..k : k \in S}
  <1>1. Below \subseteq FiniteSubsetsOf(Nat)
    BY FS_Interval DEF FiniteSubsetsOf
  <1>2. Below # {}
    OBVIOUS
  <1>3. PICK b \in Below : \A c \in Below : ~ (<<c, b>> \in StrictSubsetOrdering(Nat))
    BY <1>1, <1>2, FS_StrictSubsetOrderingWellFounded, WFMin
  <1>4. PICK x \in S : b = 1..x
    OBVIOUS
  <1>5. ASSUME NEW y \in S, y < x
        PROVE  FALSE
    <2>1. 1..y \in Below /\ 1..y \subseteq 1..x /\ 1..x \subseteq Nat
      BY <1>5
    <2>2. x \in 1..x /\ x \notin 1..y
      BY <1>5
    <2> QED
      BY <1>3, <1>4, <2>1, <2>2 DEF StrictSubsetOrdering
  <1>6. \A y \in S : x =< y
    BY <1>5
  <1> QED
    BY <1>6 DEF Min

\* The first of some indices, as SelectInSeq returns it
LEMMA FirstIndex ==
  ASSUME NEW n \in Nat, NEW I \in SUBSET (1..n), NEW at, at = IF I # {} THEN Min(I) ELSE 0
  PROVE  /\ at \in 0..n
         /\ at = 0 <=> I = {}
         /\ I # {} => at \in I /\ \A i \in I : at =< i
  <1>1. CASE I = {}
    BY <1>1
  <1>2. CASE I # {}
    <2>1. I \in SUBSET Nat /\ at = Min(I)
      BY <1>2
    <2>2. at \in I /\ \A i \in I : at =< i
      BY <1>2, <2>1, MinOfNats
    <2> QED
      BY <1>2, <2>2
  <1> QED
    BY <1>1, <1>2

\* Induction up to a bound, over the set of the numbers something holds for
LEMMA UpTo ==
  ASSUME NEW n \in Nat, NEW Good, 0 \in Good, \A k \in 1..n : k - 1 \in Good => k \in Good
  PROVE  0..n \subseteq Good
  <1> DEFINE Bad == {k \in 0..n : k \notin Good}
  <1> SUFFICES ASSUME Bad # {} PROVE FALSE
    OBVIOUS
  <1> DEFINE m == Min(Bad)
  <1>1. m \in Bad /\ \A y \in Bad : m =< y
    BY MinOfNats
  <1> HIDE DEF m
  <1>2. m \in 1..n /\ m - 1 \in 0..n /\ ~ (m =< m - 1)
    BY <1>1
  <1> QED
    BY <1>1, <1>2

LEMMA MaxIs ==
  ASSUME NEW s \in SUBSET Int, NEW m \in s, \A y \in s : y =< m
  PROVE  Max(s) = m
  <1>1. m \in s /\ \A y \in s : m >= y
    OBVIOUS
  <1>2. Max(s) \in s /\ \A y \in s : Max(s) >= y
    BY <1>1, Zenon DEF Max
  <1>3. Max(s) \in Int /\ m \in Int /\ Max(s) >= m /\ m >= Max(s)
    BY <1>1, <1>2
  <1> QED
    BY <1>3

\* The indices up to k, their greatest and what is left without it
LEMMA IndicesUpTo ==
  ASSUME NEW n \in Nat, NEW k \in 1..n
  PROVE  /\ k \in 0..n /\ k - 1 \in 0..n /\ 1..k \in SUBSET (1..n) /\ 1..k # {}
         /\ Max(1..k) = k /\ (1..k) \ {k} = 1..(k - 1)
  <1>1. /\ k \in 0..n /\ k - 1 \in 0..n /\ 1..k \in SUBSET (1..n) /\ k \in 1..k
        /\ (1..k) \ {k} = 1..(k - 1)
    OBVIOUS
  <1>2. 1..k \in SUBSET Int /\ \A y \in 1..k : y =< k
    OBVIOUS
  <1> QED
    BY <1>1, <1>2, MaxIs

\* A nonempty set of indices has a greatest, as a minimum of the distances to n.
LEMMA MaxOfIndices ==
  ASSUME NEW n \in Nat, NEW s \in SUBSET (1..n), s # {}
  PROVE  Max(s) \in 1..n /\ s \ {Max(s)} \in SUBSET (1..n)
  <1> DEFINE Below == {n - x : x \in s}
  <1>0. \A x \in s : x \in 1..n /\ n - x \in Nat
    OBVIOUS
  <1>1. Below \in SUBSET Nat /\ Below # {}
    BY <1>0
  <1>2. PICK m \in Below : \A y \in Below : m =< y
    BY <1>1, MinOfNats
  <1>3. PICK x \in s : m = n - x
    OBVIOUS
  <1>4. \A y \in s : y =< x
    <2> SUFFICES ASSUME NEW y \in s PROVE y =< x
      OBVIOUS
    <2>1. n - x =< n - y
      BY <1>2, <1>3
    <2> QED
      BY <1>0, <2>1
  <1>5. s \in SUBSET Int
    OBVIOUS
  <1>6. Max(s) = x
    BY <1>4, <1>5, MaxIs
  <1> QED
    BY <1>6

-----------------------------------------------------------------------------
(* Sequences without repetitions.                                          *)

Distinct(s) == \A i, j \in 1..Len(s) : s[i] = s[j] => i = j

LEMMA ToSetIs ==
  ASSUME NEW S, NEW s \in Seq(S)
  PROVE  ToSet(s) = {s[i] : i \in 1..Len(s)}
  BY LenProperties DEF ToSet

LEMMA AppendDistinct ==
  ASSUME NEW S, NEW s \in Seq(S), NEW e \in S, Distinct(s), e \notin ToSet(s)
  PROVE  /\ Append(s, e) \in Seq(S)
         /\ Append(s, e) # <<>>
         /\ ToSet(Append(s, e)) = ToSet(s) \cup {e}
         /\ Distinct(Append(s, e))
  <1>1. /\ Append(s, e) \in Seq(S)
        /\ Len(Append(s, e)) = Len(s) + 1
        /\ \A i \in 1..Len(s) : Append(s, e)[i] = s[i]
        /\ Append(s, e)[Len(s) + 1] = e
        /\ Len(s) \in Nat
    OBVIOUS
  <1>2. 1..(Len(s) + 1) = 1..Len(s) \cup {Len(s) + 1}
    BY <1>1
  <1>3. ToSet(Append(s, e)) = ToSet(s) \cup {e}
    <2> DEFINE r == Append(s, e)
    <2>1. ToSet(r) = {r[i] : i \in 1..Len(r)}
      BY <1>1, ToSetIs
    <2> HIDE DEF r
    <2>2. ToSet(r) = {r[i] : i \in 1..Len(s)} \cup {r[Len(s) + 1]}
      BY <1>1, <1>2, <2>1 DEF r
    <2> QED
      BY <1>1, <2>2, ToSetIs DEF r
  <1>4. Distinct(Append(s, e))
    BY <1>1, <1>2, ToSetIs DEF Distinct
  <1> QED
    BY <1>1, <1>3, <1>4

LEMMA TailDistinct ==
  ASSUME NEW S, NEW s \in Seq(S), s # <<>>, Distinct(s)
  PROVE  /\ Tail(s) \in Seq(S)
         /\ Head(s) \in ToSet(s)
         /\ ToSet(Tail(s)) = ToSet(s) \ {Head(s)}
         /\ Distinct(Tail(s))
  <1>1. /\ Tail(s) \in Seq(S)
        /\ Len(s) \in Nat \ {0}
        /\ Len(Tail(s)) = Len(s) - 1
        /\ \A i \in 1..(Len(s) - 1) : Tail(s)[i] = s[i + 1]
        /\ Head(s) = s[1]
    OBVIOUS
  <1>2. 1 \in 1..Len(s)
    BY <1>1
  <1>3. ASSUME NEW x \in ToSet(Tail(s))
        PROVE  x \in ToSet(s) /\ x # Head(s)
    <2>1. PICK i \in 1..(Len(s) - 1) : x = Tail(s)[i]
      <3>1. ToSet(Tail(s)) = {Tail(s)[i] : i \in 1..Len(Tail(s))}
        BY <1>1, ToSetIs
      <3> QED
        BY <1>1, <3>1
    <2>2. i + 1 \in 1..Len(s) /\ x = s[i + 1]
      BY <1>1, <2>1
    <2> QED
      BY <1>1, <1>2, <2>2, ToSetIs DEF Distinct
  <1>4. ASSUME NEW x \in ToSet(s), x # Head(s)
        PROVE  x \in ToSet(Tail(s))
    <2>1. PICK i \in 1..Len(s) : x = s[i]
      BY ToSetIs
    <2>2. i - 1 \in 1..(Len(s) - 1) /\ Tail(s)[i - 1] = s[i]
      BY <1>1, <1>4, <2>1
    <2> QED
      BY <1>1, <2>1, <2>2, ToSetIs
  <1>5. Distinct(Tail(s))
    BY <1>1 DEF Distinct
  <1> QED
    BY <1>1, <1>2, <1>3, <1>4, <1>5, ToSetIs

\* r is s with e behind the first p.
InsertedBehind(s, r, p, e) ==
    /\ Len(r) = Len(s) + 1
    /\ r[p + 1] = e
    /\ \A k \in 1..p : r[k] = s[k]
    /\ \A k \in (p + 2)..(Len(s) + 1) : r[k] = s[k - 1]

LEMMA InsertElements ==
  ASSUME NEW S, NEW s \in Seq(S), NEW e \in S, NEW p \in 0..Len(s)
  PROVE  /\ InsertAt(s, p + 1, e) \in Seq(S)
         /\ InsertAt(s, p + 1, e) # <<>>
         /\ InsertedBehind(s, InsertAt(s, p + 1, e), p, e)
  <1>0. PICK r : r = InsertAt(s, p + 1, e)
    OBVIOUS
  <1>1. Len(s) \in Nat /\ p \in Nat /\ p <= Len(s)
    OBVIOUS
  <1>4. /\ r \in Seq(S)
        /\ Len(r) = Len(s) + 1
        /\ \A i \in 1..p : r[i] = s[i]
        /\ r[p + 1] = e
        /\ \A i \in (p + 2)..(Len(s) + 1) : r[i] = s[i - 1]
    <2>2. PICK f : f = SubSeq(s, 1, p)
      OBVIOUS
    <2>3. PICK b : b = SubSeq(s, p + 1, Len(s))
      OBVIOUS
    <2>4. PICK g : g = f \o <<e>>
      OBVIOUS
    <2>5. InsertAt(s, p + 1, e) = g \o b
      <3>1. (p + 1) - 1 = p
        BY <1>1
      <3> QED
        BY <2>2, <2>3, <2>4, <3>1, Zenon DEF InsertAt
    <2>6. f \in Seq(S) /\ Len(f) = p /\ \A i \in 1..p : f[i] = s[i]
      BY <1>1, <2>2
    <2>7. b \in Seq(S) /\ Len(b) = Len(s) - p /\ \A i \in 1..(Len(s) - p) : b[i] = s[p + i]
      BY <1>1, <2>3
    <2>8. g \in Seq(S) /\ Len(g) = p + 1 /\ g[p + 1] = e /\ \A i \in 1..p : g[i] = s[i]
      <3>1. <<e>> \in Seq(S) /\ Len(<<e>>) = 1 /\ <<e>>[1] = e
        OBVIOUS
      <3> QED
        BY <1>1, <2>4, <2>6, <3>1
    <2>9. /\ g \o b \in Seq(S)
          /\ Len(g \o b) = Len(g) + Len(b)
          /\ \A i \in 1..(Len(g) + Len(b)) : (g \o b)[i] = IF i <= Len(g) THEN g[i] ELSE b[i - Len(g)]
      BY <2>7, <2>8, ConcatProperties
    <2>10. r = g \o b
      BY <1>0, <2>5
    <2>11. /\ r \in Seq(S)
           /\ Len(r) = Len(s) + 1
           /\ \A i \in 1..(Len(s) + 1) : r[i] = IF i <= p + 1 THEN g[i] ELSE b[i - (p + 1)]
      <3>1. Len(g) + Len(b) = Len(s) + 1
        BY <1>1, <2>7, <2>8
      <3> QED
        BY <2>8, <2>9, <2>10, <3>1, Zenon
    <2>12. \A i \in (p + 2)..(Len(s) + 1) : i - (p + 1) \in 1..(Len(s) - p) /\ p + (i - (p + 1)) = i - 1
      BY <1>1
    <2>13. \A i \in (p + 2)..(Len(s) + 1) : r[i] = s[i - 1]
      <3>1. ASSUME NEW i \in (p + 2)..(Len(s) + 1)
            PROVE  r[i] = s[i - 1]
        <4>1. i \in 1..(Len(s) + 1) /\ ~ (i <= p + 1)
          BY <1>1
        <4>2. r[i] = b[i - (p + 1)]
          BY <2>11, <4>1
        <4> QED
          BY <2>7, <2>12, <4>2
      <3> QED
        BY <3>1
    <2>14. r[p + 1] = e /\ \A i \in 1..p : r[i] = s[i]
      BY <1>1, <2>8, <2>11
    <2> QED
      BY <2>5, <2>10, <2>11, <2>13, <2>14
  <1> QED
    BY <1>0, <1>1, <1>4 DEF InsertedBehind

LEMMA InsertDistinct ==
  ASSUME NEW S, NEW s \in Seq(S), NEW e \in S, NEW p \in 0..Len(s), Distinct(s), e \notin ToSet(s)
  PROVE  /\ InsertAt(s, p + 1, e) \in Seq(S)
         /\ InsertAt(s, p + 1, e) # <<>>
         /\ ToSet(InsertAt(s, p + 1, e)) = ToSet(s) \cup {e}
         /\ Distinct(InsertAt(s, p + 1, e))
  <1>0. PICK r : r = InsertAt(s, p + 1, e)
    OBVIOUS
  <1>1. Len(s) \in Nat /\ p \in Nat /\ p <= Len(s)
    OBVIOUS
  <1>4. /\ r \in Seq(S)
        /\ Len(r) = Len(s) + 1
        /\ \A i \in 1..p : r[i] = s[i]
        /\ r[p + 1] = e
        /\ \A i \in (p + 2)..(Len(s) + 1) : r[i] = s[i - 1]
    <2>1. r \in Seq(S) /\ InsertedBehind(s, r, p, e)
      BY <1>0, InsertElements
    <2> QED
      BY <2>1 DEF InsertedBehind
  <1>5. ASSUME NEW x \in ToSet(r)
        PROVE  x \in ToSet(s) \cup {e}
    <2>1. PICK i \in 1..(Len(s) + 1) : x = r[i]
      BY <1>4, ToSetIs
    <2>2. CASE i \in 1..p
      BY <1>1, <1>4, <2>1, <2>2, ToSetIs
    <2>3. CASE i = p + 1
      BY <1>4, <2>1, <2>3
    <2>4. CASE i \in (p + 2)..(Len(s) + 1)
      <3>1. i - 1 \in 1..Len(s) /\ x = s[i - 1]
        BY <1>1, <1>4, <2>1, <2>4
      <3> QED
        BY <3>1, ToSetIs
    <2> QED
      BY <1>1, <2>2, <2>3, <2>4
  <1>6. ASSUME NEW x \in ToSet(s) \cup {e}
        PROVE  x \in ToSet(r)
    <2> ToSet(r) = {r[i] : i \in 1..(Len(s) + 1)}
      BY <1>4, ToSetIs
    <2>1. CASE x = e
      <3>1. p + 1 \in 1..(Len(s) + 1)
        BY <1>1
      <3> QED
        BY <1>4, <2>1, <3>1
    <2>2. CASE x \in ToSet(s)
      <3>1. PICK i \in 1..Len(s) : x = s[i]
        BY <2>2, ToSetIs
      <3>2. CASE i <= p
        <4>1. i \in 1..p /\ i \in 1..(Len(s) + 1)
          BY <1>1, <3>1, <3>2
        <4> QED
          BY <1>4, <3>1, <4>1
      <3>3. CASE ~ (i <= p)
        <4>1. /\ i + 1 \in (p + 2)..(Len(s) + 1)
              /\ i + 1 \in 1..(Len(s) + 1)
              /\ (i + 1) - 1 = i
          BY <1>1, <3>1, <3>3
        <4> QED
          BY <1>4, <3>1, <4>1
      <3> QED
        BY <3>2, <3>3
    <2> QED
      BY <2>1, <2>2
  <1>7. Distinct(r)
    <2> DEFINE Old(i) == IF i <= p THEN i ELSE i - 1
    <2>1. ASSUME NEW i \in 1..(Len(s) + 1), i # p + 1
          PROVE  Old(i) \in 1..Len(s) /\ r[i] = s[Old(i)]
      <3>1. CASE i <= p
        <4>1. i \in 1..p /\ i \in 1..Len(s)
          BY <1>1, <2>1, <3>1
        <4> QED
          BY <1>4, <3>1, <4>1
      <3>2. CASE ~ (i <= p)
        <4>1. i \in (p + 2)..(Len(s) + 1) /\ i - 1 \in 1..Len(s)
          BY <1>1, <2>1, <3>2
        <4> QED
          BY <1>4, <3>2, <4>1
      <3> QED
        BY <3>1, <3>2
    <2>2. \A i \in 1..(Len(s) + 1) : i # p + 1 => r[i] # e
      BY <2>1, ToSetIs
    <2>3. \A i, j \in 1..(Len(s) + 1) :
              i # p + 1 /\ j # p + 1 /\ Old(i) = Old(j) => i = j
      BY <1>1
    <2> QED
      BY <1>4, <2>1, <2>2, <2>3 DEF Distinct
  <1> QED
    BY <1>0, <1>1, <1>4, <1>5, <1>6, <1>7

\* A sequence without repetitions has as many elements as places.
LEMMA DistinctLength ==
  ASSUME NEW S, IsFiniteSet(S), NEW s \in Seq(S), Distinct(s)
  PROVE  /\ Len(s) \in 0..Cardinality(S)
         /\ Cardinality(ToSet(s)) = Len(s)
         /\ Cardinality(S) \in Nat
  <1>1. IsFiniteSet(1..Len(s)) /\ Cardinality(1..Len(s)) = Len(s) /\ Len(s) \in Nat
    <2>1. PICK n \in Nat : n = Len(s)
      OBVIOUS
    <2>2. /\ IsFiniteSet(1..n)
          /\ Cardinality(1..n) = IF 1 > n THEN 0 ELSE n - 1 + 1
      BY FS_Interval
    <2>3. (IF 1 > n THEN 0 ELSE n - 1 + 1) = n
      OBVIOUS
    <2> QED
      BY <2>1, <2>2, <2>3
  <1>2. ToSet(s) = {s[i] : i \in 1..Len(s)} /\ \A i \in 1..Len(s) : s[i] \in S
    BY ToSetIs, ElementOfSeq
  <1>3. PICK f : f = [i \in 1..Len(s) |-> s[i]]
    OBVIOUS
  <1>4. f \in Injection(1..Len(s), S)
    BY <1>2, <1>3 DEF Distinct, Injection, IsInjective
  <1>5. f \in Injection(1..Len(s), ToSet(s)) /\ f \in Surjection(1..Len(s), ToSet(s))
    BY <1>2, <1>3 DEF Distinct, Injection, IsInjective, Surjection
  <1>6. IsFiniteSet(S) /\ Cardinality(S) \in Nat
    BY FS_CardinalityType
  <1>7. Cardinality(1..Len(s)) <= Cardinality(S)
    BY <1>4, <1>6, FS_Injection
  <1>8. Cardinality(ToSet(s)) = Cardinality(1..Len(s))
    BY <1>1, <1>5, FS_Surjection
  <1> QED
    BY <1>1, <1>6, <1>7, <1>8

-----------------------------------------------------------------------------
(* Concatenations.                                                         *)

\* Sequences of one and two elements
LEMMA OneOf ==
  ASSUME NEW S, NEW c \in S
  PROVE  <<c>> \in Seq(S) /\ Len(<<c>>) = 1 /\ <<c>>[1] = c
  OBVIOUS

LEMMA TwoOf ==
  ASSUME NEW S, NEW c \in S, NEW d \in S
  PROVE  <<c, d>> \in Seq(S) /\ Len(<<c, d>>) = 2 /\ <<c, d>>[1] = c /\ <<c, d>>[2] = d
  OBVIOUS

\* What is left of a queue after its first element is taken
LEMMA Tails ==
  ASSUME NEW S, NEW s \in Seq(S), s # <<>>
  PROVE  Tail(s) \in Seq(S) /\ Head(s) \in S
  OBVIOUS

\* Front takes back the last element.
LEMMA FrontOf ==
  ASSUME NEW S, NEW s \in Seq(S), NEW l \in Seq(S), Len(l) = 1
  PROVE  Front(s \o l) = s
  <1>1. PICK u : u = s \o l
    OBVIOUS
  <1>2. /\ u \in Seq(S) /\ Len(u) = Len(s) + Len(l)
        /\ \A k \in 1..(Len(s) + Len(l)) : u[k] = IF k <= Len(s) THEN s[k] ELSE l[k - Len(s)]
    BY <1>1, ConcatProperties
  <1>3. Len(s) \in Nat /\ Len(u) - 1 = Len(s)
    BY <1>2
  <1>4. PICK v : v = SubSeq(u, 1, Len(s))
    OBVIOUS
  <1>5. v \in Seq(S) /\ Len(v) = Len(s) /\ \A k \in 1..Len(s) : v[k] = u[k]
    BY <1>2, <1>3, <1>4
  <1>6. \A k \in 1..Len(s) : v[k] = s[k]
    BY <1>2, <1>3, <1>5
  <1>7. v = s
    BY <1>5, <1>6, SeqEqual
  <1> QED
    BY <1>1, <1>3, <1>4, <1>7 DEF Front

\* A sequence between two single elements
LEMMA Framed ==
  ASSUME NEW S, NEW f \in Seq(S), NEW d \in Seq(S), NEW l \in Seq(S), Len(f) = 1, Len(l) = 1
  PROVE  /\ (f \o d) \o l \in Seq(S)
         /\ Len((f \o d) \o l) = Len(d) + 2
         /\ ((f \o d) \o l)[1] = f[1]
         /\ \A i \in 1..Len(d) : ((f \o d) \o l)[i + 1] = d[i]
         /\ ((f \o d) \o l)[Len(d) + 2] = l[1]
  <1>1. PICK a : a = f \o d
    OBVIOUS
  <1>2. PICK s : s = a \o l
    OBVIOUS
  <1>3. /\ a \in Seq(S) /\ Len(a) = 1 + Len(d)
        /\ \A i \in 1..(1 + Len(d)) : a[i] = IF i =< 1 THEN f[i] ELSE d[i - 1]
    <2>1. /\ f \o d \in Seq(S)
          /\ Len(f \o d) = Len(f) + Len(d)
          /\ \A i \in 1..(Len(f) + Len(d)) : (f \o d)[i] = IF i <= Len(f) THEN f[i] ELSE d[i - Len(f)]
      BY ConcatProperties
    <2> QED
      BY <1>1, <2>1, Zenon
  <1>4. /\ s \in Seq(S) /\ Len(s) = Len(a) + 1
        /\ \A i \in 1..(Len(a) + 1) : s[i] = IF i =< Len(a) THEN a[i] ELSE l[i - Len(a)]
    <2>1. /\ a \o l \in Seq(S)
          /\ Len(a \o l) = Len(a) + Len(l)
          /\ \A i \in 1..(Len(a) + Len(l)) : (a \o l)[i] = IF i <= Len(a) THEN a[i] ELSE l[i - Len(a)]
      BY <1>3, ConcatProperties
    <2> QED
      BY <1>2, <2>1, Zenon
  <1>5. Len(d) \in Nat
    OBVIOUS
  <1>6. s[1] = f[1]
    <2>1. 1 \in 1..(Len(a) + 1) /\ 1 =< Len(a) /\ 1 \in 1..(1 + Len(d))
      BY <1>3, <1>5
    <2> QED
      BY <1>3, <1>4, <2>1
  <1>7. ASSUME NEW i \in 1..Len(d)
        PROVE  s[i + 1] = d[i]
    <2>1. /\ i + 1 \in 1..(Len(a) + 1) /\ i + 1 =< Len(a) /\ i + 1 \in 1..(1 + Len(d))
          /\ ~ (i + 1 =< 1) /\ (i + 1) - 1 = i
      BY <1>3, <1>5
    <2> QED
      BY <1>3, <1>4, <2>1
  <1>8. s[Len(d) + 2] = l[1]
    <2>1. /\ Len(d) + 2 \in 1..(Len(a) + 1) /\ ~ (Len(d) + 2 =< Len(a))
          /\ (Len(d) + 2) - Len(a) = 1
      BY <1>3, <1>5
    <2> QED
      BY <1>4, <2>1
  <1>9. Len(s) = Len(d) + 2
    BY <1>3, <1>4, <1>5
  <1>10. (f \o d) \o l = s
    BY <1>1, <1>2
  <1> QED
    BY <1>4, <1>6, <1>7, <1>8, <1>9, <1>10

\* A sequence, two elements and another sequence
LEMMA Headed ==
  ASSUME NEW S, NEW name \in Seq(S), NEW sep \in Seq(S), Len(sep) = 2, NEW rest \in Seq(S)
  PROVE  /\ (name \o sep) \o rest \in Seq(S)
         /\ Len((name \o sep) \o rest) = Len(name) + Len(rest) + 2
         /\ \A k \in 1..Len(name) : ((name \o sep) \o rest)[k] = name[k]
         /\ ((name \o sep) \o rest)[Len(name) + 1] = sep[1]
         /\ ((name \o sep) \o rest)[Len(name) + 2] = sep[2]
         /\ \A k \in 1..Len(rest) : ((name \o sep) \o rest)[Len(name) + 2 + k] = rest[k]
  <1>1. PICK u : u = name \o sep
    OBVIOUS
  <1>2. PICK v : v = u \o rest
    OBVIOUS
  <1>3. /\ u \in Seq(S) /\ Len(u) = Len(name) + 2
        /\ \A k \in 1..(Len(name) + 2) : u[k] = IF k <= Len(name) THEN name[k] ELSE sep[k - Len(name)]
    <2>1. /\ name \o sep \in Seq(S)
          /\ Len(name \o sep) = Len(name) + Len(sep)
          /\ \A k \in 1..(Len(name) + Len(sep)) :
                (name \o sep)[k] = IF k <= Len(name) THEN name[k] ELSE sep[k - Len(name)]
      BY ConcatProperties
    <2> QED
      BY <1>1, <2>1, Zenon
  <1>4. /\ v \in Seq(S) /\ Len(v) = Len(u) + Len(rest)
        /\ \A k \in 1..(Len(u) + Len(rest)) : v[k] = IF k <= Len(u) THEN u[k] ELSE rest[k - Len(u)]
    <2>1. /\ u \o rest \in Seq(S)
          /\ Len(u \o rest) = Len(u) + Len(rest)
          /\ \A k \in 1..(Len(u) + Len(rest)) :
                (u \o rest)[k] = IF k <= Len(u) THEN u[k] ELSE rest[k - Len(u)]
      BY <1>3, ConcatProperties
    <2> QED
      BY <1>2, <2>1, Zenon
  <1>5. Len(name) \in Nat /\ Len(rest) \in Nat
    OBVIOUS
  <1>6. \A k \in 1..(Len(name) + 2) : v[k] = u[k]
    <2>1. \A k \in 1..(Len(name) + 2) : k \in 1..(Len(u) + Len(rest)) /\ k <= Len(u)
      BY <1>3, <1>5
    <2> QED
      BY <1>4, <2>1
  <1>7. \A k \in 1..Len(name) : v[k] = name[k]
    <2>1. \A k \in 1..Len(name) : k \in 1..(Len(name) + 2) /\ k <= Len(name)
      BY <1>5
    <2> QED
      BY <1>3, <1>6, <2>1
  <1>8. v[Len(name) + 1] = sep[1] /\ v[Len(name) + 2] = sep[2]
    <2>1. /\ Len(name) + 1 \in 1..(Len(name) + 2) /\ ~ (Len(name) + 1 <= Len(name))
          /\ Len(name) + 2 \in 1..(Len(name) + 2) /\ ~ (Len(name) + 2 <= Len(name))
          /\ (Len(name) + 1) - Len(name) = 1 /\ (Len(name) + 2) - Len(name) = 2
      BY <1>5
    <2> QED
      BY <1>3, <1>6, <2>1
  <1>9. \A k \in 1..Len(rest) : v[Len(name) + 2 + k] = rest[k]
    <2>1. \A k \in 1..Len(rest) :
             /\ Len(name) + 2 + k \in 1..(Len(u) + Len(rest)) /\ ~ (Len(name) + 2 + k <= Len(u))
             /\ (Len(name) + 2 + k) - Len(u) = k
      BY <1>3, <1>5
    <2> QED
      BY <1>4, <2>1
  <1>10. Len(v) = Len(name) + Len(rest) + 2
    BY <1>3, <1>4, <1>5
  <1>11. (name \o sep) \o rest = v
    BY <1>1, <1>2
  <1> QED
    BY <1>4, <1>7, <1>8, <1>9, <1>10, <1>11, Zenon

-----------------------------------------------------------------------------
(* Recursion: folds and FlattenSeq.                                        *)

\* A recursion over sets of indices, the largest first, and one over the indices
FoldsSets(G, base, n, H) ==
    \A s \in SUBSET (1..n) : G[s] = IF s = {} THEN base ELSE H[<<G[s \ {Max(s)}], Max(s)>>]

FoldsIndices(F, base, n, H) == F[0] = base /\ \A k \in 1..n : F[k] = H[<<F[k - 1], k>>]

\* The recursive function behind a fold exists: H combines the value so far with
\* the element at an index.
LEMMA FoldExists ==
  ASSUME NEW A, NEW base \in A, NEW n \in Nat, NEW H \in [A \X (1..n) -> A]
  PROVE  \E G \in [SUBSET (1..n) -> A] : FoldsSets(G, base, n, H)
  <1> DEFINE Good == {k \in 0..n : \E G \in [SUBSET (1..k) -> A] : FoldsSets(G, base, k, H)}
  <1>1. 0 \in Good
    <2> DEFINE G == [s \in SUBSET (1..0) |-> base]
    <2>1. G \in [SUBSET (1..0) -> A]
      OBVIOUS
    <2>2. \A s \in SUBSET (1..0) : s = {}
      OBVIOUS
    <2>3. FoldsSets(G, base, 0, H)
      BY <2>2 DEF FoldsSets
    <2>4. 0 \in 0..n
      OBVIOUS
    <2> HIDE DEF G
    <2> QED
      BY <2>1, <2>3, <2>4
  <1>2. ASSUME NEW k \in 1..n, k - 1 \in Good
        PROVE  k \in Good
    <2>1. PICK G \in [SUBSET (1..(k - 1)) -> A] : FoldsSets(G, base, k - 1, H)
      BY <1>2
    <2> DEFINE F == [s \in SUBSET (1..k) |-> IF k \in s THEN H[<<G[s \ {k}], k>>] ELSE G[s]]
    <2>2. \A s \in SUBSET (1..k) : s \ {k} \in SUBSET (1..(k - 1))
      <3>1. \A x \in 1..k : x # k => x \in 1..(k - 1)
        OBVIOUS
      <3> QED
        BY <3>1
    <2>3. F \in [SUBSET (1..k) -> A]
      <3> SUFFICES ASSUME NEW s \in SUBSET (1..k)
                   PROVE  (IF k \in s THEN H[<<G[s \ {k}], k>>] ELSE G[s]) \in A
        OBVIOUS
      <3>1. G[s \ {k}] \in A
        BY <2>2
      <3>2. k \notin s => s \ {k} = s
        OBVIOUS
      <3> QED
        BY <3>1, <3>2
    <2>4. ASSUME NEW s \in SUBSET (1..k)
          PROVE  F[s] = IF s = {} THEN base ELSE H[<<F[s \ {Max(s)}], Max(s)>>]
      <3>1. CASE k \in s
        <4>1. Max(s) = k
          <5>1. s \subseteq Int /\ \A y \in s : y =< k
            OBVIOUS
          <5> QED
            BY <3>1, <5>1, MaxIs
        <4>2. F[s] = H[<<G[s \ {k}], k>>]
          BY <3>1
        <4>3. F[s \ {k}] = G[s \ {k}]
          OBVIOUS
        <4> HIDE DEF F
        <4> QED
          BY <3>1, <4>1, <4>2, <4>3
      <3>2. CASE k \notin s
        <4>1. s \in SUBSET (1..(k - 1))
          BY <2>2, <3>2
        <4>2. F[s] = G[s] /\ F[s \ {Max(s)}] = G[s \ {Max(s)}]
          BY <3>2
        <4>3. G[s] = IF s = {} THEN base ELSE H[<<G[s \ {Max(s)}], Max(s)>>]
          BY <2>1, <4>1 DEF FoldsSets
        <4> HIDE DEF F
        <4> QED
          BY <4>2, <4>3
      <3> QED
        BY <3>1, <3>2
    <2>5. FoldsSets(F, base, k, H)
      <3> HIDE DEF F
      <3> QED
        BY <2>4 DEF FoldsSets
    <2>6. k \in 0..n
      OBVIOUS
    <2> HIDE DEF F
    <2> QED
      BY <2>3, <2>5, <2>6
  <1> HIDE DEF Good
  <1>3. n \in Good
    BY <1>1, <1>2, UpTo
  <1> QED
    BY <1>3 DEF Good


\* The same over the indices alone
LEMMA RecursionExists ==
  ASSUME NEW A, NEW base \in A, NEW n \in Nat, NEW H \in [A \X (1..n) -> A]
  PROVE  \E F \in [0..n -> A] : FoldsIndices(F, base, n, H)
  <1>1. PICK G \in [SUBSET (1..n) -> A] : FoldsSets(G, base, n, H)
    BY FoldExists
  <1> DEFINE F == [k \in 0..n |-> G[1..k]]
  <1>2. \A k \in 0..n : 1..k \in SUBSET (1..n)
    OBVIOUS
  <1>3. F \in [0..n -> A]
    BY <1>2
  <1>4. F[0] = base
    <2>1. 1..0 = {} /\ 0 \in 0..n
      OBVIOUS
    <2> QED
      BY <1>1, <1>2, <2>1 DEF FoldsSets
  <1>5. ASSUME NEW k \in 1..n
        PROVE  F[k] = H[<<F[k - 1], k>>]
    <2>1. k \in 0..n /\ k - 1 \in 0..n /\ k \in 1..k
      OBVIOUS
    <2>2. Max(1..k) = k
      <3>1. 1..k \in SUBSET Int /\ \A y \in 1..k : y =< k
        BY <2>1
      <3> QED
        BY <2>1, <3>1, MaxIs
    <2>3. (1..k) \ {k} = 1..(k - 1)
      OBVIOUS
    <2>4. G[1..k] = H[<<G[1..(k - 1)], k>>]
      <3>1. 1..k \in SUBSET (1..n) /\ 1..k # {}
        BY <1>2, <2>1
      <3> QED
        BY <1>1, <2>2, <2>3, <3>1 DEF FoldsSets
    <2> QED
      BY <2>1, <2>4
  <1> HIDE DEF F
  <1> QED
    BY <1>3, <1>4, <1>5 DEF FoldsIndices

\* FlattenSeq as a recursion over the indices
LEMMA FlattenRecursion ==
  ASSUME NEW S, NEW q \in Seq(Seq(S)), q # <<>>
  PROVE  \E F : /\ F[1] = q[1] /\ F[Len(q)] = FlattenSeq(q)
                /\ \A k \in 1..Len(q) : F[k] \in Seq(S)
                /\ \A k \in 2..Len(q) : F[k] = F[k - 1] \o q[k]
  <1> DEFINE n == Len(q)
             Step(f) == [i \in 1..n |-> IF i = 1 THEN q[i] ELSE f[i - 1] \o q[i]]
             flatten == CHOOSE f : f = Step(f)
             H == [p \in Seq(S) \X (1..n) |-> p[1] \o q[p[2]]]
  <1>1. n \in Nat /\ n # 0 /\ 1 \in 1..n /\ n \in 1..n /\ \A k \in 1..n : q[k] \in Seq(S)
    OBVIOUS
  <1>2. FlattenSeq(q) = flatten[n]
    <2>1. n # 0
      BY <1>1
    <2> QED
      BY <2>1, Zenon DEF FlattenSeq
  <1> HIDE DEF n
  <1>3. \A d \in Seq(S), k \in 1..n : d \o q[k] \in Seq(S)
    BY <1>1
  <1>4. H \in [Seq(S) \X (1..n) -> Seq(S)]
    BY <1>3
  <1>5. \A d \in Seq(S), k \in 1..n : H[<<d, k>>] = d \o q[k]
    OBVIOUS
  <1>6. <<>> \in Seq(S)
    OBVIOUS
  <1> HIDE DEF H
  <1>7. PICK F \in [0..n -> Seq(S)] : FoldsIndices(F, <<>>, n, H)
    BY <1>1, <1>4, <1>6, RecursionExists
  <1>8. \A k \in 1..n : k - 1 \in 0..n /\ k \in 0..n /\ (k # 1 => k - 1 \in 1..n)
    BY <1>1
  <1>9. \A k \in 1..n : F[k] = F[k - 1] \o q[k]
    BY <1>5, <1>7, <1>8 DEF FoldsIndices
  <1>10. F[1] = q[1]
    <2>1. F[1] = <<>> \o q[1]
      <3>1. 1 - 1 = 0 /\ F[0] = <<>>
        BY <1>7 DEF FoldsIndices
      <3> QED
        BY <1>1, <1>9, <3>1
    <2> QED
      BY <1>1, <2>1
  <1> DEFINE g == [k \in 1..n |-> F[k]]
  <1>11. g = Step(g)
    <2>1. \A k \in 1..n : g[k] = IF k = 1 THEN q[k] ELSE g[k - 1] \o q[k]
      BY <1>8, <1>9, <1>10
    <2>2. g = [k \in 1..n |-> g[k]]
      OBVIOUS
    <2> HIDE DEF g
    <2> QED
      BY <2>1, <2>2
  <1>12. flatten = Step(flatten)
    <2> HIDE DEF g, Step
    <2> QED
      BY <1>11
  <1>13. \A k \in 1..n : flatten[k] = IF k = 1 THEN q[k] ELSE flatten[k - 1] \o q[k]
    <2> HIDE DEF flatten
    <2> QED
      BY <1>12
  <1> HIDE DEF flatten, g, Step
  <1> DEFINE Typed == {0} \cup {k \in 1..n : flatten[k] \in Seq(S)}
  <1>14. \A k \in 1..n : k - 1 \in Typed => k \in Typed
    <2> SUFFICES ASSUME NEW k \in 1..n, k - 1 \in Typed PROVE flatten[k] \in Seq(S)
      OBVIOUS
    <2>1. CASE k = 1
      BY <1>1, <1>13, <2>1
    <2>2. CASE k # 1
      <3>1. k - 1 # 0
        BY <2>2
      <3>2. flatten[k - 1] \in Seq(S)
        BY <3>1
      <3>3. flatten[k - 1] \o q[k] \in Seq(S)
        BY <1>3, <3>2
      <3> QED
        BY <1>13, <2>2, <3>3
    <2> QED
      BY <2>1, <2>2
  <1>15. \A k \in 1..n : flatten[k] \in Seq(S)
    <2>1. 0..n \subseteq Typed
      <3> HIDE DEF Typed
      <3> QED
        BY <1>1, <1>14, UpTo DEF Typed
    <2>2. \A k \in 1..n : k \in 0..n /\ k # 0
      BY <1>1
    <2> QED
      BY <2>1, <2>2
  <1>16. flatten[1] = q[1]
    BY <1>1, <1>13
  <1>17. \A k \in 2..n : flatten[k] = flatten[k - 1] \o q[k]
    <2>1. \A k \in 2..n : k \in 1..n /\ k # 1
      BY <1>1
    <2> QED
      BY <1>13, <2>1
  <1> QED
    BY <1>2, <1>15, <1>16, <1>17 DEF n

\* What FlattenSeq returns: a sequence that starts with the first one, nothing
\* for nothing
LEMMA FlattenIs ==
  ASSUME NEW S, NEW q \in Seq(Seq(S))
  PROVE  /\ FlattenSeq(q) \in Seq(S)
         /\ q # <<>> => \E rest \in Seq(S) : FlattenSeq(q) = q[1] \o rest
         /\ (\A k \in 1..Len(q) : q[k] = <<>>) => FlattenSeq(q) = <<>>
  <1>1. CASE q = <<>>
    <2>1. FlattenSeq(q) = <<>>
      BY <1>1 DEF FlattenSeq
    <2>2. <<>> \in Seq(S)
      OBVIOUS
    <2> QED
      BY <1>1, <2>1, <2>2
  <1>2. CASE q # <<>>
    <2>1. PICK F : /\ F[1] = q[1] /\ F[Len(q)] = FlattenSeq(q)
                   /\ \A k \in 1..Len(q) : F[k] \in Seq(S)
                   /\ \A k \in 2..Len(q) : F[k] = F[k - 1] \o q[k]
      BY <1>2, FlattenRecursion
    <2>2. /\ Len(q) \in Nat /\ 1 \in 1..Len(q) /\ Len(q) \in 1..Len(q)
          /\ \A k \in 1..Len(q) : q[k] \in Seq(S)
      BY <1>2
    <2>4. \A k \in 1..Len(q) : k \in 0..Len(q) /\ k # 0
      BY <2>2
    <2>5. FlattenSeq(q) \in Seq(S)
      BY <2>1, <2>2
    <2>6. \E rest \in Seq(S) : FlattenSeq(q) = q[1] \o rest
      <3> DEFINE Starts == {0} \cup {k \in 1..Len(q) : \E r \in Seq(S) : F[k] = q[1] \o r}
      <3>1. ASSUME NEW k \in 1..Len(q), k - 1 \in Starts
            PROVE  \E r \in Seq(S) : F[k] = q[1] \o r
        <4>1. CASE k = 1
          <5>1. <<>> \in Seq(S) /\ q[1] \o <<>> = q[1]
            BY <2>2
          <5> QED
            BY <2>1, <4>1, <5>1
        <4>2. CASE k # 1
          <5>1. k \in 2..Len(q) /\ k - 1 \in 1..Len(q) /\ k - 1 # 0
            BY <2>2, <4>2
          <5>2. PICK r \in Seq(S) : F[k - 1] = q[1] \o r
            BY <3>1, <5>1
          <5>3. F[k] = (q[1] \o r) \o q[k]
            BY <2>1, <5>1, <5>2
          <5>4. q[1] \in Seq(S) /\ q[k] \in Seq(S)
            BY <2>2
          <5>5. r \o q[k] \in Seq(S)
            BY <5>4, ConcatProperties
          <5>6. (q[1] \o r) \o q[k] = q[1] \o (r \o q[k])
            <6>1. PICK a, b : a = q[1] /\ b = q[k]
              OBVIOUS
            <6>2. a \in Seq(S) /\ b \in Seq(S) /\ r \in Seq(S)
              BY <5>4, <6>1
            <6>3. (a \o r) \o b = a \o (r \o b)
              BY <6>2, ConcatAssociates, SMTT(30)
            <6> QED
              BY <6>1, <6>3, Zenon
          <5> QED
            BY <5>3, <5>5, <5>6
        <4> QED
          BY <4>1, <4>2
      <3>2. 0..Len(q) \subseteq Starts
        <4>1. \A k \in 1..Len(q) : k - 1 \in Starts => k \in Starts
          BY <3>1
        <4>2. 0 \in Starts
          OBVIOUS
        <4> HIDE DEF Starts
        <4> QED
          BY <2>2, <4>1, <4>2, UpTo
      <3>3. \A k \in 1..Len(q) : \E r \in Seq(S) : F[k] = q[1] \o r
        BY <2>4, <3>2
      <3> QED
        BY <2>1, <2>2, <3>3
    <2>7. ASSUME \A k \in 1..Len(q) : q[k] = <<>>
          PROVE  FlattenSeq(q) = <<>>
      <3> DEFINE Empty == {0} \cup {k \in 1..Len(q) : F[k] = <<>>}
      <3>1. ASSUME NEW k \in 1..Len(q), k - 1 \in Empty
            PROVE  F[k] = <<>>
        <4>1. CASE k = 1
          BY <2>1, <2>2, <2>7, <4>1
        <4>2. CASE k # 1
          <5>1. k \in 2..Len(q) /\ k - 1 # 0
            BY <2>2, <4>2
          <5>2. F[k] = <<>> \o <<>>
            BY <2>1, <2>7, <3>1, <5>1
          <5> QED
            BY <5>2
        <4> QED
          BY <4>1, <4>2
      <3>2. 0..Len(q) \subseteq Empty
        <4>1. \A k \in 1..Len(q) : k - 1 \in Empty => k \in Empty
          BY <3>1
        <4>2. 0 \in Empty
          OBVIOUS
        <4> HIDE DEF Empty
        <4> QED
          BY <2>2, <4>1, <4>2, UpTo
      <3>3. \A k \in 1..Len(q) : F[k] = <<>>
        BY <2>4, <3>2
      <3> QED
        BY <2>1, <2>2, <3>3
    <2> QED
      BY <1>2, <2>5, <2>6, <2>7
  <1> QED
    BY <1>1, <1>2

-----------------------------------------------------------------------------
(* Prefixes.                                                               *)

LEMMA PrefixIs ==
  ASSUME NEW S, NEW s \in Seq(S), NEW t \in Seq(S)
  PROVE  IsPrefix(s, t) <=> Len(s) =< Len(t) /\ \A i \in 1..Len(s) : s[i] = t[i]
  <1>1. Len(s) \in Nat /\ Len(t) \in Nat
    OBVIOUS
  <1>2. SubSeq(s, 1, Len(s)) = s
    OBVIOUS
  <1>3. ASSUME Len(s) =< Len(t)
        PROVE  s = SubSeq(t, 1, Len(s)) <=> \A i \in 1..Len(s) : s[i] = t[i]
    <2>1. PICK u : u = SubSeq(t, 1, Len(s))
      OBVIOUS
    <2>2. u \in Seq(S) /\ Len(u) = Len(s) /\ \A i \in 1..Len(s) : u[i] = t[i]
      BY <1>1, <1>3, <2>1
    <2>3. s = u <=> \A i \in 1..Len(s) : s[i] = u[i]
      BY <2>2, SeqEqual
    <2> QED
      BY <2>1, <2>2, <2>3
  <1> QED
    BY <1>2, <1>3 DEF IsPrefix

LEMMA CommonPrefixesAre ==
  ASSUME NEW S, NEW a \in Seq(S), NEW b \in Seq(S)
  PROVE  /\ <<>> \in CommonPrefixes({a, b})
         /\ \A p \in CommonPrefixes({a, b}) :
               p \in Seq(S) /\ Len(p) \in 0..Len(a) /\ IsPrefix(p, a) /\ IsPrefix(p, b)
  <1>1. CommonPrefixes({a, b}) =
           {p \in Prefixes(a) \cup Prefixes(b) : IsPrefix(p, a) /\ IsPrefix(p, b)}
    BY DEF CommonPrefixes
  <1>2. \A p \in Prefixes(a) \cup Prefixes(b) : p \in Seq(S)
    <2>1. \A s \in Seq(S) : \A l \in 0..Len(s) : SubSeq(s, 1, l) \in Seq(S)
      OBVIOUS
    <2> QED
      BY <2>1 DEF Prefixes
  <1>3. \A p \in Seq(S) : IsPrefix(p, a) => Len(p) \in 0..Len(a)
    BY PrefixIs
  <1>4. <<>> \in Prefixes(a)
    <2>1. SubSeq(a, 1, 0) = <<>> /\ 0 \in 0..Len(a)
      OBVIOUS
    <2> QED
      BY <2>1 DEF Prefixes
  <1>5. IsPrefix(<<>>, a) /\ IsPrefix(<<>>, b)
    <2>1. <<>> \in Seq(S) /\ Len(<<>>) = 0 /\ 1..0 = {} /\ 0 =< Len(a) /\ 0 =< Len(b)
      OBVIOUS
    <2> QED
      BY <2>1, PrefixIs
  <1> QED
    BY <1>1, <1>2, <1>3, <1>4, <1>5

LEMMA LongestCommonPrefixIs ==
  ASSUME NEW S, NEW a \in Seq(S), NEW b \in Seq(S)
  PROVE  /\ LongestCommonPrefix({a, b}) \in CommonPrefixes({a, b})
         /\ LongestCommonPrefix({a, b}) \in Seq(S)
         /\ \A p \in CommonPrefixes({a, b}) : Len(p) =< Len(LongestCommonPrefix({a, b}))
  <1> DEFINE P == CommonPrefixes({a, b})
             Short == {Len(a) - Len(p) : p \in P}
  <1>1. <<>> \in P /\ \A p \in P : p \in Seq(S) /\ Len(p) \in 0..Len(a)
    BY CommonPrefixesAre
  <1> HIDE DEF P
  <1>2. Short \in SUBSET Nat /\ Short # {}
    BY <1>1
  <1>3. Min(Short) \in Short /\ \A y \in Short : Min(Short) =< y
    BY <1>2, MinOfNats
  <1>4. PICK l \in P : Min(Short) = Len(a) - Len(l)
    BY <1>3
  <1>5. \A p \in P : Len(p) =< Len(l)
    <2> SUFFICES ASSUME NEW p \in P PROVE Len(p) =< Len(l)
      OBVIOUS
    <2>1. Len(a) - Len(l) =< Len(a) - Len(p)
      BY <1>3, <1>4
    <2> QED
      BY <1>1, <2>1
  <1>6. LongestCommonPrefix({a, b}) = CHOOSE longest \in P : \A other \in P : Len(other) =< Len(longest)
    BY DEF LongestCommonPrefix, P
  <1>7. LongestCommonPrefix({a, b}) \in P /\ \A p \in P : Len(p) =< Len(LongestCommonPrefix({a, b}))
    BY <1>5, <1>6
  <1> QED
    BY <1>1, <1>7 DEF P

LEMMA NothingInCommon ==
  ASSUME NEW S, NEW a \in Seq(S), NEW b \in Seq(S), a # <<>>, b # <<>>, a[1] # b[1]
  PROVE  LongestCommonPrefix({a, b}) = <<>> /\ ~ IsPrefix(a, b)
  <1>1. PICK p : p = LongestCommonPrefix({a, b})
    OBVIOUS
  <1>2. p \in Seq(S) /\ IsPrefix(p, a) /\ IsPrefix(p, b)
    BY <1>1, LongestCommonPrefixIs, CommonPrefixesAre
  <1>3. \A s \in Seq(S) : s # <<>> => 1 \in 1..Len(s)
    OBVIOUS
  <1>4. p = <<>>
    <2> SUFFICES ASSUME p # <<>> PROVE FALSE
      OBVIOUS
    <2>1. p[1] = a[1] /\ p[1] = b[1]
      BY <1>2, <1>3, PrefixIs
    <2> QED
      BY <2>1
  <1> QED
    BY <1>1, <1>3, <1>4, PrefixIs

\* A function on the first numbers is a sequence.
LEMMA FunctionIsSequence ==
  ASSUME NEW S, NEW n \in Nat, NEW f \in [1..n -> S]
  PROVE  f \in Seq(S)
  BY SeqDef, Zenon

\* One more sequence at the end
LEMMA FlattenAppend ==
  ASSUME NEW S, NEW q \in Seq(Seq(S)), NEW e \in Seq(S)
  PROVE  /\ FlattenSeq(<<>>) = <<>>
         /\ FlattenSeq(Append(q, e)) = FlattenSeq(q) \o e
  <1>1. FlattenSeq(<<>>) = <<>>
    BY DEF FlattenSeq
  <1>2. PICK r : r = Append(q, e)
    OBVIOUS
  <1>3. /\ r \in Seq(Seq(S)) /\ r # <<>> /\ Len(q) \in Nat /\ Len(r) = Len(q) + 1
        /\ r[Len(r)] = e /\ \A k \in 1..Len(q) : r[k] = q[k]
    BY <1>2
  <1>4. PICK G : /\ G[1] = r[1] /\ G[Len(r)] = FlattenSeq(r)
                 /\ \A k \in 1..Len(r) : G[k] \in Seq(S)
                 /\ \A k \in 2..Len(r) : G[k] = G[k - 1] \o r[k]
    <2>1. r \in Seq(Seq(S)) /\ r # <<>>
      BY <1>3
    <2> QED
      BY <2>1, FlattenRecursion, ZenonT(40)
  <1>5. CASE q = <<>>
    <2>1. Len(r) = 1 /\ r[1] = e /\ FlattenSeq(q) = <<>>
      BY <1>1, <1>3, <1>5
    <2>2. FlattenSeq(r) = e /\ <<>> \o e = e
      BY <1>4, <2>1
    <2> QED
      BY <1>1, <1>2, <2>1, <2>2, Zenon
  <1>6. CASE q # <<>>
    <2>1. PICK F : /\ F[1] = q[1] /\ F[Len(q)] = FlattenSeq(q)
                   /\ \A k \in 1..Len(q) : F[k] \in Seq(S)
                   /\ \A k \in 2..Len(q) : F[k] = F[k - 1] \o q[k]
      BY <1>6, FlattenRecursion, ZenonT(40)
    <2>2. 1 \in 1..Len(q) /\ Len(q) \in 1..Len(q) /\ Len(r) \in 2..Len(r) /\ Len(r) - 1 = Len(q)
      BY <1>3, <1>6
    <2> DEFINE Same == {0} \cup {k \in 1..Len(q) : F[k] = G[k]}
    <2>3. ASSUME NEW k \in 1..Len(q), k - 1 \in Same
          PROVE  k \in Same
      <3>1. CASE k = 1
        BY <1>3, <1>4, <2>1, <2>2, <3>1
      <3>2. CASE k # 1
        <4>1. k \in 2..Len(q) /\ k \in 2..Len(r) /\ k - 1 # 0
          BY <1>3, <3>2
        <4>2. F[k] = F[k - 1] \o q[k] /\ G[k] = G[k - 1] \o q[k] /\ F[k - 1] = G[k - 1]
          BY <1>3, <1>4, <2>1, <2>3, <4>1
        <4> QED
          BY <4>2
      <3> QED
        BY <3>1, <3>2
    <2>4. 0..Len(q) \subseteq Same
      <3>1. 0 \in Same
        OBVIOUS
      <3> HIDE DEF Same
      <3> QED
        BY <1>3, <2>3, <3>1, UpTo
    <2>5. F[Len(q)] = G[Len(q)]
      <3>1. Len(q) \in 0..Len(q) /\ Len(q) # 0
        BY <2>2
      <3> QED
        BY <2>4, <3>1
    <2>6. FlattenSeq(r) = FlattenSeq(q) \o e
      BY <1>3, <1>4, <2>1, <2>2, <2>5
    <2> QED
      BY <1>1, <1>2, <2>6
  <1> QED
    BY <1>5, <1>6

\* What two sequences have in common that differ, or of which the second ends, behind
\* the first m elements
LEMMA CommonUpTo ==
  ASSUME NEW S, NEW a \in Seq(S), NEW b \in Seq(S), NEW m \in 0..(Len(a) - 1), m =< Len(b),
         \A x \in 1..m : a[x] = b[x],
         m < Len(b) => a[m + 1] # b[m + 1]
  PROVE  /\ LongestCommonPrefix({a, b}) = SubSeq(a, 1, m)
         /\ ~ IsPrefix(a, b)
  <1>1. Len(a) \in Nat /\ Len(b) \in Nat /\ m \in Nat /\ m < Len(a) /\ m + 1 \in 1..Len(a)
    OBVIOUS
  <1>2. PICK u : u = SubSeq(a, 1, m)
    OBVIOUS
  <1>3. u \in Seq(S) /\ Len(u) = m /\ \A x \in 1..m : u[x] = a[x]
    BY <1>1, <1>2
  <1>4. PICK l : l = LongestCommonPrefix({a, b})
    OBVIOUS
  <1>5. /\ l \in Seq(S) /\ IsPrefix(l, a) /\ IsPrefix(l, b)
        /\ \A p \in CommonPrefixes({a, b}) : Len(p) =< Len(l)
    BY <1>4, LongestCommonPrefixIs, CommonPrefixesAre
  <1>6. IsPrefix(u, a) /\ IsPrefix(u, b)
    <2>1. \A x \in 1..Len(u) : u[x] = a[x] /\ u[x] = b[x]
      BY <1>3
    <2>2. Len(u) =< Len(a) /\ Len(u) =< Len(b)
      BY <1>1, <1>3
    <2> QED
      BY <1>3, <2>1, <2>2, PrefixIs
  <1>7. u \in CommonPrefixes({a, b})
    <2>1. CommonPrefixes({a, b}) =
             {p \in Prefixes(a) \cup Prefixes(b) : IsPrefix(p, a) /\ IsPrefix(p, b)}
      BY DEF CommonPrefixes
    <2>2. u \in Prefixes(a)
      <3>1. m \in 0..Len(a)
        BY <1>1
      <3> QED
        BY <1>2, <3>1 DEF Prefixes
    <2> QED
      BY <1>6, <2>1, <2>2
  <1>8. /\ Len(l) =< Len(a) /\ Len(l) =< Len(b) /\ Len(l) \in Nat
        /\ \A x \in 1..Len(l) : l[x] = a[x] /\ l[x] = b[x]
    BY <1>5, PrefixIs
  <1>9. Len(l) = m
    <2>1. m =< Len(l)
      BY <1>3, <1>5, <1>7
    <2>2. ASSUME m < Len(l)
          PROVE  FALSE
      <3>1. m + 1 \in 1..Len(l) /\ m < Len(b)
        BY <1>1, <1>8, <2>2
      <3> QED
        BY <1>8, <3>1
    <2> QED
      BY <1>1, <1>8, <2>1, <2>2
  <1>10. l = u
    BY <1>3, <1>5, <1>8, <1>9, SeqEqual
  <1>11. ~ IsPrefix(a, b)
    <2> SUFFICES ASSUME IsPrefix(a, b) PROVE FALSE
      OBVIOUS
    <2>1. Len(a) =< Len(b) /\ \A x \in 1..Len(a) : a[x] = b[x]
      BY PrefixIs
    <2> QED
      BY <1>1, <2>1
  <1> QED
    BY <1>2, <1>4, <1>10, <1>11
=============================================================================
