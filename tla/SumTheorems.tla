----------------------------- MODULE SumTheorems -----------------------------
(***************************************************************************)
(* Facts that several proofs need about recursive definitions: induction   *)
(* on the naturals and on finite sets, stated over a set of the good cases *)
(* and not over a predicate, which makes it usable as a first-order fact,  *)
(* and what the sums over finite sets of the community modules compute.    *)
(***************************************************************************)
EXTENDS FiniteSetsExt, FiniteSetTheorems, WellFoundedInduction, TLAPS

(* Induction: no natural number is the first one missing from S. *)
LEMMA InductionOnNat ==
    ASSUME NEW S, 0 \in S, \A n \in Nat : n \in S => n + 1 \in S
    PROVE  Nat \subseteq S
<1> DEFINE R == {ss \in Nat \X Nat : ss[1] < ss[2]}
           T == Nat \ S
<1>1. IsWellFoundedOn(R, Nat)
  BY NatLessThanWellFounded DEF OpToRel
<1>2. SUFFICES ASSUME T # {} PROVE FALSE
  OBVIOUS
<1>3. PICK x \in T : \A y \in T : ~(<<y, x>> \in R)
  <2>1. T \subseteq Nat
    OBVIOUS
  <2>. HIDE DEF R, T
  <2>2. QED
    BY <1>1, <1>2, <2>1, WFMin
<1>4. x \in Nat /\ x # 0 /\ x - 1 \in Nat /\ x - 1 \notin S
  <2>1. x \in Nat /\ x # 0
    OBVIOUS
  <2>2. x - 1 \in Nat /\ (x - 1) + 1 = x
    BY <2>1
  <2>3. x - 1 \notin S
    BY <2>2
  <2>4. QED
    BY <2>1, <2>2, <2>3
<1>5. <<x - 1, x>> \in R
  BY <1>4
<1>6. QED
  BY <1>3, <1>4, <1>5

(* There is a function that sums up g from 1 on: the finite ones agree.    *)
LEMMA RecursionOnNat ==
    ASSUME NEW g
    PROVE  \E f : f = [i \in Nat |-> IF i = 0 THEN 0 ELSE f[i-1] + g[i]]
<1> DEFINE Upto(n, h) == /\ DOMAIN h = 0..n /\ h[0] = 0
                         /\ \A i \in 1..n : h[i] = h[i-1] + g[i]
           Good == {n \in Nat : \E h : Upto(n, h)}
<1>1. 0 \in Good
  <2>1. Upto(0, [i \in 0..0 |-> 0])
    OBVIOUS
  <2>2. QED
    BY <2>1
<1>2. ASSUME NEW n \in Nat, n \in Good PROVE n + 1 \in Good
  <2>1. PICK h : Upto(n, h)
    BY <1>2
  <2> DEFINE k == [i \in 0..(n+1) |-> IF i = n + 1 THEN h[n] + g[n+1] ELSE h[i]]
  <2>2. Upto(n + 1, k)
    <3>1. DOMAIN k = 0..(n+1) /\ k[0] = 0
      BY <2>1
    <3>2. ASSUME NEW i \in 1..(n+1) PROVE k[i] = k[i-1] + g[i]
      <4>1. CASE i = n + 1
        BY <4>1
      <4>2. CASE i # n + 1
        <5>1. i \in 1..n /\ i \in 0..(n+1) /\ i-1 \in 0..(n+1) /\ i - 1 # n + 1
          BY <4>2
        <5>2. k[i] = h[i] /\ k[i-1] = h[i-1]
          BY <5>1, <4>2
        <5>3. QED
          BY <5>1, <5>2, <2>1
      <4>3. QED
        BY <4>1, <4>2
    <3>3. QED
      BY <3>1, <3>2
  <2>3. \E x : Upto(n + 1, x)
    <3> HIDE DEF Upto, k
    <3>1. QED
      BY <2>2
  <2>4. QED
    BY <2>3
<1>3. Nat \subseteq Good
  <2> HIDE DEF Good
  <2>1. QED
    BY <1>1, <1>2, InductionOnNat
<1>4. ASSUME NEW n \in Nat, NEW m \in Nat, NEW h, NEW k, Upto(n, h), Upto(m, k), n <= m
      PROVE  \A i \in 0..n : h[i] = k[i]
  <2> DEFINE Same == {i \in Nat : i <= n => h[i] = k[i]}
  <2>1. 0 \in Same
    BY <1>4
  <2>2. ASSUME NEW i \in Nat, i \in Same PROVE i + 1 \in Same
    <3>1. CASE i + 1 <= n
      <4>1. i + 1 \in 1..n /\ i + 1 \in 1..m /\ (i + 1) - 1 = i
        BY <3>1, <1>4
      <4>2. h[i+1] = h[i] + g[i+1] /\ k[i+1] = k[i] + g[i+1]
        BY <4>1, <1>4
      <4>3. h[i] = k[i]
        BY <2>2, <3>1
      <4>4. QED
        BY <4>2, <4>3
    <3>2. QED
      BY <3>1
  <2>3. Nat \subseteq Same
    <3> HIDE DEF Same
    <3>1. QED
      BY <2>1, <2>2, InductionOnNat
  <2>4. QED
    BY <2>3
<1> DEFINE part(n) == CHOOSE h : Upto(n, h)
           f == [i \in Nat |-> part(i)[i]]
<1>5. \A n \in Nat : Upto(n, part(n))
  BY <1>3
<1>6. ASSUME NEW i \in Nat PROVE f[i] = IF i = 0 THEN 0 ELSE f[i-1] + g[i]
  <2>1. CASE i = 0
    BY <2>1, <1>5
  <2>2. CASE i # 0
    <3>1. i - 1 \in Nat /\ i \in 1..i /\ i - 1 \in 0..(i-1) /\ i - 1 <= i
      BY <2>2
    <3>2. Upto(i, part(i)) /\ Upto(i-1, part(i-1))
      BY <3>1, <1>5
    <3>3. part(i)[i] = part(i)[i-1] + g[i]
      BY <3>1, <3>2
    <3>4. part(i-1)[i-1] = part(i)[i-1]
      <4> HIDE DEF Upto, part
      <4>1. QED
        BY <3>1, <3>2, <1>4
    <3>5. QED
      BY <2>2, <3>1, <3>3, <3>4
  <2>3. QED
    BY <2>1, <2>2
<1>7. f = [i \in Nat |-> IF i = 0 THEN 0 ELSE f[i-1] + g[i]]
  <2> HIDE DEF part
  <2>1. f = [i \in Nat |-> f[i]]
    OBVIOUS
  <2>2. QED
    BY <1>6, <2>1
<1>8. QED
  BY <1>7

(* A set that holds the empty set, and with every finite set each one that *)
(* has one element more, holds all finite sets.                            *)
LEMMA InductionOnFiniteSets ==
    ASSUME NEW D, IsFiniteSet(D), NEW G, {} \in G,
           \A s \in SUBSET D : \A x \in D \ s : s \in G => s \cup {x} \in G
    PROVE  D \in G
<1> DEFINE All == {n \in Nat : \A s \in SUBSET D : Cardinality(s) = n => s \in G}
<1>1. \A s \in SUBSET D : IsFiniteSet(s) /\ Cardinality(s) \in Nat
  BY FS_Subset, FS_CardinalityType
<1>2. 0 \in All
  BY <1>1, FS_EmptySet
<1>3. ASSUME NEW n \in Nat, n \in All PROVE n + 1 \in All
  <2> SUFFICES ASSUME NEW s \in SUBSET D, Cardinality(s) = n + 1 PROVE s \in G
    OBVIOUS
  <2>1. PICK x \in s : TRUE
    BY FS_EmptySet
  <2>2. s \ {x} \in SUBSET D /\ x \in D \ (s \ {x}) /\ (s \ {x}) \cup {x} = s
    BY <2>1
  <2>3. Cardinality(s \ {x}) = n
    <3>1. Cardinality(s \ {x}) = Cardinality(s) - 1
      BY <1>1, <2>1, FS_RemoveElement
    <3>2. QED
      BY <3>1
  <2>4. s \ {x} \in G
    BY <1>3, <2>2, <2>3
  <2>5. QED
    BY <2>2, <2>4
<1>4. Nat \subseteq All
  <2> HIDE DEF All
  <2>1. QED
    BY <1>2, <1>3, InductionOnNat
<1>5. QED
  BY <1>1, <1>4

(* What a function makes of a finite set is finite. *)
ImageOf(f, S) == {f[x] : x \in S}

LEMMA ImageIsFinite ==
    ASSUME NEW f, NEW S, IsFiniteSet(S)
    PROVE  IsFiniteSet(ImageOf(f, S))
<1> DEFINE G == {s \in SUBSET S : IsFiniteSet(ImageOf(f, s))}
<1>1. {} \in G
  <2>1. ImageOf(f, {}) = {}
    BY DEF ImageOf
  <2>2. QED
    BY <2>1, FS_EmptySet
<1>2. ASSUME NEW s \in SUBSET S, NEW x \in S \ s, s \in G PROVE s \cup {x} \in G
  <2>1. ImageOf(f, s \cup {x}) = ImageOf(f, s) \cup {f[x]}
    BY DEF ImageOf
  <2>2. IsFiniteSet(ImageOf(f, s) \cup {f[x]})
    BY <1>2, FS_AddElement
  <2>3. QED
    BY <2>1, <2>2
<1>3. S \in G
  <2> HIDE DEF G
  <2>1. QED
    BY <1>1, <1>2, InductionOnFiniteSets
<1>4. QED
  BY <1>3

(* Every set of naturals has a smallest element, every finite one a largest. *)
LEMMA SmallestOfNats ==
    ASSUME NEW S \in SUBSET Nat, S # {}
    PROVE  Min(S) \in S /\ \A x \in S : Min(S) <= x
<1> DEFINE R == {ss \in Nat \X Nat : ss[1] < ss[2]}
<1>1. IsWellFoundedOn(R, Nat)
  BY NatLessThanWellFounded DEF OpToRel
<1>2. PICK t \in S : \A s \in S : ~(<<s, t>> \in R)
  <2> HIDE DEF R
  <2>1. QED
    BY <1>1, WFMin
<1>3. ASSUME NEW s \in S PROVE t <= s
  <2>1. ~(<<s, t>> \in R)
    BY <1>2
  <2>2. QED
    BY <2>1
<1>4. QED
  BY <1>3 DEF Min

LEMMA LargestOfFinite ==
    ASSUME NEW S \in SUBSET Nat, IsFiniteSet(S), S # {}
    PROVE  Max(S) \in S /\ \A x \in S : x <= Max(S)
<1> DEFINE G == {s \in SUBSET S : s # {} => \E x \in s : \A y \in s : y <= x}
<1>1. {} \in G
  OBVIOUS
<1>2. ASSUME NEW s \in SUBSET S, NEW x \in S \ s, s \in G PROVE s \cup {x} \in G
  <2>1. CASE s = {}
    BY <2>1
  <2>2. CASE s # {}
    <3>1. PICK z \in s : \A y \in s : y <= z
      BY <1>2, <2>2
    <3>2. CASE z <= x
      <4>1. \A y \in s \cup {x} : y <= x
        BY <3>1, <3>2
      <4>2. QED
        BY <4>1
    <3>3. CASE x <= z
      <4>1. \A y \in s \cup {x} : y <= z
        BY <3>1, <3>3
      <4>2. QED
        BY <4>1
    <3>4. QED
      BY <3>2, <3>3
  <2>3. QED
    BY <2>1, <2>2
<1>3. S \in G
  <2> HIDE DEF G
  <2>1. QED
    BY <1>1, <1>2, InductionOnFiniteSets
<1>4. QED
  BY <1>3 DEF Max

-----------------------------------------------------------------------------
(* The fold behind MapThenSumSet, for a function f. *)

Pick(s) == CHOOSE x \in s : TRUE
IsFold(f, D, g) ==
    g = [s \in SUBSET D |-> IF s = {} THEN 0 ELSE f[Pick(s)] + g[s \ {Pick(s)}]]

LEMMA PickIsElement == ASSUME NEW s, s # {} PROVE Pick(s) \in s
BY DEF Pick

(* The recursion has a solution: there is one for the subsets of at most n *)
(* elements, for every n.                                                  *)
LEMMA FoldExists ==
    ASSUME NEW f, NEW D, IsFiniteSet(D)
    PROVE  \E g : IsFold(f, D, g)
<1> DEFINE Part(n) == {s \in SUBSET D : Cardinality(s) <= n}
           Upto(n, h) == /\ h = [s \in Part(n) |-> h[s]]
                         /\ \A s \in Part(n) :
                              h[s] = IF s = {} THEN 0 ELSE f[Pick(s)] + h[s \ {Pick(s)}]
           Good == {n \in Nat : \E h : Upto(n, h)}
<1>1. \A s \in SUBSET D : IsFiniteSet(s) /\ Cardinality(s) \in Nat
  BY FS_Subset, FS_CardinalityType
<1>2. 0 \in Good
  <2>1. \A s \in Part(0) : s = {}
    BY <1>1, FS_EmptySet
  <2>2. Upto(0, [s \in Part(0) |-> 0])
    BY <2>1
  <2>3. QED
    <3> HIDE DEF Upto
    <3>1. QED
      BY <2>2
<1>3. ASSUME NEW n \in Nat, n \in Good PROVE n + 1 \in Good
  <2>1. PICK h : Upto(n, h)
    BY <1>3
  <2> DEFINE k == [s \in Part(n + 1) |->
                     IF s = {} THEN 0 ELSE f[Pick(s)] + h[s \ {Pick(s)}]]
  <2>2. \A s \in Part(n) : s \in Part(n + 1) /\ k[s] = h[s]
    <3>1. \A s \in Part(n) : s \in Part(n + 1)
      BY <1>1
    <3>2. QED
      BY <2>1, <3>1
  <2>3. ASSUME NEW s \in Part(n + 1), s # {} PROVE s \ {Pick(s)} \in Part(n)
    <3>1. Pick(s) \in s
      BY <2>3, PickIsElement
    <3>2. Cardinality(s \ {Pick(s)}) = Cardinality(s) - 1
      BY <1>1, <3>1, FS_RemoveElement
    <3>3. Cardinality(s) \in Nat /\ Cardinality(s) <= n + 1
      BY <1>1
    <3>4. QED
      BY <3>2, <3>3
  <2>4. Upto(n + 1, k)
    <3>1. k = [s \in Part(n + 1) |-> k[s]]
      OBVIOUS
    <3>2. ASSUME NEW s \in Part(n + 1)
          PROVE  k[s] = IF s = {} THEN 0 ELSE f[Pick(s)] + k[s \ {Pick(s)}]
      <4>1. k[s] = IF s = {} THEN 0 ELSE f[Pick(s)] + h[s \ {Pick(s)}]
        OBVIOUS
      <4>2. s # {} => k[s \ {Pick(s)}] = h[s \ {Pick(s)}]
        BY <2>2, <2>3
      <4> HIDE DEF k
      <4>3. QED
        BY <4>1, <4>2
    <3> HIDE DEF k, Part
    <3>3. QED
      BY <3>1, <3>2
  <2>5. \E x : Upto(n + 1, x)
    <3> HIDE DEF Upto, k
    <3>1. QED
      BY <2>4
  <2>6. QED
    <3> HIDE DEF Upto
    <3>1. n + 1 \in Nat
      OBVIOUS
    <3>2. QED
      BY <2>5, <3>1
<1>4. Nat \subseteq Good
  <2> HIDE DEF Good
  <2>1. QED
    BY <1>2, <1>3, InductionOnNat
<1>5. Cardinality(D) \in Nat /\ Part(Cardinality(D)) = SUBSET D
  BY <1>1, FS_Subset
<1>6. PICK g : Upto(Cardinality(D), g)
  BY <1>4, <1>5
<1>7. /\ g = [s \in SUBSET D |-> g[s]]
      /\ \A s \in SUBSET D : g[s] = IF s = {} THEN 0 ELSE f[Pick(s)] + g[s \ {Pick(s)}]
  <2> HIDE DEF Part
  <2>1. QED
    BY <1>5, <1>6
<1>8. IsFold(f, D, g)
  BY <1>7 DEF IsFold
<1>9. QED
  BY <1>8

(* Two folds of a function agree where both are defined. *)
LEMMA FoldsAgree ==
    ASSUME NEW f, NEW D, IsFiniteSet(D), NEW E \in SUBSET D,
           NEW g, IsFold(f, D, g), NEW h, IsFold(f, E, h)
    PROVE  \A s \in SUBSET E : g[s] = h[s]
<1> DEFINE Same == {n \in Nat : \A s \in SUBSET E : Cardinality(s) = n => g[s] = h[s]}
<1>1. \A s \in SUBSET E : IsFiniteSet(s) /\ Cardinality(s) \in Nat /\ s \in SUBSET D
  BY FS_Subset, FS_CardinalityType
<1>2. \A s \in SUBSET E : /\ g[s] = IF s = {} THEN 0 ELSE f[Pick(s)] + g[s \ {Pick(s)}]
                          /\ h[s] = IF s = {} THEN 0 ELSE f[Pick(s)] + h[s \ {Pick(s)}]
  BY DEF IsFold
<1>3. 0 \in Same
  BY <1>1, <1>2, FS_EmptySet
<1>4. ASSUME NEW n \in Nat, n \in Same PROVE n + 1 \in Same
  <2> SUFFICES ASSUME NEW s \in SUBSET E, Cardinality(s) = n + 1 PROVE g[s] = h[s]
    OBVIOUS
  <2>1. s # {}
    BY FS_EmptySet
  <2>2. Pick(s) \in s
    BY <2>1, PickIsElement
  <2>3. Cardinality(s \ {Pick(s)}) = Cardinality(s) - 1
    BY <1>1, <2>2, FS_RemoveElement
  <2>4. Cardinality(s \ {Pick(s)}) = n
    BY <2>3
  <2>5. g[s \ {Pick(s)}] = h[s \ {Pick(s)}]
    BY <1>4, <2>4
  <2>6. QED
    BY <1>2, <2>1, <2>5
<1>5. Nat \subseteq Same
  <2> HIDE DEF Same
  <2>1. QED
    BY <1>3, <1>4, InductionOnNat
<1>6. QED
  BY <1>1, <1>5

(* A fold of naturals is a natural. *)
LEMMA FoldIsNat ==
    ASSUME NEW f, NEW D, IsFiniteSet(D), \A x \in D : f[x] \in Nat,
           NEW g, IsFold(f, D, g)
    PROVE  \A s \in SUBSET D : g[s] \in Nat
<1> DEFINE Good == {n \in Nat : \A s \in SUBSET D : Cardinality(s) = n => g[s] \in Nat}
<1>1. \A s \in SUBSET D : IsFiniteSet(s) /\ Cardinality(s) \in Nat
  BY FS_Subset, FS_CardinalityType
<1>2. \A s \in SUBSET D : g[s] = IF s = {} THEN 0 ELSE f[Pick(s)] + g[s \ {Pick(s)}]
  BY DEF IsFold
<1>3. 0 \in Good
  BY <1>1, <1>2, FS_EmptySet
<1>4. ASSUME NEW n \in Nat, n \in Good PROVE n + 1 \in Good
  <2> SUFFICES ASSUME NEW s \in SUBSET D, Cardinality(s) = n + 1 PROVE g[s] \in Nat
    OBVIOUS
  <2>1. s # {}
    BY FS_EmptySet
  <2>2. Pick(s) \in s
    BY <2>1, PickIsElement
  <2>3. Cardinality(s \ {Pick(s)}) = Cardinality(s) - 1
    BY <1>1, <2>2, FS_RemoveElement
  <2>4. Cardinality(s \ {Pick(s)}) = n
    BY <2>3
  <2>5. g[s \ {Pick(s)}] \in Nat /\ f[Pick(s)] \in Nat
    BY <1>4, <2>2, <2>4
  <2>6. g[s] = f[Pick(s)] + g[s \ {Pick(s)}]
    BY <1>2, <2>1
  <2>7. QED
    BY <2>5, <2>6
<1>5. Nat \subseteq Good
  <2> HIDE DEF Good
  <2>1. QED
    BY <1>3, <1>4, InductionOnNat
<1>6. QED
  BY <1>1, <1>5

(* The order in which a fold takes the elements does not matter: any of    *)
(* them may come first.                                                    *)
LEMMA FoldInAnyOrder ==
    ASSUME NEW f, NEW D, IsFiniteSet(D), \A x \in D : f[x] \in Nat,
           NEW g, IsFold(f, D, g)
    PROVE  /\ g[{}] = 0
           /\ \A s \in SUBSET D : \A x \in s : g[s] = f[x] + g[s \ {x}]
<1> DEFINE Free(s) == \A x \in s : g[s] = f[x] + g[s \ {x}]
           Good == {n \in Nat : \A s \in SUBSET D : Cardinality(s) = n => Free(s)}
<1>1. \A s \in SUBSET D : IsFiniteSet(s) /\ Cardinality(s) \in Nat
  BY FS_Subset, FS_CardinalityType
<1>2. \A s \in SUBSET D : g[s] = IF s = {} THEN 0 ELSE f[Pick(s)] + g[s \ {Pick(s)}]
  BY DEF IsFold
<1>3. g[{}] = 0
  BY <1>2
<1>4. 0 \in Good
  <2>1. \A s \in SUBSET D : Cardinality(s) = 0 => s = {}
    BY <1>1, FS_EmptySet
  <2>2. Free({})
    BY <1>3
  <2>3. QED
    <3> HIDE DEF Free
    <3>1. QED
      BY <2>1, <2>2
<1>5. ASSUME NEW n \in Nat, n \in Good PROVE n + 1 \in Good
  <2> SUFFICES ASSUME NEW s \in SUBSET D, Cardinality(s) = n + 1 PROVE Free(s)
    OBVIOUS
  <2>1. s # {}
    BY FS_EmptySet
  <2> DEFINE p == Pick(s)
  <2>2. p \in s
    BY <2>1, PickIsElement
  <2>3. ASSUME NEW x \in s PROVE Free(s \ {x})
    <3>1. Cardinality(s \ {x}) = Cardinality(s) - 1
      BY <1>1, FS_RemoveElement
    <3>2. Cardinality(s \ {x}) = n
      BY <3>1
    <3>3. s \ {x} \in SUBSET D
      OBVIOUS
    <3> HIDE DEF Free
    <3>4. QED
      BY <1>5, <3>2, <3>3
  <2>4. g[s] = f[p] + g[s \ {p}]
    BY <1>2, <2>1
  <2> HIDE DEF p
  <2>5. ASSUME NEW x \in s, x # p PROVE g[s] = f[x] + g[s \ {x}]
    <3>1. g[s \ {p}] = f[x] + g[(s \ {p}) \ {x}]
      BY <2>2, <2>3, <2>5
    <3>2. g[s \ {x}] = f[p] + g[(s \ {x}) \ {p}]
      BY <2>2, <2>3, <2>5
    <3>3. (s \ {p}) \ {x} = (s \ {x}) \ {p}
      OBVIOUS
    <3>4. PICK rest \in Nat : rest = g[(s \ {x}) \ {p}]
      BY FoldIsNat
    <3>5. f[x] \in Nat /\ f[p] \in Nat
      BY <2>2
    <3>6. g[s \ {p}] = f[x] + rest /\ g[s \ {x}] = f[p] + rest
      BY <3>1, <3>2, <3>3, <3>4
    <3>7. QED
      BY <2>4, <3>4, <3>5, <3>6
  <2>6. QED
    BY <2>4, <2>5
<1>6. Nat \subseteq Good
  <2> HIDE DEF Good
  <2>1. QED
    BY <1>4, <1>5, InductionOnNat
<1>7. QED
  BY <1>1, <1>3, <1>6

-----------------------------------------------------------------------------
(* Sums over finite sets. *)

SumOf(f, S) == MapThenSumSet(LAMBDA x : f[x], S)

(* A sum over S is what any fold over a larger set says of S. *)
LEMMA SumIsFold ==
    ASSUME NEW f, NEW D, IsFiniteSet(D), NEW g, IsFold(f, D, g), NEW S \in SUBSET D
    PROVE  SumOf(f, S) = g[S]
<1> DEFINE F == CHOOSE h : h = [s \in SUBSET S |->
                    IF s = {} THEN 0
                    ELSE f[CHOOSE x \in s : TRUE] + h[s \ {CHOOSE x \in s : TRUE}]]
<1>1. IsFiniteSet(S)
  BY FS_Subset
<1>2. PICK h : IsFold(f, S, h)
  BY <1>1, FoldExists
<1>3. IsFold(f, S, F)
  <2>1. h = [s \in SUBSET S |->
                    IF s = {} THEN 0
                    ELSE f[CHOOSE x \in s : TRUE] + h[s \ {CHOOSE x \in s : TRUE}]]
    BY <1>2 DEF IsFold, Pick
  <2>2. F = [s \in SUBSET S |->
                    IF s = {} THEN 0
                    ELSE f[CHOOSE x \in s : TRUE] + F[s \ {CHOOSE x \in s : TRUE}]]
    BY <2>1
  <2>3. QED
    BY <2>2 DEF IsFold, Pick
<1>4. SumOf(f, S) = F[S]
  BY DEF SumOf, MapThenSumSet, MapThenFoldSet
<1> HIDE DEF F
<1>5. g[S] = F[S]
  BY <1>3, FoldsAgree
<1>6. QED
  BY <1>4, <1>5

LEMMA SumIsNat ==
    ASSUME NEW f, NEW S, IsFiniteSet(S), \A x \in S : f[x] \in Nat
    PROVE  SumOf(f, S) \in Nat
<1>1. PICK g : IsFold(f, S, g)
  BY FoldExists
<1>2. SumOf(f, S) = g[S]
  BY <1>1, SumIsFold
<1>3. QED
  BY <1>1, <1>2, FoldIsNat

LEMMA SumOfNone ==
    ASSUME NEW f
    PROVE  SumOf(f, {}) = 0
<1>1. IsFiniteSet({})
  BY FS_EmptySet
<1>2. PICK g : IsFold(f, {}, g)
  BY <1>1, FoldExists
<1>3. SumOf(f, {}) = g[{}]
  BY <1>1, <1>2, SumIsFold
<1>4. g[{}] = 0
  BY <1>2 DEF IsFold
<1>5. QED
  BY <1>3, <1>4

(* The two equations of a sum. *)
LEMMA SumAddsElement ==
    ASSUME NEW f, NEW S, IsFiniteSet(S), NEW x, x \notin S,
           \A y \in S \cup {x} : f[y] \in Nat
    PROVE  SumOf(f, S \cup {x}) = f[x] + SumOf(f, S)
<1> DEFINE D == S \cup {x}
<1>1. IsFiniteSet(D)
  BY FS_AddElement
<1>2. PICK g : IsFold(f, D, g)
  BY <1>1, FoldExists
<1>3. D \in SUBSET D /\ S \in SUBSET D /\ x \in D /\ D \ {x} = S
  OBVIOUS
<1>4. \A y \in D : f[y] \in Nat
  OBVIOUS
<1> HIDE DEF D
<1>5. SumOf(f, D) = g[D] /\ SumOf(f, S) = g[S]
  BY <1>1, <1>2, <1>3, SumIsFold
<1>6. g[D] = f[x] + g[D \ {x}]
  BY <1>1, <1>2, <1>3, <1>4, FoldInAnyOrder
<1>7. QED
  BY <1>3, <1>5, <1>6 DEF D

(* What two sets without a common element hold together. *)
LEMMA SumOfDisjoint ==
    ASSUME NEW f, NEW S, NEW T, IsFiniteSet(S), IsFiniteSet(T), S \cap T = {},
           \A x \in S \cup T : f[x] \in Nat
    PROVE  SumOf(f, S \cup T) = SumOf(f, S) + SumOf(f, T)
<1> DEFINE G == {t \in SUBSET T : SumOf(f, S \cup t) = SumOf(f, S) + SumOf(f, t)}
<1>0. SumOf(f, S) \in Nat
  BY SumIsNat
<1>1. {} \in G
  <2>1. S \cup {} = S
    OBVIOUS
  <2>2. SumOf(f, S) = SumOf(f, S) + SumOf(f, {})
    BY <1>0, SumOfNone
  <2>3. QED
    BY <2>1, <2>2
<1>2. ASSUME NEW t \in SUBSET T, NEW x \in T \ t, t \in G PROVE t \cup {x} \in G
  <2>1. /\ IsFiniteSet(t) /\ IsFiniteSet(S \cup t)
        /\ t \cup {x} \in SUBSET T /\ S \cup (t \cup {x}) = (S \cup t) \cup {x}
    BY FS_Subset, FS_Union
  <2>2. SumOf(f, t \cup {x}) = f[x] + SumOf(f, t)
    BY <2>1, SumAddsElement
  <2>3. x \notin S \cup t
    OBVIOUS
  <2>4. \A y \in (S \cup t) \cup {x} : f[y] \in Nat
    OBVIOUS
  <2>5. SumOf(f, (S \cup t) \cup {x}) = f[x] + SumOf(f, S \cup t)
    BY <2>1, <2>3, <2>4, SumAddsElement
  <2>6. f[x] \in Nat /\ SumOf(f, t) \in Nat
    BY <2>1, SumIsNat
  <2>7. SumOf(f, S \cup t) = SumOf(f, S) + SumOf(f, t)
    BY <1>2
  <2>8. SumOf(f, (S \cup t) \cup {x}) = SumOf(f, S) + SumOf(f, t \cup {x})
    BY <1>0, <2>2, <2>5, <2>6, <2>7
  <2>9. QED
    BY <2>1, <2>8
<1>3. T \in G
  <2> HIDE DEF G
  <2>1. QED
    BY <1>1, <1>2, InductionOnFiniteSets
<1>4. QED
  BY <1>3

(* Sorting the elements into labelled buckets: the sums of the buckets add *)
(* up to the sum of all elements whose label is among them.                *)
Bucket(S, key, l) == {x \in S : key[x] = l}
Labelled(S, key, L) == {x \in S : key[x] \in L}

LEMMA SumOfBuckets ==
    ASSUME NEW f, NEW S, IsFiniteSet(S), \A x \in S : f[x] \in Nat, NEW key,
           NEW L, IsFiniteSet(L), NEW F, \A l \in L : F[l] = SumOf(f, Bucket(S, key, l))
    PROVE  SumOf(F, L) = SumOf(f, Labelled(S, key, L))
<1> DEFINE In(m) == Labelled(S, key, m)
           At(l) == Bucket(S, key, l)
           G == {m \in SUBSET L : SumOf(F, m) = SumOf(f, In(m))}
<1>1. {} \in G
  <2>1. In({}) = {}
    BY DEF Labelled
  <2> HIDE DEF In
  <2>2. QED
    BY <2>1, SumOfNone
<1>2. \A m : IsFiniteSet(In(m)) /\ In(m) \subseteq S
  BY FS_Subset DEF Labelled
<1>3. \A l : IsFiniteSet(At(l)) /\ At(l) \subseteq S
  BY FS_Subset DEF Bucket
<1>4. \A l \in L : F[l] \in Nat
  <2>1. \A l : SumOf(f, At(l)) \in Nat
    BY <1>3, SumIsNat
  <2>2. QED
    BY <2>1
<1>5. ASSUME NEW m \in SUBSET L, NEW l \in L \ m, m \in G PROVE m \cup {l} \in G
  <2>1. IsFiniteSet(m) /\ m \cup {l} \in SUBSET L
    BY FS_Subset
  <2>2. SumOf(F, m \cup {l}) = F[l] + SumOf(F, m)
    BY <1>4, <2>1, SumAddsElement
  <2>3. F[l] = SumOf(f, At(l))
    OBVIOUS
  <2>4. In(m \cup {l}) = In(m) \cup At(l) /\ In(m) \cap At(l) = {}
    BY DEF Labelled, Bucket
  <2>5. SumOf(F, m) = SumOf(f, In(m))
    BY <1>5
  <2> HIDE DEF In, At
  <2>6. SumOf(f, In(m) \cup At(l)) = SumOf(f, In(m)) + SumOf(f, At(l))
    BY <1>2, <1>3, <2>4, SumOfDisjoint
  <2>7. SumOf(f, In(m)) \in Nat /\ SumOf(f, At(l)) \in Nat
    BY <1>2, <1>3, SumIsNat
  <2>8. SumOf(F, m \cup {l}) = SumOf(f, In(m \cup {l}))
    <3>1. SumOf(f, In(m \cup {l})) = SumOf(f, In(m)) + SumOf(f, At(l))
      BY <2>4, <2>6
    <3>2. SumOf(F, m \cup {l}) = SumOf(f, At(l)) + SumOf(f, In(m))
      BY <2>2, <2>3, <2>5
    <3>3. QED
      BY <2>7, <3>1, <3>2
  <2>9. QED
    BY <2>1, <2>8
<1>6. L \in G
  <2> HIDE DEF G
  <2>1. QED
    BY <1>1, <1>5, InductionOnFiniteSets
<1>7. QED
  BY <1>6
=============================================================================
