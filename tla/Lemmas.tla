-------------------------------- MODULE Lemmas -------------------------------
(***************************************************************************)
(* Facts about numbers, finite sets, sequences, sums, thresholds and event *)
(* tables that the other proofs rest on. Induction is stated with a set in *)
(* place of a predicate, so that it can be used without an operator as a   *)
(* parameter; what a recursive function computes is then shown in two      *)
(* steps: some function satisfies the equation, and whatever satisfies it  *)
(* has the property.                                                       *)
(***************************************************************************)
EXTENDS EventStore, TLAPS,
        SequenceTheorems, FiniteSetTheorems, WellFoundedInduction, NaturalsInduction

\* Induction: a set with 0 and with the successor of each of its numbers has all.
LEMMA SetInduction ==
    ASSUME NEW S, 0 \in S, \A n \in Nat : n \in S => n + 1 \in S
    PROVE Nat \subseteq S
<1> DEFINE T == Nat \ S
<1> SUFFICES ASSUME T # {} PROVE FALSE
  OBVIOUS
<1>1. IsWellFoundedOn(OpToRel(<,Nat), Nat)
  BY NatLessThanWellFounded
<1>2. T \subseteq Nat
  OBVIOUS
<1> HIDE DEF T
<1>3. PICK x \in T : \A y \in T : ~ (<<y, x>> \in OpToRel(<,Nat))
  BY <1>1, <1>2, WFMin
<1>4. \A y \in T : ~ (y < x)
  BY <1>2, <1>3 DEF OpToRel
<1>5. x \in Nat /\ x \notin S
  BY DEF T
<1>6. x # 0
  BY <1>5
<1>7. x - 1 \in Nat /\ x - 1 < x /\ (x - 1) + 1 = x
  BY <1>5, <1>6
<1>8. x - 1 \notin T
  BY <1>4, <1>7
<1>9. x - 1 \in S
  BY <1>7, <1>8 DEF T
<1> QED
  BY <1>5, <1>7, <1>9

\* Some number of a set of numbers is the least.
LEMMA NatMin ==
    ASSUME NEW I \in SUBSET Nat, I # {}
    PROVE \E x \in I : \A y \in I : x <= y
<1>1. IsWellFoundedOn(OpToRel(<,Nat), Nat)
  BY NatLessThanWellFounded
<1>2. PICK x \in I : \A y \in I : ~ (<<y, x>> \in OpToRel(<,Nat))
  BY <1>1, WFMin
<1>3. \A y \in I : ~ (y < x)
  BY <1>2 DEF OpToRel
<1> QED
  BY <1>3

\* A set of positions has at most as many members as there are positions.
LEMMA Counted ==
    ASSUME NEW n \in Nat, NEW I \in SUBSET (1 .. n)
    PROVE Cardinality(I) \in 0 .. n
<1>1. IsFiniteSet(1 .. n) /\ Cardinality(1 .. n) = n
  BY FS_Interval
<1>2. IsFiniteSet(I) /\ Cardinality(I) \in Nat /\ Cardinality(I) <= n
  BY <1>1, FS_Subset, FS_CardinalityType
<1> QED
  BY <1>2

\* Among the members of a set of positions there is a first, a second and so on:
\* one with exactly k members up to itself.
LEMMA NthExists ==
    ASSUME NEW n \in Nat, NEW I \in SUBSET (1 .. n), NEW k \in 1 .. Cardinality(I)
    PROVE \E x \in I : Cardinality({y \in I : y <= x}) = k
<1> DEFINE S == {m \in Nat : \A J \in SUBSET (1 .. m) : \A c \in 1 .. Cardinality(J) :
                    \E x \in J : Cardinality({y \in J : y <= x}) = c}
<1>1. 0 \in S
  <2>1. \A J \in SUBSET (1 .. 0) : J = {}
    OBVIOUS
  <2>2. Cardinality({}) = 0
    BY FS_EmptySet
  <2> QED
    BY <2>1, <2>2
<1>2. \A m \in Nat : m \in S => m + 1 \in S
  <2> SUFFICES ASSUME NEW m \in Nat, m \in S PROVE m + 1 \in S
    OBVIOUS
  <2>1. m + 1 \in Nat
    OBVIOUS
  <2> SUFFICES ASSUME NEW J \in SUBSET (1 .. m + 1), NEW c \in 1 .. Cardinality(J)
               PROVE \E x \in J : Cardinality({y \in J : y <= x}) = c
    BY <2>1
  <2>2. CASE m + 1 \notin J
    <3>1. J \subseteq 1 .. m
      BY <2>2
    <3> QED
      BY <3>1
  <2>3. CASE m + 1 \in J
    <3> DEFINE K == J \ {m + 1}
    <3>1. K \subseteq 1 .. m
      OBVIOUS
    <3>2. IsFiniteSet(J)
      <4>1. IsFiniteSet(1 .. m + 1)
        BY <2>1, FS_Interval
      <4> QED
        BY <4>1, FS_Subset
    <3>3. Cardinality(K) = Cardinality(J) - 1 /\ Cardinality(J) \in Nat
      BY <2>3, <3>2, FS_RemoveElement, FS_CardinalityType
    <3>4. CASE c = Cardinality(J)
      <4>1. \A y \in J : y \in 1 .. m + 1 /\ y <= m + 1
        OBVIOUS
      <4>2. {y \in J : y <= m + 1} = J
        BY <4>1
      <4> QED
        BY <2>3, <3>4, <4>2
    <3>5. CASE c # Cardinality(J)
      <4>1. c \in 1 .. Cardinality(K)
        BY <3>3, <3>5
      <4>2. PICK x \in K : Cardinality({y \in K : y <= x}) = c
        BY <3>1, <4>1
      <4>3. {y \in J : y <= x} = {y \in K : y <= x}
        BY <3>1
      <4> QED
        BY <4>2, <4>3
    <3> QED
      BY <3>4, <3>5
  <2> QED
    BY <2>2, <2>3
<1> HIDE DEF S
<1>3. n \in S
  BY <1>1, <1>2, SetInduction
<1> QED
  BY <1>3 DEF S

\* What a sequence enumerates is finite.
LEMMA Enumerated ==
    ASSUME NEW n \in Nat, NEW T, NEW f \in [1 .. n -> T], \A t \in T : \E x \in 1 .. n : f[x] = t
    PROVE IsFiniteSet(T) /\ Cardinality(T) \in Nat
<1>1. f \in Surjection(1 .. n, T)
  BY DEF Surjection
<1>2. IsFiniteSet(1 .. n)
  BY FS_Interval
<1>3. IsFiniteSet(T)
  BY <1>1, <1>2, FS_Surjection
<1> QED
  BY <1>3, FS_CardinalityType

Inserted(s, k, e) == SubSeq(s, 1, k) \o <<e>> \o SubSeq(s, k + 1, Len(s))

\* Inserting an element moves those behind it by one and adds nothing else.
LEMMA Insertion ==
    ASSUME NEW S, NEW s \in Seq(S), NEW e \in S,
           NEW k \in 0 .. Len(s)
    PROVE /\ Inserted(s, k, e) \in Seq(S)
          /\ Len(Inserted(s, k, e)) = Len(s) + 1
          /\ \A i \in 1 .. k : Inserted(s, k, e)[i] = s[i]
          /\ Inserted(s, k, e)[k + 1] = e
          /\ \A i \in k + 1 .. Len(s) : Inserted(s, k, e)[i + 1] = s[i]
          /\ Range(Inserted(s, k, e)) = Range(s) \cup {e}
<1> DEFINE a == SubSeq(s, 1, k)
           c == SubSeq(s, k + 1, Len(s))
           t == a \o <<e>> \o c
<1>1. Inserted(s, k, e) = t
  BY DEF Inserted
<1>2. Len(s) \in Nat /\ DOMAIN s = 1 .. Len(s) /\ \A i \in 1 .. Len(s) : s[i] \in S
  BY LenProperties, ElementOfSeq
<1>3. /\ a \in Seq(S) /\ Len(a) = k
      /\ \A i \in 1 .. k : a[i] = s[i]
  <2>1. \A i \in 1 .. k : s[i] \in S
    BY <1>2
  <2> QED
    BY <1>2, <2>1, SubSeqProperties
<1>4. /\ c \in Seq(S) /\ Len(c) = Len(s) - k
      /\ \A i \in 1 .. Len(s) - k : c[i] = s[k + i]
  <2>1. \A i \in k + 1 .. Len(s) : s[i] \in S
    BY <1>2
  <2>2. /\ c \in Seq(S)
        /\ Len(c) = IF k + 1 <= Len(s) THEN Len(s) - (k + 1) + 1 ELSE 0
        /\ \A i \in 1 .. Len(s) - (k + 1) + 1 : c[i] = s[k + 1 + i - 1]
    BY <1>2, <2>1, SubSeqProperties
  <2>3. k \in Nat /\ k <= Len(s)
    BY <1>2
  <2> HIDE DEF c
  <2>4. Len(s) - (k + 1) + 1 = Len(s) - k /\ \A i \in 1 .. Len(s) - k : k + 1 + i - 1 = k + i
    BY <1>2, <2>3
  <2>5. Len(c) = Len(s) - k
    <3>1. CASE k + 1 <= Len(s)
      BY <2>2, <2>4, <3>1
    <3>2. CASE ~(k + 1 <= Len(s))
      <4>1. Len(c) = 0
        BY <2>2, <3>2
      <4>2. Len(s) - k = 0
        <5>1. Len(s) \in Nat
          BY <1>2
        <5> QED
          BY <2>3, <3>2, <5>1
      <4> QED
        BY <4>1, <4>2
    <3> QED
      BY <3>1, <3>2
  <2> QED
    BY <2>2, <2>4, <2>5
<1>5. <<e>> \in Seq(S) /\ Len(<<e>>) = 1 /\ <<e>>[1] = e
  OBVIOUS
<1> HIDE DEF a, c
<1>6. /\ a \o <<e>> \in Seq(S) /\ Len(a \o <<e>>) = k + 1
      /\ \A i \in 1 .. k : (a \o <<e>>)[i] = s[i]
      /\ (a \o <<e>>)[k + 1] = e
  <2>1. /\ a \o <<e>> \in Seq(S) /\ Len(a \o <<e>>) = Len(a) + Len(<<e>>)
        /\ \A i \in 1 .. Len(a) + Len(<<e>>) : (a \o <<e>>)[i] = IF i <= Len(a) THEN a[i] ELSE <<e>>[i - Len(a)]
    BY <1>3, <1>5, ConcatProperties
  <2>2. k \in Nat /\ Len(a) = k /\ Len(<<e>>) = 1 /\ (k + 1) - k = 1
    BY <1>2, <1>3, <1>5
  <2> QED
    BY <1>3, <1>5, <2>1, <2>2
<1> DEFINE b == a \o <<e>>
<1>7. /\ b \o c \in Seq(S) /\ Len(b \o c) = Len(s) + 1
      /\ \A i \in 1 .. Len(b) + Len(c) : (b \o c)[i] = IF i <= Len(b) THEN b[i] ELSE c[i - Len(b)]
  <2> HIDE DEF b
  <2>1. b \in Seq(S) /\ Len(b) = k + 1
    BY <1>6 DEF b
  <2>2. /\ b \o c \in Seq(S) /\ Len(b \o c) = Len(b) + Len(c)
        /\ \A i \in 1 .. Len(b) + Len(c) : (b \o c)[i] = IF i <= Len(b) THEN b[i] ELSE c[i - Len(b)]
    BY <1>4, <2>1, ConcatProperties
  <2>3. k \in Nat /\ (k + 1) + (Len(s) - k) = Len(s) + 1
    BY <1>2
  <2> QED
    BY <1>4, <2>1, <2>2, <2>3
<1>8. /\ t \in Seq(S)
      /\ Len(t) = Len(s) + 1
      /\ \A i \in 1 .. k : t[i] = s[i]
      /\ t[k + 1] = e
      /\ \A i \in k + 1 .. Len(s) : t[i + 1] = s[i]
  <2>1. t = b \o c /\ Len(b) = k + 1 /\ Len(c) = Len(s) - k
    BY <1>4, <1>6
  <2>2. \A i \in 1 .. k : t[i] = s[i]
    BY <1>2, <1>6, <1>7, <2>1
  <2>3. t[k + 1] = e
    BY <1>2, <1>6, <1>7, <2>1
  <2>4. \A i \in k + 1 .. Len(s) : t[i + 1] = s[i]
    <3> TAKE i \in k + 1 .. Len(s)
    <3>1. i + 1 \in 1 .. Len(b) + Len(c) /\ ~(i + 1 <= Len(b)) /\ i + 1 - Len(b) = i - k
      BY <1>2, <2>1
    <3>2. t[i + 1] = c[i - k]
      BY <1>7, <2>1, <3>1
    <3>3. i - k \in 1 .. Len(s) - k /\ k + (i - k) = i
      BY <1>2
    <3> QED
      BY <1>4, <3>2, <3>3
  <2> QED
    BY <1>7, <2>1, <2>2, <2>3, <2>4
<1> HIDE DEF t
<1>9. DOMAIN t = 1 .. Len(s) + 1
  BY <1>8, LenProperties
<1>10. Range(t) = Range(s) \cup {e}
  <2>1. ASSUME NEW i \in 1 .. Len(s) + 1 PROVE t[i] \in {s[j] : j \in DOMAIN s} \cup {e}
    <3>1. CASE i <= k
      BY <1>2, <1>8, <3>1
    <3>2. CASE i = k + 1
      BY <1>8, <3>2
    <3>3. CASE i > k + 1
      <4>1. i - 1 \in k + 1 .. Len(s) /\ (i - 1) + 1 = i
        BY <1>2, <3>3
      <4>2. t[i] = s[i - 1]
        BY <1>8, <4>1
      <4>3. i - 1 \in DOMAIN s
        BY <1>2, <4>1
      <4> QED
        BY <4>2, <4>3
    <3> QED
      BY <1>2, <3>1, <3>2, <3>3
  <2>2. e \in {t[i] : i \in DOMAIN t}
    BY <1>2, <1>8, <1>9
  <2>3. ASSUME NEW i \in DOMAIN s PROVE s[i] \in {t[j] : j \in DOMAIN t}
    <3>1. CASE i <= k
      BY <1>2, <1>8, <1>9, <3>1
    <3>2. CASE i > k
      BY <1>2, <1>8, <1>9, <3>2
    <3> QED
      BY <1>2, <3>1, <3>2
  <2> QED
    BY <1>9, <2>1, <2>2, <2>3 DEF Range
<1> QED
  BY <1>1, <1>8, <1>10

-----------------------------------------------------------------------------
(* Folds over finite sets, as the community modules define them. *)

Chosen(s) == CHOOSE x \in s : TRUE

\* f is what a fold over the subsets of S computes: step takes a value of w and
\* what has been computed of the rest.
FoldsWith(f, S, w, step, base) ==
    f = [s \in SUBSET S |-> IF s = {} THEN base
                            ELSE step[<<w[Chosen(s)], f[s \ {Chosen(s)}]>>]]

\* What is chosen is a member, and without it a set is smaller by one.
LEMMA ChosenRest ==
    ASSUME NEW s, IsFiniteSet(s), s # {}
    PROVE /\ Chosen(s) \in s
          /\ IsFiniteSet(s \ {Chosen(s)})
          /\ Cardinality(s) \in Nat /\ Cardinality(s) > 0
          /\ Cardinality(s \ {Chosen(s)}) = Cardinality(s) - 1
<1>1. Chosen(s) \in s
  BY DEF Chosen
<1>2. Cardinality(s) \in Nat /\ Cardinality(s) # 0
  BY FS_CardinalityType, FS_EmptySet
<1> QED
  BY <1>1, <1>2, FS_RemoveElement

\* Folding over a finite set is a definition: there is a function that does it.
LEMMA FoldExists ==
    ASSUME NEW S, IsFiniteSet(S), NEW A, NEW T, NEW w \in [S -> A],
           NEW step \in [A \X T -> T], NEW base \in T
    PROVE \E f \in [SUBSET S -> T] : FoldsWith(f, S, w, step, base)
<1> DEFINE Small(n) == {s \in SUBSET S : Cardinality(s) <= n}
           Good(n, f) == \A s \in Small(n) :
               f[s] = IF s = {} THEN base ELSE step[<<w[Chosen(s)], f[s \ {Chosen(s)}]>>]
           N == {n \in Nat : \E f \in [SUBSET S -> T] : Good(n, f)}
<1>1. \A s \in SUBSET S : IsFiniteSet(s) /\ Cardinality(s) \in Nat /\ Cardinality(s) <= Cardinality(S)
  BY FS_Subset, FS_CardinalityType
<1>2. Cardinality({}) = 0
  BY FS_EmptySet
<1>3. \A s \in SUBSET S : Cardinality(s) = 0 => s = {}
  BY <1>1, FS_EmptySet
<1>4. 0 \in N
  <2> DEFINE f == [s \in SUBSET S |-> base]
  <2>1. f \in [SUBSET S -> T]
    OBVIOUS
  <2>2. Good(0, f)
    BY <1>1, <1>3
  <2> QED
    BY <2>1, <2>2
<1>5. \A n \in Nat : n \in N => n + 1 \in N
  <2> SUFFICES ASSUME NEW n \in Nat, n \in N
               PROVE n + 1 \in N
    OBVIOUS
  <2>1. n + 1 \in Nat
    OBVIOUS
  <2>2. PICK f \in [SUBSET S -> T] : Good(n, f)
    OBVIOUS
  <2> DEFINE g == [s \in SUBSET S |-> IF s = {} THEN base
                                      ELSE step[<<w[Chosen(s)], f[s \ {Chosen(s)}]>>]]
  <2>3. \A s \in SUBSET S : s # {} => /\ Chosen(s) \in S
                                      /\ s \ {Chosen(s)} \in SUBSET S
                                      /\ Cardinality(s \ {Chosen(s)}) = Cardinality(s) - 1
    BY <1>1, ChosenRest
  <2>4. g \in [SUBSET S -> T]
    BY <2>3, <2>2
  <2>5. \A s \in Small(n) : g[s] = f[s]
    BY <2>2
  <2>6. \A s \in Small(n + 1) : s # {} => s \ {Chosen(s)} \in Small(n)
    BY <1>1, <2>3
  <2>7. Good(n + 1, g)
    BY <2>5, <2>6, <2>2
  <2> QED
    BY <2>1, <2>4, <2>7
<1> HIDE DEF N
<1>6. Cardinality(S) \in N
  BY <1>1, <1>4, <1>5, SetInduction
<1>7. PICK f \in [SUBSET S -> T] : Good(Cardinality(S), f)
  BY <1>6 DEF N
<1>8. \A s \in SUBSET S : s \in Small(Cardinality(S))
  BY <1>1
<1>9. FoldsWith(f, S, w, step, base)
  BY <1>7, <1>8 DEF FoldsWith
<1> QED
  BY <1>9

\* The sum of nothing is 0, and of a set the value at its chosen member and the sum
\* of the others.
Sums(f, S, w) ==
    f = [s \in SUBSET S |-> IF s = {} THEN 0 ELSE w[Chosen(s)] + f[s \ {Chosen(s)}]]

\* Summing is a definition.
LEMMA SumExists ==
    ASSUME NEW S, IsFiniteSet(S), NEW w \in [S -> Nat]
    PROVE \E f \in [SUBSET S -> Nat] : Sums(f, S, w)
<1> DEFINE step == [p \in Nat \X Nat |-> p[1] + p[2]]
<1>1. step \in [Nat \X Nat -> Nat] /\ \A a, b \in Nat : step[<<a, b>>] = a + b
  OBVIOUS
<1> HIDE DEF step
<1>2. PICK f \in [SUBSET S -> Nat] : FoldsWith(f, S, w, step, 0)
  BY <1>1, FoldExists
<1>3. \A s \in SUBSET S : s # {} => Chosen(s) \in S /\ s \ {Chosen(s)} \in SUBSET S
  BY FS_Subset, ChosenRest
<1>4. Sums(f, S, w)
  BY <1>1, <1>2, <1>3 DEF FoldsWith, Sums
<1> QED
  BY <1>4

\* SumFunctionOnSet is what its recursion says.
LEMMA SumIs ==
    ASSUME NEW S, IsFiniteSet(S), NEW w, NEW v \in [S -> Nat], \A x \in S : w[x] = v[x]
    PROVE \E f : Sums(f, S, w) /\ SumFunctionOnSet(w, S) = f[S]
<1>1. PICK g \in [SUBSET S -> Nat] : Sums(g, S, v)
  BY SumExists
<1>2. \A s \in SUBSET S : s # {} => Chosen(s) \in S
  BY FS_Subset, ChosenRest
<1>3. Sums(g, S, w)
  BY <1>1, <1>2 DEF Sums
<1>4. SumFunctionOnSet(w, S) = (CHOOSE f : Sums(f, S, w))[S]
  BY DEF SumFunctionOnSet, FoldFunctionOnSet, MapThenFoldSet, Sums, Chosen
<1> QED
  BY <1>3, <1>4

\* Two folds of the same values agree where both are defined.
LEMMA SumsAgree ==
    ASSUME NEW w, NEW S, NEW R \in SUBSET S, IsFiniteSet(S), NEW f, NEW g,
           Sums(f, R, w), Sums(g, S, w)
    PROVE \A s \in SUBSET R : f[s] = g[s]
<1> DEFINE N == {n \in Nat : \A s \in SUBSET R : Cardinality(s) = n => f[s] = g[s]}
<1>1. \A s \in SUBSET R : IsFiniteSet(s) /\ Cardinality(s) \in Nat /\ s \in SUBSET S
  BY FS_Subset, FS_CardinalityType
<1>2. \A s \in SUBSET R : Cardinality(s) = 0 => s = {}
  BY <1>1, FS_EmptySet
<1>3. 0 \in N
  BY <1>1, <1>2 DEF Sums
<1>4. \A n \in Nat : n \in N => n + 1 \in N
  <2> SUFFICES ASSUME NEW n \in Nat, n \in N PROVE n + 1 \in N
    OBVIOUS
  <2>1. \A s \in SUBSET R : Cardinality(s) = n => f[s] = g[s]
    OBVIOUS
  <2>2. ASSUME NEW s \in SUBSET R, Cardinality(s) = n + 1 PROVE f[s] = g[s]
    <3>1. s # {} /\ IsFiniteSet(s)
      BY <1>1, <2>2, FS_EmptySet
    <3>2. Chosen(s) \in s /\ Cardinality(s \ {Chosen(s)}) = n
      BY <2>2, <3>1, ChosenRest
    <3>3. s \ {Chosen(s)} \in SUBSET R
      OBVIOUS
    <3>4. f[s \ {Chosen(s)}] = g[s \ {Chosen(s)}]
      BY <2>1, <3>2, <3>3
    <3>5. f[s] = w[Chosen(s)] + f[s \ {Chosen(s)}]
      BY <3>1 DEF Sums
    <3>6. g[s] = w[Chosen(s)] + g[s \ {Chosen(s)}]
      BY <1>1, <3>1 DEF Sums
    <3> QED
      BY <3>4, <3>5, <3>6
  <2>3. n + 1 \in Nat
    OBVIOUS
  <2> QED
    BY <2>2, <2>3
<1> HIDE DEF N
<1>5. Nat \subseteq N
  BY <1>3, <1>4, SetInduction
<1> QED
  BY <1>1, <1>5 DEF N

\* The sum of a finite set of natural numbers, and how it is made.
LEMMA SumChosen ==
    ASSUME NEW I, NEW w \in [I -> Nat], NEW S \in SUBSET I, IsFiniteSet(S)
    PROVE /\ SumFunctionOnSet(w, S) \in Nat
          /\ S = {} => SumFunctionOnSet(w, S) = 0
          /\ S # {} => SumFunctionOnSet(w, S)
                         = w[Chosen(S)] + SumFunctionOnSet(w, S \ {Chosen(S)})
<1> DEFINE V(R) == [x \in R |-> w[x]]
<1>1. ASSUME NEW R \in SUBSET I, IsFiniteSet(R)
      PROVE /\ \E f : Sums(f, R, w) /\ SumFunctionOnSet(w, R) = f[R]
            /\ \E f \in [SUBSET R -> Nat] : Sums(f, R, w)
  <2>1. V(R) \in [R -> Nat] /\ \A x \in R : w[x] = V(R)[x]
    OBVIOUS
  <2>2. \E f : Sums(f, R, w) /\ SumFunctionOnSet(w, R) = f[R]
    BY <1>1, <2>1, SumIs
  <2>3. PICK f \in [SUBSET R -> Nat] : Sums(f, R, V(R))
    BY <1>1, <2>1, SumExists
  <2>4. \A s \in SUBSET R : s # {} => Chosen(s) \in R
    BY <1>1, FS_Subset, ChosenRest
  <2>5. Sums(f, R, w)
    BY <2>1, <2>3, <2>4 DEF Sums
  <2> QED
    BY <2>2, <2>5
<1>2. PICK f : Sums(f, S, w) /\ SumFunctionOnSet(w, S) = f[S]
  BY <1>1
<1>3. PICK g \in [SUBSET S -> Nat] : Sums(g, S, w)
  BY <1>1
<1>4. f[S] = g[S]
  BY <1>2, <1>3, SumsAgree
<1>5. SumFunctionOnSet(w, S) \in Nat
  BY <1>2, <1>3, <1>4
<1>6. S = {} => SumFunctionOnSet(w, S) = 0
  BY <1>2 DEF Sums
<1>7. ASSUME S # {}
      PROVE SumFunctionOnSet(w, S) = w[Chosen(S)] + SumFunctionOnSet(w, S \ {Chosen(S)})
  <2> DEFINE R == S \ {Chosen(S)}
  <2>1. R \in SUBSET I /\ R \in SUBSET S /\ IsFiniteSet(R)
    BY <1>7, ChosenRest
  <2>2. PICK h : Sums(h, R, w) /\ SumFunctionOnSet(w, R) = h[R]
    BY <1>1, <2>1
  <2>3. f[S] = w[Chosen(S)] + f[R]
    BY <1>2, <1>7 DEF Sums
  <2> HIDE DEF R
  <2>4. h[R] = f[R]
    BY <1>2, <2>1, <2>2, SumsAgree
  <2>5. SumFunctionOnSet(w, S) = w[Chosen(S)] + SumFunctionOnSet(w, R)
    BY <1>2, <2>2, <2>3, <2>4
  <2> QED
    BY <2>5 DEF R
<1> QED
  BY <1>5, <1>6, <1>7

\* A sum does not depend on the order: any member may be taken off it.
LEMMA SumAny ==
    ASSUME NEW I, NEW w \in [I -> Nat], NEW S \in SUBSET I, IsFiniteSet(S), NEW y \in S
    PROVE SumFunctionOnSet(w, S) = w[y] + SumFunctionOnSet(w, S \ {y})
<1> DEFINE Sum(R) == SumFunctionOnSet(w, R)
           N == {n \in Nat : \A R \in SUBSET S : Cardinality(R) = n =>
                    \A x \in R : Sum(R) = w[x] + Sum(R \ {x})}
<1>1. \A R \in SUBSET S : IsFiniteSet(R) /\ Cardinality(R) \in Nat /\ R \in SUBSET I /\ Sum(R) \in Nat
  BY FS_Subset, FS_CardinalityType, SumChosen
<1>2. \A R \in SUBSET S : R # {} => Sum(R) = w[Chosen(R)] + Sum(R \ {Chosen(R)})
  BY <1>1, SumChosen
<1>3. 0 \in N
  BY <1>1, FS_EmptySet
<1>4. \A n \in Nat : n \in N => n + 1 \in N
  <2> SUFFICES ASSUME NEW n \in Nat, n \in N PROVE n + 1 \in N
    OBVIOUS
  <2>1. \A R \in SUBSET S : Cardinality(R) = n => \A x \in R : Sum(R) = w[x] + Sum(R \ {x})
    OBVIOUS
  <2>2. ASSUME NEW R \in SUBSET S, Cardinality(R) = n + 1, NEW x \in R
        PROVE Sum(R) = w[x] + Sum(R \ {x})
    <3> DEFINE c == Chosen(R)
    <3>1. c \in R /\ Sum(R) = w[c] + Sum(R \ {c})
      BY <1>1, <1>2, <2>2, ChosenRest
    <3> HIDE DEF c
    <3>2. CASE x = c
      BY <3>1, <3>2
    <3>3. CASE x # c
      <4>1. /\ R \ {c} \in SUBSET S /\ Cardinality(R \ {c}) = n
            /\ R \ {x} \in SUBSET S /\ Cardinality(R \ {x}) = n
        BY <1>1, <2>2, <3>1, FS_RemoveElement
      <4>2. Sum(R \ {c}) = w[x] + Sum((R \ {c}) \ {x})
        BY <2>1, <4>1, <3>3
      <4>3. Sum(R \ {x}) = w[c] + Sum((R \ {x}) \ {c})
        BY <2>1, <4>1, <3>1, <3>3
      <4>4. (R \ {c}) \ {x} = (R \ {x}) \ {c} /\ (R \ {x}) \ {c} \in SUBSET S
        OBVIOUS
      <4>5. PICK u \in Nat : u = Sum((R \ {x}) \ {c})
        BY <1>1, <4>4
      <4>6. PICK a \in Nat, b \in Nat : a = w[x] /\ b = w[c]
        BY <3>1
      <4> HIDE DEF Sum
      <4>7. Sum(R \ {c}) = a + u
        BY <4>2, <4>4, <4>5, <4>6
      <4>8. Sum(R \ {x}) = b + u
        BY <4>3, <4>5, <4>6
      <4>9. b + (a + u) = a + (b + u)
        OBVIOUS
      <4> QED
        BY <3>1, <4>6, <4>7, <4>8, <4>9
    <3> QED
      BY <3>2, <3>3
  <2>3. n + 1 \in Nat
    OBVIOUS
  <2> QED
    BY <2>2, <2>3
<1> HIDE DEF N
<1>5. Nat \subseteq N
  BY <1>3, <1>4, SetInduction
<1>6. Cardinality(S) \in N /\ S \in SUBSET S
  BY <1>1, <1>5
<1> QED
  BY <1>6 DEF N

\* More members make no smaller sum.
LEMMA SumMonotone ==
    ASSUME NEW I, NEW w \in [I -> Nat], NEW S \in SUBSET I, IsFiniteSet(S), NEW R \in SUBSET S
    PROVE SumFunctionOnSet(w, R) <= SumFunctionOnSet(w, S)
<1> DEFINE Sum(Q) == SumFunctionOnSet(w, Q)
           N == {n \in Nat : \A Q \in SUBSET S : R \subseteq Q /\ Cardinality(Q) = n => Sum(R) <= Sum(Q)}
<1>1. \A Q \in SUBSET S : IsFiniteSet(Q) /\ Cardinality(Q) \in Nat /\ Q \in SUBSET I /\ Sum(Q) \in Nat
  BY FS_Subset, FS_CardinalityType, SumChosen
<1>2. 0 \in N
  <2>1. \A Q \in SUBSET S : R \subseteq Q /\ Cardinality(Q) = 0 => Q = R
    BY <1>1, FS_EmptySet
  <2> QED
    BY <1>1, <2>1
<1>3. \A n \in Nat : n \in N => n + 1 \in N
  <2> SUFFICES ASSUME NEW n \in Nat, n \in N PROVE n + 1 \in N
    OBVIOUS
  <2>1. \A Q \in SUBSET S : R \subseteq Q /\ Cardinality(Q) = n => Sum(R) <= Sum(Q)
    OBVIOUS
  <2>2. ASSUME NEW Q \in SUBSET S, R \subseteq Q, Cardinality(Q) = n + 1 PROVE Sum(R) <= Sum(Q)
    <3>1. CASE Q = R
      BY <1>1, <3>1
    <3>2. ASSUME NEW x \in Q \ R PROVE Sum(R) <= Sum(Q)
      <4>1. Q \ {x} \in SUBSET S /\ R \subseteq Q \ {x} /\ Cardinality(Q \ {x}) = n
        <5>1. x \in Q /\ IsFiniteSet(Q) /\ Cardinality(Q) = n + 1
          BY <1>1, <2>2, <3>2
        <5>2. Cardinality(Q \ {x}) = Cardinality(Q) - 1
          BY <5>1, FS_RemoveElement
        <5> QED
          BY <2>2, <3>2, <5>1, <5>2
      <4>2. Sum(R) <= Sum(Q \ {x})
        BY <2>1, <4>1
      <4>3. Sum(Q) = w[x] + Sum(Q \ {x})
        BY <1>1, SumAny
      <4>4. Sum(R) \in Nat /\ Sum(Q \ {x}) \in Nat /\ w[x] \in Nat
        BY <1>1, <4>1
      <4> HIDE DEF Sum
      <4> QED
        BY <4>2, <4>3, <4>4
    <3> QED
      BY <2>2, <3>1, <3>2
  <2>3. n + 1 \in Nat
    OBVIOUS
  <2> QED
    BY <2>2, <2>3
<1> HIDE DEF N
<1>4. Nat \subseteq N
  BY <1>2, <1>3, SetInduction
<1>5. Cardinality(S) \in N /\ S \in SUBSET S
  BY <1>1, <1>4
<1> QED
  BY <1>5 DEF N

\* A sum of ones counts.
LEMMA SumCounts ==
    ASSUME NEW I, NEW w \in [I -> {1}], NEW S \in SUBSET I, IsFiniteSet(S)
    PROVE SumFunctionOnSet(w, S) = Cardinality(S)
<1> DEFINE Sum(Q) == SumFunctionOnSet(w, Q)
           N == {n \in Nat : \A Q \in SUBSET S : Cardinality(Q) = n => Sum(Q) = n}
<1>1. w \in [I -> Nat]
  OBVIOUS
<1>2. \A Q \in SUBSET S : IsFiniteSet(Q) /\ Cardinality(Q) \in Nat /\ Q \in SUBSET I /\ Sum(Q) \in Nat
  BY <1>1, FS_Subset, FS_CardinalityType, SumChosen
<1>3. 0 \in N
  <2>1. \A Q \in SUBSET S : Cardinality(Q) = 0 => Q = {}
    BY <1>2, FS_EmptySet
  <2>2. \A Q \in SUBSET S : Q = {} => Sum(Q) = 0
    BY <1>1, <1>2, SumChosen
  <2> QED
    BY <2>1, <2>2
<1>4. \A n \in Nat : n \in N => n + 1 \in N
  <2> SUFFICES ASSUME NEW n \in Nat, n \in N PROVE n + 1 \in N
    OBVIOUS
  <2>1. \A Q \in SUBSET S : Cardinality(Q) = n => Sum(Q) = n
    OBVIOUS
  <2>2. ASSUME NEW Q \in SUBSET S, Cardinality(Q) = n + 1 PROVE Sum(Q) = n + 1
    <3>1. PICK x \in Q : TRUE
      BY <1>2, <2>2, FS_EmptySet
    <3>2. Q \ {x} \in SUBSET S /\ Cardinality(Q \ {x}) = n
      <4>1. x \in Q /\ IsFiniteSet(Q) /\ Cardinality(Q) = n + 1
        BY <1>2, <2>2, <3>1
      <4>2. Cardinality(Q \ {x}) = Cardinality(Q) - 1
        BY <4>1, FS_RemoveElement
      <4> QED
        BY <4>1, <4>2
    <3>3. Sum(Q) = w[x] + Sum(Q \ {x})
      BY <1>1, <1>2, SumAny
    <3>4. Sum(Q \ {x}) = n
      BY <2>1, <3>2
    <3>5. w[x] = 1
      OBVIOUS
    <3> HIDE DEF Sum
    <3> QED
      BY <3>3, <3>4, <3>5
  <2>3. n + 1 \in Nat
    OBVIOUS
  <2> QED
    BY <2>2, <2>3
<1> HIDE DEF N
<1>5. Nat \subseteq N
  BY <1>3, <1>4, SetInduction
<1>6. Cardinality(S) \in N /\ S \in SUBSET S
  BY <1>2, <1>5
<1> QED
  BY <1>6 DEF N

-----------------------------------------------------------------------------
(* Division, and the arithmetic of thresholds. *)

Positive == Nat \ {0}

Divides(d, n) == \E q \in Nat : n = d * q

\* Division with a remainder.
LEMMA Remainder ==
    ASSUME NEW a \in Nat, NEW b \in Positive
    PROVE /\ a % b \in Nat /\ a % b < b
          /\ a \div b \in Nat
          /\ a = b * (a \div b) + (a % b)
BY DEF Positive

\* Remainders are smaller than the divisor.
LEMMA Remainders ==
    ASSUME NEW n \in Nat, NEW b \in 1 .. n + 1
    PROVE \A a \in Nat : a % b \in 0 .. n
OBVIOUS

\* Division that leaves no remainder.
LEMMA Exact ==
    ASSUME NEW g \in Positive, NEW m \in Nat
    PROVE (g * m) \div g = m
<1>1. g * m \in Nat
  BY DEF Positive
<1>2. PICK q \in Nat : q = (g * m) \div g
  BY <1>1, Remainder
<1>3. PICK r \in Nat : r < g /\ g * m = g * q + r
  BY <1>1, <1>2, Remainder
<1>4. ~(q > m)
  <2> SUFFICES ASSUME q > m PROVE FALSE
    OBVIOUS
  <2>1. PICK d \in Nat : q = m + 1 + d
    BY q - m - 1 \in Nat, q = m + 1 + (q - m - 1)
  <2>2. g * q = g * m + g + g * d /\ g * d \in Nat /\ g * m \in Nat
    BY <2>1 DEF Positive
  <2> QED
    BY <1>3, <2>2 DEF Positive
<1>5. ~(q < m)
  <2> SUFFICES ASSUME q < m PROVE FALSE
    OBVIOUS
  <2>1. PICK d \in Nat : m = q + 1 + d
    BY m - q - 1 \in Nat, m = q + 1 + (m - q - 1)
  <2>2. g * m = g * q + g + g * d /\ g * d \in Nat /\ g * q \in Nat
    BY <2>1 DEF Positive
  <2> QED
    BY <1>3, <2>2 DEF Positive
<1> QED
  BY <1>2, <1>4, <1>5

\* What divides two numbers divides what division makes of them.
LEMMA DividesRecombined ==
    ASSUME NEW d \in Nat, NEW b \in Nat, NEW q \in Nat, NEW r \in Nat, Divides(d, b), Divides(d, r)
    PROVE Divides(d, b * q + r)
<1>1. PICK x \in Nat : b = d * x
  BY DEF Divides
<1>2. PICK y \in Nat : r = d * y
  BY DEF Divides
<1>3. x * q + y \in Nat
  OBVIOUS
<1>4. b * q + r = d * (x * q + y)
  <2>1. b * q = (d * x) * q
    BY <1>1
  <2>2. (d * x) * q = d * (x * q)
    OBVIOUS
  <2>3. x * q \in Nat
    OBVIOUS
  <2>4. d * (x * q + y) = d * (x * q) + d * y
    BY <2>3
  <2> QED
    BY <1>2, <2>1, <2>2, <2>4
<1> QED
  BY <1>3, <1>4 DEF Divides

\* Divisors of divisors divide.
LEMMA DividesTrans ==
    ASSUME NEW a \in Nat, NEW b \in Nat, NEW c \in Nat, Divides(a, b), Divides(b, c)
    PROVE Divides(a, c)
<1>1. PICK x \in Nat : b = a * x
  BY DEF Divides
<1>2. PICK y \in Nat : c = b * y
  BY DEF Divides
<1>3. c = a * (x * y) /\ x * y \in Nat
  <2>1. c = (a * x) * y
    BY <1>1, <1>2
  <2> QED
    BY <2>1
<1> QED
  BY <1>3 DEF Divides

\* Euclid's loop, as a function of the divisor.
Euclid(f, n) ==
    \A b \in 0 .. n : f[b] = [a \in Nat |-> IF b = 0 THEN a ELSE f[a % b][b]]

\* Euclid's loop has one result.
LEMMA EuclidUnique ==
    ASSUME NEW n \in Nat, NEW f, NEW g, Euclid(f, n), Euclid(g, n)
    PROVE \A b \in 0 .. n : f[b] = g[b]
<1> DEFINE N == {m \in Nat : \A b \in 0 .. m : b <= n => f[b] = g[b]}
<1>1. 0 \in N
  <2>1. 0 \in 0 .. n /\ \A b \in 0 .. 0 : b = 0
    OBVIOUS
  <2>2. f[0] = [a \in Nat |-> a]
    BY <2>1 DEF Euclid
  <2>3. g[0] = [a \in Nat |-> a]
    BY <2>1 DEF Euclid
  <2> QED
    BY <2>1, <2>2, <2>3
<1>2. \A m \in Nat : m \in N => m + 1 \in N
  <2> SUFFICES ASSUME NEW m \in Nat, m \in N PROVE m + 1 \in N
    OBVIOUS
  <2>1. \A b \in 0 .. m : b <= n => f[b] = g[b]
    OBVIOUS
  <2>2. ASSUME m + 1 <= n PROVE f[m + 1] = g[m + 1]
    <3>1. \A a \in Nat : a % (m + 1) \in 0 .. m
      <4>1. m + 1 \in 1 .. m + 1
        OBVIOUS
      <4> QED
        BY <4>1, Remainders
    <3>2. m + 1 \in 0 .. n /\ m + 1 # 0
      BY <2>2
    <3>3. f[m + 1] = [a \in Nat |-> f[a % (m + 1)][m + 1]]
      BY <3>2 DEF Euclid
    <3>4. g[m + 1] = [a \in Nat |-> g[a % (m + 1)][m + 1]]
      BY <3>2 DEF Euclid
    <3>5. \A a \in Nat : f[a % (m + 1)] = g[a % (m + 1)]
      BY <2>1, <2>2, <3>1
    <3> QED
      BY <3>3, <3>4, <3>5
  <2>3. m + 1 \in Nat /\ \A b \in 0 .. m + 1 : b \in 0 .. m \/ b = m + 1
    OBVIOUS
  <2> QED
    BY <2>1, <2>2, <2>3
<1> HIDE DEF N
<1>3. n \in N
  BY <1>1, <1>2, SetInduction
<1> QED
  BY <1>3 DEF N

\* Euclid's loop ends, as remainders get smaller.
LEMMA EuclidBounded ==
    ASSUME NEW n \in Nat
    PROVE \E f : Euclid(f, n)
<1> DEFINE N == {m \in Nat : \E f : Euclid(f, m)}
<1>1. 0 \in N
  <2> DEFINE f == [b \in Nat |-> [a \in Nat |-> a]]
  <2>1. Euclid(f, 0)
    BY DEF Euclid
  <2> QED
    BY <2>1
<1>2. \A m \in Nat : m \in N => m + 1 \in N
  <2> SUFFICES ASSUME NEW m \in Nat, m \in N PROVE m + 1 \in N
    OBVIOUS
  <2>1. PICK f : Euclid(f, m)
    OBVIOUS
  <2> DEFINE g == [b \in Nat |-> IF b <= m THEN f[b] ELSE [a \in Nat |-> f[a % b][b]]]
  <2>2. \A b \in 0 .. m : g[b] = f[b]
    OBVIOUS
  <2>3. \A b \in 0 .. m : g[b] = [a \in Nat |-> IF b = 0 THEN a ELSE g[a % b][b]]
    <3> SUFFICES ASSUME NEW b \in 0 .. m PROVE g[b] = [a \in Nat |-> IF b = 0 THEN a ELSE g[a % b][b]]
      OBVIOUS
    <3>1. f[b] = [a \in Nat |-> IF b = 0 THEN a ELSE f[a % b][b]]
      BY <2>1 DEF Euclid
    <3>2. b # 0 => \A a \in Nat : a % b \in 0 .. m
      <4>1. b # 0 => b \in 1 .. m + 1
        OBVIOUS
      <4> QED
        BY <4>1, Remainders
    <3> HIDE DEF g
    <3>3. b # 0 => \A a \in Nat : g[a % b] = f[a % b]
      BY <2>2, <3>2
    <3> QED
      BY <2>2, <3>1, <3>3
  <2>4. g[m + 1] = [a \in Nat |-> g[a % (m + 1)][m + 1]]
    <3>1. m + 1 \in 1 .. m + 1 /\ m + 1 \in Nat /\ ~(m + 1 <= m)
      OBVIOUS
    <3>2. \A a \in Nat : a % (m + 1) \in 0 .. m
      BY <3>1, Remainders
    <3>3. g[m + 1] = [a \in Nat |-> f[a % (m + 1)][m + 1]]
      BY <3>1
    <3> HIDE DEF g
    <3>4. \A a \in Nat : g[a % (m + 1)] = f[a % (m + 1)]
      BY <2>2, <3>2
    <3> QED
      BY <3>3, <3>4
  <2> HIDE DEF g
  <2>5. m + 1 \in Nat /\ \A b \in 0 .. m + 1 : b \in 0 .. m \/ b = m + 1
    OBVIOUS
  <2>6. Euclid(g, m + 1)
    <3> SUFFICES ASSUME NEW b \in 0 .. m + 1
                 PROVE g[b] = [a \in Nat |-> IF b = 0 THEN a ELSE g[a % b][b]]
      BY DEF Euclid
    <3>1. CASE b \in 0 .. m
      BY <2>3, <3>1
    <3>2. CASE b = m + 1
      <4>1. b # 0
        BY <3>2
      <4> QED
        BY <2>4, <3>2, <4>1
    <3> QED
      BY <2>5, <3>1, <3>2
  <2> QED
    BY <2>5, <2>6
<1> HIDE DEF N
<1>3. n \in N
  BY <1>1, <1>2, SetInduction
<1> QED
  BY <1>3 DEF N

\* GreatestCommonDivisor is what its definition says.
LEMMA GcdEquation ==
    \A b \in Nat : GreatestCommonDivisor[b]
        = [a \in Nat |-> IF b = 0 THEN a ELSE GreatestCommonDivisor[a % b][b]]
<1> DEFINE F(n) == CHOOSE f : Euclid(f, n)
           f == [b \in Nat |-> F(b)[b]]
<1>1. \A n \in Nat : Euclid(F(n), n)
  BY EuclidBounded
<1> HIDE DEF F
<1>2. \A n \in Nat : \A b \in 0 .. n : F(n)[b] = F(b)[b]
  <2> SUFFICES ASSUME NEW n \in Nat, NEW b \in 0 .. n PROVE F(n)[b] = F(b)[b]
    OBVIOUS
  <2>1. Euclid(F(n), n) /\ Euclid(F(b), b) /\ b \in Nat
    BY <1>1
  <2>2. Euclid(F(n), b)
    BY <2>1 DEF Euclid
  <2>3. b \in 0 .. b
    OBVIOUS
  <2> QED
    BY <2>1, <2>2, <2>3, EuclidUnique
<1>3. \A b \in Nat : f[b] = [a \in Nat |-> IF b = 0 THEN a ELSE f[a % b][b]]
  <2> SUFFICES ASSUME NEW b \in Nat PROVE f[b] = [a \in Nat |-> IF b = 0 THEN a ELSE f[a % b][b]]
    OBVIOUS
  <2>1. F(b)[b] = [a \in Nat |-> IF b = 0 THEN a ELSE F(b)[a % b][b]]
    BY <1>1 DEF Euclid
  <2>2. b # 0 => \A a \in Nat : a % b \in 0 .. b /\ a % b \in Nat
    <3>1. b # 0 => b \in 1 .. b + 1
      OBVIOUS
    <3>2. b # 0 => \A a \in Nat : a % b \in 0 .. b
      BY <3>1, Remainders
    <3> QED
      BY <3>2
  <2>3. b # 0 => \A a \in Nat : f[a % b] = F(b)[a % b]
    BY <1>2, <2>2
  <2> QED
    BY <2>1, <2>3
<1>4. f = [b \in Nat |-> [a \in Nat |-> IF b = 0 THEN a ELSE f[a % b][b]]]
  BY <1>3
<1> HIDE DEF f
<1>5. GreatestCommonDivisor
        = [b \in Nat |-> [a \in Nat |-> IF b = 0 THEN a ELSE GreatestCommonDivisor[a % b][b]]]
  BY <1>4 DEF GreatestCommonDivisor
<1> QED
  BY <1>5

\* The greatest common divisor divides both numbers.
LEMMA GcdDivides ==
    ASSUME NEW a \in Nat, NEW b \in Nat
    PROVE LET g == GreatestCommonDivisor[b][a] IN
          /\ g \in Nat /\ Divides(g, a) /\ Divides(g, b)
          /\ a > 0 \/ b > 0 => g > 0
<1> DEFINE Right(g, i, j) == /\ g \in Nat /\ Divides(g, i) /\ Divides(g, j)
                             /\ i > 0 \/ j > 0 => g > 0
           N == {n \in Nat : \A j \in 0 .. n : \A i \in Nat : Right(GreatestCommonDivisor[j][i], i, j)}
<1>1. 0 \in N
  <2> SUFFICES ASSUME NEW i \in Nat PROVE Right(GreatestCommonDivisor[0][i], i, 0)
    OBVIOUS
  <2>1. GreatestCommonDivisor[0] = [k \in Nat |-> IF 0 = 0 THEN k ELSE GreatestCommonDivisor[k % 0][0]]
    BY 0 \in Nat, GcdEquation
  <2>2. GreatestCommonDivisor[0][i] = i
    BY <2>1
  <2>3. i = i * 1 /\ 0 = i * 0
    OBVIOUS
  <2> QED
    BY <2>2, <2>3 DEF Divides
<1>2. \A n \in Nat : n \in N => n + 1 \in N
  <2> SUFFICES ASSUME NEW n \in Nat, n \in N PROVE n + 1 \in N
    OBVIOUS
  <2>1. \A j \in 0 .. n : \A i \in Nat : Right(GreatestCommonDivisor[j][i], i, j)
    OBVIOUS
  <2>2. PICK j \in Positive : j = n + 1
    BY DEF Positive
  <2>3. ASSUME NEW i \in Nat PROVE Right(GreatestCommonDivisor[j][i], i, j)
    <3>1. PICK r \in 0 .. n : r = i % j
      <4>1. j \in 1 .. n + 1
        BY <2>2
      <4> QED
        BY <4>1, Remainders
    <3>2. PICK q \in Nat : i = j * q + r
      BY <3>1, Remainder
    <3>3. j \in Nat /\ j # 0 /\ j > 0 /\ r \in Nat
      BY DEF Positive
    <3>4. PICK g : g = GreatestCommonDivisor[r][j]
      OBVIOUS
    <3>5. GreatestCommonDivisor[j][i] = g
      BY <3>1, <3>3, <3>4, GcdEquation
    <3>6. g \in Nat /\ Divides(g, j) /\ Divides(g, r) /\ g > 0
      BY <2>1, <3>3, <3>4
    <3>7. Divides(g, i)
      BY <3>2, <3>3, <3>6, DividesRecombined
    <3> QED
      BY <3>5, <3>6, <3>7
  <2> HIDE DEF Right
  <2>4. n + 1 \in Nat /\ \A k \in 0 .. n + 1 : k \in 0 .. n \/ k = n + 1
    OBVIOUS
  <2> QED
    BY <2>1, <2>2, <2>3, <2>4
<1> HIDE DEF N
<1>3. b \in N
  BY <1>1, <1>2, SetInduction
<1>4. Right(GreatestCommonDivisor[b][a], a, b)
  BY <1>3 DEF N
<1> QED
  BY <1>4

\* What one step of findLeastCommonDenominator makes is a common multiple.
LEMMA CommonMultiple ==
    ASSUME NEW l \in Positive, NEW v \in Positive
    PROVE LET c == (l * v) \div GreatestCommonDivisor[v][l] IN
          c \in Positive /\ Divides(l, c) /\ Divides(v, c)
<1>1. l \in Nat /\ v \in Nat /\ l > 0 /\ v > 0
  BY DEF Positive
<1>2. PICK g \in Positive : g = GreatestCommonDivisor[v][l] /\ Divides(g, l) /\ Divides(g, v)
  BY <1>1, GcdDivides DEF Positive
<1>3. PICK q \in Nat : v = g * q
  BY <1>2 DEF Divides
<1>4. PICK r \in Nat : l = g * r
  BY <1>2 DEF Divides
<1>5. g \in Nat /\ g > 0
  BY DEF Positive
<1>6. l * v = g * (l * q) /\ l * q \in Nat
  <2>1. l * v = l * (g * q)
    BY <1>3
  <2>2. l * (g * q) = g * (l * q)
    BY <1>1, <1>5
  <2> QED
    BY <1>1, <2>1, <2>2
<1>7. (l * v) \div g = l * q
  BY <1>6, Exact
<1>8. l * q = v * r
  <2>1. l * q = (g * r) * q
    BY <1>4
  <2>2. (g * r) * q = (g * q) * r
    BY <1>5
  <2> QED
    BY <1>3, <2>1, <2>2
<1>9. q # 0
  BY <1>1, <1>3, <1>5
<1>10. l * q # 0
  BY <1>1, <1>9
<1>11. l * q \in Positive /\ Divides(l, l * q) /\ Divides(v, l * q)
  BY <1>6, <1>8, <1>10 DEF Positive, Divides
<1> QED
  BY <1>2, <1>7, <1>11

\* findLeastCommonDenominator: a positive number that every denominator divides.
LEMMA CommonDenominator ==
    ASSUME NEW D, IsFiniteSet(D), NEW d \in [D -> Positive]
    PROVE /\ LeastCommonDenominator(d) \in Positive
          /\ \A x \in D : Divides(d[x], LeastCommonDenominator(d))
<1> DEFINE step == [p \in Positive \X Positive |-> (p[2] * p[1]) \div GreatestCommonDivisor[p[1]][p[2]]]
           Folds(f) == f = [s \in SUBSET D |-> IF s = {} THEN 1
                              ELSE (f[s \ {Chosen(s)}] * d[Chosen(s)])
                                     \div GreatestCommonDivisor[d[Chosen(s)]][f[s \ {Chosen(s)}]]]
<1>1. \A s \in SUBSET D : s # {} => Chosen(s) \in D /\ s \ {Chosen(s)} \in SUBSET D
  BY FS_Subset, ChosenRest
<1>2. \E f : Folds(f)
  <2>1. step \in [Positive \X Positive -> Positive]
    BY CommonMultiple
  <2>2. \A v, l \in Positive : step[<<v, l>>] = (l * v) \div GreatestCommonDivisor[v][l]
    OBVIOUS
  <2>3. 1 \in Positive
    BY DEF Positive
  <2> HIDE DEF step
  <2>4. PICK f \in [SUBSET D -> Positive] : FoldsWith(f, D, d, step, 1)
    BY <2>1, <2>3, FoldExists
  <2>5. Folds(f)
    BY <1>1, <2>2, <2>4 DEF FoldsWith
  <2> QED
    BY <2>5
<1>3. LeastCommonDenominator(d) = (CHOOSE f : Folds(f))[D]
  <2>1. DOMAIN d = D
    OBVIOUS
  <2> QED
    BY <2>1 DEF LeastCommonDenominator, FoldFunction, FoldFunctionOnSet, MapThenFoldSet, Chosen
<1>4. PICK f : Folds(f) /\ LeastCommonDenominator(d) = f[D]
  BY <1>2, <1>3
<1> DEFINE Common(s) == f[s] \in Positive /\ \A x \in s : Divides(d[x], f[s])
           N == {n \in Nat : \A s \in SUBSET D : Cardinality(s) = n => Common(s)}
<1>5. \A s \in SUBSET D : IsFiniteSet(s) /\ Cardinality(s) \in Nat
  BY FS_Subset, FS_CardinalityType
<1>6. 0 \in N
  <2>1. \A s \in SUBSET D : Cardinality(s) = 0 => s = {}
    BY <1>5, FS_EmptySet
  <2>2. f[{}] = 1
    BY <1>4
  <2>3. 1 \in Positive
    BY DEF Positive
  <2> QED
    BY <2>1, <2>2, <2>3
<1>7. \A n \in Nat : n \in N => n + 1 \in N
  <2> SUFFICES ASSUME NEW n \in Nat, n \in N PROVE n + 1 \in N
    OBVIOUS
  <2>1. \A s \in SUBSET D : Cardinality(s) = n => Common(s)
    OBVIOUS
  <2>2. ASSUME NEW s \in SUBSET D, Cardinality(s) = n + 1 PROVE Common(s)
    <3>1. s # {} /\ IsFiniteSet(s)
      BY <1>5, <2>2, FS_EmptySet
    <3>2. PICK c \in s : c = Chosen(s) /\ Cardinality(s \ {c}) = n
      BY <2>2, <3>1, ChosenRest
    <3>3. PICK t \in SUBSET D : t = s \ {c}
      OBVIOUS
    <3>4. Common(t)
      BY <2>1, <3>2, <3>3
    <3>5. PICK l \in Positive : l = f[t]
      BY <3>4
    <3>6. PICK v \in Positive : v = d[c]
      OBVIOUS
    <3>7. f[s] = (l * v) \div GreatestCommonDivisor[v][l]
      BY <1>4, <3>1, <3>2, <3>3, <3>5, <3>6
    <3>8. f[s] \in Positive /\ Divides(l, f[s]) /\ Divides(v, f[s])
      BY <3>7, CommonMultiple
    <3>9. ASSUME NEW x \in s PROVE Divides(d[x], f[s])
      <4>1. CASE x = c
        BY <3>6, <3>8, <4>1
      <4>2. CASE x # c
        <5>1. x \in t
          BY <3>3, <4>2
        <5>2. Divides(d[x], l) /\ d[x] \in Nat /\ l \in Nat /\ f[s] \in Nat
          BY <3>4, <3>5, <3>8, <5>1 DEF Positive
        <5> QED
          BY <3>8, <5>2, DividesTrans
      <4> QED
        BY <4>1, <4>2
    <3> QED
      BY <3>8, <3>9
  <2>3. n + 1 \in Nat
    OBVIOUS
  <2> QED
    BY <2>2, <2>3
<1> HIDE DEF N
<1>8. Cardinality(D) \in N
  BY <1>5, <1>6, <1>7, SetInduction
<1>9. Common(D)
  BY <1>8 DEF N
<1> QED
  BY <1>4, <1>9

\* The sum of nothing.
LEMMA SumEmpty == \A w : SumFunctionOnSet(w, {}) = 0
<1> SUFFICES ASSUME NEW w PROVE SumFunctionOnSet(w, {}) = 0
  OBVIOUS
<1> DEFINE v == [x \in {} |-> 0]
<1>1. v \in [{} -> Nat] /\ \A x \in {} : w[x] = v[x]
  OBVIOUS
<1>2. IsFiniteSet({})
  BY FS_EmptySet
<1> HIDE DEF v
<1>3. PICK f : Sums(f, {}, w) /\ SumFunctionOnSet(w, {}) = f[{}]
  BY <1>1, <1>2, SumIs
<1> QED
  BY <1>3 DEF Sums

\* The weights and the sum of a threshold that parses are natural numbers, and
\* nothing at all does not reach it.
LEMMA Parsed ==
    ASSUME NEW kt, IsThreshold(kt), NEW n \in Nat, ParseableThreshold(kt, n)
    PROVE LET p == ParseThreshold(kt, n) IN
          /\ p.required \in Positive
          /\ p.weights \in [DOMAIN p.weights -> Nat]
<1>1. CASE kt.kind = "simple"
  <2>1. kt.m \in 1 .. n
    BY <1>1 DEF ParseableThreshold
  <2>2. ParseThreshold(kt, n) = [required |-> kt.m, weights |-> [x \in 1 .. n |-> 1]]
    BY <1>1 DEF ParseThreshold
  <2> QED
    BY <2>1, <2>2 DEF Positive
<1>2. CASE kt.kind = "weighted"
  <2> DEFINE f == kt.fractions
             d == [x \in DOMAIN f |-> f[x][2]]
             l == LeastCommonDenominator(d)
  <2>1. f \in Seq(Nat \X Nat) /\ \A x \in DOMAIN f : f[x][1] > 0 /\ f[x][2] > 0
    BY <1>2 DEF IsThreshold, ParseableThreshold, WellFormedFractions
  <2>2. DOMAIN f = 1 .. Len(f) /\ Len(f) \in Nat
    BY <2>1
  <2>3. \A x \in DOMAIN f : f[x] \in Nat \X Nat
    BY <2>1
  <2>4. \A x \in DOMAIN f : f[x][1] \in Nat /\ f[x][2] \in Positive
    BY <2>1, <2>3 DEF Positive
  <2>5. d \in [DOMAIN f -> Positive]
    BY <2>4
  <2> HIDE DEF f, d, l
  <2>6. IsFiniteSet(DOMAIN f)
    <3>1. IsFiniteSet(1 .. Len(f))
      BY <2>2, FS_Interval
    <3> QED
      BY <2>2, <3>1
  <2>7. l \in Positive
    BY <2>5, <2>6, CommonDenominator DEF l
  <2>8. ParseThreshold(kt, n) = [required |-> l, weights |-> [x \in DOMAIN f |-> (f[x][1] * l) \div f[x][2]]]
    BY <1>2 DEF ParseThreshold, f, d, l
  <2>9. \A x \in DOMAIN f : (f[x][1] * l) \div f[x][2] \in Nat
    <3> SUFFICES ASSUME NEW x \in DOMAIN f PROVE (f[x][1] * l) \div f[x][2] \in Nat
      OBVIOUS
    <3>1. f[x][1] * l \in Nat
      BY <2>4, <2>7 DEF Positive
    <3> QED
      BY <2>4, <3>1, Remainder
  <2> QED
    BY <2>7, <2>8, <2>9
<1> QED
  BY <1>1, <1>2 DEF IsThreshold

\* verifyThreshold accepts nothing without one valid signature.
LEMMA SignatureNeeded ==
    ASSUME NEW K, NEW keys \in Seq(K), NEW kt, IsThreshold(kt), NEW sigs,
           VerifyThreshold(keys, kt, sigs)
    PROVE \E z \in DOMAIN sigs : z \in DOMAIN keys /\ sigs[z] = keys[z]
<1> DEFINE p == ParseThreshold(kt, Len(keys))
           I == SignedIndices(keys, sigs)
<1>1. Len(keys) \in Nat
  OBVIOUS
<1>2. /\ ParseableThreshold(kt, Len(keys))
      /\ SignaturesValid(keys, sigs)
      /\ SumMeets(p.weights, p.required, I)
  BY DEF VerifyThreshold
<1>3. p.required \in Positive
  BY <1>1, <1>2, Parsed
<1>4. ASSUME I = {} PROVE FALSE
  <2> HIDE DEF p, I
  <2>1. SumFunctionOnSet(p.weights, I) = 0
    BY <1>4, SumEmpty
  <2>2. SumFunctionOnSet(p.weights, I) >= p.required
    BY <1>2, <1>4 DEF SumMeets
  <2> QED
    BY <1>3, <2>1, <2>2 DEF Positive
<1>5. PICK z \in I : TRUE
  BY <1>4
<1> QED
  BY <1>2, <1>5 DEF SignedIndices, SignaturesValid

\* verifyThreshold accepts a number of signatures only when there are that many.
LEMMA SignaturesCounted ==
    ASSUME NEW K, NEW keys \in Seq(K), NEW m \in Nat, NEW sigs,
           VerifyThreshold(keys, Simple(m), sigs)
    PROVE Cardinality({z \in DOMAIN sigs : z \in DOMAIN keys /\ sigs[z] = keys[z]}) >= m
<1> DEFINE n == Len(keys)
           w == [x \in 1 .. n |-> 1]
           I == SignedIndices(keys, sigs)
<1>1. n \in Nat /\ DOMAIN keys = 1 .. n
  OBVIOUS
<1>2. ParseThreshold(Simple(m), n) = [required |-> m, weights |-> w]
  BY DEF ParseThreshold, Simple
<1>3. SignaturesValid(keys, sigs) /\ SumMeets(w, m, I)
  BY <1>2 DEF VerifyThreshold
<1>4. I \in SUBSET (1 .. n) /\ w \in [1 .. n -> {1}] /\ DOMAIN w = 1 .. n
  BY <1>1 DEF SignedIndices
<1>5. I = {z \in DOMAIN sigs : z \in DOMAIN keys /\ sigs[z] = keys[z]}
  BY <1>3 DEF SignedIndices, SignaturesValid
<1>6. IsFiniteSet(I)
  <2>1. IsFiniteSet(1 .. n)
    BY <1>1, FS_Interval
  <2> HIDE DEF I
  <2> QED
    BY <1>4, <2>1, FS_Subset
<1> HIDE DEF w, I, n
<1>7. SumFunctionOnSet(w, I) = Cardinality(I)
  BY <1>4, <1>6, SumCounts
<1>8. SumFunctionOnSet(w, I) >= m
  BY <1>3, <1>4 DEF SumMeets
<1> QED
  BY <1>5, <1>7, <1>8

-----------------------------------------------------------------------------
(* Lists of backers: what RotatedBackers keeps.                            *)

\* A longer prefix of a sequence is the shorter one with one more element.
LEMMA Prefixed ==
    ASSUME NEW S, NEW s \in Seq(S), NEW n \in Nat, n + 1 <= Len(s)
    PROVE /\ SubSeq(s, 1, n) \in Seq(S)
          /\ s[n + 1] \in S
          /\ SubSeq(s, 1, n + 1) = Append(SubSeq(s, 1, n), s[n + 1])
<1>1. Len(s) \in Nat /\ n + 1 \in 1 .. Len(s)
  BY LenProperties
<1>2. SubSeq(s, 1, n) \in Seq(S) /\ s[n + 1] \in S
  BY <1>1, ElementOfSeq, SubSeqProperties
<1>3. SubSeq(s, 1, n + 1) = SubSeq(s, 1, n) \o <<s[n + 1]>>
  BY <1>1, SubSeqRecursiveSecond
<1> QED
  BY <1>2, <1>3, AppendIsConcat

\* kept takes the list apart from its end.
KeptStep(list, cut, kept, x) ==
    IF x = 0 THEN <<>>
    ELSE IF list[x] \in cut THEN kept[x - 1] ELSE Append(kept[x - 1], list[x])

\* What Without computes, from the front of the list to its end.
LEMMA WithoutEquation ==
    ASSUME NEW S, NEW list \in Seq(S), NEW cut
    PROVE \E kept : /\ Without(list, cut) = kept[Len(list)]
                    /\ \A x \in 0 .. Len(list) : kept[x] = KeptStep(list, cut, kept, x)
<1> DEFINE Kept(f, n) == \A x \in 0 .. n : f[x] = KeptStep(list, cut, f, x)
           N == {n \in Nat : n <= Len(list) => \E f : Kept(f, n)}
<1>1. Len(list) \in Nat /\ \A x \in 1 .. Len(list) : list[x] \in S
  OBVIOUS
<1>2. 0 \in N
  <2> DEFINE f == [x \in 0 .. 0 |-> <<>>]
  <2>1. Kept(f, 0)
    BY DEF KeptStep
  <2> QED
    BY <2>1
<1>3. \A n \in Nat : n \in N => n + 1 \in N
  <2> SUFFICES ASSUME NEW n \in Nat, n \in N, n + 1 <= Len(list) PROVE \E f : Kept(f, n + 1)
    BY \A n \in Nat : n + 1 \in Nat
  <2>1. n <= Len(list)
    BY <1>1
  <2>2. PICK f : Kept(f, n)
    BY <2>1
  <2> DEFINE g == [x \in 0 .. n + 1 |-> IF x = n + 1 THEN KeptStep(list, cut, f, x) ELSE f[x]]
  <2>3. \A x \in 0 .. n : g[x] = f[x]
    OBVIOUS
  <2>4. g[n + 1] = KeptStep(list, cut, f, n + 1)
    OBVIOUS
  <2> HIDE DEF g
  <2>5. \A x \in 0 .. n + 1 : KeptStep(list, cut, g, x) = KeptStep(list, cut, f, x)
    <3> SUFFICES ASSUME NEW x \in 0 .. n + 1 PROVE KeptStep(list, cut, g, x) = KeptStep(list, cut, f, x)
      OBVIOUS
    <3>1. x # 0 => x - 1 \in 0 .. n
      OBVIOUS
    <3>2. x # 0 => g[x - 1] = f[x - 1]
      BY <2>3, <3>1
    <3> QED
      BY <3>2 DEF KeptStep
  <2>6. \A x \in 0 .. n + 1 : x \in 0 .. n \/ x = n + 1
    OBVIOUS
  <2>7. Kept(g, n + 1)
    BY <2>2, <2>3, <2>4, <2>5, <2>6
  <2> QED
    BY <2>7
<1> HIDE DEF N
<1>4. Len(list) \in N
  BY <1>1, <1>2, <1>3, SetInduction
<1>5. PICK f : Kept(f, Len(list))
  BY <1>1, <1>4 DEF N
<1> DEFINE IsKept(g) == g = [x \in 0 .. Len(list) |->
                                IF x = 0 THEN <<>>
                                ELSE IF list[x] \in cut THEN g[x - 1] ELSE Append(g[x - 1], list[x])]
<1>6. \E g : IsKept(g)
  <2> DEFINE g == [x \in 0 .. Len(list) |-> f[x]]
  <2>1. \A x \in 0 .. Len(list) : x # 0 => g[x - 1] = f[x - 1]
    BY <1>1
  <2>2. \A x \in 0 .. Len(list) : g[x] = KeptStep(list, cut, f, x)
    BY <1>5
  <2>3. \A x \in 0 .. Len(list) : KeptStep(list, cut, f, x) = KeptStep(list, cut, g, x)
    BY <2>1 DEF KeptStep
  <2>4. g = [x \in 0 .. Len(list) |-> g[x]]
    OBVIOUS
  <2> HIDE DEF g
  <2>5. IsKept(g)
    BY <2>2, <2>3, <2>4 DEF KeptStep
  <2> QED
    BY <2>5
<1>7. PICK g : IsKept(g) /\ Without(list, cut) = g[Len(list)]
  BY <1>6 DEF Without
<1> QED
  BY <1>7 DEF KeptStep

\* Filtering a list leaves a list.
LEMMA WithoutIsSequence ==
    ASSUME NEW S, NEW list \in Seq(S), NEW cut
    PROVE Without(list, cut) \in Seq(S)
<1>1. Len(list) \in Nat /\ \A x \in 1 .. Len(list) : list[x] \in S
  OBVIOUS
<1>2. PICK kept : /\ Without(list, cut) = kept[Len(list)]
                 /\ \A x \in 0 .. Len(list) : kept[x] = KeptStep(list, cut, kept, x)
  BY WithoutEquation
<1> DEFINE M == {n \in Nat : n <= Len(list) => kept[n] \in Seq(S)}
<1>3. 0 \in M
  <2>1. kept[0] = <<>>
    BY <1>1, <1>2 DEF KeptStep
  <2>2. kept[0] \in Seq(S) /\ 0 \in Nat
    BY <2>1
  <2> QED
    BY <2>2
<1>4. \A n \in Nat : n \in M => n + 1 \in M
  <2> SUFFICES ASSUME NEW n \in Nat, n \in M, n + 1 <= Len(list) PROVE kept[n + 1] \in Seq(S)
    OBVIOUS
  <2>1. kept[n] \in Seq(S)
    BY <1>1
  <2>2. n + 1 \in 0 .. Len(list) /\ n + 1 # 0 /\ (n + 1) - 1 = n /\ list[n + 1] \in S
    BY <1>1
  <2>3. kept[n + 1] = IF list[n + 1] \in cut THEN kept[n] ELSE Append(kept[n], list[n + 1])
    BY <1>2, <2>2 DEF KeptStep
  <2> QED
    BY <2>1, <2>2, <2>3
<1> HIDE DEF M
<1>5. Len(list) \in M
  BY <1>1, <1>3, <1>4, SetInduction
<1> QED
  BY <1>1, <1>2, <1>5 DEF M

\* Cutting nobody leaves the list as it is.
LEMMA WithoutNobody ==
    ASSUME NEW S, NEW list \in Seq(S)
    PROVE Without(list, {}) = list
<1>1. Len(list) \in Nat /\ \A x \in 1 .. Len(list) : list[x] \in S
  OBVIOUS
<1>2. PICK kept : /\ Without(list, {}) = kept[Len(list)]
                 /\ \A x \in 0 .. Len(list) : kept[x] = KeptStep(list, {}, kept, x)
  BY WithoutEquation
<1> DEFINE M == {n \in Nat : n <= Len(list) => kept[n] = SubSeq(list, 1, n)}
<1>3. 0 \in M
  <2>1. kept[0] = <<>>
    BY <1>1, <1>2 DEF KeptStep
  <2>2. kept[0] = SubSeq(list, 1, 0) /\ 0 \in Nat
    BY <2>1, SubSeqEmpty
  <2> QED
    BY <2>2
<1>4. \A n \in Nat : n \in M => n + 1 \in M
  <2> SUFFICES ASSUME NEW n \in Nat, n \in M, n + 1 <= Len(list)
               PROVE kept[n + 1] = SubSeq(list, 1, n + 1)
    OBVIOUS
  <2>1. kept[n] = SubSeq(list, 1, n)
    BY <1>1
  <2>2. n + 1 \in 1 .. Len(list) /\ n + 1 # 0 /\ (n + 1) - 1 = n /\ n + 1 \in 0 .. Len(list)
    BY <1>1
  <2>3. kept[n + 1] = Append(kept[n], list[n + 1])
    BY <1>2, <2>2 DEF KeptStep
  <2>4. SubSeq(list, 1, n + 1) = Append(SubSeq(list, 1, n), list[n + 1])
    BY <1>1, <2>2, Prefixed
  <2> QED
    BY <2>1, <2>3, <2>4
<1> HIDE DEF M
<1>5. Len(list) \in M
  BY <1>1, <1>3, <1>4, SetInduction
<1>6. SubSeq(list, 1, Len(list)) = list
  BY SubSeqFull
<1> QED
  BY <1>1, <1>2, <1>5, <1>6 DEF M

-----------------------------------------------------------------------------
(* Event tables and the logs that are read from them.                      *)

\* The event of a stored row may be joined with the signatures of another copy.
Closed(M) ==
    \A m \in M, r \in M :
        /\ [m EXCEPT !.body = r.body] \in M
        /\ [m EXCEPT !.body = r.body].body = r.body

\* The row that is updated is one with the digest.
LEMMA RowFound ==
    ASSUME NEW M, NEW table \in Seq(M), NEW d, Stores(table, d)
    PROVE RowOf(table, d) \in DOMAIN table /\ table[RowOf(table, d)].body.d = d
<1> DEFINE I == {i \in 1 .. Len(table) : table[i].body.d = d}
<1>1. Len(table) \in Nat /\ DOMAIN table = 1 .. Len(table)
  BY LenProperties
<1>2. I # {} /\ I \subseteq Nat
  BY <1>1 DEF Stores, Elements
<1> HIDE DEF I
<1>3. PICK x \in I : \A y \in I : x <= y
  BY <1>2, NatMin
<1>4. Min(I) \in I
  BY <1>3 DEF Min
<1>5. RowOf(table, d) = Min(I)
  BY <1>2 DEF RowOf, SelectInSeq, I
<1> QED
  BY <1>1, <1>4, <1>5 DEF I

\* Storing an event again replaces the attachments and leaves the events.
LEMMA SavedUpdate ==
    ASSUME NEW M, Closed(M), NEW table \in Seq(M), NEW m \in M, Stores(table, m.body.d)
    PROVE /\ SaveMessage(table, m) \in Seq(M)
          /\ DOMAIN SaveMessage(table, m) = DOMAIN table
          /\ \A x \in DOMAIN table : SaveMessage(table, m)[x].body = table[x].body
<1>1. PICK x \in DOMAIN table : x = RowOf(table, m.body.d)
  BY RowFound
<1>2. PICK r : r = [m EXCEPT !.body = table[x].body]
  OBVIOUS
<1>3. r \in M /\ r.body = table[x].body
  BY <1>2, LenProperties, ElementOfSeq DEF Closed
<1>4. SaveMessage(table, m) = [table EXCEPT ![x] = r]
  BY <1>1, <1>2 DEF SaveMessage, ReplaceAt
<1>5. x \in 1 .. Len(table) /\ DOMAIN table = 1 .. Len(table)
  BY LenProperties
<1>6. /\ [table EXCEPT ![x] = r] \in Seq(M)
      /\ DOMAIN [table EXCEPT ![x] = r] = DOMAIN table
      /\ \A y \in DOMAIN table : [table EXCEPT ![x] = r][y] = IF y = x THEN r ELSE table[y]
  BY <1>3, <1>5, ExceptSeq
<1> QED
  BY <1>3, <1>4, <1>6

\* Storing a new event adds one row.
LEMMA SavedInsert ==
    ASSUME NEW M, NEW table \in Seq(M), NEW m \in M, ~Stores(table, m.body.d)
    PROVE /\ SaveMessage(table, m) \in Seq(M)
          /\ SaveMessage(table, m) # <<>>
          /\ Elements(SaveMessage(table, m)) = Elements(table) \cup {m}
<1> DEFINE I == {x \in DOMAIN table : table[x].body.s <= m.body.s}
           k == Cardinality(I)
<1>1. Len(table) \in Nat /\ DOMAIN table = 1 .. Len(table)
  BY LenProperties
<1>2. I \subseteq 1 .. Len(table)
  BY <1>1
<1> HIDE DEF I
<1>3. k \in 0 .. Len(table)
  BY <1>1, <1>2, Counted
<1> HIDE DEF k
<1> DEFINE t == Inserted(table, k, m)
<1>4. t \in Seq(M) /\ Len(t) = Len(table) + 1 /\ Range(t) = Range(table) \cup {m}
  BY <1>3, Insertion
<1>5. SaveMessage(table, m) = t
  <2>1. (1 + k) - 1 = k /\ 1 + k = k + 1
    BY <1>3
  <2> QED
    BY <2>1 DEF SaveMessage, InsertAt, Inserted, k, I
<1> HIDE DEF t
<1>6. t # <<>>
  BY <1>1, <1>4, EmptySeq
<1>7. Elements(t) = Range(t) /\ Elements(table) = Range(table)
  BY DEF Elements, Range
<1> QED
  BY <1>4, <1>5, <1>6, <1>7

\* After saveMessage every event is still there, this one too, and no other.
LEMMA Saved ==
    ASSUME NEW M, Closed(M), NEW table \in Seq(M), NEW m \in M
    PROVE /\ SaveMessage(table, m) \in Seq(M)
          /\ SaveMessage(table, m) # <<>>
          /\ \A row \in Elements(table) : \E new \in Elements(SaveMessage(table, m)) : new.body = row.body
          /\ \E new \in Elements(SaveMessage(table, m)) : new.body.d = m.body.d
          /\ \A new \in Elements(SaveMessage(table, m)) :
                new.body = m.body \/ \E row \in Elements(table) : new.body = row.body
<1>1. CASE Stores(table, m.body.d)
  <2> DEFINE t == SaveMessage(table, m)
  <2>1. /\ t \in Seq(M) /\ DOMAIN t = DOMAIN table
        /\ \A x \in DOMAIN table : t[x].body = table[x].body
    BY <1>1, SavedUpdate
  <2> HIDE DEF t
  <2>2. PICK x \in DOMAIN table : table[x].body.d = m.body.d
    BY <1>1 DEF Stores, Elements
  <2>3. t # <<>>
    BY <2>1, <2>2
  <2>4. \A row \in Elements(table) : \E new \in Elements(t) : new.body = row.body
    BY <2>1 DEF Elements
  <2>5. \E new \in Elements(t) : new.body.d = m.body.d
    BY <2>1, <2>2 DEF Elements
  <2>6. \A new \in Elements(t) : \E row \in Elements(table) : new.body = row.body
    BY <2>1 DEF Elements
  <2> QED
    BY <2>1, <2>3, <2>4, <2>5, <2>6 DEF t
<1>2. CASE ~Stores(table, m.body.d)
  BY <1>2, SavedInsert
<1> QED
  BY <1>1, <1>2

\* After saveMessage what was stored is stored, and the event is.
LEMMA SavedStores ==
    ASSUME NEW M, Closed(M), NEW table \in Seq(M), NEW m \in M
    PROVE /\ SaveMessage(table, m) \in Seq(M)
          /\ Stores(SaveMessage(table, m), m.body.d)
          /\ \A d : Stores(table, d) => Stores(SaveMessage(table, m), d)
<1> DEFINE t == SaveMessage(table, m)
<1>1. t \in Seq(M)
  BY Saved
<1>2. \A row \in Elements(table) : \E new \in Elements(t) : new.body = row.body
  BY Saved
<1>3. \E new \in Elements(t) : new.body.d = m.body.d
  BY Saved
<1> HIDE DEF t
<1>4. \A d : Stores(table, d) => Stores(t, d)
  BY <1>2 DEF Stores
<1>5. Stores(t, m.body.d)
  BY <1>3 DEF Stores
<1> QED
  BY <1>1, <1>4, <1>5 DEF t

\* The fields of a key state.
KeyStateFields ==
    {"identifier", "signingKeys", "signingThreshold", "nextKeyDigests", "backers",
     "backerThreshold", "delegator", "lastEvent", "lastEstablishment"}

NextLogs(logs, m, opts) == {Extend(log, m, opts) : log \in {l \in logs : CanAppend(l, m, opts)}}

\* The loop of KeyEventLog.from, one append after the other.
LEMMA FromRecursion ==
    ASSUME NEW messages, NEW opts, Len(messages) \in Nat
    PROVE \E after :
            /\ From(messages, opts) = after[Len(messages)]
            /\ after[0] = {EmptyLog}
            /\ \A x \in 1 .. Len(messages) : after[x] = NextLogs(after[x - 1], messages[x], opts)
<1> DEFINE n == Len(messages)
           S == {k \in Nat : \E f : f = [x \in 0 .. k |-> IF x = 0 THEN {EmptyLog}
                                                         ELSE NextLogs(f[x - 1], messages[x], opts)]}
<1>1. 0 \in S
  <2> DEFINE f == [x \in 0 .. 0 |-> {EmptyLog}]
  <2>1. f = [x \in 0 .. 0 |-> IF x = 0 THEN {EmptyLog} ELSE NextLogs(f[x - 1], messages[x], opts)]
    OBVIOUS
  <2> HIDE DEF f
  <2> QED
    BY <2>1
<1>2. \A k \in Nat : k \in S => k + 1 \in S
  <2> SUFFICES ASSUME NEW k \in Nat, k \in S PROVE k + 1 \in S
    OBVIOUS
  <2>1. PICK f : f = [x \in 0 .. k |-> IF x = 0 THEN {EmptyLog}
                                       ELSE NextLogs(f[x - 1], messages[x], opts)]
    OBVIOUS
  <2> DEFINE g == [x \in 0 .. k + 1 |-> IF x = k + 1 THEN NextLogs(f[k], messages[k + 1], opts) ELSE f[x]]
  <2>2. DOMAIN g = 0 .. k + 1 /\ g[k + 1] = NextLogs(f[k], messages[k + 1], opts)
        /\ \A x \in 0 .. k : g[x] = f[x]
    OBVIOUS
  <2>3. \A x \in 0 .. k : f[x] = IF x = 0 THEN {EmptyLog} ELSE NextLogs(f[x - 1], messages[x], opts)
    BY <2>1
  <2>4. f[0] = {EmptyLog} /\ \A x \in 1 .. k : f[x] = NextLogs(f[x - 1], messages[x], opts)
    <3>1. 0 \in 0 .. k /\ \A x \in 1 .. k : x \in 0 .. k /\ x # 0
      OBVIOUS
    <3> QED
      BY <2>3, <3>1
  <2> HIDE DEF g
  <2>5. \A x \in 0 .. k + 1 : g[x] = IF x = 0 THEN {EmptyLog} ELSE NextLogs(g[x - 1], messages[x], opts)
    <3> TAKE x \in 0 .. k + 1
    <3>1. CASE x = 0
      BY <2>2, <2>4, <3>1
    <3>2. CASE x \in 1 .. k
      <4>1. x - 1 \in 0 .. k /\ x \in 0 .. k /\ x # 0
        BY <3>2
      <4> QED
        BY <2>2, <2>4, <3>2, <4>1
    <3>3. CASE x = k + 1
      <4>1. x # 0 /\ x - 1 = k /\ k \in 0 .. k
        BY <3>3
      <4> QED
        BY <2>2, <3>3, <4>1
    <3> QED
      BY <3>1, <3>2, <3>3
  <2>6. g = [x \in 0 .. k + 1 |-> IF x = 0 THEN {EmptyLog} ELSE NextLogs(g[x - 1], messages[x], opts)]
    BY <2>2, <2>5 DEF g
  <2> QED
    BY <2>6
<1> HIDE DEF S
<1>3. n \in S
  BY <1>1, <1>2, SetInduction
<1> DEFINE after == CHOOSE f : f = [x \in 0 .. n |-> IF x = 0 THEN {EmptyLog}
                                                   ELSE NextLogs(f[x - 1], messages[x], opts)]
<1>4. after = [x \in 0 .. n |-> IF x = 0 THEN {EmptyLog} ELSE NextLogs(after[x - 1], messages[x], opts)]
  BY <1>3 DEF S
<1>5. From(messages, opts) = after[n]
  BY DEF From, NextLogs
<1> HIDE DEF after
<1>6. \A x \in 0 .. n : after[x] = IF x = 0 THEN {EmptyLog} ELSE NextLogs(after[x - 1], messages[x], opts)
  BY <1>4
<1>7. after[0] = {EmptyLog} /\ \A x \in 1 .. n : after[x] = NextLogs(after[x - 1], messages[x], opts)
  <2>1. 0 \in 0 .. n /\ \A x \in 1 .. n : x \in 0 .. n /\ x # 0
    OBVIOUS
  <2> QED
    BY <1>6, <2>1
<1> QED
  BY <1>5, <1>7

\* saveMessage puts a new event with the highest sequence number last.
LEMMA SavedLast ==
    ASSUME NEW M, NEW table \in Seq(M), NEW m \in M, ~Stores(table, m.body.d),
           \A x \in DOMAIN table : table[x].body.s <= m.body.s
    PROVE SaveMessage(table, m) = Append(table, m)
<1>1. Len(table) \in Nat /\ DOMAIN table = 1 .. Len(table)
  BY LenProperties
<1>2. {x \in DOMAIN table : table[x].body.s <= m.body.s} = 1 .. Len(table)
  BY <1>1
<1>3. Cardinality(1 .. Len(table)) = Len(table)
  BY <1>1, FS_Interval
<1>4. (1 + Len(table)) - 1 = Len(table) /\ 1 + Len(table) = Len(table) + 1
  BY <1>1
<1>5. SaveMessage(table, m) = Inserted(table, Len(table), m)
  BY <1>2, <1>3, <1>4 DEF SaveMessage, InsertAt, Inserted
<1>6. SubSeq(table, 1, Len(table)) = table /\ SubSeq(table, Len(table) + 1, Len(table)) = <<>>
  BY <1>1, SubSeqFull, SubSeqEmpty
<1>7. (table \o <<m>>) \o <<>> = table \o <<m>>
  OBVIOUS
<1> QED
  BY <1>5, <1>6, <1>7, AppendIsConcat DEF Inserted

\* KeyEventLog.from keeps the messages as they are.
LEMMA FromEvents ==
    ASSUME NEW M, NEW messages \in Seq(M), NEW opts, NEW log \in From(messages, opts)
    PROVE log.events = messages
<1>1. Len(messages) \in Nat
  BY LenProperties
<1>2. PICK after :
        /\ From(messages, opts) = after[Len(messages)]
        /\ after[0] = {EmptyLog}
        /\ \A x \in 1 .. Len(messages) : after[x] = NextLogs(after[x - 1], messages[x], opts)
  BY <1>1, FromRecursion
<1> DEFINE S == {x \in Nat : x <= Len(messages) => \A l \in after[x] : l.events = SubSeq(messages, 1, x)}
<1>3. 0 \in S
  <2>1. SubSeq(messages, 1, 0) = <<>> /\ EmptyLog.events = <<>>
    BY SubSeqEmpty DEF EmptyLog
  <2>2. \A l \in after[0] : l.events = SubSeq(messages, 1, 0)
    BY <1>2, <2>1
  <2> QED
    BY <2>2
<1>4. \A x \in Nat : x \in S => x + 1 \in S
  <2> SUFFICES ASSUME NEW x \in Nat, x \in S, x + 1 <= Len(messages), NEW l \in after[x + 1]
               PROVE l.events = SubSeq(messages, 1, x + 1)
    OBVIOUS
  <2>1. x + 1 \in 1 .. Len(messages) /\ (x + 1) - 1 = x /\ x <= Len(messages)
    BY <1>1
  <2>2. PICK k \in after[x] : l = Extend(k, messages[x + 1], opts)
    BY <1>2, <2>1 DEF NextLogs
  <2>3. k.events = SubSeq(messages, 1, x)
    BY <2>1
  <2> QED
    BY <2>2, <2>3, Prefixed DEF Extend
<1> HIDE DEF S
<1>5. Len(messages) \in S
  BY <1>1, <1>3, <1>4, SetInduction
<1> QED
  BY <1>1, <1>2, <1>5, SubSeqFull DEF S

\* KeyEventLog.from of one more message is one more append.
LEMMA FromAppended ==
    ASSUME NEW M, NEW messages \in Seq(M), NEW m \in M, NEW opts
    PROVE From(Append(messages, m), opts) = NextLogs(From(messages, opts), m, opts)
<1> DEFINE n == Len(messages)
           more == Append(messages, m)
<1>1. /\ n \in Nat
      /\ Len(more) = n + 1 /\ more[n + 1] = m
      /\ \A x \in 1 .. n : more[x] = messages[x]
  BY AppendProperties, LenProperties
<1> HIDE DEF more, n
<1>2. PICK f : /\ From(messages, opts) = f[n]
               /\ f[0] = {EmptyLog}
               /\ \A x \in 1 .. n : f[x] = NextLogs(f[x - 1], messages[x], opts)
  BY <1>1, FromRecursion DEF n
<1>3. PICK g : /\ From(more, opts) = g[n + 1]
               /\ g[0] = {EmptyLog}
               /\ \A x \in 1 .. n + 1 : g[x] = NextLogs(g[x - 1], more[x], opts)
  <2>1. Len(more) \in Nat
    BY <1>1
  <2>2. PICK g : /\ From(more, opts) = g[Len(more)]
                 /\ g[0] = {EmptyLog}
                 /\ \A x \in 1 .. Len(more) : g[x] = NextLogs(g[x - 1], more[x], opts)
    BY <2>1, FromRecursion
  <2> QED
    BY <1>1, <2>2
<1> DEFINE S == {x \in Nat : x <= n => f[x] = g[x]}
<1>4. 0 \in S
  BY <1>2, <1>3
<1>5. \A x \in Nat : x \in S => x + 1 \in S
  <2> SUFFICES ASSUME NEW x \in Nat, x \in S, x + 1 <= n PROVE f[x + 1] = g[x + 1]
    BY \A x \in Nat : x + 1 \in Nat
  <2>1. x + 1 \in 1 .. n /\ x + 1 \in 1 .. n + 1 /\ (x + 1) - 1 = x /\ x <= n
    BY <1>1
  <2>2. f[x] = g[x] /\ more[x + 1] = messages[x + 1]
    BY <1>1, <2>1
  <2> QED
    BY <1>2, <1>3, <2>1, <2>2
<1> HIDE DEF S
<1>6. n \in S
  BY <1>1, <1>4, <1>5, SetInduction
<1>7. n + 1 \in 1 .. n + 1 /\ (n + 1) - 1 = n
  BY <1>1
<1>8. g[n + 1] = NextLogs(g[n], m, opts)
  BY <1>1, <1>3, <1>7
<1>9. f[n] = g[n]
  BY <1>1, <1>6 DEF S
<1> QED
  BY <1>2, <1>3, <1>8, <1>9 DEF more
=============================================================================
