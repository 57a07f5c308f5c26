---------------------------- MODULE MultisigProofs ---------------------------
(***************************************************************************)
(* Proofs about Multisig, for any keys, key lists and thresholds.          *)
(*                                                                         *)
(* parseThreshold scales the fractions of a threshold by their least       *)
(* common denominator; what a threshold asks for is stated with the        *)
(* product of the denominators. Both are divisible by every denominator,    *)
(* so that neither division loses anything and the two sums are in         *)
(* proportion (Proportional): one reaches its whole when the other does.   *)
(***************************************************************************)
EXTENDS Multisig, Lemmas

-----------------------------------------------------------------------------
(* Scaled sums. *)

\* The product of positive numbers is positive and divisible by each of them.
LEMMA ProductDivisible ==
    ASSUME NEW D, IsFiniteSet(D), NEW d \in [D -> Positive]
    PROVE /\ Product(d) \in Positive
          /\ \A x \in D : Divides(d[x], Product(d))
<1> DEFINE step == [p \in Positive \X Positive |-> p[1] * p[2]]
           Folds(f) == f = [s \in SUBSET D |-> IF s = {} THEN 1
                              ELSE d[Chosen(s)] * f[s \ {Chosen(s)}]]
<1>1. \A s \in SUBSET D : s # {} => Chosen(s) \in D /\ s \ {Chosen(s)} \in SUBSET D
  BY FS_Subset, ChosenRest
<1>2. \E f : Folds(f)
  <2>1. step \in [Positive \X Positive -> Positive]
    <3>1. \A a, b \in Positive : a * b \in Positive
      BY DEF Positive
    <3> QED
      BY <3>1
  <2>2. \A a, b \in Positive : step[<<a, b>>] = a * b
    OBVIOUS
  <2>3. 1 \in Positive
    BY DEF Positive
  <2> HIDE DEF step
  <2>4. PICK f \in [SUBSET D -> Positive] : FoldsWith(f, D, d, step, 1)
    BY <2>1, <2>3, FoldExists
  <2>5. Folds(f)
    BY <1>1, <2>2, <2>4 DEF FoldsWith
  <2> QED
    BY <2>5
<1>3. Product(d) = (CHOOSE f : Folds(f))[D]
  <2>1. DOMAIN d = D
    OBVIOUS
  <2> QED
    BY <2>1 DEF Product, FoldFunction, FoldFunctionOnSet, MapThenFoldSet, Chosen
<1>4. PICK f : Folds(f) /\ Product(d) = f[D]
  BY <1>2, <1>3
<1> DEFINE Common(s) == f[s] \in Positive /\ \A x \in s : Divides(d[x], f[s])
           N == {n \in Nat : \A s \in SUBSET D : Cardinality(s) = n => Common(s)}
<1>5. \A s \in SUBSET D : IsFiniteSet(s) /\ Cardinality(s) \in Nat
  BY FS_Subset, FS_CardinalityType
<1>6. 0 \in N
  <2>1. \A s \in SUBSET D : Cardinality(s) = 0 => s = {}
    BY <1>5, FS_EmptySet
  <2>2. f[{}] = 1
    BY <1>4
  <2>3. 1 \in Positive
    BY DEF Positive
  <2> QED
    BY <2>1, <2>2, <2>3
<1>7. \A n \in Nat : n \in N => n + 1 \in N
  <2> SUFFICES ASSUME NEW n \in Nat, n \in N PROVE n + 1 \in N
    OBVIOUS
  <2>1. \A s \in SUBSET D : Cardinality(s) = n => Common(s)
    OBVIOUS
  <2>2. ASSUME NEW s \in SUBSET D, Cardinality(s) = n + 1 PROVE Common(s)
    <3>1. s # {} /\ IsFiniteSet(s)
      BY <1>5, <2>2, FS_EmptySet
    <3>2. PICK c \in s : c = Chosen(s) /\ Cardinality(s \ {c}) = n
      BY <2>2, <3>1, ChosenRest
    <3>3. PICK t \in SUBSET D : t = s \ {c}
      OBVIOUS
    <3>4. Common(t)
      BY <2>1, <3>2, <3>3
    <3>5. PICK l \in Positive : l = f[t]
      BY <3>4
    <3>6. PICK v \in Positive : v = d[c]
      OBVIOUS
    <3>7. f[s] = v * l
      BY <1>4, <3>1, <3>2, <3>3, <3>5, <3>6
    <3>8. v * l = l * v /\ v * l \in Positive /\ l \in Nat /\ v \in Nat
      BY DEF Positive
    <3>9. f[s] \in Positive /\ Divides(l, f[s]) /\ Divides(v, f[s])
      BY <3>7, <3>8 DEF Divides
    <3>10. ASSUME NEW x \in s PROVE Divides(d[x], f[s])
      <4>1. CASE x = c
        BY <3>6, <3>9, <4>1
      <4>2. CASE x # c
        <5>1. x \in t
          BY <3>3, <4>2
        <5>2. Divides(d[x], l) /\ d[x] \in Nat /\ l \in Nat /\ f[s] \in Nat
          BY <3>4, <3>5, <3>9, <5>1 DEF Positive
        <5> QED
          BY <3>9, <5>2, DividesTrans
      <4> QED
        BY <4>1, <4>2
    <3> QED
      BY <3>9, <3>10
  <2>3. n + 1 \in Nat
    OBVIOUS
  <2> QED
    BY <2>2, <2>3
<1> HIDE DEF N
<1>8. Cardinality(D) \in N
  BY <1>5, <1>6, <1>7, SetInduction
<1>9. Common(D)
  BY <1>8 DEF N
<1> QED
  BY <1>4, <1>9

\* Fractions, each a positive numerator over a positive denominator.
Fractions(f, D) == \A x \in D : f[x][1] \in Nat /\ f[x][2] \in Positive

\* The fractions scaled to a whole, as parseThreshold scales them.
Scaled(f, D, whole) == [x \in D |-> (f[x][1] * whole) \div f[x][2]]

\* Scaling to a multiple of the denominator is exact.
LEMMA ScaledExactly ==
    ASSUME NEW a \in Nat, NEW b \in Positive, NEW whole \in Nat, Divides(b, whole)
    PROVE /\ (a * whole) \div b \in Nat
          /\ b * ((a * whole) \div b) = a * whole
<1>1. PICK c \in Nat : whole = b * c
  BY DEF Divides
<1>2. b \in Nat
  BY DEF Positive
<1>3. a * whole = b * (a * c) /\ a * c \in Nat
  <2>1. a * whole = a * (b * c)
    BY <1>1
  <2>2. a * (b * c) = b * (a * c)
    BY <1>2
  <2> QED
    BY <2>1, <2>2
<1>4. (b * (a * c)) \div b = a * c
  BY <1>3, Exact
<1> QED
  BY <1>3, <1>4

\* One scaled fraction is to its whole as it is to another.
LEMMA OneProportional ==
    ASSUME NEW a \in Nat, NEW b \in Positive, NEW l \in Nat, NEW p \in Nat,
           Divides(b, l), Divides(b, p)
    PROVE p * ((a * l) \div b) = l * ((a * p) \div b)
<1>1. b \in Nat
  BY DEF Positive
<1>2. PICK c \in Nat : l = b * c
  BY DEF Divides
<1>3. PICK d \in Nat : p = b * d
  BY DEF Divides
<1>4. (a * l) \div b = a * c
  <2>1. a * l = b * (a * c) /\ a * c \in Nat
    <3>1. a * l = a * (b * c)
      BY <1>2
    <3> QED
      BY <1>1, <3>1
  <2> QED
    BY <2>1, Exact
<1>5. (a * p) \div b = a * d
  <2>1. a * p = b * (a * d) /\ a * d \in Nat
    <3>1. a * p = a * (b * d)
      BY <1>3
    <3> QED
      BY <1>1, <3>1
  <2> QED
    BY <2>1, Exact
<1>6. (b * d) * (a * c) = (b * c) * (a * d)
  BY <1>1
<1> QED
  BY <1>2, <1>3, <1>4, <1>5, <1>6

\* Sums of scaled fractions are in proportion to the wholes.
LEMMA Proportional ==
    ASSUME NEW D, IsFiniteSet(D), NEW f, Fractions(f, D), NEW l \in Positive, NEW p \in Positive,
           \A x \in D : Divides(f[x][2], l) /\ Divides(f[x][2], p),
           NEW S \in SUBSET D
    PROVE /\ SumFunctionOnSet(Scaled(f, D, l), S) \in Nat
          /\ SumFunctionOnSet(Scaled(f, D, p), S) \in Nat
          /\ p * SumFunctionOnSet(Scaled(f, D, l), S) = l * SumFunctionOnSet(Scaled(f, D, p), S)
<1> DEFINE u == Scaled(f, D, l)
           v == Scaled(f, D, p)
           A(R) == SumFunctionOnSet(u, R)
           B(R) == SumFunctionOnSet(v, R)
           N == {n \in Nat : \A R \in SUBSET D : Cardinality(R) = n => p * A(R) = l * B(R)}
<1>1. l \in Nat /\ p \in Nat
  BY DEF Positive
<1>2. \A x \in D : /\ (f[x][1] * l) \div f[x][2] \in Nat
                   /\ (f[x][1] * p) \div f[x][2] \in Nat
                   /\ p * ((f[x][1] * l) \div f[x][2]) = l * ((f[x][1] * p) \div f[x][2])
  <2> SUFFICES ASSUME NEW x \in D
               PROVE /\ (f[x][1] * l) \div f[x][2] \in Nat
                     /\ (f[x][1] * p) \div f[x][2] \in Nat
                     /\ p * ((f[x][1] * l) \div f[x][2]) = l * ((f[x][1] * p) \div f[x][2])
    OBVIOUS
  <2>1. PICK a \in Nat, b \in Positive : a = f[x][1] /\ b = f[x][2]
    BY DEF Fractions
  <2>2. Divides(b, l) /\ Divides(b, p)
    BY <2>1
  <2>3. (a * l) \div b \in Nat /\ (a * p) \div b \in Nat
    BY <1>1, <2>2, ScaledExactly
  <2>4. p * ((a * l) \div b) = l * ((a * p) \div b)
    BY <1>1, <2>2, OneProportional
  <2> QED
    BY <2>1, <2>3, <2>4
<1>3. u \in [D -> Nat] /\ v \in [D -> Nat] /\ \A x \in D : p * u[x] = l * v[x]
  BY <1>2 DEF Scaled
<1> HIDE DEF u, v
<1>4. \A R \in SUBSET D : /\ IsFiniteSet(R) /\ Cardinality(R) \in Nat
                          /\ A(R) \in Nat /\ B(R) \in Nat
  BY <1>3, FS_Subset, FS_CardinalityType, SumChosen
<1>5. 0 \in N
  <2>1. \A R \in SUBSET D : Cardinality(R) = 0 => R = {}
    BY <1>4, FS_EmptySet
  <2>2. A({}) = 0 /\ B({}) = 0
    BY SumEmpty
  <2> QED
    BY <1>1, <2>1, <2>2
<1>6. \A n \in Nat : n \in N => n + 1 \in N
  <2> SUFFICES ASSUME NEW n \in Nat, n \in N PROVE n + 1 \in N
    OBVIOUS
  <2>1. \A R \in SUBSET D : Cardinality(R) = n => p * A(R) = l * B(R)
    OBVIOUS
  <2>2. ASSUME NEW R \in SUBSET D, Cardinality(R) = n + 1 PROVE p * A(R) = l * B(R)
    <3>1. R # {} /\ IsFiniteSet(R)
      BY <1>4, <2>2, FS_EmptySet
    <3>2. PICK c \in R : Cardinality(R \ {c}) = n
      <4>1. Chosen(R) \in R /\ Cardinality(R \ {Chosen(R)}) = Cardinality(R) - 1
        BY <3>1, ChosenRest
      <4>2. Cardinality(R \ {Chosen(R)}) = n
        BY <2>2, <4>1
      <4> QED
        BY <4>1, <4>2
    <3>3. A(R) = u[c] + A(R \ {c}) /\ B(R) = v[c] + B(R \ {c})
      BY <1>3, <3>1, SumAny
    <3>4. p * A(R \ {c}) = l * B(R \ {c})
      BY <2>1, <3>2
    <3>5. PICK a \in Nat, a2 \in Nat : a = A(R \ {c}) /\ a2 = u[c]
      BY <1>3, <1>4
    <3>6. PICK b \in Nat, b2 \in Nat : b = B(R \ {c}) /\ b2 = v[c]
      BY <1>3, <1>4
    <3> HIDE DEF A, B
    <3>7. p * a2 = l * b2 /\ p * a = l * b
      BY <1>3, <3>4, <3>5, <3>6
    <3>8. p * (a2 + a) = p * a2 + p * a /\ l * (b2 + b) = l * b2 + l * b
      BY <1>1
    <3> QED
      BY <3>3, <3>5, <3>6, <3>7, <3>8
  <2>3. n + 1 \in Nat
    OBVIOUS
  <2> QED
    BY <2>2, <2>3
<1> HIDE DEF N
<1>7. Cardinality(S) \in N
  BY <1>4, <1>5, <1>6, SetInduction
<1>8. p * A(S) = l * B(S)
  BY <1>7 DEF N
<1> QED
  BY <1>4, <1>8 DEF u, v

\* Of two sums in proportion to their wholes one reaches its whole when the other
\* does.
LEMMA ReachTogether ==
    ASSUME NEW l \in Positive, NEW p \in Positive, NEW a \in Nat, NEW b \in Nat, p * a = l * b
    PROVE a >= l <=> b >= p
<1>1. l \in Nat /\ p \in Nat /\ l > 0 /\ p > 0
  BY DEF Positive
<1>2. ASSUME a >= l, ~(b >= p) PROVE FALSE
  <2>1. PICK d \in Nat : p = b + 1 + d
    BY <1>1, <1>2, p - b - 1 \in Nat, p = b + 1 + (p - b - 1)
  <2>2. PICK e \in Nat : a = l + e
    BY <1>1, <1>2, a - l \in Nat, a = l + (a - l)
  <2>3. p * a = p * l + p * e /\ p * e \in Nat
    BY <1>1, <2>2
  <2>4. l * p = l * b + l + l * d /\ l * d \in Nat
    BY <1>1, <2>1
  <2>5. p * l = l * p
    BY <1>1
  <2> QED
    BY <1>1, <2>3, <2>4, <2>5
<1>3. ASSUME b >= p, ~(a >= l) PROVE FALSE
  <2>1. PICK d \in Nat : l = a + 1 + d
    BY <1>1, <1>3, l - a - 1 \in Nat, l = a + 1 + (l - a - 1)
  <2>2. PICK e \in Nat : b = p + e
    BY <1>1, <1>3, b - p \in Nat, b = p + (b - p)
  <2>3. l * b = l * p + l * e /\ l * e \in Nat
    BY <1>1, <2>2
  <2>4. p * l = p * a + p + p * d /\ p * d \in Nat
    BY <1>1, <2>1
  <2>5. p * l = l * p
    BY <1>1
  <2> QED
    BY <1>1, <2>3, <2>4, <2>5
<1> QED
  BY <1>2, <1>3

-----------------------------------------------------------------------------
(* The verdict. *)

\* The event's key list and threshold are given, whoever signs.
Inv == keys \in KeyLists /\ threshold \in Thresholds

\* Neither signing nor receiving a signature changes them.
LEMMA Invariant == Spec => []Inv
<1>1. Init => Inv
  BY DEF Init, Inv
<1>2. Inv /\ [Next]_vars => Inv'
  BY DEF Inv, Next, vars, SignEvent, Receive
<1> QED
  BY <1>1, <1>2, PTL DEF Spec

\* The indices that count, and the valid signatures the threshold speaks of.
Indices == SignedIndices(keys, sigs)

\* What Inv says of keys and threshold, and which indices there are.
LEMMA Shape ==
    ASSUME Inv
    PROVE /\ IsThreshold(threshold)
          /\ Len(keys) \in Nat /\ DOMAIN keys = 1 .. Len(keys)
          /\ Indices \in SUBSET (1 .. Len(keys)) /\ IsFiniteSet(Indices)
<1>1. IsThreshold(threshold) /\ keys \in Seq(Keys)
  BY MultisigAssumption DEF Inv
<1>2. Len(keys) \in Nat /\ DOMAIN keys = 1 .. Len(keys)
  BY <1>1
<1>3. Indices \in SUBSET (1 .. Len(keys))
  BY <1>2 DEF Indices, SignedIndices
<1>4. IsFiniteSet(1 .. Len(keys))
  BY <1>2, FS_Interval
<1> QED
  BY <1>1, <1>2, <1>3, <1>4, FS_Subset

\* verifyThreshold decides as a simple threshold asks: one weight of one for each key.
LEMMA SimpleVerdict ==
    ASSUME Inv, threshold.kind = "simple", SignaturesValid(keys, sigs),
           ParseableThreshold(threshold, Len(keys))
    PROVE Accepted <=> ThresholdReached
<1> DEFINE n == Len(keys)
           m == threshold.m
           w == [x \in 1 .. n |-> 1]
<1>1. ParseThreshold(threshold, n) = [required |-> m, weights |-> w]
  BY DEF ParseThreshold
<1>2. Accepted <=> SumMeets(w, m, Indices)
  BY <1>1 DEF Accepted, VerifyThreshold, Indices
<1>3. Indices = {x \in Indices : sigs[x] = keys[x]}
  BY DEF Indices, SignaturesValid
<1>4. ThresholdReached <=> Cardinality(Indices) >= m
  <2>1. ThresholdReached <=> EnoughSigners
    BY DEF ThresholdReached
  <2> QED
    BY <1>3, <2>1 DEF EnoughSigners, Indices
<1>5. w \in [1 .. n -> {1}] /\ DOMAIN w = 1 .. n
  OBVIOUS
<1>6. Indices \in SUBSET (1 .. n) /\ IsFiniteSet(Indices)
  BY Shape
<1> HIDE DEF w, n, m
<1>7. SumFunctionOnSet(w, Indices) = Cardinality(Indices)
  BY <1>5, <1>6, SumCounts
<1> QED
  BY <1>2, <1>4, <1>5, <1>6, <1>7 DEF SumMeets

\* verifyThreshold decides as a weighted threshold asks, as long as each signature
\* has a weight: scaling and rounding change nothing.
LEMMA WeightedVerdict ==
    ASSUME Inv, threshold.kind = "weighted", SignaturesValid(keys, sigs),
           ParseableThreshold(threshold, Len(keys)),
           Indices \subseteq DOMAIN threshold.fractions
    PROVE Accepted <=> ThresholdReached
<1> DEFINE f == threshold.fractions
           D == DOMAIN f
           d == [x \in D |-> f[x][2]]
           l == LeastCommonDenominator(d)
           p == Product(d)
<1>1. f \in Seq(Nat \X Nat) /\ \A x \in D : f[x][1] > 0 /\ f[x][2] > 0
  BY Shape DEF IsThreshold, ParseableThreshold, WellFormedFractions
<1>2. D = 1 .. Len(f) /\ Len(f) \in Nat
  BY <1>1
<1>3. \A x \in D : f[x] \in Nat \X Nat
  BY <1>1
<1>4. \A x \in D : f[x][1] \in Nat /\ f[x][2] \in Positive
  BY <1>1, <1>3 DEF Positive
<1>5. IsFiniteSet(D)
  BY <1>2, FS_Interval
<1>6. d \in [D -> Positive] /\ \A x \in D : d[x] = f[x][2]
  BY <1>4
<1>7. ParseThreshold(threshold, Len(keys)) = [required |-> l, weights |-> Scaled(f, D, l)]
  BY DEF ParseThreshold, Scaled
<1>8. Accepted <=> SumMeets(Scaled(f, D, l), l, Indices)
  BY <1>7 DEF Accepted, VerifyThreshold, Indices
<1>9. Indices \in SUBSET D
  OBVIOUS
<1>10. {x \in Indices \cap D : sigs[x] = keys[x]} = Indices
  BY <1>9 DEF Indices, SignaturesValid
<1>11. ThresholdReached <=> SumFunctionOnSet(Scaled(f, D, p), Indices) >= p
  <2>1. ThresholdReached <=> FractionsReachOne
    BY DEF ThresholdReached
  <2> QED
    BY <1>10, <2>1 DEF FractionsReachOne, Indices, Scaled
<1> HIDE DEF d
<1>12. l \in Positive /\ p \in Positive /\ \A x \in D : Divides(f[x][2], l) /\ Divides(f[x][2], p)
  BY <1>5, <1>6, CommonDenominator, ProductDivisible
<1>13. Fractions(f, D) /\ DOMAIN Scaled(f, D, l) = D
  BY <1>4 DEF Fractions, Scaled
<1> HIDE DEF f, D, l, p
<1>14. PICK a \in Nat, b \in Nat : /\ a = SumFunctionOnSet(Scaled(f, D, l), Indices)
                                   /\ b = SumFunctionOnSet(Scaled(f, D, p), Indices)
                                   /\ p * a = l * b
  BY <1>5, <1>9, <1>12, <1>13, Proportional
<1>15. a >= l <=> b >= p
  BY <1>12, <1>14, ReachTogether
<1> QED
  BY <1>8, <1>9, <1>11, <1>13, <1>14, <1>15 DEF SumMeets

\* Every key has a weight. (Without it a signature may have none, and the sum is NaN:
\* see the run multisig_short_weights.)
WeightForEachKey ==
    \A kt \in Thresholds, list \in KeyLists :
        kt.kind = "weighted" => Len(list) <= Len(kt.fractions)

\* verifyThreshold: when every key has a weight, what is accepted has valid signatures
\* that reach the threshold, whatever the fractions.
THEOREM Sound ==
    ASSUME WeightForEachKey
    PROVE Spec => []ThresholdSound
<1>1. Inv => ThresholdSound
  <2> SUFFICES ASSUME Inv, Accepted PROVE ThresholdReached
    BY DEF ThresholdSound
  <2>1. SignaturesValid(keys, sigs) /\ ParseableThreshold(threshold, Len(keys))
    BY DEF Accepted, VerifyThreshold
  <2>2. CASE threshold.kind = "simple"
    BY <2>1, <2>2, SimpleVerdict
  <2>3. CASE threshold.kind = "weighted"
    <3>1. Len(keys) <= Len(threshold.fractions)
      BY <2>3 DEF WeightForEachKey, Inv
    <3>2. threshold.fractions \in Seq(Nat \X Nat)
      BY <2>3, Shape DEF IsThreshold
    <3>3. Indices \subseteq DOMAIN threshold.fractions
      BY <3>1, <3>2, Shape
    <3> QED
      BY <2>1, <2>3, <3>3, WeightedVerdict
  <2> QED
    BY <2>2, <2>3, Shape DEF IsThreshold
<1> QED
  BY <1>1, Invariant, PTL

\* verifyThreshold: valid signatures that reach a threshold which parses are
\* accepted, whatever the fractions.
THEOREM Complete == Spec => []ThresholdComplete
<1>1. Inv => ThresholdComplete
  <2> SUFFICES ASSUME Inv, SignaturesValid(keys, sigs),
                      ParseableThreshold(threshold, Len(keys)), ThresholdReached
               PROVE Accepted
    BY DEF ThresholdComplete
  <2>1. CASE threshold.kind = "simple"
    BY <2>1, SimpleVerdict
  <2>2. CASE threshold.kind = "weighted" /\ Indices \subseteq DOMAIN threshold.fractions
    BY <2>2, WeightedVerdict
  <2>3. CASE threshold.kind = "weighted" /\ ~(Indices \subseteq DOMAIN threshold.fractions)
    <3> DEFINE p == ParseThreshold(threshold, Len(keys))
    <3>1. DOMAIN p.weights = DOMAIN threshold.fractions
      BY <2>3 DEF ParseThreshold
    <3>2. SumMeets(p.weights, p.required, Indices)
      BY <2>3, <3>1 DEF SumMeets
    <3> QED
      BY <3>2 DEF Accepted, VerifyThreshold, Indices
  <2> QED
    BY <2>1, <2>2, <2>3, Shape DEF IsThreshold
<1> QED
  BY <1>1, Invariant, PTL

\* More indices meet a sum that fewer meet.
LEMMA MoreMeets ==
    ASSUME NEW w, w \in [DOMAIN w -> Nat], NEW required \in Nat, NEW I, IsFiniteSet(I),
           NEW R \in SUBSET I, SumMeets(w, required, R)
    PROVE SumMeets(w, required, I)
<1>1. CASE I \subseteq DOMAIN w
  <2>1. SumFunctionOnSet(w, R) >= required
    BY <1>1 DEF SumMeets
  <2>2. SumFunctionOnSet(w, R) <= SumFunctionOnSet(w, I)
    BY <1>1, SumMonotone
  <2>3. SumFunctionOnSet(w, R) \in Nat /\ SumFunctionOnSet(w, I) \in Nat
    BY <1>1, FS_Subset, SumChosen
  <2> QED
    BY <2>1, <2>2, <2>3 DEF SumMeets
<1>2. CASE ~(I \subseteq DOMAIN w)
  BY <1>2 DEF SumMeets
<1> QED
  BY <1>1, <1>2

\* signEvent: further signatures of members, valid as they are, leave a valid set of
\* signatures valid and an accepted event accepted.
THEOREM NeverRevokes == Spec => SigningNeverRevokes
<1>1. Inv /\ Inv' /\ [Next]_vars =>
          [(\E signers \in SUBSET Keys : SignEvent(signers))
             => (SignaturesValid(keys, sigs) => SignaturesValid(keys, sigs)') /\ (Accepted => Accepted')]_vars
  <2> SUFFICES ASSUME Inv, Inv', NEW signers \in SUBSET Keys, SignEvent(signers)
               PROVE /\ SignaturesValid(keys, sigs) => SignaturesValid(keys, sigs)'
                     /\ Accepted => Accepted'
    OBVIOUS
  <2>1. PICK added : sigs' = [x \in DOMAIN sigs \cup added |-> IF x \in DOMAIN sigs THEN sigs[x] ELSE keys[x]]
    BY DEF SignEvent
  <2>2. keys' = keys /\ threshold' = threshold
    BY DEF SignEvent
  <2>3. SignaturesValid(keys, sigs) => SignaturesValid(keys, sigs)'
    BY <2>1, <2>2 DEF SignaturesValid, SignedIndices
  <2>4. ASSUME Accepted PROVE Accepted'
    <3> DEFINE n == Len(keys)
               p == ParseThreshold(threshold, n)
    <3>1. /\ ParseableThreshold(threshold, n) /\ SignaturesValid(keys, sigs)
          /\ SumMeets(p.weights, p.required, Indices)
      BY <2>4 DEF Accepted, VerifyThreshold, Indices
    <3>2. n \in Nat /\ IsThreshold(threshold)
      BY Shape
    <3>3. p.required \in Positive /\ p.weights \in [DOMAIN p.weights -> Nat]
      BY <3>1, <3>2, Parsed
    <3>4. Indices \subseteq Indices'
      BY <2>1, <2>2 DEF Indices, SignedIndices
    <3>5. IsFiniteSet(Indices')
      <4>1. Indices' \in SUBSET (1 .. n)
        BY <2>2, Shape DEF Indices, SignedIndices
      <4>2. IsFiniteSet(1 .. n)
        BY <3>2, FS_Interval
      <4> QED
        BY <4>1, <4>2, FS_Subset
    <3> HIDE DEF p
    <3>6. SumMeets(p.weights, p.required, Indices')
      BY <3>1, <3>3, <3>4, <3>5, MoreMeets DEF Positive
    <3>7. SumMeets(p.weights, p.required, SignedIndices(keys, sigs'))
      BY <2>2, <3>6 DEF Indices
    <3> QED
      BY <2>2, <2>3, <3>1, <3>7 DEF Accepted, VerifyThreshold, p
  <2> QED
    BY <2>3, <2>4
<1> QED
  BY <1>1, Invariant, PTL DEF Spec, SigningNeverRevokes
=============================================================================
