------------------------------ MODULE Threshold ------------------------------
(***************************************************************************)
(* Signature thresholds: packages/keri/src/core/threshold.ts and verify.ts. *)
(*                                                                         *)
(* A threshold is either a number of signatures (the string form "2") or   *)
(* a sequence of fractions, one per key (the array form ["1/2", "1/2"]).   *)
(* The two JSON shapes are told apart by the field kind; the text of a     *)
(* number is abstracted to the number it denotes.                          *)
(***************************************************************************)
EXTENDS Integers, Sequences, Functions

Simple(m) == [kind |-> "simple", m |-> m]

Weighted(fractions) == [kind |-> "weighted", fractions |-> fractions]

IsThreshold(threshold) ==
    \/ threshold.kind = "simple" /\ threshold.m \in Nat
    \/ threshold.kind = "weighted" /\ threshold.fractions \in Seq(Nat \X Nat)

\* Euclid's loop.
GreatestCommonDivisor[b \in Nat] ==
    [a \in Nat |-> IF b = 0 THEN a ELSE GreatestCommonDivisor[a % b][b]]

LeastCommonDenominatorOfLast(denominators) ==
    FoldFunction(LAMBDA value, lcm : value, 1, denominators)

\* denominators.reduce((lcm, value) => (lcm * value) / gcd(lcm, value), 1).
LeastCommonDenominator(denominators) ==
    FoldFunction(LAMBDA value, lcm : (lcm * value) \div GreatestCommonDivisor[value][lcm],
                 1, denominators)

\* Every fraction is two positive integers, and there is at least one.
WellFormedFractions(fractions) ==
    /\ Len(fractions) > 0
    /\ \A x \in DOMAIN fractions : fractions[x][1] > 0 /\ fractions[x][2] > 0

\* A threshold that parseThreshold does not throw on, for numKeys keys. Only
\* the simple form is compared with the number of keys.
ParseableThreshold(threshold, numKeys) ==
    CASE threshold.kind = "simple"   -> threshold.m \in 1 .. numKeys
      [] threshold.kind = "weighted" -> WellFormedFractions(threshold.fractions)

\* The integer weights and the required sum of a parseable threshold.
ParseThreshold(threshold, numKeys) ==
    CASE threshold.kind = "simple" ->
            [required |-> threshold.m, weights |-> [x \in 1 .. numKeys |-> 1]]
      [] threshold.kind = "weighted" ->
            LET f        == threshold.fractions
                required == LeastCommonDenominator([x \in DOMAIN f |-> f[x][2]])
            IN  [required |-> required,
                 weights  |-> [x \in DOMAIN f |-> (f[x][1] * required) \div f[x][2]]]

(***************************************************************************)
(* Indexed signatures. The list of signatures on a message is read with    *)
(* "the first one that names this index", so it is a partial function from *)
(* key indices (1-based here) to the key that made the signature.          *)
(***************************************************************************)

\* The indices of keys for which a signature is present.
SignedIndices(keys, sigs) == DOMAIN keys \cap DOMAIN sigs

\* Every signature that names a key of the list was made by that key.
SignaturesValid(keys, sigs) ==
    \A x \in SignedIndices(keys, sigs) : sigs[x] = keys[x]

\* sum < required, with JavaScript's arithmetic: the weight of a key beyond the
\* weights list is undefined, the sum is then NaN, and NaN < required is false.
SumMeetsOffByOne(weights, required, indices) ==
    \/ ~(indices \subseteq DOMAIN weights)
    \/ SumFunctionOnSet(weights, indices) + 1 >= required

SumMeets(weights, required, indices) ==
    \/ ~(indices \subseteq DOMAIN weights)
    \/ SumFunctionOnSet(weights, indices) >= required

\* verifySignatures: what is present is valid, however little of it there is.
VerifySignatures(keys, sigs) == SignaturesValid(keys, sigs)

\* verifyThreshold: one invalid signature at a key's index fails the whole.
VerifyThreshold(keys, threshold, sigs) ==
    LET n == Len(keys) IN
        /\ ParseableThreshold(threshold, n)
        /\ SignaturesValid(keys, sigs)
        /\ LET p == ParseThreshold(threshold, n)
           IN  SumMeets(p.weights, p.required, SignedIndices(keys, sigs))

=============================================================================
