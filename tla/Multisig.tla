------------------------------ MODULE Multisig -------------------------------
(***************************************************************************)
(* Collecting the signatures of one multi-key event until a verifier       *)
(* accepts it: signEvent of packages/keri/src/core/sign.ts on one side,    *)
(* verifyThreshold of verify.ts on the other.                              *)
(*                                                                         *)
(* The members of the group sign in any order, one call at a time, and an  *)
(* event may reach a member with signatures already attached by a peer.    *)
(***************************************************************************)
EXTENDS Threshold, FiniteSets

CONSTANTS
    Keys,        \* the keys of the members, and of parties outside the group
    KeyLists,    \* the k lists an event may carry
    Thresholds   \* the kt values an event may carry

ASSUME MultisigAssumption ==
    /\ KeyLists \subseteq Seq(Keys)
    /\ \A kt \in Thresholds : IsThreshold(kt)

VARIABLES
    keys,        \* k of the event
    threshold,   \* kt of the event
    sigs         \* ControllerIdxSigs: index -> the key that signed

vars == <<keys, threshold, sigs>>

Init ==
    /\ keys \in KeyLists
    /\ threshold \in Thresholds
    /\ sigs = <<>>

\* The first position of a key, keys.indexOf(publicKey).
Index(list, key) ==
    CHOOSE x \in DOMAIN list :
        list[x] = key /\ \A y \in DOMAIN list : list[y] = key => x <= y

SignEventReplacing(signers) ==
    /\ signers # {}
    /\ \A key \in signers : \E x \in DOMAIN keys : keys[x] = key
    /\ sigs' = [x \in {Index(keys, key) : key \in signers} |-> keys[x]]
    /\ UNCHANGED <<keys, threshold>>

\* A call of signEvent with these signers: each key must be one of the signing
\* keys, its signature is indexed by the key's position, and the signatures
\* already attached stay in front of the new ones.
SignEvent(signers) ==
    /\ signers # {}
    /\ \A key \in signers : \E x \in DOMAIN keys : keys[x] = key
    /\ LET added == {Index(keys, key) : key \in signers}
       IN  sigs' = [x \in DOMAIN sigs \cup added |->
                        IF x \in DOMAIN sigs THEN sigs[x] ELSE keys[x]]
    /\ UNCHANGED <<keys, threshold>>

\* The event is read from a stream with one more signature attached, made by
\* any key and claiming any index.
Receive(x, key) ==
    /\ x \notin DOMAIN sigs
    /\ sigs' = [y \in DOMAIN sigs \cup {x} |-> IF y = x THEN key ELSE sigs[y]]
    /\ UNCHANGED <<keys, threshold>>

Next ==
    \/ \E signers \in SUBSET Keys : SignEvent(signers)
    \/ \E x \in DOMAIN keys, key \in Keys : Receive(x, key)

Spec == Init /\ [][Next]_vars

Accepted == VerifyThreshold(keys, threshold, sigs)

-----------------------------------------------------------------------------

\* The product of a list of numbers.
Product(s) == FoldFunction(LAMBDA x, y : x * y, 1, s)

\* The weight of the valid signatures, as a fraction over the product of all
\* denominators, reaches one. Written without a least common denominator.
FractionsReachOne ==
    LET f == threshold.fractions
        p == Product([x \in DOMAIN f |-> f[x][2]])
        valid == {x \in SignedIndices(keys, sigs) \cap DOMAIN f : sigs[x] = keys[x]}
    IN  SumFunctionOnSet([x \in DOMAIN f |-> (f[x][1] * p) \div f[x][2]], valid) >= p

\* The members that validly signed, counted as positions.
EnoughSigners ==
    LET valid == {x \in SignedIndices(keys, sigs) : sigs[x] = keys[x]}
    IN  Cardinality(valid) >= threshold.m

\* The verdict the threshold asks for, whatever arithmetic computes it.
ThresholdReached ==
    CASE threshold.kind = "simple"   -> EnoughSigners
      [] threshold.kind = "weighted" -> FractionsReachOne

\* An event is accepted only when the valid signatures reach its threshold.
\* (verify.ts verifyThreshold: scaled integer weights, first signature of an
\* index, one running sum.)
ThresholdSound == Accepted => ThresholdReached

\* Valid signatures that reach a threshold the key list can reach are accepted:
\* the scaling of the fractions loses nothing to rounding.
ThresholdComplete ==
    (SignaturesValid(keys, sigs) /\ ParseableThreshold(threshold, Len(keys)) /\ ThresholdReached)
        => Accepted

\* A member's signature never turns an accepted event into a rejected one, and
\* signEvent never breaks a set of signatures that was valid so far.
SigningNeverRevokes ==
    [][(\E signers \in SUBSET Keys : SignEvent(signers))
         => (SignaturesValid(keys, sigs) => SignaturesValid(keys, sigs)') /\ (Accepted => Accepted')]_vars

=============================================================================
