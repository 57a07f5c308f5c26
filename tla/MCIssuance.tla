----------------------------- MODULE MCIssuance -----------------------------
(* Two issuers, one with a witness, and a credential of one that rests on a      *)
(* credential of the other.                                                    *)
EXTENDS Issuance, TLC

CONSTANTS p1, p2

CallerSymmetry == Permutations({p1, p2})

MCOwnerOf == [r1 |-> "A", r2 |-> "B"]
MCRegistryOf == [c1 |-> "r1", c2 |-> "r2", c3 |-> "r1"]
MCSources == [c1 |-> <<>>, c2 |-> <<"c1">>, c3 |-> <<>>]
=============================================================================
