------------------------------- MODULE MCLogin -------------------------------
(* Logs and bounds for Login: alice before and after a rotation, alice with *)
(* that rotation and a fork of it under the same number, alice with a       *)
(* number left out, and bob.                                               *)
EXTENDS Login, TLC

Event(s, d) == [s |-> s, d |-> d]

Kel(aid, list) == [aid |-> aid, events |-> list]

Alice == Kel("alice", <<Event(0, "icp")>>)
Bob == Kel("bob", <<Event(0, "bob")>>)

MCKels == {Alice, Bob,
           Kel("alice", <<Event(0, "icp"), Event(1, "rot")>>),
           Kel("alice", <<Event(0, "icp"), Event(1, "rot"), Event(1, "fork")>>),
           Kel("alice", <<Event(0, "icp"), Event(2, "rot")>>)}

MCTwoKels == {Alice, Bob}

TokenSymmetry == Permutations(Tokens)
=============================================================================
