------------------------------ MODULE MCMailbox ------------------------------
(* Bounds for Mailbox: two boxes, because cursors and ordinals are per box. *)
EXTENDS Mailbox, TLC

CONSTANTS p1, p2

\* What is asked for: a registry, and a credential with two events.
MCHeld == [registry |-> <<"x">>, credential |-> <<"iss", "x">>]

PollerSymmetry == Permutations({p1, p2})
=============================================================================
