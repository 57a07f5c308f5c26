----------------------------- MODULE KeyHistory ------------------------------
(***************************************************************************)
(* What a key event log promises about an identifier: control of it passes *)
(* from one list of keys to the next only along commitments made before,   *)
(* and nothing but such a rotation changes the keys, the commitment or the *)
(* identifier.                                                             *)
(*                                                                         *)
(* This is pre-rotation as docs/specs/keri.md describes it, without        *)
(* events, signatures, witnesses or delegation. KeyEventLog implements it. *)
(***************************************************************************)
CONSTANT
    Digest(_)      \* the commitment to a key

VARIABLES
    incepted,      \* the identifier exists
    identifier,
    keys,          \* the keys in force, a sequence
    commitment     \* the digests of the keys that may follow

vars == <<incepted, identifier, keys, commitment>>

Init == incepted = FALSE

Incept ==
    /\ ~incepted
    /\ incepted' = TRUE

\* The new keys are all committed to, the identifier stays.
Rotate ==
    /\ incepted
    /\ \A x \in DOMAIN keys' : Digest(keys'[x]) \in commitment
    /\ UNCHANGED <<incepted, identifier>>

Next == Incept \/ Rotate

Spec == Init /\ [][Next]_vars

=============================================================================
