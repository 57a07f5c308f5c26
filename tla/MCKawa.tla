------------------------------- MODULE MCKawa --------------------------------
(* Model values and bounds for Kawa. *)
EXTENDS Kawa

CONSTANTS w1, w2, w3

MCBackers == <<w1, w2>>
MCThreeBackers == <<w1, w2, w3>>
=============================================================================
