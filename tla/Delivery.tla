------------------------------ MODULE Delivery ------------------------------
(***************************************************************************)
(* What a stream parser promises: the messages of the stream, each with     *)
(* what is attached to it, one by one, in order and to the last, and then   *)
(* the end of the stream. A stream with a flaw is never taken for one that  *)
(* has ended. Nothing more is promised once the stream has been torn.      *)
(***************************************************************************)
EXTENDS Naturals, Sequences

VARIABLES
    expected,   \* the messages of the stream, up to its flaw
    flawed,     \* it has one
    delivered,
    closed,
    torn

vars == <<expected, flawed, delivered, closed, torn>>

Init == delivered = <<>> /\ closed = FALSE /\ torn = FALSE

Deliver ==
    /\ ~torn /\ ~closed
    /\ Len(delivered) < Len(expected)
    /\ delivered' = Append(delivered, expected[Len(delivered) + 1])
    /\ UNCHANGED <<expected, flawed, closed, torn>>

Close ==
    /\ ~torn /\ ~closed /\ ~flawed
    /\ delivered = expected
    /\ closed' = TRUE
    /\ UNCHANGED <<expected, flawed, delivered, torn>>

Tear == torn' = TRUE

Next == Deliver \/ Close \/ Tear

Spec == Init /\ [][Next]_vars /\ WF_vars(Deliver \/ Close)
=============================================================================
