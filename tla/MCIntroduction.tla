--------------------------- MODULE MCIntroduction ----------------------------
(***************************************************************************)
(* A delegator D with one witness, which approves the inception of its      *)
(* delegate A and then rotates. The approval also travels without its       *)
(* receipt, A's inception also with a hint to another event.               *)
(***************************************************************************)
EXTENDS Introduction, TLC

CONSTANTS A, D, d0, d1, e0, e1, w

Msg(body, sigs, wigs, hints) == [body |-> body, sigs |-> sigs, wigs |-> wigs, hints |-> hints]

Dip == Msg([t |-> "dip", i |-> A, s |-> 0, d |-> "dip", k |-> <<e0>>, kt |-> Simple(1),
            n |-> <<NextKeyDigest(e1)>>, b |-> <<>>, bt |-> 0, a |-> {}, di |-> D],
           <<e0>>, <<>>, {[prefix |-> Null, s |-> 1, d |-> "anchor"]})

Icp == Msg([t |-> "icp", i |-> D, s |-> 0, d |-> "icp", k |-> <<d0>>, kt |-> Simple(1),
            n |-> <<NextKeyDigest(d1)>>, b |-> <<w>>, bt |-> 1, a |-> {}], <<d0>>, <<w>>, {})

Anchor == Msg([t |-> "ixn", i |-> D, s |-> 1, d |-> "anchor", p |-> "icp",
               a |-> {EventRef(Dip.body)}], <<d0>>, <<w>>, {})

Rot == Msg([t |-> "rot", i |-> D, s |-> 2, d |-> "rot", p |-> "anchor", k |-> <<d1>>,
            kt |-> Simple(1), n |-> <<>>, bt |-> 1, br |-> <<>>, ba |-> <<>>, a |-> {}],
           <<d1>>, <<w>>, {})

MCHistory == A :> <<Dip>> @@ D :> <<Icp, Anchor, Rot>>

MCSent == {Dip, Icp, Anchor, Rot,
           [Anchor EXCEPT !.wigs = <<>>],
           [Dip EXCEPT !.hints = {[prefix |-> Null, s |-> 0, d |-> "icp"]}]}
=============================================================================
