---------------------------- MODULE MCKeyEventLog ----------------------------
(***************************************************************************)
(* Messages for KeyEventLog: one identifier, keys a0 -> a1 -> a2 (b0, b1    *)
(* beside them in the two-key variants), three witnesses, and messages that *)
(* are wrong in one respect: signed by a replaced or a foreign key, short  *)
(* of signatures or receipts, exposing a key nobody committed to.          *)
(***************************************************************************)
EXTENDS KeyEventLog, TLC

CONSTANTS a0, a1, a2, b0, b1, w1, w2, w3, A, D

Next1(keys) == [x \in DOMAIN keys |-> NextKeyDigest(keys[x])]

Msg(body, sigs, wigs, hints) == [body |-> body, sigs |-> sigs, wigs |-> wigs, hints |-> hints]

Icp(k, kt, n, b, bt) ==
    [t |-> "icp", i |-> A, s |-> 0, d |-> "icp", k |-> k, kt |-> kt, n |-> Next1(n),
     b |-> b, bt |-> bt, a |-> {}]

Dip(di) ==
    [t |-> "dip", i |-> A, s |-> 0, d |-> "dip", k |-> <<a0>>, kt |-> Simple(1),
     n |-> Next1(<<a1>>), b |-> <<>>, bt |-> 0, a |-> {}, di |-> di]

Ixn(s, d, p) == [t |-> "ixn", i |-> A, s |-> s, d |-> d, p |-> p, a |-> {}]

Rot(s, d, p, k, n, bt, br, ba) ==
    [t |-> "rot", i |-> A, s |-> s, d |-> d, p |-> p, k |-> k, kt |-> Simple(1), n |-> Next1(n),
     bt |-> bt, br |-> br, ba |-> ba, a |-> {}]

Drt(s, d, p, k, n, di) ==
    [t |-> "drt", i |-> A, s |-> s, d |-> d, p |-> p, k |-> k, kt |-> Simple(1), n |-> Next1(n),
     bt |-> 0, br |-> <<>>, ba |-> <<>>, a |-> {}, di |-> di]

Receipts == {<<>>, <<w1>>, 2 :> w2, <<w1, w2>>, <<w2>>, 2 :> w3}

Inceptions ==
    {Msg(Icp(<<a0>>, Simple(1), <<a1>>, <<w1, w2>>, bt), sigs, wigs, {}) :
        bt \in 0 .. 2, sigs \in {<<a0>>, <<a1>>}, wigs \in Receipts}
      \cup
    {Msg(Icp(<<a0, b0>>, kt, <<a1, b1>>, <<>>, 0), sigs, <<>>, {}) :
        kt \in {Simple(2), Weighted(<<<<1, 2>>, <<1, 2>>>>)}, sigs \in {<<a0>>, <<a0, b0>>, <<b0, a0>>}}

Interactions ==
    {Msg(Ixn(1, "ixn1", "icp"), sigs, wigs, {}) :
        sigs \in {<<>>, <<a0>>, <<a1>>, <<a2>>, <<a0, b0>>}, wigs \in Receipts}

Rotations ==
    {Msg(Rot(2, d, "ixn1", k, <<a2>>, bt, br, ba), sigs, wigs, {}) :
        d \in {"rot1"}, k \in {<<a1>>, <<a1, b1>>, <<>>}, bt \in {1}, br \in {<<>>, <<w1>>},
        ba \in {<<>>, <<w3>>}, sigs \in {<<a1>>, <<a0>>, 2 :> b1}, wigs \in Receipts}
      \cup
    {Msg(Rot(3, "rot2", "rot1", k, <<>>, 0, <<>>, <<>>), <<a2>>, wigs, {}) :
        k \in {<<a2>>, <<a0>>}, wigs \in Receipts}

UndelegatedMessages == Inceptions \cup Interactions \cup Rotations

MCStrict == {Strict}

-----------------------------------------------------------------------------
(* Delegation: two snapshots of the delegator's log, before and after it     *)
(* approved the rotation, and delegated events with and without hints.      *)

Seal(s, d) == [i |-> A, s |-> s, d |-> d]

DIcp == Msg([t |-> "icp", i |-> D, s |-> 0, d |-> "Dicp", k |-> <<b0>>, kt |-> Simple(1),
             n |-> Next1(<<b1>>), b |-> <<>>, bt |-> 0, a |-> {}], <<b0>>, <<>>, {})

DIxn(s, d, seals) == Msg([t |-> "ixn", i |-> D, s |-> s, d |-> d, p |-> "Dicp", a |-> seals],
                         <<b0>>, <<>>, {})

DelegatorLog(events) ==
    [events |-> events, state |-> InteractionState(InceptionState(DIcp.body), events[Len(events)].body),
     delegator |-> Null]

Delegator1 == DelegatorLog(<<DIcp, DIxn(1, "Dixn1", {Seal(0, "dip")})>>)

Delegator2 == DelegatorLog(<<DIcp, DIxn(1, "Dixn1", {Seal(0, "dip")}),
                             DIxn(2, "Dixn2", {Seal(1, "drt1")})>>)

\* Callers that supply the delegator and demand every signature and receipt.
MCDelegated == {Options(FALSE, FALSE, Delegator1), Options(FALSE, FALSE, Delegator2)}

HintSets ==
    {{}, {[prefix |-> Null, s |-> 1, d |-> "Dixn1"]}, {[prefix |-> D, s |-> 2, d |-> "Dixn2"]},
     {[prefix |-> A, s |-> 0, d |-> "other"]}, {[prefix |-> Null, s |-> 0, d |-> "Dicp"]}}

DelegatedMessages ==
    {Msg(Dip(di), <<a0>>, <<>>, hints) : di \in {D, A}, hints \in HintSets}
      \cup
    {Msg(Icp(<<a0>>, Simple(1), <<a1>>, <<>>, 0), <<a0>>, <<>>, {})}
      \cup
    {Msg(Ixn(s, "ixn", "dip"), <<k>>, <<>>, {}) : s \in 1 .. 2, k \in {a0, a1}}
      \cup
    {Msg(Drt(1, d, "dip", <<a1>>, <<a2>>, di), <<k>>, <<>>, hints) :
        d \in {"drt1", "drt2"}, di \in {D, A}, k \in {a0, a1}, hints \in HintSets}
      \cup
    {Msg(Rot(2, "rot2", "drt1", <<k>>, <<>>, 0, <<>>, <<>>), <<k>>, <<>>, {}) : k \in {a1, a2}}

MCMessages == UndelegatedMessages \cup DelegatedMessages
=============================================================================
