--------------------------- MODULE MCVerification ----------------------------
(***************************************************************************)
(* An issuer I with a registry and a chain of credentials, c2 built on c1;  *)
(* a credential that asks c1 for another schema; one that was never sealed;*)
(* two that refer to each other; and an identifier A delegated by D that   *)
(* issued one. The pieces of a stream are what different holders of parts  *)
(* of this would send, one of them with an inception of its own for I, and *)
(* with another body under the SAID of an event of I.                      *)
(***************************************************************************)
EXTENDS CredentialVerification, TLC

CONSTANTS I, A, D, issuerKey, delegateKey, delegatorKey, forgerKey

Msg(body, sigs, hints) == [body |-> body, sigs |-> sigs, wigs |-> <<>>, hints |-> hints]

Bare(body) == Msg(body, <<>>, {})

Couple(s, said) == {[prefix |-> Null, s |-> s, d |-> said]}

Triple(prefix, said) == {[prefix |-> prefix, s |-> 0, d |-> said]}

Inception(t, aid, said, key) ==
    [t |-> t, i |-> aid, s |-> 0, d |-> said, k |-> <<key>>, kt |-> Simple(1), n |-> <<>>,
     b |-> <<>>, bt |-> 0, a |-> {}, di |-> D]

Ixn(aid, s, said, seals) == [t |-> "ixn", i |-> aid, s |-> s, d |-> said, a |-> seals]

Vcp(registry, owner) ==
    [t |-> "vcp", i |-> registry, s |-> 0, d |-> registry, ii |-> owner, intact |-> TRUE]

Iss(c, said, registry) ==
    [t |-> "iss", i |-> c, s |-> 0, d |-> said, ri |-> registry, intact |-> TRUE]

Acdc(c, issuer, registry, schema, edges, intact) ==
    [t |-> "acdc", d |-> c, i |-> issuer, ri |-> registry, schema |-> schema, e |-> edges, intact |-> intact]

To(c, schema) == <<[n |-> c, s |-> schema]>>

Rev == [t |-> "rev", i |-> "c1", s |-> 1, d |-> "rev1", ri |-> "R", p |-> "iss1", intact |-> TRUE]

C1 == Acdc("c1", I, "R", "S1", <<>>, TRUE)

-----------------------------------------------------------------------------

Icp  == Msg(Inception("icp", I, "icp", issuerKey), <<issuerKey>>, {})
Ixn1 == Msg(Ixn(I, 1, "ixn1", {EventRef(Vcp("R", I)), EventRef(Iss("c1", "iss1", "R"))}), <<issuerKey>>, {})
Ixn2 == Msg(Ixn(I, 2, "ixn2", {EventRef(Iss("c2", "iss2", "R")), EventRef(Iss("c3", "iss3", "R"))}), <<issuerKey>>, {})
Ixn3 == Msg(Ixn(I, 3, "ixn3", {EventRef(Rev)}), <<issuerKey>>, {})
Fake == Msg(Ixn(I, 4, "fake", {EventRef(Iss("c4", "iss4", "R"))}), <<forgerKey>>, {})
Dip  == Msg(Inception("dip", A, "dip", delegateKey), <<delegateKey>>, {})
\* The same SAID, another body.
Altered == Bare(Ixn(I, 1, "ixn1", {EventRef(Iss("c4", "iss4", "R"))}))
\* A log for I that I has no part in.
Icp0 == Msg(Inception("icp", I, "icp0", forgerKey), <<forgerKey>>, {})
Ixn0 == Msg(Ixn(I, 1, "ixn0", {EventRef(Vcp("R0", I)), EventRef(Iss("c8", "iss8", "R0"))}), <<forgerKey>>, {})
AIxn == Msg(Ixn(A, 1, "Aixn", {EventRef(Vcp("Q", A)), EventRef(Iss("c7", "iss7", "Q"))}), <<delegateKey>>, {})
DIcp == Msg(Inception("icp", D, "Dicp", delegatorKey), <<delegatorKey>>, {})
DIxn == Msg(Ixn(D, 1, "Dixn", {EventRef(Dip.body)}), <<delegatorKey>>, {})

MCTruth == I :> <<Icp, Ixn1, Ixn2, Ixn3>> @@ A :> <<Dip, AIxn>> @@ D :> <<DIcp, DIxn>>

Exn(said, embeds) == [t |-> "exn", i |-> I, d |-> said, embeds |-> embeds]

Grant ==
    Exn("grant", <<Msg(C1, <<>>, Triple("c1", "iss1")),
                   Msg(Iss("c1", "iss1", "R"), <<>>, Couple(1, "ixn1")),
                   Bare(Ixn1.body)>>)

MCPieces ==
    {<<Ixn1, Icp, Bare(Vcp("R", I)), Bare(Iss("c1", "iss1", "R")), Bare(C1)>>,
     <<Bare(Grant)>>,
     <<Bare(Exn("fwd", <<Bare(Grant)>>))>>,
     <<Bare(Acdc("c2", I, "R", "S1", To("c1", "S1"), TRUE)), Bare(Iss("c2", "iss2", "R")), Ixn2>>,
     <<Bare(Acdc("c3", I, "R", "S1", To("c1", "S2"), TRUE)), Bare(Iss("c3", "iss3", "R")), Ixn2>>,
     <<Bare(Rev)>>,
     <<Bare(Exn("revocation", <<Bare(Rev)>>)), Ixn3>>,
     <<Msg(Iss("c1", "iss1", "R"), <<>>, Couple(0, "icp"))>>,
     <<Bare(Iss("c1", "other", "R"))>>,
     <<Bare(Acdc("c4", I, "R", "S1", To("c2", Null), TRUE)), Bare(Iss("c4", "iss4", "R"))>>,
     <<Fake>>,
     <<Altered>>,
     <<Icp0, Ixn0, Bare(Vcp("R0", I)), Bare(Iss("c8", "iss8", "R0")), Bare(Acdc("c8", I, "R0", "S1", <<>>, TRUE))>>,
     <<Bare(Acdc("c5", I, "R", "S1", To("c6", Null), TRUE)),
       Bare(Acdc("c6", I, "R", "S1", To("c5", Null), FALSE))>>,
     <<AIxn, Dip, Bare(Vcp("Q", A)), Bare(Iss("c7", "iss7", "Q")), Bare(Acdc("c7", A, "Q", "S2", <<>>, TRUE))>>,
     <<DIcp, DIxn>>}
=============================================================================
