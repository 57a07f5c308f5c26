----------------------------- MODULE MCMultisig ------------------------------
(* Model values and bounds for Multisig. *)
EXTENDS Multisig

CONSTANTS k1, k2, k3, kx

MCKeys == {k1, k2, k3, kx}

\* Distinct keys, a single key, and a list with a repeated key.
MCKeyLists == {<<k1, k2, k3>>, <<k1, k2, k1>>}

MCOneList == {<<k1, k2, k3>>}

\* One weight per key of a three-key list, and the simple forms around its
\* bounds (0 and 4 do not parse for three keys).
MCThresholds ==
    {Simple(m) : m \in 0 .. 4}
      \cup {Weighted(<<a, b, c>>) :
              a \in {<<1, 2>>, <<1, 3>>}, b \in {<<1, 2>>, <<1, 3>>, <<3, 4>>}, c \in {<<1, 4>>, <<1, 6>>, <<1, 1>>}}

\* Two weights for three keys.
MCShortWeights == {Weighted(<<<<1, 2>>, <<1, 2>>>>)}
=============================================================================
