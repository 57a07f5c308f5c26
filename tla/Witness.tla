------------------------------- MODULE Witness -------------------------------
(***************************************************************************)
(* The witnesses of one identifier: Witness.receipt and                    *)
(* Witness.handleMessage of packages/keri-infra/src/witness/witness.ts,    *)
(* behind the routes of witness-router.ts.                                 *)
(*                                                                         *)
(* receipt reads the store, verifies, awaits its signer and only then      *)
(* writes the store: other requests run in between. handleMessage has no   *)
(* await.                                                                  *)
(***************************************************************************)
EXTENDS EventStore

CONSTANT Witnesses

VARIABLES
    stored,      \* witness -> its rows
    signing      \* witness -> the requests that wait for the signer: id and row

witnessVars == <<stored, signing>>

WitnessInit ==
    /\ stored = [w \in Witnesses |-> <<>>]
    /\ signing = [w \in Witnesses |-> {}]

\* backers.indexOf(witness), for a witness that is listed.
BackerIndex(backers, w) ==
    CHOOSE x \in DOMAIN backers : backers[x] = w /\ \A y \in 1 .. x - 1 : backers[y] # w

ReceiptableUnverified(w, m) ==
    \E kel \in From(stored[w], Strict) :
        /\ IsInception(m.body.t) \/ HasState(kel)
        /\ w \in Elements(Extend(kel, m, PartiallyWitnessed).state.backers)

\* What receipt checks before it signs: the stored events are a fully witnessed
\* log, the message extends it, and this witness is a backer afterwards.
Receiptable(w, m) ==
    /\ DOMAIN m.sigs # {}
    /\ \E kel \in From(stored[w], Strict) :
          /\ CanAppend(kel, m, PartiallyWitnessed)
          /\ w \in Elements(Extend(kel, m, PartiallyWitnessed).state.backers)

\* The first half of receipt, to the await. The row it will save carries the
\* witness's own signature, whatever the message or the store had.
BeginReceipt(w, m, id) ==
    /\ Receiptable(w, m)
    /\ \E kel \in From(stored[w], Strict) :
          LET backers == Extend(kel, m, PartiallyWitnessed).state.backers
              row     == [body |-> m.body, sigs |-> m.sigs, hints |-> {},
                          wigs |-> [x \in {BackerIndex(backers, w)} |-> w]]
          IN  signing' = [signing EXCEPT ![w] = @ \cup {[id |-> id, row |-> row]}]
    /\ UNCHANGED stored

FinishReceiptUnsaved(w, request) ==
    /\ request \in signing[w]
    /\ signing' = [signing EXCEPT ![w] = @ \ {request}]
    /\ UNCHANGED stored

\* The second half: the signature is there, the event is saved.
FinishReceipt(w, request) ==
    /\ request \in signing[w]
    /\ signing' = [signing EXCEPT ![w] = @ \ {request}]
    /\ stored' = [stored EXCEPT ![w] = SaveMessage(@, request.row)]

\* handleMessage throws, and the route answers 500, only when the rows do not
\* replay. A receipt it has no use for is answered like one it merged.
Answers(w) == Loads(stored[w], PartiallyWitnessed)

WigsWithoutMerge(backers, wigs, other) == wigs

\* existingWigsByIndex: the signatures of the row, and that of the receipt at
\* the index of its witness among the backers.
MergedWigs(backers, wigs, other) ==
    IF other \notin Elements(backers) THEN wigs
    ELSE LET index == BackerIndex(backers, other)
         IN  [x \in DOMAIN wigs \cup {index} |-> IF x = index THEN other ELSE wigs[x]]

\* handleMessage for a receipt of the event d by another witness.
HandleReceipt(w, d, other) ==
    /\ \E kel \in From(stored[w], PartiallyWitnessed) :
          IF HasState(kel) /\ w \in Elements(kel.state.backers) /\ Includes(kel, d)
          THEN LET row == stored[w][RowOf(stored[w], d)]
               IN  stored' = [stored EXCEPT ![w] = SaveMessage(@,
                       [row EXCEPT !.wigs = MergedWigs(kel.state.backers, row.wigs, other),
                                   !.hints = {}])]
          ELSE UNCHANGED stored
    /\ UNCHANGED signing

=============================================================================
