------------------------------ MODULE EventIndex -----------------------------
(***************************************************************************)
(* EventIndex of packages/keri/src/core/event-index.ts: what a stream       *)
(* carries, one message per SAID, grouped by what it belongs to.           *)
(*                                                                         *)
(* Beside key events a stream has                                          *)
(*   registry events   body t ("vcp", "iss", "rev"), i, s, d, and ii, ri   *)
(*                     or ri, p; intact says that d recomputes             *)
(*   credentials       body t ("acdc", in the code version.protocol), d,   *)
(*                     i, ri, schema (in the code s), e the edges, intact  *)
(*   exchanges         body t ("exn"), embeds: what it carries, as embeds  *)
(*                     of routed-event.ts finds it, maybe exchanges again   *)
(* with the attachment fields of key events, which may be empty.           *)
(***************************************************************************)
EXTENDS KelStream

CONSTANT
    MaxNesting    \* bound: exchanges within each other (a grant in a /fwd is 2)

IsKelEventType(t) == IsEstablishment(t) \/ t = "ixn"

IsTelEventType(t) == t \in {"vcp", "iss", "rev"}

-----------------------------------------------------------------------------
(* flatten and merge. *)

\* What an exchange carries; other messages carry nothing.
Carried(m) == IF m.body.t = "exn" THEN m.body.embeds ELSE <<>>

\* The messages in the order flatten looks at them. What an exchange carries goes to
\* the end of the list that is being looked at, so all that is nested equally deep
\* comes after what is less deep, in the order of the exchanges it was carried by.
Pending(messages) ==
    LET level[depth \in 0 .. MaxNesting] ==
            IF depth = 0 THEN messages
            ELSE FlattenSeq([x \in DOMAIN level[depth - 1] |-> Carried(level[depth - 1][x])])
        all == FlattenSeq([n \in 1 .. MaxNesting + 1 |-> level[n - 1]])
    IN  Selected(all, {x \in DOMAIN all : all[x].body.t # "exn"})

\* The first copy that has an element under this index; find takes the first
\* signature of an index, so this is the pooled list as verification sees it.
Union(lists) ==
    [z \in UNION {DOMAIN lists[x] : x \in DOMAIN lists} |->
        lists[SelectInSeq(lists, LAMBDA list : z \in DOMAIN list)][z]]

FirstPresent(sets) ==
    LET x == SelectInSeq(sets, LAMBDA set : set # {}) IN IF x = 0 THEN {} ELSE sets[x]

\* SealSourceCouples have no prefix, SealSourceTriples have one.
Couples(hints) == {h \in hints : h.prefix = Null}

Triples(hints) == {h \in hints : h.prefix # Null}

MergeFirst(copies) == copies[1]

\* What the signatures of a copy are worth on the body that is kept: one that was made
\* on another body is no signature by any key.
SigsOver(body, copy, sigs) == [z \in DOMAIN sigs |-> IF copy.body = body THEN sigs[z] ELSE Null]

\* The body of the first copy with the signatures of all, and with the hints of
\* the first copy that has any. Copies of one SAID need not have one body: the SAID
\* of a key event is not computed again.
Merge(copies) ==
    [body  |-> copies[1].body,
     sigs  |-> Union([x \in DOMAIN copies |-> SigsOver(copies[1].body, copies[x], copies[x].sigs)]),
     wigs  |-> Union([x \in DOMAIN copies |-> SigsOver(copies[1].body, copies[x], copies[x].wigs)]),
     hints |-> FirstPresent([x \in DOMAIN copies |-> Couples(copies[x].hints)])
                 \cup FirstPresent([x \in DOMAIN copies |-> Triples(copies[x].hints)])]

\* One message per SAID, in the order first encountered.
Flatten(messages) ==
    LET pending == Pending(messages)
        copies(m) == Selected(pending, {z \in DOMAIN pending : pending[z].body.d = m.body.d})
        firsts    == Selected(pending, {z \in DOMAIN pending :
                         \A y \in 1 .. z - 1 : pending[y].body.d # pending[z].body.d})
    IN  [n \in DOMAIN firsts |-> Merge(copies(firsts[n]))]

-----------------------------------------------------------------------------
(* The index, as the flattened stream and what its methods find there.      *)

\* Sorted by sn; Array.sort keeps equal ones in order.
SortedBySn(events) ==
    LET before(z) == {y \in DOMAIN events : \/ events[y].body.s < events[z].body.s
                                            \/ events[y].body.s = events[z].body.s /\ y < z}
    IN  [n \in DOMAIN events |->
            events[CHOOSE z \in DOMAIN events : Cardinality(before(z)) = n - 1]]

OwnKeyEvents(index, aid) ==
    SortedBySn(Selected(index, {x \in DOMAIN index :
                   IsKelEventType(index[x].body.t) /\ index[x].body.i = aid}))

AidsOf(index) == {m.body.i : m \in {e \in Elements(index) : IsKelEventType(e.body.t)}}

\* keyEvents: those of aid, then those of its delegators as far as they are known.
KeyEventsOf(index, aid) ==
    LET ids == AidsOf(index)
        chain[visited \in SUBSET ids] ==
            [current \in ids \ visited |->
                LET events == OwnKeyEvents(index, current)
                    first  == events[1].body
                IN  events \o IF first.t = "dip" /\ first.di \in ids \ (visited \cup {current})
                              THEN chain[visited \cup {current}][first.di]
                              ELSE <<>>]
    IN  IF aid \in ids THEN chain[{}][aid] ELSE <<>>

TransactionEvents(index, registry) ==
    Selected(index, {x \in DOMAIN index :
        LET body == index[x].body IN
            /\ IsTelEventType(body.t)
            /\ registry = IF body.t = "vcp" THEN body.i ELSE body.ri})

Credentials(index) == Selected(index, {x \in DOMAIN index : index[x].body.t = "acdc"})

\* issuerLog: the set of the one log, or the empty set with a reason.
IssuerLog(index, aid) ==
    UNION {FromMessages(events, Strict) : events \in {KeyEventsOf(index, aid)} \ {<<>>}}

=============================================================================
