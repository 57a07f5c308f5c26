----------------------------- MODULE KeyEventLog -----------------------------
(***************************************************************************)
(* The KeyEventLog class of packages/keri/src/core/key-event-log.ts as a    *)
(* verifier uses it: a log that starts empty and takes whatever messages   *)
(* arrive, in any order and any number of times. A message that append     *)
(* throws on leaves the log as it was.                                     *)
(***************************************************************************)
EXTENDS KeyEvents, FiniteSets

CONSTANTS
    Messages,     \* the messages that may arrive
    OptionSet,    \* the AppendOptions of the callers
    MaxEvents     \* bound: length of the log

\* The lists of an event are lists, its threshold has one of the two forms, its
\* backer threshold is a number.
ASSUME KeyEventLogAssumption ==
    \A m \in Messages :
        /\ IsEstablishment(m.body.t) =>
              IsSequence(m.body.k) /\ IsThreshold(m.body.kt) /\ m.body.bt \in Nat
        /\ IsInception(m.body.t) => IsSequence(m.body.b)
        /\ IsRotation(m.body.t) => IsSequence(m.body.ba)

VARIABLE log

vars == <<log>>

Init == log = EmptyLog

Incept(m, opts) ==
    /\ Len(log.events) < MaxEvents
    /\ CanIncept(log, m, opts)
    /\ log' = Extend(log, m, opts)

Interact(m, opts) ==
    /\ Len(log.events) < MaxEvents
    /\ CanInteract(log, m, opts)
    /\ log' = Extend(log, m, opts)

Rotate(m, opts) ==
    /\ Len(log.events) < MaxEvents
    /\ CanRotate(log, m, opts)
    /\ log' = Extend(log, m, opts)

Next ==
    \E m \in Messages, opts \in OptionSet :
        Incept(m, opts) \/ Interact(m, opts) \/ Rotate(m, opts)

Spec == Init /\ [][Next]_vars

-----------------------------------------------------------------------------
(* Vocabulary of the properties. *)

\* Event x was the last establishment event before position y.
InForce(events, x, y) ==
    /\ x < y
    /\ IsEstablishment(events[x].body.t)
    /\ \A z \in x + 1 .. y - 1 : ~IsEstablishment(events[z].body.t)

\* Backers and backer threshold after each event, from the events alone.
BackersAfter(events) ==
    LET after[x \in DOMAIN events] ==
            LET body == events[x].body IN
                CASE IsInception(body.t) -> [list |-> body.b, bt |-> body.bt]
                  [] IsRotation(body.t)  ->
                        [list |-> Without(after[x - 1].list, Elements(body.br)) \o body.ba,
                         bt   |-> body.bt]
                  [] OTHER -> after[x - 1]
    IN  after

-----------------------------------------------------------------------------
(* Properties. *)

\* The log holds messages that arrived, only the first of them is an
\* inception, and the state names the identifier of that one.
TypeOK ==
    /\ log.events \in Seq(Messages)
    /\ HasState(log) => log.state.identifier = log.events[1].body.i
    /\ \A x \in DOMAIN log.events : IsInception(log.events[x].body.t) <=> x = 1

\* The part of the state the checks read is the content of the establishment
\* event in force, recomputed from the events. (reduceKeyState and merge carry the
\* state from event to event; append never looks back.)
StateReplays ==
    HasState(log) =>
        \E x \in DOMAIN log.events :
            /\ InForce(log.events, x, Len(log.events) + 1)
            /\ log.state.signingKeys = log.events[x].body.k
            /\ log.state.signingThreshold = log.events[x].body.kt
            /\ log.state.nextKeyDigests = log.events[x].body.n

\* Pre-rotation over the whole history: whatever lies in between, each key of a
\* rotation was committed to by the establishment event before it.
\* (append's check reads state.nextKeyDigests, which reduceKeyState maintains.)
PreRotation ==
    \A x, y \in DOMAIN log.events :
        InForce(log.events, x, y) /\ IsRotation(log.events[y].body.t) =>
            \A z \in DOMAIN log.events[y].body.k :
                NextKeyDigest(log.events[y].body.k[z]) \in Elements(log.events[x].body.n)

\* Every caller demands the signing threshold.
FullySigned == \A opts \in OptionSet : ~opts.allowPartiallySigned

\* Keys a rotation replaced have no say any more: where the threshold is demanded,
\* each interaction carries enough signatures by the keys of the last
\* establishment event before it.
SignedByKeysInForce ==
    FullySigned => \A x, y \in DOMAIN log.events :
        InForce(log.events, x, y) /\ log.events[y].body.t = "ixn" =>
            VerifyThreshold(log.events[x].body.k, log.events[x].body.kt, log.events[y].sigs)

\* Nobody rotates without a key that was kept unexposed: each rotation carries
\* a signature by a key whose digest the previous establishment event held.
RotationSignedByCommitment ==
    FullySigned => \A x, y \in DOMAIN log.events :
        InForce(log.events, x, y) /\ IsRotation(log.events[y].body.t) =>
            \E z \in DOMAIN log.events[y].sigs :
                NextKeyDigest(log.events[y].sigs[z]) \in Elements(log.events[x].body.n)

\* When every caller demands receipts, each later event carries a threshold of
\* receipts by the backers that the events before it leave in force: a rotation
\* cannot choose the witnesses that judge it.
WitnessedByBackersInForce ==
    (\A opts \in OptionSet : ~opts.allowPartiallyWitnessed) =>
        LET after == BackersAfter(log.events) IN
        \A y \in DOMAIN log.events :
            y > 1 /\ after[y - 1].bt > 0 /\ after[y - 1].list # <<>> =>
                Cardinality({z \in DOMAIN log.events[y].wigs :
                                /\ z \in DOMAIN after[y - 1].list
                                /\ log.events[y].wigs[z] = after[y - 1].list[z]})
                    >= after[y - 1].bt

\* When every caller supplies a delegator's log, each delegated event carries
\* the approval of that delegator: an event of the delegator named by di with a
\* seal of this very event.
DelegationApproved ==
    (\A opts \in OptionSet : opts.delegator # Null) =>
        \A x \in DOMAIN log.events :
            LET body == log.events[x].body IN
            body.t \in {"dip", "drt"} =>
                \E opts \in OptionSet :
                    /\ opts.delegator.state.identifier = body.di
                    /\ \E event \in Elements(opts.delegator.events) :
                          \E seal \in event.body.a :
                              seal.i = body.i /\ seal.s = body.s /\ seal.d = body.d

\* Sequence numbers are consecutive and every event names the one before it.
SequenceContinuity ==
    \A x \in DOMAIN log.events :
        x > 1 => /\ log.events[x].body.s = log.events[x - 1].body.s + 1
                 /\ log.events[x].body.p = log.events[x - 1].body.d

\* The log as an identifier's key history.
History == INSTANCE KeyHistory WITH
    Digest     <- NextKeyDigest,
    incepted   <- HasState(log),
    identifier <- IF HasState(log) THEN log.state.identifier ELSE Null,
    keys       <- IF HasState(log) THEN log.state.signingKeys ELSE <<>>,
    commitment <- IF HasState(log) THEN Elements(log.state.nextKeyDigests) ELSE {}

\* Every step of a key event log is a step of the abstract key history:
\* interactions stutter, rotations follow commitments, nothing else changes who
\* controls the identifier or which identifier it is.
KeyHistoryImplemented == History!Spec

=============================================================================
