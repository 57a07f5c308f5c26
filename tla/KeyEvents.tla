------------------------------ MODULE KeyEvents ------------------------------
(***************************************************************************)
(* Key events, key states and key event logs as data: what                 *)
(* packages/keri/src/core/key-event.ts builds and what                     *)
(* packages/keri/src/core/key-event-log.ts accepts.                        *)
(*                                                                         *)
(* A message is a record                                                   *)
(*   body   the event: t, i, s, d, and by type p, k, kt, n, b, bt, br, ba, *)
(*          a, di, with the JSON field names                               *)
(*   sigs   ControllerIdxSigs, index -> the key that signed                *)
(*   wigs   WitnessIdxSigs, index -> the witness that signed               *)
(*   hints  SealSourceCouples (prefix Null) and SealSourceTriples          *)
(* A key event log is a record of the three private fields of the class.   *)
(* Sequence numbers and the backer threshold bt are the numbers their      *)
(* text denotes; nt and c are carried by the code and never read, and are  *)
(* left out. Indices are 1-based.                                          *)
(***************************************************************************)
EXTENDS Threshold

CONSTANT Null   \* JavaScript's null or undefined: no state yet, no delegator

Elements(s) == {s[x] : x \in DOMAIN s}

IsSequence(s) == s \in Seq(Elements(s))

\* nextKeyDigest: injective, and different from every key.
NextKeyDigest(key) == [digestOf |-> key]

IsInception(t) == t \in {"icp", "dip"}

IsRotation(t) == t \in {"rot", "drt"}

IsEstablishment(t) == IsInception(t) \/ IsRotation(t)

\* The constructor is private and append adds an event whenever it sets a
\* state, so the code's test "#state === null" is "no events yet".
EmptyLog == [events |-> <<>>, state |-> Null, delegator |-> Null]

HasState(log) == log.events # <<>>

Options(partiallySigned, partiallyWitnessed, delegator) ==
    [allowPartiallySigned |-> partiallySigned, allowPartiallyWitnessed |-> partiallyWitnessed,
     delegator |-> delegator]

Strict == Options(FALSE, FALSE, Null)

PartiallyWitnessed == Options(FALSE, TRUE, Null)

-----------------------------------------------------------------------------
(* Key state. *)

EventRef(body) == [i |-> body.i, s |-> body.s, d |-> body.d]

InceptionState(body) ==
    [identifier        |-> body.i,
     signingKeys       |-> body.k,
     signingThreshold  |-> body.kt,
     nextKeyDigests    |-> body.n,
     backers           |-> body.b,
     backerThreshold   |-> body.bt,
     delegator         |-> IF body.t = "dip" THEN body.di ELSE Null,
     lastEvent         |-> EventRef(body),
     lastEstablishment |-> EventRef(body)]

InteractionState(state, body) == [state EXCEPT !.lastEvent = EventRef(body)]

\* The members of a list that are not among those cut, in their order.
Without(list, cut) ==
    LET kept[x \in 0 .. Len(list)] ==
            IF x = 0 THEN <<>>
            ELSE IF list[x] \in cut THEN kept[x - 1] ELSE Append(kept[x - 1], list[x])
    IN  kept[Len(list)]

\* state.backers without br, then ba.
RotatedBackers(backers, body) == Without(backers, Elements(body.br)) \o body.ba

RotationStateKeepingNext(state, body) ==
    [state EXCEPT !.signingKeys       = body.k,
                  !.signingThreshold  = body.kt,
                  !.backers           = RotatedBackers(state.backers, body),
                  !.backerThreshold   = body.bt,
                  !.lastEvent         = EventRef(body),
                  !.lastEstablishment = EventRef(body)]

RotationStateWithoutCut(state, body) ==
    [state EXCEPT !.signingKeys       = body.k,
                  !.signingThreshold  = body.kt,
                  !.nextKeyDigests    = body.n,
                  !.backers           = state.backers \o body.ba,
                  !.backerThreshold   = body.bt,
                  !.lastEvent         = EventRef(body),
                  !.lastEstablishment = EventRef(body)]

RotationState(state, body) ==
    [state EXCEPT !.signingKeys       = body.k,
                  !.signingThreshold  = body.kt,
                  !.nextKeyDigests    = body.n,
                  !.backers           = RotatedBackers(state.backers, body),
                  !.backerThreshold   = body.bt,
                  !.lastEvent         = EventRef(body),
                  !.lastEstablishment = EventRef(body)]

\* reduceKeyState, for a body of one of the five types.
ReduceKeyState(state, body) ==
    CASE IsInception(body.t) -> InceptionState(body)
      [] body.t = "ixn"      -> InteractionState(state, body)
      [] IsRotation(body.t)  -> RotationState(state, body)

-----------------------------------------------------------------------------
(* Delegation anchors. *)

Anchors(event, target) ==
    \E seal \in event.body.a :
        seal.i = target.i /\ seal.s = target.s /\ seal.d = target.d

\* The first event of the log that a hint names.
HintedEvent(events, hint, event) ==
    \E x \in DOMAIN events :
        /\ event = events[x]
        /\ events[x].body.d = hint.d /\ events[x].body.s = hint.s
        /\ \A y \in 1 .. x - 1 :
              ~(events[y].body.d = hint.d /\ events[y].body.s = hint.s)

FindSealAnchorHintOnly(target, hints, identifier, events) ==
    LET applicable == {h \in hints : h.prefix \in {Null, identifier}}
    IN  IF applicable = {}
        THEN \E event \in Elements(events) : Anchors(event, target)
        ELSE \A hint \in applicable : \E event \in Elements(events) : HintedEvent(events, hint, event)

\* Every hint that applies must resolve to an event with the seal; without a
\* hint any event with the seal will do.
FindSealAnchor(target, hints, identifier, events) ==
    LET applicable == {h \in hints : h.prefix \in {Null, identifier}}
    IN  IF applicable = {}
        THEN \E event \in Elements(events) : Anchors(event, target)
        ELSE \A hint \in applicable : \E event \in Elements(events) :
                 HintedEvent(events, hint, event) /\ Anchors(event, target)

VerifyDelegationAnchor(m, delegator) ==
    /\ m.body.di = delegator.state.identifier
    /\ FindSealAnchor(EventRef(m.body), m.hints, delegator.state.identifier, delegator.events)

-----------------------------------------------------------------------------
(* KeyEventLog.append: the checks of each event type, and the new log. *)

\* options.delegator ?? this.#delegator
DelegatorFor(log, opts) ==
    IF opts.delegator # Null THEN opts.delegator ELSE log.delegator

VerifySigning(keys, threshold, sigs, opts) ==
    IF opts.allowPartiallySigned
    THEN VerifySignatures(keys, sigs)
    ELSE VerifyThreshold(keys, threshold, sigs)

\* Witness signatures are looked at only when there are backers and the
\* threshold is not zero.
VerifyWitness(backers, bt, wigs, opts) ==
    (Len(backers) > 0 /\ bt # 0) =>
        IF opts.allowPartiallyWitnessed
        THEN VerifySignatures(backers, wigs)
        ELSE VerifyThreshold(backers, Simple(bt), wigs)

CanInceptAgain(log, m, opts) ==
    /\ IsInception(m.body.t)
    /\ Len(m.body.k) > 0
    /\ VerifySigning(m.body.k, m.body.kt, m.sigs, opts)
    /\ VerifyWitness(m.body.b, m.body.bt, m.wigs, opts)

CanIncept(log, m, opts) ==
    LET delegator == DelegatorFor(log, opts) IN
        /\ IsInception(m.body.t)
        /\ ~HasState(log)
        /\ Len(m.body.k) > 0
        /\ VerifySigning(m.body.k, m.body.kt, m.sigs, opts)
        /\ VerifyWitness(m.body.b, m.body.bt, m.wigs, opts)
        /\ (m.body.t = "dip" /\ delegator # Null) => VerifyDelegationAnchor(m, delegator)

CanInteractUnsigned(log, m, opts) ==
    /\ m.body.t = "ixn"
    /\ HasState(log)
    /\ VerifySignatures(log.state.signingKeys, m.sigs)
    /\ VerifyWitness(log.state.backers, log.state.backerThreshold, m.wigs, opts)

CanInteract(log, m, opts) ==
    /\ m.body.t = "ixn"
    /\ HasState(log)
    /\ VerifySigning(log.state.signingKeys, log.state.signingThreshold, m.sigs, opts)
    /\ VerifyWitness(log.state.backers, log.state.backerThreshold, m.wigs, opts)

\* Every key of the event was committed to by the last establishment event.
CommittedSomeKey(state, keys) ==
    \E x \in DOMAIN keys : NextKeyDigest(keys[x]) \in Elements(state.nextKeyDigests)

Committed(state, keys) ==
    \A x \in DOMAIN keys : NextKeyDigest(keys[x]) \in Elements(state.nextKeyDigests)

\* A rotation is witnessed by the backers in force before it.
CanRotate(log, m, opts) ==
    LET delegator == DelegatorFor(log, opts) IN
        /\ IsRotation(m.body.t)
        /\ HasState(log)
        /\ Committed(log.state, m.body.k)
        /\ VerifySigning(m.body.k, m.body.kt, m.sigs, opts)
        /\ VerifyWitness(log.state.backers, log.state.backerThreshold, m.wigs, opts)
        /\ (m.body.t = "drt" /\ delegator # Null) => VerifyDelegationAnchor(m, delegator)

\* append returns a log rather than throwing.
CanAppend(log, m, opts) ==
    CanIncept(log, m, opts) \/ CanInteract(log, m, opts) \/ CanRotate(log, m, opts)

\* The log append returns.
Extend(log, m, opts) ==
    [events    |-> Append(log.events, m),
     state     |-> ReduceKeyState(log.state, m.body),
     delegator |-> DelegatorFor(log, opts)]

=============================================================================
