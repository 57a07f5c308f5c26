-------------------------- MODULE KeyEventLogProofs --------------------------
(***************************************************************************)
(* Proofs about KeyEventLog, for every set of messages, every set of        *)
(* append options and every length of the log.                             *)
(*                                                                         *)
(* The checks of append look at a state that reduceKeyState carries from   *)
(* event to event; the properties speak of the events. StateReplays (keys, *)
(* threshold, commitment) and BackersReplay (backers and their threshold)  *)
(* say that the state is what the events make of it.                       *)
(***************************************************************************)
EXTENDS KeyEventLog, Lemmas

\* What every KeyEventLog step does: one message is appended and the state is
\* reduced with it, after the checks for the type of the message.
StepWith(m, opts) ==
    /\ m \in Messages /\ opts \in OptionSet
    /\ \/ CanIncept(log, m, opts)
       \/ CanInteract(log, m, opts)
       \/ CanRotate(log, m, opts)
    /\ log' = Extend(log, m, opts)

\* A state has all its fields (what merge preserves).
StateShape == HasState(log) => DOMAIN log.state = KeyStateFields

\* A step of Next is the append of one message that passed its checks.
LEMMA StepShape ==
    Next => \E m \in Messages, opts \in OptionSet : StepWith(m, opts)
BY DEF Next, Incept, Interact, Rotate, StepWith

\* Appending an event leaves the events before it where they were.
LEMMA AppendKeeps ==
    ASSUME NEW S, NEW e \in Seq(S), NEW m \in S
    PROVE  /\ Append(e, m) \in Seq(S)
           /\ Len(Append(e, m)) = Len(e) + 1
           /\ DOMAIN Append(e, m) = DOMAIN e \cup {Len(e) + 1}
           /\ \A x \in DOMAIN e : Append(e, m)[x] = e[x]
           /\ Append(e, m)[Len(e) + 1] = m
           /\ Append(e, m) # <<>>
OBVIOUS

\* Which establishment event is in force at a position depends only on the
\* events before it, so appending does not change it.
LEMMA InForceStable ==
    ASSUME NEW S, NEW e \in Seq(S), NEW m \in S,
           NEW x \in DOMAIN e, NEW y \in 1 .. Len(e) + 1
    PROVE  InForce(Append(e, m), x, y) <=> InForce(e, x, y)
<1>1. \A z \in DOMAIN e : Append(e, m)[z] = e[z]
  BY AppendKeeps
<1>2. \A z \in x + 1 .. y - 1 : z \in DOMAIN e
  OBVIOUS
<1> QED
  BY <1>1, <1>2 DEF InForce

-----------------------------------------------------------------------------
(* The inductive step, conjunct by conjunct. *)

\* The new log is the old one with m at its end, and only an inception may
\* come first.
LEMMA StepTyping ==
    ASSUME TypeOK, NEW m, NEW opts, StepWith(m, opts)
    PROVE  /\ m \in Messages
           /\ log.events \in Seq(Messages)
           /\ log'.events = Append(log.events, m)
           /\ log'.state = ReduceKeyState(log.state, m.body)
           /\ IsInception(m.body.t) <=> ~HasState(log)
           /\ IsInception(m.body.t) \/ m.body.t = "ixn" \/ IsRotation(m.body.t)
BY DEF StepWith, TypeOK, Extend, CanIncept, CanInteract, CanRotate, IsInception, IsRotation

\* What reduceKeyState leaves in the fields that the checks and the properties
\* read, from a complete state.
LEMMA ReducedState ==
    ASSUME NEW st, NEW body, IsInception(body.t) \/ DOMAIN st = KeyStateFields,
           IsInception(body.t) \/ body.t = "ixn" \/ IsRotation(body.t)
    PROVE  LET new == ReduceKeyState(st, body) IN
           /\ DOMAIN new = KeyStateFields
           /\ new.identifier = IF IsInception(body.t) THEN body.i ELSE st.identifier
           /\ IsEstablishment(body.t) =>
                /\ new.signingKeys = body.k
                /\ new.signingThreshold = body.kt
                /\ new.nextKeyDigests = body.n
           /\ ~IsEstablishment(body.t) =>
                /\ new.signingKeys = st.signingKeys
                /\ new.signingThreshold = st.signingThreshold
                /\ new.nextKeyDigests = st.nextKeyDigests
<1> USE DEF KeyStateFields
<1>1. CASE IsInception(body.t)
  <2>1. ReduceKeyState(st, body) = InceptionState(body)
    BY <1>1 DEF ReduceKeyState, IsInception, IsRotation
  <2> QED
    BY <2>1, <1>1 DEF InceptionState, IsEstablishment
<1>2. CASE body.t = "ixn"
  <2>1. ReduceKeyState(st, body) = InteractionState(st, body)
    BY <1>2 DEF ReduceKeyState, IsInception, IsRotation
  <2>2. DOMAIN st = KeyStateFields
    BY <1>2 DEF IsInception
  <2> QED
    BY <2>1, <2>2, <1>2 DEF InteractionState, IsEstablishment, IsInception, IsRotation
<1>3. CASE IsRotation(body.t)
  <2>1. ReduceKeyState(st, body) = RotationState(st, body)
    BY <1>3 DEF ReduceKeyState, IsInception, IsRotation
  <2>2. DOMAIN st = KeyStateFields
    BY <1>3 DEF IsInception, IsRotation
  <2> QED
    BY <2>1, <2>2, <1>3 DEF RotationState, IsEstablishment, IsInception, IsRotation
<1> QED
  BY <1>1, <1>2, <1>3

\* reduceKeyState and merge leave no field of a state undefined.
LEMMA StateShapeStep ==
    ASSUME TypeOK, StateShape, NEW m, NEW opts, StepWith(m, opts)
    PROVE  StateShape'
<1>1. DOMAIN log'.state = KeyStateFields
  BY StepTyping, ReducedState DEF StateShape
<1> QED
  BY <1>1 DEF StateShape

\* append keeps the shape of a log: an inception is accepted first and only
\* first, and no later event changes the identifier of the state.
LEMMA TypeOKStep ==
    ASSUME TypeOK, StateShape, NEW m, NEW opts, StepWith(m, opts)
    PROVE  TypeOK'
<1> DEFINE e == log.events
<1>1. /\ m \in Messages
      /\ e \in Seq(Messages)
      /\ log'.events = Append(e, m)
      /\ log'.state = ReduceKeyState(log.state, m.body)
      /\ IsInception(m.body.t) <=> e = <<>>
      /\ IsInception(m.body.t) \/ m.body.t = "ixn" \/ IsRotation(m.body.t)
  BY StepTyping DEF HasState
<1>2. log'.events \in Seq(Messages)
  BY <1>1
<1>3. ASSUME NEW x \in DOMAIN log'.events
      PROVE  IsInception(log'.events[x].body.t) <=> x = 1
  <2>1. CASE x \in DOMAIN e
    <3>1. log'.events[x] = e[x]
      BY <1>1, <2>1, AppendKeeps
    <3> QED
      BY <3>1, <2>1 DEF TypeOK
  <2>2. CASE x = Len(e) + 1
    <3>1. log'.events[x] = m
      BY <1>1, <2>2, AppendKeeps
    <3>2. e = <<>> <=> x = 1
      BY <1>1, <2>2
    <3> QED
      BY <3>1, <3>2, <1>1
  <2> QED
    BY <1>1, <1>3, <2>1, <2>2, AppendKeeps
<1>4. log'.state.identifier = log'.events[1].body.i
  <2>1. CASE e = <<>>
    <3>1. log'.events[1] = m
      BY <1>1, <2>1
    <3> QED
      BY <3>1, <1>1, <2>1, ReducedState
  <2>2. CASE e # <<>>
    <3>1. log'.events[1] = e[1]
      BY <1>1, <2>2
    <3>2. log.state.identifier = e[1].body.i /\ DOMAIN log.state = KeyStateFields
      BY <2>2 DEF TypeOK, StateShape, HasState
    <3> QED
      BY <3>1, <3>2, <1>1, <2>2, ReducedState
  <2> QED
    BY <2>1, <2>2
<1> QED
  BY <1>2, <1>3, <1>4 DEF TypeOK

\* reduceKeyState keeps the state that append's checks read in agreement with
\* the events: it takes over the fields of an establishment event and leaves
\* them alone otherwise.
LEMMA StateReplaysStep ==
    ASSUME TypeOK, StateShape, StateReplays, NEW m, NEW opts, StepWith(m, opts)
    PROVE  StateReplays'
<1> DEFINE e == log.events
           e2 == Append(e, m)
<1>1. /\ m \in Messages
      /\ e \in Seq(Messages)
      /\ log'.events = e2
      /\ log'.state = ReduceKeyState(log.state, m.body)
      /\ IsInception(m.body.t) <=> e = <<>>
      /\ IsInception(m.body.t) \/ m.body.t = "ixn" \/ IsRotation(m.body.t)
      /\ e # <<>> => DOMAIN log.state = KeyStateFields
  BY StepTyping DEF HasState, StateShape
<1>2. CASE IsEstablishment(m.body.t)
  <2>1. InForce(e2, Len(e) + 1, Len(e2) + 1)
    BY <1>1, <1>2, AppendKeeps DEF InForce
  <2>2. /\ log'.state.signingKeys = m.body.k
        /\ log'.state.signingThreshold = m.body.kt
        /\ log'.state.nextKeyDigests = m.body.n
    BY <1>1, <1>2, ReducedState
  <2> QED
    BY <2>1, <2>2, <1>1, AppendKeeps DEF StateReplays
<1>3. CASE ~IsEstablishment(m.body.t)
  <2>1. e # <<>>
    BY <1>1, <1>3 DEF IsEstablishment
  <2>2. PICK x \in DOMAIN e :
            /\ InForce(e, x, Len(e) + 1)
            /\ log.state.signingKeys = e[x].body.k
            /\ log.state.signingThreshold = e[x].body.kt
            /\ log.state.nextKeyDigests = e[x].body.n
    BY <2>1 DEF StateReplays, HasState
  <2>3. /\ log'.state.signingKeys = e[x].body.k
        /\ log'.state.signingThreshold = e[x].body.kt
        /\ log'.state.nextKeyDigests = e[x].body.n
    BY <1>1, <1>3, <2>1, <2>2, ReducedState
  <2>4. InForce(e2, x, Len(e2) + 1)
    <3>1. \A z \in x + 1 .. Len(e) : e2[z] = e[z]
      BY <1>1, AppendKeeps
    <3>2. e2[x] = e[x] /\ e2[Len(e) + 1] = m /\ Len(e2) = Len(e) + 1
      BY <1>1, AppendKeeps
    <3>3. \A z \in x + 1 .. Len(e) + 1 : ~IsEstablishment(e2[z].body.t)
      BY <3>1, <3>2, <2>2, <1>1, <1>3 DEF InForce
    <3> QED
      BY <3>2, <3>3, <2>2, <1>1 DEF InForce
  <2> QED
    BY <2>3, <2>4, <1>1, AppendKeeps DEF StateReplays
<1> QED
  BY <1>2, <1>3

\* Only one establishment event is in force at a position.
LEMMA InForceUnique ==
    ASSUME NEW S, NEW e \in Seq(S), NEW x \in DOMAIN e, NEW y \in DOMAIN e,
           NEW z \in Nat, InForce(e, x, z), InForce(e, y, z)
    PROVE  x = y
BY DEF InForce

\* The establishment event in force when a later event arrives is the one the
\* state was taken from.
LEMMA StateInForce ==
    ASSUME TypeOK, StateReplays, NEW x \in DOMAIN log.events,
           InForce(log.events, x, Len(log.events) + 1)
    PROVE  /\ log.state.signingKeys = log.events[x].body.k
           /\ log.state.signingThreshold = log.events[x].body.kt
           /\ log.state.nextKeyDigests = log.events[x].body.n
<1>1. log.events \in Seq(Messages) /\ HasState(log)
  BY DEF TypeOK, HasState
<1>2. PICK y \in DOMAIN log.events :
          /\ InForce(log.events, y, Len(log.events) + 1)
          /\ log.state.signingKeys = log.events[y].body.k
          /\ log.state.signingThreshold = log.events[y].body.kt
          /\ log.state.nextKeyDigests = log.events[y].body.n
  BY <1>1 DEF StateReplays
<1>3. Len(log.events) + 1 \in Nat
  BY <1>1
<1>4. x = y
  BY <1>1, <1>2, <1>3, InForceUnique
<1> QED
  BY <1>2, <1>4

\* append's test of each new key against state.nextKeyDigests keeps pre-rotation
\* over the events, because the state replays them.
LEMMA PreRotationStep ==
    ASSUME TypeOK, StateReplays, PreRotation, NEW m, NEW opts, StepWith(m, opts)
    PROVE  PreRotation'
<1> DEFINE e == log.events
           e2 == Append(e, m)
           n == Len(e) + 1
<1>1. /\ m \in Messages
      /\ e \in Seq(Messages)
      /\ log'.events = e2
  BY StepTyping
<1> SUFFICES ASSUME NEW x \in DOMAIN e2, NEW y \in DOMAIN e2,
                    InForce(e2, x, y), IsRotation(e2[y].body.t),
                    NEW z \in DOMAIN e2[y].body.k
             PROVE  NextKeyDigest(e2[y].body.k[z]) \in Elements(e2[x].body.n)
  BY <1>1 DEF PreRotation
<1>2. x \in DOMAIN e /\ e2[x] = e[x] /\ y \in 1 .. n
  BY <1>1, AppendKeeps DEF InForce
<1>3. InForce(e, x, y)
  BY <1>1, <1>2, InForceStable
<1>4. CASE y \in DOMAIN e
  <2>1. e2[y] = e[y]
    BY <1>1, <1>4, AppendKeeps
  <2> QED
    BY <2>1, <1>2, <1>3, <1>4 DEF PreRotation
<1>5. CASE y = n
  <2>1. e2[y] = m
    BY <1>1, <1>5, AppendKeeps
  <2>2. Committed(log.state, m.body.k)
    BY <2>1 DEF StepWith, CanIncept, CanInteract, CanRotate, IsRotation, IsInception
  <2>3. log.state.nextKeyDigests = e[x].body.n
    BY <1>2, <1>3, <1>5, StateInForce
  <2> QED
    BY <2>1, <2>2, <2>3, <1>2 DEF Committed
<1> QED
  BY <1>1, <1>4, <1>5, AppendKeeps

\* append's test of an interaction against state.signingKeys keeps every
\* interaction signed by the keys in force, because the state replays the events.
LEMMA SignedByKeysInForceStep ==
    ASSUME TypeOK, StateReplays, SignedByKeysInForce, NEW m, NEW opts, StepWith(m, opts)
    PROVE  SignedByKeysInForce'
<1> DEFINE e == log.events
           e2 == Append(e, m)
           n == Len(e) + 1
<1>1. /\ m \in Messages
      /\ e \in Seq(Messages)
      /\ log'.events = e2
  BY StepTyping
<1> SUFFICES ASSUME FullySigned, NEW x \in DOMAIN e2, NEW y \in DOMAIN e2,
                    InForce(e2, x, y), e2[y].body.t = "ixn"
             PROVE  VerifyThreshold(e2[x].body.k, e2[x].body.kt, e2[y].sigs)
  BY <1>1 DEF SignedByKeysInForce, FullySigned
<1>2. x \in DOMAIN e /\ e2[x] = e[x] /\ y \in 1 .. n
  BY <1>1, AppendKeeps DEF InForce
<1>3. InForce(e, x, y)
  BY <1>1, <1>2, InForceStable
<1>4. CASE y \in DOMAIN e
  <2>1. e2[y] = e[y]
    BY <1>1, <1>4, AppendKeeps
  <2> QED
    BY <2>1, <1>2, <1>3, <1>4 DEF SignedByKeysInForce
<1>5. CASE y = n
  <2>1. e2[y] = m
    BY <1>1, <1>5, AppendKeeps
  <2>2. VerifyThreshold(log.state.signingKeys, log.state.signingThreshold, m.sigs)
    BY <2>1 DEF StepWith, CanIncept, CanInteract, CanRotate, IsRotation, IsInception, VerifySigning, FullySigned
  <2>3. /\ log.state.signingKeys = e[x].body.k
        /\ log.state.signingThreshold = e[x].body.kt
    BY <1>2, <1>3, <1>5, StateInForce
  <2> QED
    BY <2>1, <2>2, <2>3, <1>2
<1> QED
  BY <1>1, <1>4, <1>5, AppendKeeps

\* The delegator's event that holds the seal, whether hints named it or not.
LEMMA AnchorFound ==
    ASSUME NEW target, NEW hints, NEW identifier, NEW events,
           FindSealAnchor(target, hints, identifier, events)
    PROVE  \E event \in Elements(events) : Anchors(event, target)
BY DEF FindSealAnchor

\* append looks for the approval of a delegated event when a delegator's log is
\* supplied, and of the delegator that the event names.
LEMMA DelegationApprovedStep ==
    ASSUME TypeOK, DelegationApproved, NEW m, NEW opts, StepWith(m, opts)
    PROVE  DelegationApproved'
<1> DEFINE e == log.events
           e2 == Append(e, m)
           Approved(body) == \E o \in OptionSet :
               /\ o.delegator.state.identifier = body.di
               /\ \E event \in Elements(o.delegator.events) :
                     \E seal \in event.body.a :
                         seal.i = body.i /\ seal.s = body.s /\ seal.d = body.d
<1>1. /\ m \in Messages
      /\ e \in Seq(Messages)
      /\ log'.events = e2
  BY StepTyping
<1> SUFFICES ASSUME \A o \in OptionSet : o.delegator # Null,
                    NEW x \in DOMAIN e2, e2[x].body.t \in {"dip", "drt"}
             PROVE  Approved(e2[x].body)
  BY <1>1 DEF DelegationApproved
<1>2. CASE x \in DOMAIN e
  <2>1. e2[x] = e[x]
    BY <1>1, <1>2, AppendKeeps
  <2> QED
    BY <2>1, <1>2 DEF DelegationApproved
<1>3. CASE x = Len(e) + 1
  <2>1. e2[x] = m
    BY <1>1, <1>3, AppendKeeps
  <2>2. opts \in OptionSet /\ DelegatorFor(log, opts) = opts.delegator
    BY DEF StepWith, DelegatorFor
  <2>3. VerifyDelegationAnchor(m, opts.delegator)
    BY <2>1, <2>2 DEF StepWith, CanIncept, CanInteract, CanRotate, IsRotation, IsInception
  <2>4. PICK event \in Elements(opts.delegator.events) : Anchors(event, EventRef(m.body))
    BY <2>3, AnchorFound DEF VerifyDelegationAnchor
  <2> QED
    BY <2>1, <2>2, <2>3, <2>4 DEF VerifyDelegationAnchor, Anchors, EventRef
<1> QED
  BY <1>1, <1>2, <1>3, AppendKeeps

-----------------------------------------------------------------------------
(* Backers: what RotatedBackers keeps, and the recursion of BackersAfter.   *)

\* A rotation leaves a list of backers.
LEMMA RotatedIsSequence ==
    ASSUME NEW backers, IsSequence(backers), NEW body, IsSequence(body.ba)
    PROVE IsSequence(RotatedBackers(backers, body))
<1> DEFINE r == RotatedBackers(backers, body)
           S == Elements(backers) \cup Elements(body.ba)
<1>1. Without(backers, Elements(body.br)) \in Seq(Elements(backers))
  BY WithoutIsSequence DEF IsSequence
<1>2. r \in Seq(S)
  <2>1. Without(backers, Elements(body.br)) \in Seq(S)
    BY <1>1
  <2>2. body.ba \in Seq(S)
    BY DEF IsSequence
  <2> QED
    BY <2>1, <2>2 DEF RotatedBackers
<1> HIDE DEF r
<1>3. r \in Seq(Elements(r))
  BY <1>2 DEF Elements
<1> QED
  BY <1>3 DEF r, IsSequence

\* The backers and their threshold after event x, from those after the one before.
BackersStep(events, after, x) ==
    LET body == events[x].body IN
        CASE IsInception(body.t) -> [list |-> body.b, bt |-> body.bt]
          [] IsRotation(body.t)  ->
                [list |-> Without(after[x - 1].list, Elements(body.br)) \o body.ba,
                 bt   |-> body.bt]
          [] OTHER -> after[x - 1]

\* A log that starts, and only starts, with an inception.
Rooted(events) ==
    /\ events \in Seq(Messages)
    /\ \A x \in DOMAIN events : IsInception(events[x].body.t) <=> x = 1

\* What precedes matters from the second event on only.
LEMMA BackersStepLocal ==
    ASSUME NEW events, Rooted(events), NEW x \in DOMAIN events, NEW f, NEW g,
           x # 1 => f[x - 1] = g[x - 1]
    PROVE BackersStep(events, f, x) = BackersStep(events, g, x)
<1>1. CASE x = 1
  <2>1. IsInception(events[x].body.t) /\ ~IsRotation(events[x].body.t)
    BY <1>1 DEF Rooted, IsInception, IsRotation
  <2> QED
    BY <2>1 DEF BackersStep
<1>2. CASE x # 1
  BY <1>2 DEF BackersStep
<1> QED
  BY <1>1, <1>2

\* BackersAfter is what its definition says.
LEMMA BackersEquation ==
    ASSUME NEW events, Rooted(events)
    PROVE \A x \in DOMAIN events :
              BackersAfter(events)[x] = BackersStep(events, BackersAfter(events), x)
<1> DEFINE n == Len(events)
           Good(f, k) == \A x \in 1 .. k : f[x] = BackersStep(events, f, x)
           N == {k \in Nat : k <= n => \E f : Good(f, k)}
<1>1. n \in Nat /\ DOMAIN events = 1 .. n
  BY DEF Rooted
<1> HIDE DEF n
<1>2. 0 \in N
  <2>1. 1 .. 0 = {}
    OBVIOUS
  <2> QED
    BY <2>1
<1>3. \A k \in Nat : k \in N => k + 1 \in N
  <2> SUFFICES ASSUME NEW k \in Nat, k \in N, k + 1 <= n PROVE \E f : Good(f, k + 1)
    OBVIOUS
  <2>1. k <= n
    BY <1>1
  <2>2. PICK f : Good(f, k)
    BY <2>1
  <2> DEFINE g == [x \in 1 .. k + 1 |-> IF x = k + 1 THEN BackersStep(events, f, x) ELSE f[x]]
  <2>3. \A x \in 1 .. k : g[x] = f[x]
    OBVIOUS
  <2>4. g[k + 1] = BackersStep(events, f, k + 1)
    OBVIOUS
  <2> HIDE DEF g
  <2>5. ASSUME NEW x \in 1 .. k + 1 PROVE BackersStep(events, f, x) = BackersStep(events, g, x)
    <3>1. x # 1 => x - 1 \in 1 .. k
      OBVIOUS
    <3>2. x # 1 => f[x - 1] = g[x - 1]
      BY <2>3, <3>1
    <3>3. x \in DOMAIN events
      BY <1>1
    <3> QED
      BY <3>2, <3>3, BackersStepLocal
  <2>6. \A x \in 1 .. k + 1 : x \in 1 .. k \/ x = k + 1
    OBVIOUS
  <2>7. Good(g, k + 1)
    BY <2>2, <2>3, <2>4, <2>5, <2>6
  <2> QED
    BY <2>7
<1> HIDE DEF N
<1>4. n \in N
  BY <1>1, <1>2, <1>3, SetInduction
<1>5. PICK f : Good(f, n)
  BY <1>1, <1>4 DEF N
<1> DEFINE Is(g) == g = [x \in DOMAIN events |-> BackersStep(events, g, x)]
<1>6. \E g : Is(g)
  <2> DEFINE g == [x \in 1 .. n |-> f[x]]
  <2>1. ASSUME NEW x \in 1 .. n PROVE g[x] = BackersStep(events, g, x)
    <3>1. x # 1 => x - 1 \in 1 .. n
      BY <1>1
    <3>2. x # 1 => f[x - 1] = g[x - 1]
      BY <3>1
    <3> HIDE DEF g
    <3>3. BackersStep(events, f, x) = BackersStep(events, g, x)
      BY <1>1, <3>2, BackersStepLocal
    <3> QED
      BY <1>5, <3>3 DEF g
  <2>2. g = [x \in 1 .. n |-> g[x]]
    OBVIOUS
  <2> HIDE DEF g
  <2>3. Is(g)
    BY <1>1, <2>1, <2>2
  <2> QED
    BY <2>3
<1>7. BackersAfter(events) = CHOOSE g : Is(g)
  BY DEF BackersAfter, BackersStep
<1>8. Is(BackersAfter(events))
  BY <1>6, <1>7
<1> QED
  BY <1>8

\* An event that is appended changes nothing for the backers before it.
LEMMA BackersAppended ==
    ASSUME NEW e, NEW m, Rooted(e), Rooted(Append(e, m))
    PROVE \A x \in DOMAIN e : BackersAfter(Append(e, m))[x] = BackersAfter(e)[x]
<1> DEFINE e2 == Append(e, m)
           n == Len(e)
           N == {k \in Nat : k + 1 <= n => BackersAfter(e2)[k + 1] = BackersAfter(e)[k + 1]}
<1>1. /\ n \in Nat /\ DOMAIN e = 1 .. n
      /\ DOMAIN e2 = 1 .. n + 1
      /\ \A x \in 1 .. n : e2[x] = e[x]
  BY DEF Rooted
<1>2. Rooted(e) /\ Rooted(e2)
  OBVIOUS
<1> HIDE DEF e2, n
<1>3. \A x \in 1 .. n : BackersAfter(e)[x] = BackersStep(e, BackersAfter(e), x)
  BY <1>1, <1>2, BackersEquation
<1>4. \A x \in 1 .. n : BackersAfter(e2)[x] = BackersStep(e2, BackersAfter(e2), x)
  <2>1. \A x \in DOMAIN e2 : BackersAfter(e2)[x] = BackersStep(e2, BackersAfter(e2), x)
    BY <1>2, BackersEquation
  <2> QED
    BY <1>1, <2>1
<1>5. \A x \in 1 .. n : BackersStep(e2, BackersAfter(e2), x) = BackersStep(e, BackersAfter(e2), x)
  BY <1>1 DEF BackersStep
<1>6. ASSUME NEW x \in 1 .. n, x # 1 => BackersAfter(e2)[x - 1] = BackersAfter(e)[x - 1]
      PROVE BackersAfter(e2)[x] = BackersAfter(e)[x]
  <2>1. BackersStep(e, BackersAfter(e2), x) = BackersStep(e, BackersAfter(e), x)
    BY <1>1, <1>2, <1>6, BackersStepLocal
  <2> QED
    BY <1>3, <1>4, <1>5, <2>1
<1>7. 0 \in N
  <2>1. 1 <= n => BackersAfter(e2)[1] = BackersAfter(e)[1]
    BY <1>1, <1>6
  <2> QED
    BY <2>1
<1>8. \A k \in Nat : k \in N => k + 1 \in N
  <2> SUFFICES ASSUME NEW k \in Nat, k \in N PROVE k + 1 \in N
    OBVIOUS
  <2>1. ASSUME (k + 1) + 1 <= n PROVE BackersAfter(e2)[(k + 1) + 1] = BackersAfter(e)[(k + 1) + 1]
    <3>1. PICK x \in 1 .. n : x = (k + 1) + 1
      BY <1>1, <2>1
    <3>2. x - 1 = k + 1 /\ k + 1 <= n
      BY <1>1, <3>1
    <3>3. BackersAfter(e2)[x - 1] = BackersAfter(e)[x - 1]
      BY <3>2
    <3> QED
      BY <1>6, <3>1, <3>3
  <2>2. k + 1 \in Nat
    OBVIOUS
  <2> QED
    BY <2>1, <2>2
<1> HIDE DEF N
<1>9. ASSUME NEW x \in 1 .. n PROVE BackersAfter(e2)[x] = BackersAfter(e)[x]
  <2>1. PICK k \in Nat : x = k + 1
    BY <1>1, x - 1 \in Nat, x = (x - 1) + 1
  <2>2. k \in N
    BY <1>7, <1>8, SetInduction
  <2> QED
    BY <1>1, <2>1, <2>2 DEF N
<1> QED
  BY <1>1, <1>9 DEF e2

\* The backers that append's checks read are those that the events leave in force.
\* (reduceKeyState takes them from the state before, rotation by rotation.)
BackersReplay ==
    HasState(log) =>
        LET now == BackersAfter(log.events)[Len(log.events)] IN
        /\ log.state.backers = now.list
        /\ log.state.backerThreshold = now.bt
        /\ IsSequence(now.list) /\ now.bt \in Nat

\* What reduceKeyState leaves of the backers.
LEMMA ReducedBackers ==
    ASSUME NEW st, NEW body, IsInception(body.t) \/ DOMAIN st = KeyStateFields,
           IsInception(body.t) \/ body.t = "ixn" \/ IsRotation(body.t)
    PROVE  LET new == ReduceKeyState(st, body) IN
           /\ IsInception(body.t) => new.backers = body.b /\ new.backerThreshold = body.bt
           /\ body.t = "ixn" => new.backers = st.backers /\ new.backerThreshold = st.backerThreshold
           /\ IsRotation(body.t) => /\ new.backers = RotatedBackers(st.backers, body)
                                    /\ new.backerThreshold = body.bt
<1> USE DEF KeyStateFields
<1>1. CASE IsInception(body.t)
  <2>1. ReduceKeyState(st, body) = InceptionState(body)
    BY <1>1 DEF ReduceKeyState, IsInception, IsRotation
  <2> QED
    BY <2>1, <1>1 DEF InceptionState, IsInception, IsRotation
<1>2. CASE body.t = "ixn"
  <2>1. ReduceKeyState(st, body) = InteractionState(st, body)
    BY <1>2 DEF ReduceKeyState, IsInception, IsRotation
  <2>2. DOMAIN st = KeyStateFields
    BY <1>2 DEF IsInception
  <2> QED
    BY <2>1, <2>2, <1>2 DEF InteractionState, IsInception, IsRotation
<1>3. CASE IsRotation(body.t)
  <2>1. ReduceKeyState(st, body) = RotationState(st, body)
    BY <1>3 DEF ReduceKeyState, IsInception, IsRotation
  <2>2. DOMAIN st = KeyStateFields
    BY <1>3 DEF IsInception, IsRotation
  <2> QED
    BY <2>1, <2>2, <1>3 DEF RotationState, IsInception, IsRotation
<1> QED
  BY <1>1, <1>2, <1>3

\* TypeOK says that a log is rooted.
LEMMA LogRooted == TypeOK => Rooted(log.events)
BY DEF TypeOK, Rooted

\* reduceKeyState keeps the backers in agreement with the events.
LEMMA BackersReplayStep ==
    ASSUME TypeOK, StateShape, BackersReplay, TypeOK', NEW m, NEW opts, StepWith(m, opts)
    PROVE  BackersReplay'
<1> DEFINE e == log.events
           e2 == Append(e, m)
           n == Len(e) + 1
           now == BackersAfter(e2)[n]
<1>1. /\ m \in Messages
      /\ e \in Seq(Messages)
      /\ log'.events = e2
      /\ log'.state = ReduceKeyState(log.state, m.body)
      /\ IsInception(m.body.t) <=> e = <<>>
      /\ IsInception(m.body.t) \/ m.body.t = "ixn" \/ IsRotation(m.body.t)
      /\ e # <<>> => DOMAIN log.state = KeyStateFields
  BY StepTyping DEF HasState, StateShape
<1>2. Rooted(e) /\ Rooted(e2)
  <2>1. Rooted(log.events)'
    BY DEF TypeOK, Rooted
  <2>2. Rooted(e2)
    BY <1>1, <2>1 DEF Rooted
  <2> QED
    BY <2>2, LogRooted
<1>3. n \in DOMAIN e2 /\ Len(e2) = n /\ e2[n] = m
  BY <1>1, AppendKeeps
<1>4. now = BackersStep(e2, BackersAfter(e2), n)
  BY <1>2, <1>3, BackersEquation
<1>5. e # <<>> => /\ BackersAfter(e2)[n - 1] = BackersAfter(e)[Len(e)]
                  /\ log.state.backers = BackersAfter(e2)[n - 1].list
                  /\ log.state.backerThreshold = BackersAfter(e2)[n - 1].bt
                  /\ IsSequence(log.state.backers) /\ log.state.backerThreshold \in Nat
  <2> SUFFICES ASSUME e # <<>>
               PROVE /\ BackersAfter(e2)[n - 1] = BackersAfter(e)[Len(e)]
                     /\ log.state.backers = BackersAfter(e2)[n - 1].list
                     /\ log.state.backerThreshold = BackersAfter(e2)[n - 1].bt
                     /\ IsSequence(log.state.backers) /\ log.state.backerThreshold \in Nat
    OBVIOUS
  <2>1. Len(e) \in DOMAIN e /\ n - 1 = Len(e)
    BY <1>1
  <2>2. BackersAfter(e2)[Len(e)] = BackersAfter(e)[Len(e)]
    BY <1>2, <2>1, BackersAppended
  <2> QED
    BY <2>1, <2>2 DEF BackersReplay, HasState
<1>6. /\ log'.state.backers = now.list /\ log'.state.backerThreshold = now.bt
      /\ IsSequence(now.list) /\ now.bt \in Nat
  <2> HIDE DEF e2, n, now
  <2>1. CASE IsInception(m.body.t)
    <3>1. now = [list |-> m.body.b, bt |-> m.body.bt]
      BY <1>3, <1>4, <2>1 DEF BackersStep, IsInception, IsRotation
    <3>2. log'.state.backers = m.body.b /\ log'.state.backerThreshold = m.body.bt
      BY <1>1, <2>1, ReducedBackers
    <3>3. IsSequence(m.body.b) /\ m.body.bt \in Nat
      BY <1>1, <2>1, KeyEventLogAssumption DEF IsEstablishment
    <3> QED
      BY <3>1, <3>2, <3>3
  <2>2. CASE m.body.t = "ixn"
    <3>1. now = BackersAfter(e2)[n - 1] /\ e # <<>>
      BY <1>1, <1>3, <1>4, <2>2 DEF BackersStep, IsInception, IsRotation
    <3>2. log'.state.backers = log.state.backers /\ log'.state.backerThreshold = log.state.backerThreshold
      BY <1>1, <2>2, <3>1, ReducedBackers
    <3> QED
      BY <1>5, <3>1, <3>2
  <2>3. CASE IsRotation(m.body.t)
    <3>1. /\ e # <<>>
          /\ now = [list |-> Without(BackersAfter(e2)[n - 1].list, Elements(m.body.br)) \o m.body.ba,
                    bt   |-> m.body.bt]
      BY <1>1, <1>3, <1>4, <2>3 DEF BackersStep, IsInception, IsRotation
    <3>2. /\ log'.state.backers = RotatedBackers(log.state.backers, m.body)
          /\ log'.state.backerThreshold = m.body.bt
      BY <1>1, <2>3, <3>1, ReducedBackers
    <3>3. IsSequence(m.body.ba) /\ m.body.bt \in Nat
      BY <1>1, <2>3, KeyEventLogAssumption DEF IsEstablishment
    <3>4. IsSequence(log.state.backers)
      BY <1>5, <3>1
    <3>5. IsSequence(RotatedBackers(log.state.backers, m.body))
      BY <3>3, <3>4, RotatedIsSequence
    <3>6. now.list = RotatedBackers(log.state.backers, m.body)
      BY <1>5, <3>1 DEF RotatedBackers
    <3> QED
      BY <3>1, <3>2, <3>3, <3>5, <3>6
  <2> QED
    BY <1>1, <2>1, <2>2, <2>3
<1> QED
  BY <1>1, <1>3, <1>6 DEF BackersReplay

\* append asks a later event for receipts by the backers in the state, before it
\* takes over those of the event.
LEMMA WitnessedStep ==
    ASSUME TypeOK, StateShape, BackersReplay, WitnessedByBackersInForce, TypeOK',
           NEW m, NEW opts, StepWith(m, opts)
    PROVE  WitnessedByBackersInForce'
<1> DEFINE e == log.events
           e2 == Append(e, m)
           n == Len(e) + 1
           Held(event, backers) == {z \in DOMAIN event.wigs : /\ z \in DOMAIN backers
                                                             /\ event.wigs[z] = backers[z]}
           Met(events, after, y) ==
               y > 1 /\ after[y - 1].bt > 0 /\ after[y - 1].list # <<>> =>
                   Cardinality(Held(events[y], after[y - 1].list)) >= after[y - 1].bt
<1>1. /\ m \in Messages
      /\ e \in Seq(Messages)
      /\ log'.events = e2
      /\ IsInception(m.body.t) <=> e = <<>>
  BY StepTyping DEF HasState
<1>2. Rooted(e) /\ Rooted(e2)
  <2>1. Rooted(log.events)'
    BY DEF TypeOK, Rooted
  <2>2. Rooted(e2)
    BY <1>1, <2>1 DEF Rooted
  <2> QED
    BY <2>2, LogRooted
<1> SUFFICES ASSUME \A o \in OptionSet : ~o.allowPartiallyWitnessed, NEW y \in DOMAIN e2
             PROVE  Met(e2, BackersAfter(e2), y)
  BY <1>1 DEF WitnessedByBackersInForce
<1>3. \A x \in DOMAIN e : BackersAfter(e2)[x] = BackersAfter(e)[x]
  BY <1>2, BackersAppended
<1>4. CASE y \in DOMAIN e
  <2>1. e2[y] = e[y]
    BY <1>1, <1>4, AppendKeeps
  <2>2. Met(e, BackersAfter(e), y)
    BY <1>4 DEF WitnessedByBackersInForce
  <2>3. y > 1 => y - 1 \in DOMAIN e
    BY <1>1, <1>4
  <2> HIDE DEF Held
  <2>4. y > 1 => BackersAfter(e2)[y - 1] = BackersAfter(e)[y - 1]
    BY <1>3, <2>3
  <2> QED
    BY <2>1, <2>2, <2>4
<1>5. CASE y = n
  <2> SUFFICES ASSUME y > 1, BackersAfter(e2)[y - 1].bt > 0, BackersAfter(e2)[y - 1].list # <<>>
               PROVE Cardinality(Held(e2[y], BackersAfter(e2)[y - 1].list)) >= BackersAfter(e2)[y - 1].bt
    OBVIOUS
  <2>1. e2[y] = m /\ e # <<>> /\ y - 1 = Len(e) /\ Len(e) \in DOMAIN e
    BY <1>1, <1>5, AppendKeeps
  <2>2. PICK list, bt : list = log.state.backers /\ bt = log.state.backerThreshold
    OBVIOUS
  <2>3. /\ BackersAfter(e2)[y - 1].list = list /\ BackersAfter(e2)[y - 1].bt = bt
        /\ IsSequence(list) /\ bt \in Nat
    BY <1>3, <2>1, <2>2 DEF BackersReplay, HasState
  <2>4. VerifyWitness(list, bt, m.wigs, opts)
    BY <1>1, <2>1, <2>2 DEF StepWith, CanIncept, CanInteract, CanRotate
  <2>5. opts \in OptionSet
    BY DEF StepWith
  <2>6. Len(list) > 0 /\ bt > 0 /\ list \in Seq(Elements(list))
    BY <2>3 DEF IsSequence
  <2>7. VerifyThreshold(list, Simple(bt), m.wigs)
    BY <2>4, <2>5, <2>6, <2>3 DEF VerifyWitness
  <2>8. Cardinality({z \in DOMAIN m.wigs : z \in DOMAIN list /\ m.wigs[z] = list[z]}) >= bt
    BY <2>3, <2>6, <2>7, SignaturesCounted
  <2> QED
    BY <2>1, <2>3, <2>8
<1>6. y \in DOMAIN e \/ y = n
  BY <1>1, AppendKeeps
<1> HIDE DEF Met
<1> QED
  BY <1>4, <1>5, <1>6

\* append finds the keys of a rotation in the state's commitment, and its threshold
\* met by signatures of those keys; no threshold is met without any.
LEMMA RotationSignedStep ==
    ASSUME TypeOK, StateReplays, RotationSignedByCommitment, NEW m, NEW opts, StepWith(m, opts)
    PROVE  RotationSignedByCommitment'
<1> DEFINE e == log.events
           e2 == Append(e, m)
           n == Len(e) + 1
<1>1. /\ m \in Messages
      /\ e \in Seq(Messages)
      /\ log'.events = e2
  BY StepTyping
<1> SUFFICES ASSUME FullySigned, NEW x \in DOMAIN e2, NEW y \in DOMAIN e2,
                    InForce(e2, x, y), IsRotation(e2[y].body.t)
             PROVE  \E z \in DOMAIN e2[y].sigs :
                        NextKeyDigest(e2[y].sigs[z]) \in Elements(e2[x].body.n)
  BY <1>1 DEF RotationSignedByCommitment, FullySigned
<1>2. x \in DOMAIN e /\ e2[x] = e[x] /\ y \in 1 .. n
  BY <1>1, AppendKeeps DEF InForce
<1>3. InForce(e, x, y)
  BY <1>1, <1>2, InForceStable
<1>4. CASE y \in DOMAIN e
  <2>1. e2[y] = e[y]
    BY <1>1, <1>4, AppendKeeps
  <2> QED
    BY <2>1, <1>2, <1>3, <1>4 DEF RotationSignedByCommitment
<1>5. CASE y = n
  <2>1. e2[y] = m
    BY <1>1, <1>5, AppendKeeps
  <2>2. Committed(log.state, m.body.k) /\ VerifyThreshold(m.body.k, m.body.kt, m.sigs)
    BY <2>1 DEF StepWith, CanIncept, CanInteract, CanRotate, IsRotation, IsInception, VerifySigning, FullySigned
  <2>3. m.body.k \in Seq(Elements(m.body.k)) /\ IsThreshold(m.body.kt)
    BY <1>1, <2>1, KeyEventLogAssumption DEF IsEstablishment, IsSequence
  <2>4. PICK z \in DOMAIN m.sigs : z \in DOMAIN m.body.k /\ m.sigs[z] = m.body.k[z]
    BY <2>2, <2>3, SignatureNeeded
  <2>5. log.state.nextKeyDigests = e[x].body.n
    BY <1>2, <1>3, <1>5, StateInForce
  <2> QED
    BY <2>1, <2>2, <2>4, <2>5, <1>2 DEF Committed
<1> QED
  BY <1>1, <1>4, <1>5, AppendKeeps

-----------------------------------------------------------------------------
(* The theorems. *)

\* The inductive invariant.
IInv ==
    /\ TypeOK
    /\ StateShape
    /\ StateReplays
    /\ PreRotation
    /\ SignedByKeysInForce
    /\ DelegationApproved
    /\ BackersReplay
    /\ RotationSignedByCommitment
    /\ WitnessedByBackersInForce

\* The strengthened invariant holds in every reachable state.
THEOREM Inductive == Spec => []IInv
<1>1. Init => IInv
  BY DEF Init, IInv, TypeOK, StateShape, StateReplays, PreRotation, SignedByKeysInForce,
         DelegationApproved, BackersReplay, RotationSignedByCommitment, WitnessedByBackersInForce,
         EmptyLog, HasState
<1>2. IInv /\ [Next]_vars => IInv'
  <2> SUFFICES ASSUME IInv, [Next]_vars
               PROVE  IInv'
    OBVIOUS
  <2>1. CASE Next
    <3>1. PICK m \in Messages, opts \in OptionSet : StepWith(m, opts)
      BY <2>1, StepShape
    <3> QED
      BY <3>1, TypeOKStep, StateShapeStep, StateReplaysStep, PreRotationStep,
         SignedByKeysInForceStep, DelegationApprovedStep, BackersReplayStep, RotationSignedStep,
         WitnessedStep DEF IInv
  <2>2. CASE UNCHANGED vars
    BY <2>2 DEF vars, IInv, TypeOK, StateShape, StateReplays, PreRotation,
                SignedByKeysInForce, DelegationApproved, BackersReplay, RotationSignedByCommitment,
                WitnessedByBackersInForce, HasState
  <2> QED
    BY <2>1, <2>2
<1> QED
  BY <1>1, <1>2, PTL DEF Spec

\* Type correctness of a key event log, whatever messages arrive.
THEOREM TypeCorrect == Spec => []TypeOK
<1>1. IInv => TypeOK
  BY DEF IInv
<1> QED
  BY <1>1, Inductive, PTL

\* Whatever messages arrive, the key state a log caches is the content of the
\* establishment event in force.
THEOREM StateReplaysHolds == Spec => []StateReplays
<1>1. IInv => StateReplays
  BY DEF IInv
<1> QED
  BY <1>1, Inductive, PTL

\* Whatever messages arrive, every key a rotation exposes was committed to by
\* the establishment event before it.
THEOREM PreRotationHolds == Spec => []PreRotation
<1>1. IInv => PreRotation
  BY DEF IInv
<1> QED
  BY <1>1, Inductive, PTL

\* Whatever messages arrive, interactions are signed by the keys in force when
\* they were made part of the log, never by keys already replaced.
THEOREM SignedByKeysInForceHolds == Spec => []SignedByKeysInForce
<1>1. IInv => SignedByKeysInForce
  BY DEF IInv
<1> QED
  BY <1>1, Inductive, PTL

\* Whatever messages arrive, every rotation is signed by a key that the
\* establishment event before it committed to.
THEOREM RotationSignedByCommitmentHolds == Spec => []RotationSignedByCommitment
<1>1. IInv => RotationSignedByCommitment
  BY DEF IInv
<1> QED
  BY <1>1, Inductive, PTL

\* Whatever messages arrive, every later event has a threshold of receipts by the
\* backers that the events before it leave in force.
THEOREM WitnessedByBackersInForceHolds == Spec => []WitnessedByBackersInForce
<1>1. IInv => WitnessedByBackersInForce
  BY DEF IInv
<1> QED
  BY <1>1, Inductive, PTL

\* Whatever messages arrive, when every caller supplies a delegator's log, each
\* delegated event was sealed by the delegator it names.
THEOREM DelegationApprovedHolds == Spec => []DelegationApproved
<1>1. IInv => DelegationApproved
  BY DEF IInv
<1> QED
  BY <1>1, Inductive, PTL

\* A key event log is an implementation of the abstract key history.
THEOREM ImplementsKeyHistory == Spec => KeyHistoryImplemented
<1>1. Init => History!Init
  BY DEF Init, History!Init, EmptyLog, HasState
<1>2. IInv /\ [Next]_vars => [History!Next]_(History!vars)
  <2> SUFFICES ASSUME IInv, [Next]_vars
               PROVE  [History!Next]_(History!vars)
    OBVIOUS
  <2>1. CASE Next
    <3>1. PICK m \in Messages, opts \in OptionSet : StepWith(m, opts)
      BY <2>1, StepShape
    <3>2. /\ log'.events = Append(log.events, m)
          /\ log.events \in Seq(Messages)
          /\ log'.state = ReduceKeyState(log.state, m.body)
          /\ IsInception(m.body.t) <=> ~HasState(log)
          /\ IsInception(m.body.t) \/ m.body.t = "ixn" \/ IsRotation(m.body.t)
          /\ HasState(log) => DOMAIN log.state = KeyStateFields
      BY <3>1, StepTyping DEF IInv, StateShape
    <3>3. HasState(log')
      BY <3>1, <3>2, AppendKeeps DEF HasState
    <3>4. CASE IsInception(m.body.t)
      BY <3>2, <3>3, <3>4 DEF History!Next, History!Incept
    <3>5. CASE m.body.t = "ixn"
      <4>1. HasState(log) /\ ~IsEstablishment(m.body.t)
        BY <3>2, <3>5 DEF IsEstablishment, IsInception, IsRotation
      <4>2. /\ log'.state.identifier = log.state.identifier
            /\ log'.state.signingKeys = log.state.signingKeys
            /\ log'.state.nextKeyDigests = log.state.nextKeyDigests
        BY <4>1, <3>2, <3>5, ReducedState DEF IsInception
      <4> QED
        BY <4>1, <4>2, <3>3 DEF History!vars
    <3>6. CASE IsRotation(m.body.t)
      <4>1. HasState(log) /\ IsEstablishment(m.body.t) /\ ~IsInception(m.body.t)
        BY <3>2, <3>6 DEF IsEstablishment, IsInception, IsRotation
      <4>2. /\ log'.state.identifier = log.state.identifier
            /\ log'.state.signingKeys = m.body.k
        BY <4>1, <3>2, <3>6, ReducedState
      <4>3. Committed(log.state, m.body.k)
        BY <3>1, <3>6 DEF StepWith, CanIncept, CanInteract, CanRotate, IsRotation, IsInception
      <4> QED
        BY <4>1, <4>2, <4>3, <3>3 DEF History!Next, History!Rotate, Committed
    <3> QED
      BY <3>2, <3>4, <3>5, <3>6
  <2>2. CASE UNCHANGED vars
    BY <2>2 DEF vars, History!vars, HasState
  <2> QED
    BY <2>1, <2>2
<1> QED
  BY <1>1, <1>2, Inductive, PTL DEF Spec, KeyHistoryImplemented, History!Spec

=============================================================================
