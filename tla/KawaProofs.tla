---------------------------- MODULE KawaProofs -------------------------------
(***************************************************************************)
(* Proofs about Kawa, for any number of sessions and witnesses, lists of   *)
(* backers and thresholds, failures, requests given up, and events.        *)
(*                                                                         *)
(* What a call has collected is only as good as what it says of the        *)
(* witnesses: each receipt it counts was saved, with the very event of the *)
(* call, by the witness it names (ReceiptsFounded), which rests on what    *)
(* the witnesses are about to sign (RequestsFounded). What the controller  *)
(* stores was built from its rows some time ago: InLine and SameNumber say *)
(* that its sequence number is still the next one, or that of the one call *)
(* that overlapped, so that it is read last and extends the log it was     *)
(* checked against.                                                        *)
(*                                                                         *)
(* What a witness stores replays because nothing it stores or is asked to  *)
(* store is ahead of the controller (RowsReplay), because it saves what it *)
(* verified to the rows it verified it against (RequestsFit), and because  *)
(* an event that is built again is the same event, with the signatures it  *)
(* had (KnownBuilt, OneCopy): WInv, for calls made one by one.             *)
(*                                                                         *)
(* While nothing is lost the witnesses are in step with the controller:    *)
(* between calls they store its events, with all receipts, and during a    *)
(* call those that answered are one event ahead (AInv). No call fails but  *)
(* an inception that asks for more receipts than there are witnesses, and  *)
(* after that there is no other call (Stillborn).                          *)
(***************************************************************************)
EXTENDS Kawa, Lemmas

Active(c) == call[c].pc # "idle"

\* A message and the rows of a table.
IsRow(m) == m = [body |-> m.body, sigs |-> m.sigs, wigs |-> m.wigs, hints |-> m.hints]

IsTable(rows) == IsSequence(rows) /\ \A row \in Elements(rows) : IsRow(row)

\* One key, and one key to follow it.
SingleKeys(keys, threshold, digests) ==
    /\ threshold = Simple(1)
    /\ \E y : keys = <<y>>
    /\ \E z : digests = <<NextKeyDigest(z)>>

\* What the bodies that the controller builds have in common.
Built(body) ==
    /\ body.s \in Nat
    /\ body.t \in {"icp", "ixn", "rot"}
    /\ body.t = "icp" => body.b = Backers /\ body.bt = Toad
    /\ body.t = "rot" => body.br = <<>> /\ body.ba = <<>> /\ body.bt = 0
    /\ body.t # "ixn" => SingleKeys(body.k, body.kt, body.n)

CallFields == {"pc", "result", "id", "event", "endpoints", "todo", "receipts", "toad"}

\* A call that is under way.
CallTyped(c) ==
    /\ call[c].pc \in {"receipts", "waiting", "distribution"}
    /\ DOMAIN call[c] = CallFields
    /\ call[c].id \in Nat /\ call[c].id < calls
    /\ IsRow(call[c].event) /\ Built(call[c].event.body)
    /\ call[c].endpoints = Backers
    /\ call[c].receipts \in Seq(Witnesses)
    /\ call[c].pc # "distribution" => call[c].todo \in Seq(Witnesses)
    /\ call[c].pc = "waiting" => call[c].todo # <<>>

Typed ==
    /\ IsTable(store) /\ \A row \in Elements(store) : Built(row.body)
    /\ DOMAIN stored = Witnesses /\ \A w \in Witnesses : IsTable(stored[w])
    /\ DOMAIN signing = Witnesses
    /\ \A w \in Witnesses : \A request \in signing[w] :
          IsRow(request.row) /\ request.id \in Nat /\ request.id < calls
    /\ calls \in Nat /\ keyCount \in Nat /\ overlaps \in Nat
    /\ DOMAIN call = Sessions
    /\ \A c \in Sessions : Active(c) => CallTyped(c)

\* There is nothing before the first keys.
Unborn == keyCount = 0 => store = <<>> /\ \A c \in Sessions : ~Active(c)

IdsDistinct == \A c, e \in Sessions : Active(c) /\ Active(e) /\ call[c].id = call[e].id => c = e

\* What a witness is about to save for a call is the event of the call.
RequestsFounded ==
    \A w \in Witnesses : \A request \in signing[w] : \A c \in Sessions :
        Active(c) /\ request.id = call[c].id => request.row.body = call[c].event.body

\* A witness whose receipt a call has counted stores the event.
ReceiptsFounded ==
    \A c \in Sessions : Active(c) =>
        \A w \in Elements(call[c].receipts) : Stores(stored[w], call[c].event.body.d)

\* Two calls at once overlap.
Overlapping == \A c, e \in Sessions : Active(c) /\ Active(e) /\ c # e => overlaps >= 1

-----------------------------------------------------------------------------

NextSn == IF store = <<>> THEN 0 ELSE store[Len(store)].body.s + 1

\* The rows come in the order of their numbers.
Sorted == \A x \in DOMAIN store : store[x].body.s < NextSn

\* The event of a call is the next one, unless the call was overtaken once.
InLine ==
    \A c \in Sessions : Active(c) =>
        \/ call[c].event.body.s = NextSn
        \/ overlaps >= 1 /\ call[c].event.body.s + 1 = NextSn

SameNumber ==
    \A c, e \in Sessions : Active(c) /\ Active(e) => call[c].event.body.s = call[e].event.body.s

\* The threshold of receipts before row x, after the log before it.
Required(x, before) == IF x = 1 THEN store[1].body.bt ELSE before.state.backerThreshold

RowsHeld ==
    \A x \in DOMAIN store : \E before \in From(SubSeq(store, 1, x - 1), Strict) :
        /\ Required(x, before) \in Nat
        /\ Cardinality(HoldersOf(store[x].body.d)) >= Required(x, before)

IInv == Typed /\ Unborn /\ IdsDistinct /\ RequestsFounded /\ ReceiptsFounded /\ Overlapping

SInv == AtMostOneOverlap => Sorted /\ InLine /\ SameNumber /\ RowsHeld /\ Loads(store, Strict)

-----------------------------------------------------------------------------
(* Tables and witnesses. *)

LEMMA WitnessesFinite == IsFiniteSet(Witnesses) /\ Cardinality(Witnesses) \in Nat
<1>1. Len(Backers) \in Nat /\ Backers \in [1 .. Len(Backers) -> Witnesses]
  BY KawaAssumption DEF IsSequence
<1>2. \A w \in Witnesses : \E x \in 1 .. Len(Backers) : Backers[x] = w
  BY <1>1, KawaAssumption DEF Elements
<1> QED
  BY <1>1, <1>2, Enumerated

LEMMA SequenceOfElements == ASSUME NEW S, NEW s \in Seq(S) PROVE IsSequence(s)
BY DEF IsSequence, Elements

\* saveMessage makes a table of a table and loses no event.
LEMMA TableSaved ==
    ASSUME NEW t, IsTable(t), NEW m, IsRow(m)
    PROVE /\ IsTable(SaveMessage(t, m))
          /\ Stores(SaveMessage(t, m), m.body.d)
          /\ \A d : Stores(t, d) => Stores(SaveMessage(t, m), d)
<1> DEFINE E == Elements(t) \cup {m}
           M == [body : {r.body : r \in E}, sigs : {r.sigs : r \in E},
                 wigs : {r.wigs : r \in E}, hints : {r.hints : r \in E}]
<1>1. \A r \in E : r = [body |-> r.body, sigs |-> r.sigs, wigs |-> r.wigs, hints |-> r.hints]
  BY DEF IsTable, IsRow
<1>2. E \subseteq M
  <2> SUFFICES ASSUME NEW r \in E PROVE r \in M
    OBVIOUS
  <2>1. /\ r.body \in {q.body : q \in E} /\ r.sigs \in {q.sigs : q \in E}
        /\ r.wigs \in {q.wigs : q \in E} /\ r.hints \in {q.hints : q \in E}
    OBVIOUS
  <2> HIDE DEF E
  <2> QED
    BY <1>1, <2>1
<1>3. \A r \in M : IsRow(r)
  BY DEF IsRow
<1>4. Closed(M)
  BY DEF Closed
<1>5. m \in M /\ Elements(t) \subseteq M
  BY <1>2
<1> HIDE DEF M
<1>6. t \in Seq(M)
  BY <1>5 DEF IsTable, IsSequence
<1> DEFINE new == SaveMessage(t, m)
<1>7. new \in Seq(M) /\ Stores(new, m.body.d) /\ \A d : Stores(t, d) => Stores(new, d)
  BY <1>4, <1>5, <1>6, SavedStores
<1> HIDE DEF new
<1>8. IsSequence(new) /\ Elements(new) \subseteq M
  BY <1>7, SequenceOfElements DEF Elements
<1>9. IsTable(new)
  BY <1>3, <1>8 DEF IsTable
<1> QED
  BY <1>7, <1>9 DEF new

\* The tables of the witnesses lose no event.
WitnessesKeep ==
    /\ DOMAIN stored' = Witnesses
    /\ \A w \in Witnesses :
          IsTable(stored'[w]) /\ \A d : Stores(stored[w], d) => Stores(stored'[w], d)

\* An event is held by as many witnesses as before, or more.
LEMMA HoldersGrow ==
    ASSUME WitnessesKeep, NEW d
    PROVE /\ Cardinality(HoldersOf(d)) \in Nat /\ Cardinality(HoldersOf(d)') \in Nat
          /\ Cardinality(HoldersOf(d)) <= Cardinality(HoldersOf(d)')
<1>1. HoldersOf(d) \subseteq HoldersOf(d)' /\ HoldersOf(d)' \subseteq Witnesses
  BY DEF HoldersOf, WitnessesKeep
<1>2. IsFiniteSet(HoldersOf(d)')
  BY <1>1, WitnessesFinite, FS_Subset
<1> QED
  BY <1>1, <1>2, FS_Subset, FS_CardinalityType

-----------------------------------------------------------------------------
(* The log of rows that the controller built. *)

\* What replaying such rows comes to.
StateOf(log, rows) ==
    /\ log.events = rows
    /\ rows # <<>> =>
          /\ DOMAIN log.state = KeyStateFields
          /\ log.state.backers = Backers
          /\ log.state.backerThreshold \in {0, Toad}
          /\ SingleKeys(log.state.signingKeys, log.state.signingThreshold, log.state.nextKeyDigests)
          /\ log.state.lastEvent.s = rows[Len(rows)].body.s
          /\ log.state.lastEvent.d = rows[Len(rows)].body.d

\* A rotation that cuts and adds nobody leaves the backers.
LEMMA BackersStay ==
    ASSUME NEW body, Built(body), body.t = "rot"
    PROVE RotatedBackers(Backers, body) = Backers
<1>1. Elements(body.br) = {} /\ body.ba = <<>>
  BY DEF Built, Elements
<1>2. Backers \in Seq(Witnesses)
  BY KawaAssumption DEF IsSequence
<1>3. Without(Backers, {}) = Backers
  BY <1>2, WithoutNobody
<1>4. Backers \o <<>> = Backers
  BY <1>2
<1> QED
  BY <1>1, <1>3, <1>4 DEF RotatedBackers

LEMMA LogStep ==
    ASSUME NEW M, NEW rows \in Seq(M), NEW m \in M, Built(m.body), NEW log, StateOf(log, rows),
           NEW opts, CanAppend(log, m, opts)
    PROVE StateOf(Extend(log, m, opts), Append(rows, m))
<1> DEFINE new == Extend(log, m, opts)
           more == Append(rows, m)
<1>1. new.events = more /\ new.state = ReduceKeyState(log.state, m.body)
  BY DEF Extend, StateOf
<1>2. more # <<>> /\ more[Len(more)] = m
  BY AppendProperties, LenProperties
<1>3. EventRef(m.body).s = m.body.s /\ EventRef(m.body).d = m.body.d
  BY DEF EventRef
<1> HIDE DEF new, more
<1>4. CASE IsInception(m.body.t)
  <2>1. new.state = InceptionState(m.body) /\ m.body.t = "icp"
    BY <1>1, <1>4 DEF ReduceKeyState, IsInception, IsRotation, Built
  <2>2. /\ DOMAIN new.state = KeyStateFields
        /\ new.state.backers = m.body.b /\ new.state.backerThreshold = m.body.bt
        /\ new.state.signingKeys = m.body.k /\ new.state.signingThreshold = m.body.kt
        /\ new.state.nextKeyDigests = m.body.n
        /\ new.state.lastEvent = EventRef(m.body)
    BY <2>1 DEF InceptionState, KeyStateFields
  <2> QED
    BY <1>1, <1>2, <1>3, <2>1, <2>2 DEF StateOf, Built, new, more
<1>5. CASE ~IsInception(m.body.t)
  <2>1. rows # <<>>
    BY <1>5 DEF CanAppend, CanIncept, CanInteract, CanRotate, HasState, StateOf
  <2>2. /\ DOMAIN log.state = KeyStateFields
        /\ log.state.backers = Backers /\ log.state.backerThreshold \in {0, Toad}
        /\ SingleKeys(log.state.signingKeys, log.state.signingThreshold, log.state.nextKeyDigests)
    BY <2>1 DEF StateOf
  <2>3. CASE m.body.t = "ixn"
    <3>1. new.state = InteractionState(log.state, m.body)
      BY <1>1, <2>3 DEF ReduceKeyState, IsInception, IsRotation
    <3>2. /\ DOMAIN new.state = KeyStateFields
          /\ new.state.backers = Backers /\ new.state.backerThreshold \in {0, Toad}
          /\ new.state.signingKeys = log.state.signingKeys
          /\ new.state.signingThreshold = log.state.signingThreshold
          /\ new.state.nextKeyDigests = log.state.nextKeyDigests
          /\ new.state.lastEvent = EventRef(m.body)
      BY <2>2, <3>1 DEF InteractionState, KeyStateFields
    <3> QED
      BY <1>1, <1>2, <1>3, <2>2, <3>2 DEF StateOf, new, more
  <2>4. CASE m.body.t = "rot"
    <3>1. new.state = RotationState(log.state, m.body)
      BY <1>1, <2>4 DEF ReduceKeyState, IsInception, IsRotation
    <3>2. /\ DOMAIN new.state = KeyStateFields
          /\ new.state.backers = RotatedBackers(log.state.backers, m.body)
          /\ new.state.backerThreshold = m.body.bt
          /\ new.state.signingKeys = m.body.k /\ new.state.signingThreshold = m.body.kt
          /\ new.state.nextKeyDigests = m.body.n
          /\ new.state.lastEvent = EventRef(m.body)
      BY <2>2, <3>1 DEF RotationState, KeyStateFields
    <3>3. new.state.backers = Backers /\ new.state.backerThreshold = 0
      BY <2>2, <2>4, <3>2, BackersStay DEF Built
    <3> QED
      BY <1>1, <1>2, <1>3, <2>4, <3>2, <3>3 DEF StateOf, Built, new, more
  <2> QED
    BY <1>5, <2>3, <2>4 DEF Built, IsInception
<1> QED
  BY <1>4, <1>5

\* KeyEventLog.from of rows that the controller built.
LEMMA Replayed ==
    ASSUME NEW rows, IsSequence(rows), \A row \in Elements(rows) : Built(row.body),
           NEW opts, NEW log \in From(rows, opts)
    PROVE StateOf(log, rows)
<1>1. Len(rows) \in Nat /\ rows \in Seq(Elements(rows)) /\ \A x \in 1 .. Len(rows) : rows[x] \in Elements(rows)
  BY DEF IsSequence, Elements
<1>2. PICK after :
        /\ From(rows, opts) = after[Len(rows)]
        /\ after[0] = {EmptyLog}
        /\ \A x \in 1 .. Len(rows) : after[x] = NextLogs(after[x - 1], rows[x], opts)
  BY <1>1, FromRecursion
<1> DEFINE S == {x \in Nat : x <= Len(rows) => \A l \in after[x] : StateOf(l, SubSeq(rows, 1, x))}
<1>3. 0 \in S
  <2>1. SubSeq(rows, 1, 0) = <<>>
    BY SubSeqEmpty
  <2>2. StateOf(EmptyLog, <<>>)
    BY DEF StateOf, EmptyLog
  <2> QED
    BY <1>2, <2>1, <2>2
<1>4. \A x \in Nat : x \in S => x + 1 \in S
  <2> SUFFICES ASSUME NEW x \in Nat, x \in S, x + 1 <= Len(rows), NEW l \in after[x + 1]
               PROVE StateOf(l, SubSeq(rows, 1, x + 1))
    OBVIOUS
  <2>1. x + 1 \in 1 .. Len(rows) /\ (x + 1) - 1 = x /\ x <= Len(rows)
    BY <1>1
  <2>2. PICK k \in after[x] : CanAppend(k, rows[x + 1], opts) /\ l = Extend(k, rows[x + 1], opts)
    BY <1>2, <2>1 DEF NextLogs
  <2>3. StateOf(k, SubSeq(rows, 1, x))
    BY <2>1
  <2>4. /\ SubSeq(rows, 1, x) \in Seq(Elements(rows)) /\ rows[x + 1] \in Elements(rows)
        /\ SubSeq(rows, 1, x + 1) = Append(SubSeq(rows, 1, x), rows[x + 1])
    BY <1>1, <2>1, Prefixed
  <2> QED
    BY <2>2, <2>3, <2>4, LogStep
<1> HIDE DEF S
<1>5. Len(rows) \in S
  BY <1>1, <1>3, <1>4, SetInduction
<1>6. \A l \in after[Len(rows)] : StateOf(l, SubSeq(rows, 1, Len(rows)))
  BY <1>1, <1>5 DEF S
<1>7. SubSeq(rows, 1, Len(rows)) = rows
  BY <1>1, SubSeqFull
<1> QED
  BY <1>2, <1>6, <1>7

-----------------------------------------------------------------------------
(* Steps that leave the store alone. *)

\* A call ends, or goes on with the same event.
CallsKeep ==
    /\ DOMAIN call' = Sessions
    /\ \A c \in Sessions :
          \/ call'[c] = call[c]
          \/ call'[c].pc = "idle"
          \/ Active(c) /\ CallTyped(c)' /\ call'[c].id = call[c].id /\ call'[c].event = call[c].event

\* A witness begins to sign the event of a call, at most.
SigningKeeps ==
    /\ DOMAIN signing' = Witnesses
    /\ \A w \in Witnesses : \A request \in signing'[w] :
          \/ request \in signing[w]
          \/ \E c \in Sessions : /\ Active(c) /\ IsRow(request.row)
                                 /\ request.id = call[c].id /\ request.row.body = call[c].event.body

\* A receipt that a call has counted anew is of an event that its witness stores.
ReceiptsKeep ==
    \A c \in Sessions : call'[c].pc # "idle" =>
        \A w \in Elements(call'[c].receipts) :
            w \in Elements(call[c].receipts) \/ Stores(stored'[w], call[c].event.body.d)

\* The rows are held when no row is added and the witnesses lose none.
LEMMA HeldStays ==
    ASSUME WitnessesKeep, RowsHeld, store' = store
    PROVE RowsHeld'
<1> SUFFICES ASSUME NEW x \in DOMAIN store
             PROVE \E before \in From(SubSeq(store, 1, x - 1), Strict) :
                      /\ Required(x, before)' \in Nat
                      /\ Cardinality(HoldersOf(store[x].body.d))' >= Required(x, before)'
  BY DEF RowsHeld
<1>1. PICK before \in From(SubSeq(store, 1, x - 1), Strict) :
        /\ Required(x, before) \in Nat
        /\ Cardinality(HoldersOf(store[x].body.d)) >= Required(x, before)
  BY DEF RowsHeld
<1>2. Required(x, before)' = Required(x, before)
  BY DEF Required
<1>3. PICK d : d = store[x].body.d
  OBVIOUS
<1>4. PICK n : n = Cardinality(HoldersOf(d))
  OBVIOUS
<1>5. PICK n2 : n2 = Cardinality(HoldersOf(d)')
  OBVIOUS
<1>6. PICK q : q = Required(x, before)
  OBVIOUS
<1>7. n \in Nat /\ n2 \in Nat /\ n <= n2
  BY <1>4, <1>5, HoldersGrow
<1>8. q \in Nat /\ n >= q
  BY <1>1, <1>3, <1>4, <1>6
<1>9. n2 >= q
  BY <1>7, <1>8
<1>10. Cardinality(HoldersOf(store[x].body.d))' = n2
  BY <1>3, <1>5 DEF HoldersOf
<1> QED
  BY <1>1, <1>2, <1>6, <1>8, <1>9, <1>10

\* A call that is under way after such a step was so before.
LEMMA StillActive ==
    ASSUME CallsKeep, NEW c \in Sessions, Active(c)'
    PROVE Active(c) /\ call'[c].id = call[c].id /\ call'[c].event = call[c].event
BY DEF CallsKeep, Active

\* A step that begins no call, and adds no row but one that was built.
LEMMA KeepsIInv ==
    ASSUME IInv, UNCHANGED <<keyCount, calls, overlaps>>,
           CallsKeep, WitnessesKeep, SigningKeeps, ReceiptsKeep,
           IsTable(store'), \A row \in Elements(store') : Built(row.body),
           store' = store \/ keyCount # 0
    PROVE IInv'
<1>1. \A c \in Sessions : Active(c)' => Active(c) /\ call'[c].id = call[c].id /\ call'[c].event = call[c].event
  BY StillActive
<1>2. \A c \in Sessions : Active(c)' => CallTyped(c)'
  <2> SUFFICES ASSUME NEW c \in Sessions, Active(c)', call'[c] = call[c] PROVE CallTyped(c)'
    BY DEF CallsKeep, Active
  <2>1. CallTyped(c)
    BY <1>1 DEF IInv, Typed
  <2> QED
    BY <2>1 DEF CallTyped
<1>3. Typed'
  <2>1. \A w \in Witnesses : \A request \in signing'[w] :
           IsRow(request.row) /\ request.id \in Nat /\ request.id < calls
    <3> SUFFICES ASSUME NEW w \in Witnesses, NEW request \in signing'[w]
                 PROVE IsRow(request.row) /\ request.id \in Nat /\ request.id < calls
      OBVIOUS
    <3>1. CASE request \in signing[w]
      BY <3>1 DEF IInv, Typed
    <3>2. CASE request \notin signing[w]
      <4>1. PICK c \in Sessions : Active(c) /\ IsRow(request.row) /\ request.id = call[c].id
        BY <3>2 DEF SigningKeeps
      <4>2. CallTyped(c)
        BY <4>1 DEF IInv, Typed
      <4> QED
        BY <4>1, <4>2 DEF CallTyped
    <3> QED
      BY <3>1, <3>2
  <2>2. DOMAIN signing' = Witnesses /\ DOMAIN call' = Sessions
    BY DEF SigningKeeps, CallsKeep
  <2>3. DOMAIN stored' = Witnesses /\ \A w \in Witnesses : IsTable(stored'[w])
    BY DEF WitnessesKeep
  <2>4. calls \in Nat /\ keyCount \in Nat /\ overlaps \in Nat
    BY DEF IInv, Typed
  <2> QED
    BY <1>2, <2>1, <2>2, <2>3, <2>4 DEF Typed
<1>4. Unborn'
  BY <1>1 DEF IInv, Unborn
<1>5. IdsDistinct'
  BY <1>1 DEF IInv, IdsDistinct
<1>6. Overlapping'
  BY <1>1 DEF IInv, Overlapping
<1>7. RequestsFounded'
  <2> SUFFICES ASSUME NEW w \in Witnesses, NEW request \in signing'[w], NEW c \in Sessions,
                      Active(c)', request.id = call'[c].id
               PROVE request.row.body = call'[c].event.body
    BY DEF RequestsFounded
  <2>1. Active(c) /\ request.id = call[c].id /\ call'[c].event = call[c].event
    BY <1>1
  <2>2. CASE request \in signing[w]
    BY <2>1, <2>2 DEF IInv, RequestsFounded
  <2>3. CASE request \notin signing[w]
    <3>1. PICK e \in Sessions : Active(e) /\ request.id = call[e].id /\ request.row.body = call[e].event.body
      BY <2>3 DEF SigningKeeps
    <3>2. e = c
      BY <2>1, <3>1 DEF IInv, IdsDistinct
    <3> QED
      BY <2>1, <3>1, <3>2
  <2> QED
    BY <2>2, <2>3
<1>8. ReceiptsFounded'
  <2> SUFFICES ASSUME NEW c \in Sessions, Active(c)', NEW w \in Elements(call'[c].receipts)
               PROVE Stores(stored'[w], call'[c].event.body.d)
    BY DEF ReceiptsFounded
  <2>1. Active(c) /\ call'[c].event = call[c].event
    BY <1>1
  <2>2. w \in Elements(call[c].receipts) => w \in Witnesses /\ Stores(stored[w], call[c].event.body.d)
    <3> SUFFICES ASSUME w \in Elements(call[c].receipts)
                 PROVE w \in Witnesses /\ Stores(stored[w], call[c].event.body.d)
      OBVIOUS
    <3>1. CallTyped(c)
      BY <2>1 DEF IInv, Typed
    <3>2. w \in Witnesses
      BY <3>1 DEF CallTyped, Elements
    <3> QED
      BY <2>1, <3>2 DEF IInv, ReceiptsFounded
  <2>3. w \in Elements(call[c].receipts) \/ Stores(stored'[w], call[c].event.body.d)
    BY DEF ReceiptsKeep, Active
  <2> QED
    BY <2>1, <2>2, <2>3 DEF WitnessesKeep
<1> QED
  BY <1>3, <1>4, <1>5, <1>6, <1>7, <1>8 DEF IInv

\* A step that leaves the store alone and begins no call keeps the invariants.
LEMMA QuietStep ==
    ASSUME IInv, SInv, UNCHANGED <<store, keyCount, calls, overlaps>>,
           CallsKeep, WitnessesKeep, SigningKeeps, ReceiptsKeep
    PROVE IInv' /\ SInv'
<1>1. \A c \in Sessions : Active(c)' => Active(c) /\ call'[c].id = call[c].id /\ call'[c].event = call[c].event
  BY StillActive
<1>2. IInv'
  <2>1. IsTable(store') /\ \A row \in Elements(store') : Built(row.body)
    BY DEF IInv, Typed
  <2> QED
    BY <2>1, KeepsIInv
<1>3. SInv'
  <2> SUFFICES ASSUME AtMostOneOverlap' PROVE Sorted' /\ InLine' /\ SameNumber' /\ RowsHeld' /\ Loads(store, Strict)'
    BY DEF SInv
  <2>1. Sorted /\ InLine /\ SameNumber /\ RowsHeld /\ Loads(store, Strict)
    BY DEF SInv, AtMostOneOverlap
  <2>2. NextSn' = NextSn
    BY DEF NextSn
  <2>3. Sorted'
    BY <2>1, <2>2 DEF Sorted
  <2>4. InLine'
    BY <1>1, <2>1, <2>2 DEF InLine
  <2>5. SameNumber'
    BY <1>1, <2>1 DEF SameNumber
  <2>6. RowsHeld'
    BY <2>1, HeldStays
  <2> QED
    BY <2>1, <2>3, <2>4, <2>5, <2>6
<1> QED
  BY <1>2, <1>3

-----------------------------------------------------------------------------
(* Calls that begin. *)

LEMMA UnchangedKeeps ==
    ASSUME IInv, UNCHANGED stored
    PROVE WitnessesKeep
BY DEF IInv, Typed, WitnessesKeep

\* commit begins a call with an event that is the next one.
LEMMA BeginStep ==
    ASSUME IInv, SInv, NEW c \in Sessions, ~Active(c), NEW m, IsRow(m), Built(m.body), NEW state,
           Commit(c, m, Backers, state), keyCount' \in Nat, keyCount' # 0,
           AtMostOneOverlap => m.body.s = NextSn
    PROVE IInv' /\ SInv'
<1>1. /\ calls' = calls + 1 /\ calls \in Nat /\ overlaps \in Nat
      /\ UNCHANGED <<store, stored, signing>>
  BY DEF Commit, IInv, Typed
<1>2. /\ (\A e \in Sessions : ~Active(e)) => overlaps' = overlaps
      /\ (\E e \in Sessions : Active(e)) => overlaps' = overlaps + 1
  BY DEF Commit, Active
<1>3. overlaps' \in Nat /\ overlaps <= overlaps'
  BY <1>1, <1>2
<1>4. /\ DOMAIN call' = Sessions
      /\ \A e \in Sessions : e # c => call'[e] = call[e]
      /\ DOMAIN call'[c] = CallFields
      /\ call'[c].pc = "receipts" /\ call'[c].id = calls /\ call'[c].event = m
      /\ call'[c].endpoints = Backers /\ call'[c].todo = Backers /\ call'[c].receipts = <<>>
  <2> DEFINE bt == ParsedThreshold(IF m.body.t = "ixn" THEN state.backerThreshold ELSE m.body.bt)
  <2>1. call' = [call EXCEPT ![c] = [pc |-> "receipts", result |-> "none", id |-> calls, event |-> m,
                                     endpoints |-> Backers, todo |-> Backers, receipts |-> <<>>, toad |-> bt]]
    BY DEF Commit
  <2> HIDE DEF bt
  <2>2. DOMAIN call = Sessions
    BY DEF IInv, Typed
  <2> QED
    BY <2>1, <2>2 DEF CallFields
<1>5. Active(c)' /\ \A e \in Sessions : e # c => (Active(e)' <=> Active(e))
  BY <1>4 DEF Active
<1>6. Backers \in Seq(Witnesses)
  BY KawaAssumption DEF IsSequence
<1>7. \A e \in Sessions : Active(e)' => CallTyped(e)'
  <2>1. CallTyped(c)'
    BY <1>1, <1>4, <1>6 DEF CallTyped
  <2>2. ASSUME NEW e \in Sessions, e # c, Active(e)' PROVE CallTyped(e)'
    <3>1. CallTyped(e)
      BY <1>5, <2>2 DEF IInv, Typed
    <3>2. call[e].id \in Nat /\ call[e].id < calls'
      BY <1>1, <3>1 DEF CallTyped
    <3> QED
      BY <1>4, <2>2, <3>1, <3>2 DEF CallTyped
  <2> QED
    BY <2>1, <2>2
<1>8. \A e \in Sessions : Active(e) => call[e].id \in Nat /\ call[e].id < calls
  BY DEF IInv, Typed, CallTyped
<1>9. \A w \in Witnesses : \A request \in signing[w] :
         IsRow(request.row) /\ request.id \in Nat /\ request.id < calls
  BY DEF IInv, Typed
<1>10. Typed'
  <2>1. \A w \in Witnesses : \A request \in signing'[w] :
           IsRow(request.row) /\ request.id \in Nat /\ request.id < calls'
    BY <1>1, <1>9
  <2>2. /\ IsTable(store) /\ \A row \in Elements(store) : Built(row.body)
        /\ DOMAIN stored = Witnesses /\ \A w \in Witnesses : IsTable(stored[w])
        /\ DOMAIN signing = Witnesses
    BY DEF IInv, Typed
  <2>3. calls' \in Nat
    BY <1>1
  <2> QED
    BY <1>1, <1>3, <1>4, <1>7, <2>1, <2>2, <2>3 DEF Typed
<1>11. Unborn'
  BY DEF Unborn
<1>12. IdsDistinct'
  <2> SUFFICES ASSUME NEW e \in Sessions, NEW f \in Sessions, Active(e)', Active(f)', call'[e].id = call'[f].id
               PROVE e = f
    BY DEF IdsDistinct
  <2>1. \A g \in Sessions : g # c /\ Active(g)' => call'[g].id \in Nat /\ call'[g].id < calls
    BY <1>4, <1>5, <1>8
  <2>2. CASE e = c \/ f = c
    BY <1>1, <1>4, <2>1, <2>2
  <2>3. CASE e # c /\ f # c
    BY <1>4, <1>5, <2>3 DEF IInv, IdsDistinct
  <2> QED
    BY <2>2, <2>3
<1>13. RequestsFounded'
  <2> SUFFICES ASSUME NEW w \in Witnesses, NEW request \in signing[w], NEW e \in Sessions,
                      Active(e)', request.id = call'[e].id
               PROVE request.row.body = call'[e].event.body
    BY <1>1 DEF RequestsFounded
  <2>1. request.id # calls
    BY <1>1, <1>9
  <2>2. e # c
    BY <1>4, <2>1
  <2> QED
    BY <1>4, <1>5, <2>2 DEF IInv, RequestsFounded
<1>14. ReceiptsFounded'
  <2> SUFFICES ASSUME NEW e \in Sessions, Active(e)', NEW w \in Elements(call'[e].receipts)
               PROVE Stores(stored[w], call'[e].event.body.d)
    BY <1>1 DEF ReceiptsFounded
  <2>1. e # c
    BY <1>4 DEF Elements
  <2> QED
    BY <1>4, <1>5, <2>1 DEF IInv, ReceiptsFounded
<1>15. Overlapping'
  <2> SUFFICES ASSUME NEW e \in Sessions, NEW f \in Sessions, Active(e)', Active(f)', e # f
               PROVE overlaps' >= 1
    BY DEF Overlapping
  <2>1. \E g \in Sessions : Active(g)
    BY <1>5
  <2> QED
    BY <1>1, <1>2, <2>1
<1>16. SInv'
  <2> SUFFICES ASSUME AtMostOneOverlap' PROVE Sorted' /\ InLine' /\ SameNumber' /\ RowsHeld' /\ Loads(store, Strict)'
    BY DEF SInv
  <2>1. AtMostOneOverlap
    BY <1>1, <1>3 DEF AtMostOneOverlap
  <2>2. Sorted /\ InLine /\ SameNumber /\ RowsHeld /\ Loads(store, Strict)
    BY <2>1 DEF SInv
  <2>3. NextSn' = NextSn
    BY <1>1 DEF NextSn
  <2>4. Sorted'
    BY <1>1, <2>2, <2>3 DEF Sorted
  <2>5. call'[c].event.body.s = NextSn
    BY <1>4, <2>1
  <2>6. \A e \in Sessions : e # c /\ Active(e)' => call'[e].event.body.s = NextSn
    <3> SUFFICES ASSUME NEW e \in Sessions, e # c, Active(e)' PROVE call'[e].event.body.s = NextSn
      OBVIOUS
    <3>1. Active(e) /\ call'[e] = call[e]
      BY <1>4, <1>5
    <3>2. overlaps + 1 <= 1
      BY <1>2, <3>1 DEF AtMostOneOverlap
    <3>3. ~(overlaps >= 1)
      BY <1>1, <3>2
    <3> QED
      BY <2>2, <3>1, <3>3 DEF InLine
  <2>7. \A e \in Sessions : Active(e)' => call'[e].event.body.s = NextSn
    BY <2>5, <2>6
  <2>8. InLine' /\ SameNumber'
    BY <2>3, <2>7 DEF InLine, SameNumber
  <2>9. RowsHeld'
    BY <1>1, <2>2, HeldStays, UnchangedKeeps
  <2> QED
    BY <1>1, <2>2, <2>4, <2>8, <2>9
<1> QED
  BY <1>10, <1>11, <1>12, <1>13, <1>14, <1>15, <1>16 DEF IInv

\* What anchor and rotate read from the store.
LEMMA LogRead ==
    ASSUME IInv, NEW log \in From(store, Strict), HasState(log)
    PROVE /\ store # <<>> /\ keyCount # 0
          /\ log.state.backers = Backers /\ log.state.lastEvent.s + 1 = NextSn
          /\ log.state.lastEvent.s \in Nat
          /\ SingleKeys(log.state.signingKeys, log.state.signingThreshold, log.state.nextKeyDigests)
<1>1. IsSequence(store) /\ \A row \in Elements(store) : Built(row.body)
  BY DEF IInv, Typed, IsTable
<1>2. StateOf(log, store)
  BY <1>1, Replayed
<1>3. store # <<>>
  BY <1>2 DEF StateOf, HasState
<1>4. Len(store) \in DOMAIN store
  BY <1>1, <1>3 DEF IsSequence
<1>5. store[Len(store)] \in Elements(store)
  BY <1>4 DEF Elements
<1>6. store[Len(store)].body.s \in Nat
  BY <1>1, <1>5 DEF Built
<1> QED
  BY <1>2, <1>3, <1>6 DEF StateOf, NextSn, IInv, Unborn

\* What incept, anchor and rotate build.
LEMMA InceptBuilt == Built(InceptEvent(1, 2))
BY DEF Built, InceptEvent, SingleKeys

LEMMA InteractBuilt ==
    ASSUME NEW state, NEW data, state.lastEvent.s \in Nat
    PROVE Built(InteractEvent(state, data))
BY DEF Built, InteractEvent

LEMMA RotateBuilt ==
    ASSUME NEW state, NEW key, state.lastEvent.s \in Nat,
           SingleKeys(state.signingKeys, state.signingThreshold, state.nextKeyDigests)
    PROVE Built(RotateEvent(state, key))
<1> DEFINE body == RotateEvent(state, key)
<1>1. PICK z : state.nextKeyDigests = <<NextKeyDigest(z)>>
  BY DEF SingleKeys
<1>2. body.k = [x \in DOMAIN state.nextKeyDigests |-> state.nextKeyDigests[x].digestOf]
  BY DEF RotateEvent
<1>3. DOMAIN state.nextKeyDigests = {1} /\ state.nextKeyDigests[1].digestOf = z
  BY <1>1 DEF NextKeyDigest
<1>4. body.k = <<z>>
  BY <1>2, <1>3
<1>5. /\ body.t = "rot" /\ body.s \in Nat /\ body.br = <<>> /\ body.ba = <<>> /\ body.bt = 0
      /\ body.kt = Simple(1) /\ body.n = <<NextKeyDigest(key)>>
  BY DEF RotateEvent
<1> HIDE DEF body
<1>6. Built(body)
  BY <1>4, <1>5 DEF Built, SingleKeys
<1> QED
  BY <1>6 DEF body

LEMMA SignedRow == \A body, keys : IsRow(Signed(body, keys)) /\ Signed(body, keys).body = body
BY DEF IsRow, Signed

LEMMA InceptStep ==
    ASSUME IInv, SInv, NEW c \in Sessions, Incept(c)
    PROVE IInv' /\ SInv'
<1> DEFINE body == InceptEvent(1, 2)
           m == Signed(body, <<1>>)
<1>1. keyCount' = 2 /\ store = <<>> /\ NextSn = 0 /\ ~Active(c)
  BY DEF Incept, IInv, Unborn, NextSn
<1>2. Built(body) /\ body.s = 0
  BY InceptBuilt DEF InceptEvent
<1> HIDE DEF body
<1>3. IsRow(m) /\ m.body = body
  BY SignedRow
<1>4. Commit(c, m, Backers, Null)
  BY DEF Incept, body
<1> HIDE DEF m
<1>5. keyCount' \in Nat /\ keyCount' # 0
  BY <1>1
<1>6. Built(m.body) /\ m.body.s = NextSn
  BY <1>1, <1>2, <1>3
<1> QED
  BY <1>1, <1>3, <1>4, <1>5, <1>6, BeginStep

LEMMA AnchorStep ==
    ASSUME IInv, SInv, NEW c \in Sessions, NEW data, Anchor(c, data)
    PROVE IInv' /\ SInv'
<1>1. PICK log \in From(store, Strict) :
        /\ HasState(log)
        /\ Commit(c, Signed(InteractEvent(log.state, data), log.state.signingKeys),
                  log.state.backers, log.state)
  BY DEF Anchor
<1>2. /\ keyCount # 0 /\ log.state.backers = Backers
      /\ log.state.lastEvent.s + 1 = NextSn /\ log.state.lastEvent.s \in Nat
  BY <1>1, LogRead
<1> DEFINE body == InteractEvent(log.state, data)
           m == Signed(body, log.state.signingKeys)
<1>3. Built(body) /\ body.s = NextSn
  BY <1>2, InteractBuilt DEF InteractEvent
<1> HIDE DEF body
<1>4. IsRow(m) /\ m.body = body
  BY SignedRow
<1>5. Commit(c, m, Backers, log.state)
  BY <1>1, <1>2 DEF body
<1> HIDE DEF m
<1>6. keyCount' \in Nat /\ keyCount' # 0 /\ ~Active(c)
  BY <1>2 DEF Anchor, Free, Active, IInv, Typed
<1> QED
  BY <1>3, <1>4, <1>5, <1>6, BeginStep

LEMMA RotateStep ==
    ASSUME IInv, SInv, NEW c \in Sessions, Rotate(c)
    PROVE IInv' /\ SInv'
<1>1. PICK log \in From(store, Strict) :
        /\ HasState(log)
        /\ Commit(c, Signed(RotateEvent(log.state, keyCount + 1), RotateEvent(log.state, keyCount + 1).k),
                  log.state.backers, log.state)
  BY DEF Rotate
<1>2. /\ keyCount # 0 /\ log.state.backers = Backers
      /\ log.state.lastEvent.s + 1 = NextSn /\ log.state.lastEvent.s \in Nat
      /\ SingleKeys(log.state.signingKeys, log.state.signingThreshold, log.state.nextKeyDigests)
  BY <1>1, LogRead
<1> DEFINE body == RotateEvent(log.state, keyCount + 1)
           m == Signed(body, body.k)
<1>3. Built(body) /\ body.s = NextSn
  BY <1>2, RotateBuilt DEF RotateEvent
<1> HIDE DEF body
<1>4. IsRow(m) /\ m.body = body
  BY SignedRow
<1>5. Commit(c, m, Backers, log.state)
  BY <1>1, <1>2 DEF body
<1> HIDE DEF m
<1>6. keyCount' = keyCount + 1 /\ keyCount \in Nat /\ ~Active(c)
  BY DEF Rotate, Free, Active, IInv, Typed
<1>7. keyCount' \in Nat /\ keyCount' # 0
  BY <1>6
<1> QED
  BY <1>3, <1>4, <1>5, <1>6, <1>7, BeginStep

-----------------------------------------------------------------------------
(* What the requests do to the witnesses. *)

LEMMA SameSigning ==
    ASSUME IInv, signing' = signing
    PROVE SigningKeeps
BY DEF IInv, Typed, SigningKeeps

\* A receipt that a witness finishes is saved with its event.
LEMMA FinishReceiptKeeps ==
    ASSUME IInv, NEW w \in Witnesses, NEW request, FinishReceipt(w, request)
    PROVE WitnessesKeep /\ SigningKeeps /\ Stores(stored'[w], request.row.body.d)
<1>1. /\ request \in signing[w]
      /\ signing' = [signing EXCEPT ![w] = @ \ {request}]
      /\ stored' = [stored EXCEPT ![w] = SaveMessage(@, request.row)]
  BY DEF FinishReceipt
<1>2. /\ DOMAIN stored = Witnesses /\ DOMAIN signing = Witnesses
      /\ IsTable(stored[w]) /\ IsRow(request.row)
      /\ \A v \in Witnesses : IsTable(stored[v])
  BY <1>1 DEF IInv, Typed
<1> DEFINE new == SaveMessage(stored[w], request.row)
<1>3. IsTable(new) /\ Stores(new, request.row.body.d) /\ \A d : Stores(stored[w], d) => Stores(new, d)
  BY <1>2, TableSaved
<1>4. /\ DOMAIN stored' = Witnesses
      /\ \A v \in Witnesses : stored'[v] = IF v = w THEN new ELSE stored[v]
  BY <1>1, <1>2
<1> HIDE DEF new
<1>5. WitnessesKeep
  <2> SUFFICES ASSUME NEW v \in Witnesses
               PROVE IsTable(stored'[v]) /\ \A d : Stores(stored[v], d) => Stores(stored'[v], d)
    BY <1>4 DEF WitnessesKeep
  <2>1. CASE v = w
    BY <1>3, <1>4, <2>1
  <2>2. CASE v # w
    BY <1>2, <1>4, <2>2
  <2> QED
    BY <2>1, <2>2
<1>6. SigningKeeps
  BY <1>1, <1>2 DEF SigningKeeps
<1> QED
  BY <1>3, <1>4, <1>5, <1>6

LEMMA RowJoined ==
    ASSUME NEW row, IsRow(row), NEW wigs, NEW hints
    PROVE IsRow([row EXCEPT !.wigs = wigs, !.hints = hints])
<1> DEFINE M == [body : {row.body}, sigs : {row.sigs}, wigs : {row.wigs, wigs}, hints : {row.hints, hints}]
<1>1. row \in M
  BY DEF IsRow
<1>2. [row EXCEPT !.wigs = wigs, !.hints = hints] \in M
  BY <1>1
<1>3. \A r \in M : IsRow(r)
  BY DEF IsRow
<1> QED
  BY <1>2, <1>3

\* A receipt by another witness is joined to the row of the event.
LEMMA HandleReceiptKeeps ==
    ASSUME IInv, NEW w, NEW d, NEW other, HandleReceipt(w, d, other)
    PROVE WitnessesKeep /\ SigningKeeps
<1>1. SigningKeeps
  BY SameSigning DEF HandleReceipt
<1>2. CASE stored' = stored
  BY <1>1, <1>2, UnchangedKeeps
<1>3. CASE ~(stored' = stored)
  <2>1. PICK kel \in From(stored[w], PartiallyWitnessed) :
          /\ Includes(kel, d)
          /\ LET row == stored[w][RowOf(stored[w], d)]
             IN  stored' = [stored EXCEPT ![w] = SaveMessage(@,
                    [row EXCEPT !.wigs = MergedWigs(kel.state.backers, row.wigs, other), !.hints = {}])]
    BY <1>3 DEF HandleReceipt
  <2>2. DOMAIN stored = Witnesses /\ \A v \in Witnesses : IsTable(stored[v])
    BY DEF IInv, Typed
  <2> SUFFICES ASSUME w \in Witnesses PROVE WitnessesKeep
    <3>1. w \notin Witnesses => DOMAIN stored' = Witnesses /\ \A v \in Witnesses : stored'[v] = stored[v]
      BY <2>1, <2>2
    <3>2. w \notin Witnesses => WitnessesKeep
      BY <2>2, <3>1 DEF WitnessesKeep
    <3> QED
      BY <1>1, <3>2
  <2>3. stored[w] \in Seq(Elements(stored[w])) /\ IsTable(stored[w])
    BY <2>2 DEF IsTable, IsSequence
  <2>4. kel.events = stored[w]
    BY <2>1, <2>3, FromEvents
  <2>5. Stores(stored[w], d)
    BY <2>1, <2>4 DEF Includes
  <2> DEFINE row == stored[w][RowOf(stored[w], d)]
             m == [row EXCEPT !.wigs = MergedWigs(kel.state.backers, row.wigs, other), !.hints = {}]
             new == SaveMessage(stored[w], m)
  <2>6. row \in Elements(stored[w])
    BY <2>3, <2>5, RowFound DEF Elements
  <2>7. IsRow(row)
    BY <2>3, <2>6 DEF IsTable
  <2>8. /\ DOMAIN stored' = Witnesses
        /\ \A v \in Witnesses : stored'[v] = IF v = w THEN new ELSE stored[v]
    BY <2>1, <2>2
  <2> HIDE DEF row
  <2>9. IsRow(m)
    BY <2>7, RowJoined
  <2> HIDE DEF m
  <2>10. IsTable(new) /\ \A e : Stores(stored[w], e) => Stores(new, e)
    BY <2>3, <2>9, TableSaved
  <2> HIDE DEF new
  <2>11. WitnessesKeep
    <3> SUFFICES ASSUME NEW v \in Witnesses
                 PROVE IsTable(stored'[v]) /\ \A e : Stores(stored[v], e) => Stores(stored'[v], e)
      BY <2>8 DEF WitnessesKeep
    <3>1. CASE v = w
      BY <2>8, <2>10, <3>1
    <3>2. CASE v # w
      BY <2>2, <2>8, <3>2
    <3> QED
      BY <3>1, <3>2
  <2> QED
    BY <2>11
<1> QED
  BY <1>2, <1>3

-----------------------------------------------------------------------------
(* What the steps of a call do to the call. *)

\* A call that ends.
LEMMA Ended ==
    ASSUME IInv, NEW c \in Sessions, NEW r, r.pc = "idle", call' = [call EXCEPT ![c] = r]
    PROVE CallsKeep /\ ReceiptsKeep
<1>1. /\ DOMAIN call' = Sessions /\ call'[c].pc = "idle"
      /\ \A e \in Sessions : e # c => call'[e] = call[e]
  BY DEF IInv, Typed
<1> QED
  BY <1>1 DEF CallsKeep, ReceiptsKeep

\* A call goes on with what it has: pc and todo change, and receipts as said.
Continues(c, pc, todo, receipts) ==
    /\ DOMAIN call' = Sessions /\ \A e \in Sessions : e # c => call'[e] = call[e]
    /\ call'[c] = [call[c] EXCEPT !.pc = pc, !.todo = todo, !.receipts = receipts]
    /\ calls' = calls
    /\ pc \in {"receipts", "waiting", "distribution"} /\ receipts \in Seq(Witnesses)
    /\ pc # "distribution" => todo \in Seq(Witnesses)
    /\ pc = "waiting" => todo # <<>>
    /\ \A w \in Elements(receipts) :
           w \in Elements(call[c].receipts) \/ Stores(stored'[w], call[c].event.body.d)

LEMMA Continued ==
    ASSUME IInv, NEW c \in Sessions, Active(c), NEW pc, NEW todo, NEW receipts,
           Continues(c, pc, todo, receipts)
    PROVE CallsKeep /\ ReceiptsKeep
<1>1. CallTyped(c)
  BY DEF IInv, Typed
<1>2. /\ DOMAIN call'[c] = CallFields
      /\ call'[c].pc = pc /\ call'[c].todo = todo /\ call'[c].receipts = receipts
      /\ call'[c].id = call[c].id /\ call'[c].event = call[c].event
      /\ call'[c].endpoints = call[c].endpoints
  BY <1>1 DEF CallTyped, CallFields, Continues
<1>3. CallTyped(c)'
  BY <1>1, <1>2 DEF CallTyped, Continues
<1>4. CallsKeep
  BY <1>2, <1>3 DEF CallsKeep, Continues
<1>5. ReceiptsKeep
  BY <1>2 DEF ReceiptsKeep, Continues
<1> QED
  BY <1>4, <1>5

\* A call that goes on to what is left.
LEMMA Stepped ==
    ASSUME IInv, NEW c \in Sessions, NEW pc \in {"receipts", "distribution"}, Step(c, pc), calls' = calls,
           call[c].todo # <<>>, IF pc = "distribution" THEN call[c].pc = pc ELSE call[c].pc \in {"receipts", "waiting"}
    PROVE CallsKeep /\ ReceiptsKeep
<1>1. Active(c) /\ CallTyped(c)
  BY DEF Active, IInv, Typed
<1> DEFINE todo == Tail(call[c].todo)
           receipts == call[c].receipts
<1>2. /\ DOMAIN call' = Sessions /\ \A e \in Sessions : e # c => call'[e] = call[e]
      /\ call'[c] = [call[c] EXCEPT !.pc = pc, !.todo = todo]
  BY DEF Step, IInv, Typed
<1>3. pc # "distribution" => todo \in Seq(Witnesses)
  BY <1>1 DEF CallTyped
<1>4. receipts \in Seq(Witnesses)
  BY <1>1 DEF CallTyped
<1>5. call'[c] = [call[c] EXCEPT !.pc = pc, !.todo = todo, !.receipts = receipts]
  BY <1>1, <1>2 DEF CallTyped, CallFields
<1>6. pc \in {"receipts", "waiting", "distribution"} /\ pc # "waiting"
  OBVIOUS
<1>7. \A w \in Elements(receipts) : w \in Elements(call[c].receipts)
  OBVIOUS
<1> HIDE DEF todo, receipts
<1>8. Continues(c, pc, todo, receipts)
  BY <1>2, <1>3, <1>4, <1>5, <1>6, <1>7 DEF Continues
<1> QED
  BY <1>1, <1>8, Continued

-----------------------------------------------------------------------------
(* The steps of a call, one by one. *)

\* A witness that is asked to sign, and what the call asks it to.
LEMMA Asked ==
    ASSUME IInv, NEW c \in Sessions, call[c].pc \in {"receipts", "waiting"}, call[c].todo # <<>>
    PROVE Head(call[c].todo) \in Witnesses /\ Active(c) /\ CallTyped(c)
<1>1. Active(c) /\ CallTyped(c)
  BY DEF Active, IInv, Typed
<1>2. call[c].todo \in Seq(Witnesses)
  BY <1>1 DEF CallTyped
<1> QED
  BY <1>1, <1>2

LEMMA RequestReceiptStep ==
    ASSUME IInv, SInv, NEW c \in Sessions, RequestReceipt(c)
    PROVE IInv' /\ SInv'
<1> DEFINE w == Head(call[c].todo)
<1>1. /\ call[c].pc = "receipts" /\ call[c].todo # <<>> /\ stored' = stored
      /\ UNCHANGED <<store, keyCount, calls, overlaps>>
  BY DEF RequestReceipt, BeginReceipt
<1>2. w \in Witnesses /\ Active(c) /\ CallTyped(c)
  BY <1>1, Asked
<1> HIDE DEF w
<1>3. PICK row : /\ IsRow(row) /\ row.body = call[c].event.body
                 /\ signing' = [signing EXCEPT ![w] = @ \cup {[id |-> call[c].id, row |-> row]}]
  BY DEF RequestReceipt, BeginReceipt, IsRow, w
<1>4. SigningKeeps
  <2>1. DOMAIN signing = Witnesses
    BY DEF IInv, Typed
  <2>2. DOMAIN signing' = Witnesses
    BY <1>3, <2>1
  <2>3. ASSUME NEW v \in Witnesses, NEW request \in signing'[v], request \notin signing[v]
        PROVE request = [id |-> call[c].id, row |-> row]
    BY <1>3, <2>1, <2>3
  <2> QED
    BY <1>2, <1>3, <2>2, <2>3 DEF SigningKeeps
<1>5. CallsKeep /\ ReceiptsKeep
  <2> DEFINE pc == "waiting"
             todo == call[c].todo
             receipts == call[c].receipts
  <2>1. /\ DOMAIN call' = Sessions /\ \A e \in Sessions : e # c => call'[e] = call[e]
        /\ call'[c] = [call[c] EXCEPT !.pc = pc]
    BY DEF RequestReceipt, IInv, Typed
  <2>2. call'[c] = [call[c] EXCEPT !.pc = pc, !.todo = todo, !.receipts = receipts]
    BY <1>2, <2>1 DEF CallTyped, CallFields
  <2>3. receipts \in Seq(Witnesses) /\ todo \in Seq(Witnesses) /\ todo # <<>>
    BY <1>1, <1>2 DEF CallTyped
  <2>4. \A v \in Elements(receipts) : v \in Elements(call[c].receipts)
    OBVIOUS
  <2>5. pc \in {"receipts", "waiting", "distribution"}
    OBVIOUS
  <2> HIDE DEF pc, todo, receipts
  <2>6. Continues(c, pc, todo, receipts)
    BY <1>1, <2>1, <2>2, <2>3, <2>4, <2>5 DEF Continues
  <2> QED
    BY <1>2, <2>6, Continued
<1> QED
  BY <1>1, <1>4, <1>5, UnchangedKeeps, QuietStep

LEMMA ReceiptStep ==
    ASSUME IInv, SInv, NEW c \in Sessions, Receipt(c)
    PROVE IInv' /\ SInv'
<1> DEFINE w == Head(call[c].todo)
<1>1. call[c].pc = "waiting" /\ UNCHANGED <<store, keyCount, calls, overlaps>>
  BY DEF Receipt
<1>2. call[c].todo # <<>>
  BY <1>1 DEF IInv, Typed, CallTyped, Active
<1>3. w \in Witnesses /\ Active(c) /\ CallTyped(c)
  BY <1>1, <1>2, Asked
<1>4. PICK request \in signing[w] : request.id = call[c].id /\ FinishReceipt(w, request)
  BY DEF Receipt
<1>5. call' = [call EXCEPT ![c].pc = "receipts", ![c].todo = Tail(@), ![c].receipts = WithReceipt(@, w)]
  BY DEF Receipt
<1> HIDE DEF w
<1>6. WitnessesKeep /\ SigningKeeps /\ Stores(stored'[w], request.row.body.d)
  BY <1>3, <1>4, FinishReceiptKeeps
<1>7. request.row.body = call[c].event.body
  BY <1>3, <1>4 DEF IInv, RequestsFounded
<1>8. CallsKeep /\ ReceiptsKeep
  <2>1. call[c].todo \in Seq(Witnesses) /\ call[c].receipts \in Seq(Witnesses)
    BY <1>1, <1>3 DEF CallTyped
  <2>2. PICK pc, todo, receipts :
           pc = "receipts" /\ todo = Tail(call[c].todo) /\ receipts = WithReceipt(call[c].receipts, w)
    OBVIOUS
  <2>3. /\ DOMAIN call' = Sessions /\ \A e \in Sessions : e # c => call'[e] = call[e]
        /\ call'[c] = [call[c] EXCEPT !.pc = pc, !.todo = todo, !.receipts = receipts]
    BY <1>5, <2>2 DEF IInv, Typed
  <2>4. receipts \in Seq(Witnesses) /\ todo \in Seq(Witnesses)
    BY <1>2, <1>3, <2>1, <2>2 DEF WithReceipt
  <2>5. \A v \in Elements(receipts) : v \in Elements(call[c].receipts) \/ v = w
    BY <1>3, <2>1, <2>2 DEF WithReceipt, Elements
  <2>6. /\ pc \in {"receipts", "waiting", "distribution"}
        /\ pc # "distribution" => todo \in Seq(Witnesses)
        /\ pc = "waiting" => todo # <<>>
    BY <2>2, <2>4
  <2>7. \A v \in Elements(receipts) :
           v \in Elements(call[c].receipts) \/ Stores(stored'[v], call[c].event.body.d)
    BY <1>6, <1>7, <2>5
  <2>8. Continues(c, pc, todo, receipts)
    BY <1>1, <2>3, <2>4, <2>6, <2>7 DEF Continues
  <2> QED
    BY <1>3, <2>8, Continued
<1> QED
  BY <1>1, <1>6, <1>8, QuietStep

\* A witness that cannot or will not sign, or is given up.
LEMMA NoReceiptSteps ==
    ASSUME IInv, SInv, NEW c \in Sessions, NoReceipt(c) \/ RequestFails(c) \/ GiveUp(c)
    PROVE IInv' /\ SInv'
<1>1. /\ Step(c, "receipts") /\ call[c].pc \in {"receipts", "waiting"}
      /\ call[c].pc = "receipts" => call[c].todo # <<>>
      /\ UNCHANGED <<store, keyCount, calls, overlaps, stored, signing>>
  BY DEF NoReceipt, RequestFails, GiveUp
<1>2. call[c].todo # <<>>
  BY <1>1 DEF IInv, Typed, CallTyped, Active
<1>3. CallsKeep /\ ReceiptsKeep
  <2> DEFINE pc == "receipts"
  <2>1. pc \in {"receipts", "distribution"} /\ pc # "distribution"
    OBVIOUS
  <2>2. Step(c, pc)
    BY <1>1
  <2> HIDE DEF pc
  <2> QED
    BY <1>1, <1>2, <2>1, <2>2, Stepped
<1> QED
  BY <1>1, <1>3, UnchangedKeeps, SameSigning, QuietStep

LEMMA AgreeStep ==
    ASSUME IInv, SInv, NEW c \in Sessions, Agree(c)
    PROVE IInv' /\ SInv'
<1>1. call[c].pc = "receipts" /\ UNCHANGED <<store, keyCount, calls, overlaps, stored, signing>>
  BY DEF Agree
<1>2. Active(c) /\ CallTyped(c)
  BY <1>1 DEF Active, IInv, Typed
<1>3. CallsKeep /\ ReceiptsKeep
  <2> DEFINE pc == "distribution"
             todo == Exchanges(call[c].endpoints, call[c].receipts)
             receipts == call[c].receipts
  <2>1. /\ DOMAIN call' = Sessions /\ \A e \in Sessions : e # c => call'[e] = call[e]
        /\ call'[c] = [call[c] EXCEPT !.pc = pc, !.todo = todo]
    BY DEF Agree, IInv, Typed
  <2> HIDE DEF todo
  <2>2. call'[c] = [call[c] EXCEPT !.pc = pc, !.todo = todo, !.receipts = receipts]
    BY <1>2, <2>1 DEF CallTyped, CallFields
  <2>3. receipts \in Seq(Witnesses)
    BY <1>2 DEF CallTyped
  <2>4. \A v \in Elements(receipts) : v \in Elements(call[c].receipts)
    OBVIOUS
  <2>5. pc = "distribution" /\ pc \in {"receipts", "waiting", "distribution"} /\ pc # "waiting"
    OBVIOUS
  <2> HIDE DEF pc, receipts
  <2>6. Continues(c, pc, todo, receipts)
    BY <1>1, <2>1, <2>2, <2>3, <2>4, <2>5 DEF Continues
  <2> QED
    BY <1>2, <2>6, Continued
<1> QED
  BY <1>1, <1>3, UnchangedKeeps, SameSigning, QuietStep

\* A call that throws, whatever a witness has done with its last request.
LEMMA FailSteps ==
    ASSUME IInv, SInv, NEW c \in Sessions,
           Disagree(c) \/ DeliveryRefused(c) \/ DeliveryFails(c) \/ Rejected(c)
    PROVE IInv' /\ SInv'
<1>1. /\ Fail(c) /\ UNCHANGED <<store, keyCount, calls, overlaps>>
      /\ UNCHANGED <<stored, signing>> \/ Distribute(c)
  BY DEF Disagree, DeliveryRefused, DeliveryFails, Rejected
<1>2. CallsKeep /\ ReceiptsKeep
  <2>1. PICK r : r.pc = "idle" /\ call' = [call EXCEPT ![c] = r]
    BY <1>1 DEF Fail
  <2> QED
    BY <2>1, Ended
<1>3. WitnessesKeep /\ SigningKeeps
  <2>1. CASE UNCHANGED <<stored, signing>>
    BY <2>1, UnchangedKeeps, SameSigning
  <2>2. CASE Distribute(c)
    BY <2>2, HandleReceiptKeeps DEF Distribute
  <2> QED
    BY <1>1, <2>1, <2>2
<1> QED
  BY <1>1, <1>2, <1>3, QuietStep

LEMMA DeliverStep ==
    ASSUME IInv, SInv, NEW c \in Sessions, Deliver(c)
    PROVE IInv' /\ SInv'
<1>1. /\ Distribute(c) /\ Step(c, "distribution") /\ call[c].pc = "distribution" /\ call[c].todo # <<>>
      /\ UNCHANGED <<store, keyCount, calls, overlaps>>
  BY DEF Deliver
<1>2. CallsKeep /\ ReceiptsKeep
  <2> DEFINE pc == "distribution"
  <2>1. pc \in {"receipts", "distribution"} /\ pc = "distribution" /\ Step(c, pc) /\ call[c].pc = pc
    BY <1>1
  <2> HIDE DEF pc
  <2> QED
    BY <1>1, <2>1, Stepped
<1>3. WitnessesKeep /\ SigningKeeps
  BY <1>1, HandleReceiptKeeps DEF Distribute
<1> QED
  BY <1>1, <1>2, <1>3, QuietStep

LEMMA LateReceiptStep ==
    ASSUME IInv, SInv, NEW w \in Witnesses, LateReceipt(w)
    PROVE IInv' /\ SInv'
<1>1. PICK request \in signing[w] : FinishReceipt(w, request)
  BY DEF LateReceipt
<1>2. UNCHANGED <<store, keyCount, calls, overlaps, call>>
  BY DEF LateReceipt
<1>3. WitnessesKeep /\ SigningKeeps
  BY <1>1, FinishReceiptKeeps
<1>4. CallsKeep /\ ReceiptsKeep
  BY <1>2 DEF CallsKeep, ReceiptsKeep, IInv, Typed
<1> QED
  BY <1>2, <1>3, <1>4, QuietStep

-----------------------------------------------------------------------------
(* The receipts of a call, and the witnesses that hold its event. *)

\* backers.indexOf finds a witness that is listed.
LEMMA BackerFound ==
    ASSUME NEW backers, IsSequence(backers), NEW w \in Elements(backers)
    PROVE BackerIndex(backers, w) \in DOMAIN backers /\ backers[BackerIndex(backers, w)] = w
<1> DEFINE I == {x \in DOMAIN backers : backers[x] = w}
<1>1. DOMAIN backers = 1 .. Len(backers) /\ Len(backers) \in Nat
  BY DEF IsSequence
<1>2. I \in SUBSET Nat /\ I # {}
  BY <1>1 DEF Elements
<1> HIDE DEF I
<1>3. PICK x \in I : \A y \in I : x <= y
  BY <1>2, NatMin
<1>4. x \in DOMAIN backers /\ backers[x] = w
  BY <1>3 DEF I
<1>5. \A y \in 1 .. x - 1 : backers[y] # w
  <2> SUFFICES ASSUME NEW y \in 1 .. x - 1, backers[y] = w PROVE FALSE
    OBVIOUS
  <2>1. y \in DOMAIN backers /\ ~(x <= y)
    BY <1>1, <1>4
  <2> QED
    BY <1>3, <2>1 DEF I
<1> QED
  BY <1>4, <1>5 DEF BackerIndex

\* The event with the receipts that a call stores.
LEMMA WitnessedRow ==
    ASSUME NEW c, CallTyped(c)
    PROVE /\ IsRow(Witnessed(c)) /\ Witnessed(c).body = call[c].event.body
          /\ Witnessed(c).wigs = [x \in {BackerIndex(Backers, w) : w \in Elements(call[c].receipts)} |-> Backers[x]]
<1> DEFINE wigs == [x \in {BackerIndex(Backers, w) : w \in Elements(call[c].receipts)} |-> Backers[x]]
<1>1. call[c].endpoints = Backers /\ IsRow(call[c].event)
  BY DEF CallTyped
<1>2. Witnessed(c) = [call[c].event EXCEPT !.wigs = wigs]
  BY <1>1 DEF Witnessed
<1> HIDE DEF wigs
<1>3. /\ IsRow([call[c].event EXCEPT !.wigs = wigs])
      /\ [call[c].event EXCEPT !.wigs = wigs].body = call[c].event.body
      /\ [call[c].event EXCEPT !.wigs = wigs].wigs = wigs
  <2> DEFINE e == call[c].event
             M == [body : {e.body}, sigs : {e.sigs}, wigs : {e.wigs, wigs}, hints : {e.hints}]
  <2>1. e \in M
    BY <1>1 DEF IsRow
  <2> HIDE DEF e
  <2>2. [e EXCEPT !.wigs = wigs] \in M /\ [e EXCEPT !.wigs = wigs].wigs = wigs
    BY <2>1
  <2>3. \A r \in M : IsRow(r) /\ r.body = e.body
    BY DEF IsRow
  <2> HIDE DEF M
  <2>4. IsRow([e EXCEPT !.wigs = wigs]) /\ [e EXCEPT !.wigs = wigs].body = e.body
    BY <2>2, <2>3
  <2> QED
    BY <2>2, <2>4 DEF e
<1> QED
  BY <1>2, <1>3 DEF wigs

\* Receipts that are enough for a threshold are by as many witnesses that hold
\* the event.
LEMMA Enough ==
    ASSUME IInv, NEW c \in Sessions, Active(c), NEW bt \in {0, Toad},
           VerifyWitness(Backers, bt, Witnessed(c).wigs, Strict)
    PROVE Cardinality(HoldersOf(call[c].event.body.d)) >= bt
<1> DEFINE d == call[c].event.body.d
           wigs == Witnessed(c).wigs
           V == {z \in DOMAIN wigs : z \in DOMAIN Backers /\ wigs[z] = Backers[z]}
           H == HoldersOf(d)
<1>1. /\ IsSequence(Backers) /\ Elements(Backers) = Witnesses /\ Backers \in Seq(Witnesses)
      /\ Len(Backers) \in Nat /\ Toad \in 0 .. Len(Backers)
  BY KawaAssumption DEF IsSequence
<1>2. CallTyped(c)
  BY DEF IInv, Typed
<1>3. /\ IsFiniteSet(H) /\ Cardinality(H) \in Nat
  <2>1. H \subseteq Witnesses
    BY DEF HoldersOf
  <2> HIDE DEF H
  <2> QED
    BY <2>1, WitnessesFinite, FS_Subset, FS_CardinalityType
<1>4. CASE bt = 0
  <2> HIDE DEF H
  <2> QED
    BY <1>3, <1>4 DEF H
<1>5. CASE bt # 0
  <2>1. bt \in Nat /\ Len(Backers) > 0
    BY <1>1, <1>5
  <2>2. VerifyThreshold(Backers, Simple(bt), wigs)
    BY <1>5, <2>1 DEF VerifyWitness, Strict, Options
  <2>3. \A z \in DOMAIN wigs : \E w \in Elements(call[c].receipts) : z = BackerIndex(Backers, w)
    <3> DEFINE X == {BackerIndex(Backers, w) : w \in Elements(call[c].receipts)}
    <3>1. wigs = [x \in X |-> Backers[x]]
      BY <1>2, WitnessedRow
    <3> HIDE DEF wigs
    <3>2. DOMAIN wigs = X
      BY <3>1
    <3> QED
      BY <3>2
  <2> HIDE DEF wigs
  <2>4. Cardinality(V) >= bt
    BY <1>1, <2>1, <2>2, SignaturesCounted
  <2> DEFINE f == [z \in V |-> Backers[z]]
  <2>5. \A z \in V : Backers[z] \in H /\ z = BackerIndex(Backers, Backers[z])
    <3> SUFFICES ASSUME NEW z \in V PROVE Backers[z] \in H /\ z = BackerIndex(Backers, Backers[z])
      OBVIOUS
    <3>1. PICK w \in Elements(call[c].receipts) : z = BackerIndex(Backers, w)
      BY <2>3
    <3>2. w \in Witnesses
      BY <1>2 DEF CallTyped, Elements
    <3>3. Backers[z] = w
      BY <1>1, <3>1, <3>2, BackerFound
    <3>4. Stores(stored[w], d)
      BY DEF IInv, ReceiptsFounded
    <3> QED
      BY <3>1, <3>2, <3>3, <3>4 DEF HoldersOf
  <2> HIDE DEF V, H
  <2>6. f \in Injection(V, H)
    <3>1. f \in [V -> H] /\ \A y, z \in V : f[y] = f[z] => y = z
      BY <2>5
    <3> QED
      BY <3>1 DEF Injection, IsInjective
  <2> HIDE DEF f
  <2>7. Cardinality(V) <= Cardinality(H) /\ IsFiniteSet(V)
    BY <1>3, <2>6, FS_Injection
  <2>8. Cardinality(V) \in Nat
    BY <2>7, FS_CardinalityType
  <2> QED
    BY <1>3, <2>1, <2>4, <2>7, <2>8 DEF H
<1> QED
  BY <1>4, <1>5

\* An event that the log accepts is held by as many witnesses as the log asks for.
LEMMA ThresholdMet ==
    ASSUME IInv, NEW c \in Sessions, Active(c), NEW log \in From(store, Strict),
           CanAppend(log, Witnessed(c), Strict),
           NEW bt, bt = IF store = <<>> THEN call[c].event.body.bt ELSE log.state.backerThreshold
    PROVE /\ bt \in {0, Toad}
          /\ Cardinality(HoldersOf(call[c].event.body.d)) >= bt
<1> DEFINE m == Witnessed(c)
<1>1. CallTyped(c)
  BY DEF IInv, Typed
<1>2. m.body = call[c].event.body
  BY <1>1, WitnessedRow
<1>3. Built(m.body)
  BY <1>1, <1>2 DEF CallTyped
<1>4. IsSequence(store) /\ \A row \in Elements(store) : Built(row.body)
  BY DEF IInv, Typed, IsTable
<1>5. StateOf(log, store)
  BY <1>4, Replayed
<1> HIDE DEF m
<1>6. bt \in {0, Toad} /\ VerifyWitness(Backers, bt, m.wigs, Strict)
  <2>1. CanIncept(log, m, Strict) \/ CanInteract(log, m, Strict) \/ CanRotate(log, m, Strict)
    BY DEF CanAppend, m
  <2>2. CASE store = <<>>
    <3>1. ~HasState(log) /\ bt = m.body.bt
      BY <1>2, <1>5, <2>2 DEF StateOf, HasState
    <3>2. IsInception(m.body.t) /\ VerifyWitness(m.body.b, m.body.bt, m.wigs, Strict)
      BY <2>1, <3>1 DEF CanIncept, CanInteract, CanRotate
    <3>3. m.body.b = Backers /\ m.body.bt = Toad
      BY <1>3, <3>2 DEF Built, IsInception
    <3> QED
      BY <3>1, <3>2, <3>3
  <2>3. CASE store # <<>>
    <3>1. HasState(log) /\ bt = log.state.backerThreshold
      BY <1>5, <2>3 DEF StateOf, HasState
    <3>2. VerifyWitness(log.state.backers, log.state.backerThreshold, m.wigs, Strict)
      BY <2>1, <3>1 DEF CanIncept, CanInteract, CanRotate
    <3>3. log.state.backers = Backers /\ log.state.backerThreshold \in {0, Toad}
      BY <1>5, <2>3 DEF StateOf
    <3> QED
      BY <3>1, <3>2, <3>3
  <2> QED
    BY <2>2, <2>3
<1> QED
  BY <1>6, Enough DEF m

\* A row that is added at the end, with enough witnesses behind it.
LEMMA HeldGrows ==
    ASSUME IInv, RowsHeld, stored' = stored, NEW m, store' = Append(store, m),
           NEW log \in From(store, Strict), NEW bt \in Nat,
           bt = IF store = <<>> THEN m.body.bt ELSE log.state.backerThreshold,
           Cardinality(HoldersOf(m.body.d)) >= bt
    PROVE RowsHeld'
<1> DEFINE n == Len(store)
           S == Elements(store) \cup {m}
<1>1. store \in Seq(S) /\ m \in S
  BY DEF IInv, Typed, IsTable, IsSequence
<1>2. n \in Nat /\ DOMAIN store = 1 .. n /\ (n = 0 <=> store = <<>>)
  BY <1>1, LenProperties, EmptySeq
<1>3. /\ store' \in Seq(S) /\ DOMAIN store' = 1 .. n + 1 /\ Len(store') = n + 1
      /\ store'[n + 1] = m /\ \A x \in 1 .. n : store'[x] = store[x]
  BY <1>1, <1>2, AppendProperties, LenProperties
<1> HIDE DEF n, S
<1> SUFFICES ASSUME NEW x \in 1 .. n + 1
             PROVE \E before \in From(SubSeq(store', 1, x - 1), Strict) :
                      /\ Required(x, before)' \in Nat
                      /\ Cardinality(HoldersOf(store[x].body.d))' >= Required(x, before)'
  BY <1>3 DEF RowsHeld
<1>4. PICK d : d = store'[x].body.d
  OBVIOUS
<1>5. PICK h : h = Cardinality(HoldersOf(d))
  OBVIOUS
<1>6. Cardinality(HoldersOf(store[x].body.d))' = h
  BY <1>4, <1>5 DEF HoldersOf
<1>7. CASE x \in 1 .. n
  <2>1. PICK before \in From(SubSeq(store, 1, x - 1), Strict) :
          /\ Required(x, before) \in Nat
          /\ Cardinality(HoldersOf(store[x].body.d)) >= Required(x, before)
    BY <1>2, <1>7 DEF RowsHeld
  <2>2. SubSeq(store', 1, x - 1) = SubSeq(store, 1, x - 1)
    BY <1>1, <1>2, <1>3, <1>7
  <2>3. store'[x] = store[x] /\ Required(x, before)' = Required(x, before)
    BY <1>2, <1>3, <1>7 DEF Required
  <2>4. h = Cardinality(HoldersOf(store[x].body.d))
    BY <1>4, <1>5, <2>3
  <2> QED
    BY <1>6, <2>1, <2>2, <2>3, <2>4
<1>8. CASE x = n + 1
  <2>1. SubSeq(store', 1, x - 1) = store
    BY <1>1, <1>2, <1>3, <1>8
  <2>2. Required(x, log)' = bt
    <3>1. CASE store = <<>>
      BY <1>2, <1>3, <1>8, <3>1 DEF Required
    <3>2. CASE store # <<>>
      <4>1. x # 1
        BY <1>2, <1>8, <3>2
      <4> QED
        BY <3>2, <4>1 DEF Required
    <3> QED
      BY <3>1, <3>2
  <2>3. h = Cardinality(HoldersOf(m.body.d))
    BY <1>3, <1>4, <1>5, <1>8
  <2> QED
    BY <1>6, <2>1, <2>2, <2>3
<1> QED
  BY <1>2, <1>7, <1>8

\* The event of a call is stored behind all others, unless it was overtaken twice.
LEMMA RowAdded ==
    ASSUME IInv, Sorted, InLine, NEW c \in Sessions, Active(c), NEW m, IsRow(m),
           m.body = call[c].event.body, ~Stores(store, m.body.d)
    PROVE /\ SaveMessage(store, m) = Append(store, m)
          /\ m.body.s \in Nat /\ NextSn \in Nat
          /\ m.body.s = NextSn \/ (overlaps >= 1 /\ m.body.s + 1 = NextSn)
          /\ \A x \in DOMAIN store : store[x].body.s <= m.body.s
<1>1. Built(m.body)
  BY DEF IInv, Typed, CallTyped
<1>2. IsTable(store) /\ \A row \in Elements(store) : Built(row.body)
  BY DEF IInv, Typed
<1> DEFINE S == Elements(store) \cup {m}
<1>3. store \in Seq(S) /\ m \in S
  BY <1>2 DEF IsTable, IsSequence
<1> HIDE DEF S
<1>4. PICK n, sn, next : n = Len(store) /\ sn = m.body.s /\ next = NextSn
  OBVIOUS
<1>5. n \in Nat /\ DOMAIN store = 1 .. n /\ sn \in Nat
  BY <1>1, <1>3, <1>4, LenProperties DEF Built
<1>6. \A x \in DOMAIN store : store[x].body.s \in Nat /\ store[x].body.s < next
  <2>1. \A x \in DOMAIN store : store[x] \in Elements(store)
    BY DEF Elements
  <2> QED
    BY <1>2, <1>4, <2>1 DEF Sorted, Built
<1>7. next \in Nat
  <2>1. CASE store = <<>>
    BY <1>4, <2>1 DEF NextSn
  <2>2. CASE store # <<>>
    <3>1. n \in DOMAIN store
      BY <1>3, <1>4, <1>5, <2>2, EmptySeq
    <3>2. next = store[n].body.s + 1
      BY <1>4, <2>2 DEF NextSn
    <3> QED
      BY <1>6, <3>1, <3>2
  <2> QED
    BY <2>1, <2>2
<1>8. sn = next \/ (overlaps >= 1 /\ sn + 1 = next)
  BY <1>4 DEF InLine
<1>9. \A x \in DOMAIN store : store[x].body.s <= m.body.s
  BY <1>4, <1>5, <1>6, <1>7, <1>8
<1> QED
  BY <1>3, <1>4, <1>5, <1>7, <1>8, <1>9, SavedLast

\* A call that stores its event.
LEMMA FinishStep ==
    ASSUME IInv, SInv, NEW c \in Sessions, Finish(c)
    PROVE IInv' /\ SInv'
<1>1. PICK m : m = Witnessed(c)
  OBVIOUS
<1>2. /\ call[c].pc = "distribution" /\ Acceptable(m)
      /\ store' = IF Stores(store, m.body.d) THEN store ELSE SaveMessage(store, m)
      /\ UNCHANGED <<keyCount, calls, overlaps, stored, signing>>
  BY <1>1 DEF Finish
<1>3. Active(c) /\ CallTyped(c)
  BY <1>2 DEF Active, IInv, Typed
<1>4. IsRow(m) /\ m.body = call[c].event.body /\ Built(m.body)
  BY <1>1, <1>3, WitnessedRow DEF CallTyped
<1>5. PICK r : r.pc = "idle" /\ call' = [call EXCEPT ![c] = r]
  BY DEF Finish
<1>6. CallsKeep /\ ReceiptsKeep /\ WitnessesKeep /\ SigningKeeps
  BY <1>2, <1>5, Ended, UnchangedKeeps, SameSigning
<1>7. CASE Stores(store, m.body.d)
  BY <1>2, <1>6, <1>7, QuietStep
<1>8. CASE ~Stores(store, m.body.d)
  <2> DEFINE S == Elements(store) \cup {m}
  <2>1. /\ IsTable(store) /\ store \in Seq(S) /\ m \in S
        /\ \A row \in Elements(store) : Built(row.body)
    BY DEF IInv, Typed, IsTable, IsSequence
  <2>2. store' = SaveMessage(store, m)
    BY <1>2, <1>8
  <2> HIDE DEF S
  <2>3. /\ SaveMessage(store, m) \in Seq(S)
        /\ Elements(SaveMessage(store, m)) = Elements(store) \cup {m}
    BY <1>8, <2>1, SavedInsert
  <2>4. IsTable(store')
    BY <1>4, <2>1, <2>2, TableSaved
  <2>5. \A row \in Elements(store') : Built(row.body)
    BY <1>4, <2>1, <2>2, <2>3
  <2>6. keyCount # 0
    BY <1>3 DEF IInv, Unborn
  <2>7. IInv'
    BY <1>2, <1>6, <2>4, <2>5, <2>6, KeepsIInv
  <2>8. SInv'
    <3> SUFFICES ASSUME AtMostOneOverlap'
                 PROVE Sorted' /\ InLine' /\ SameNumber' /\ RowsHeld' /\ Loads(store, Strict)'
      BY DEF SInv
    <3>1. Sorted /\ InLine /\ SameNumber /\ RowsHeld
      BY <1>2 DEF SInv, AtMostOneOverlap
    <3>2. PICK log \in From(store, Strict) : Includes(log, m.body.d) \/ CanAppend(log, m, Strict)
      BY <1>2 DEF Acceptable
    <3>3. log.events = store
      BY <2>1, FromEvents
    <3>4. CanAppend(log, m, Strict)
      BY <1>8, <3>2, <3>3 DEF Includes
    <3>5. /\ SaveMessage(store, m) = Append(store, m)
          /\ m.body.s \in Nat
          /\ \A x \in DOMAIN store : store[x].body.s <= m.body.s
      BY <1>3, <1>4, <1>8, <3>1, RowAdded
    <3>6. PICK n, sn : n = Len(store) /\ sn = m.body.s
      OBVIOUS
    <3>7. n \in Nat /\ DOMAIN store = 1 .. n /\ sn \in Nat
      BY <2>1, <3>5, <3>6, LenProperties
    <3>8. \A x \in DOMAIN store : store[x].body.s \in Nat
      <4>1. \A x \in DOMAIN store : store[x] \in Elements(store)
        BY DEF Elements
      <4> QED
        BY <2>1, <4>1 DEF Built
    <3>9. store' = Append(store, m)
      BY <2>2, <3>5
    <3>10. /\ store' # <<>> /\ DOMAIN store' = 1 .. n + 1 /\ Len(store') = n + 1
           /\ store'[n + 1] = m /\ \A x \in 1 .. n : store'[x] = store[x]
      BY <2>1, <3>6, <3>7, <3>9, AppendProperties, LenProperties
    <3>11. NextSn' = sn + 1
      BY <3>6, <3>10 DEF NextSn
    <3>12. Sorted'
      <4>1. \A x \in 1 .. n + 1 : store'[x].body.s < sn + 1
        <5> TAKE x \in 1 .. n + 1
        <5>1. CASE x \in 1 .. n
          BY <3>5, <3>6, <3>7, <3>8, <3>10, <5>1
        <5>2. CASE x = n + 1
          BY <3>6, <3>7, <3>10, <5>2
        <5> QED
          BY <3>7, <5>1, <5>2
      <4> QED
        BY <3>10, <3>11, <4>1 DEF Sorted
    <3>13. \A e \in Sessions : Active(e)' => e # c /\ Active(e) /\ call'[e].event = call[e].event
      <4>1. call'[c].pc = "idle"
        BY <1>5 DEF IInv, Typed
      <4> QED
        BY <1>6, <4>1, StillActive DEF Active
    <3>14. InLine' /\ SameNumber'
      <4>1. \A e \in Sessions : Active(e)' => call'[e].event.body.s = sn /\ overlaps >= 1
        <5> SUFFICES ASSUME NEW e \in Sessions, Active(e)'
                     PROVE call'[e].event.body.s = sn /\ overlaps >= 1
          OBVIOUS
        <5>1. e # c /\ Active(e) /\ call'[e].event = call[e].event
          BY <3>13
        <5> QED
          BY <1>3, <1>4, <3>1, <3>6, <5>1 DEF SameNumber, IInv, Overlapping
      <4> QED
        BY <1>2, <3>11, <4>1 DEF InLine, SameNumber
    <3>15. RowsHeld'
      <4>1. PICK bt : bt = IF store = <<>> THEN m.body.bt ELSE log.state.backerThreshold
        OBVIOUS
      <4>2. bt \in {0, Toad} /\ Cardinality(HoldersOf(m.body.d)) >= bt
        BY <1>1, <1>3, <1>4, <3>4, <4>1, ThresholdMet
      <4>3. bt \in Nat
        BY <4>2, KawaAssumption DEF IsSequence
      <4> QED
        BY <1>2, <3>1, <3>9, <4>1, <4>2, <4>3, HeldGrows
    <3>16. Loads(store, Strict)'
      <4>1. From(Append(store, m), Strict) = NextLogs(From(store, Strict), m, Strict)
        BY <2>1, FromAppended
      <4>2. Extend(log, m, Strict) \in NextLogs(From(store, Strict), m, Strict)
        BY <3>4 DEF NextLogs
      <4> QED
        BY <3>9, <4>1, <4>2 DEF Loads
    <3> QED
      BY <3>1, <3>12, <3>14, <3>15, <3>16
  <2> QED
    BY <2>7, <2>8
<1> QED
  BY <1>7, <1>8

-----------------------------------------------------------------------------
(* The whole of a step. *)

LEMMA InitIInv ==
    ASSUME Init
    PROVE IInv /\ SInv
<1>1. /\ stored = [w \in Witnesses |-> <<>>] /\ signing = [w \in Witnesses |-> {}]
      /\ store = <<>> /\ keyCount = 0 /\ calls = 0 /\ overlaps = 0
      /\ DOMAIN call = Sessions /\ \A c \in Sessions : ~Active(c)
  BY DEF Init, WitnessInit, NoCall, Active
<1>2. IsTable(<<>>) /\ Elements(<<>>) = {}
  BY DEF IsTable, IsSequence, Elements
<1>3. Typed
  BY <1>1, <1>2 DEF Typed
<1>4. Unborn /\ IdsDistinct /\ RequestsFounded /\ ReceiptsFounded /\ Overlapping
  BY <1>1 DEF Unborn, IdsDistinct, RequestsFounded, ReceiptsFounded, Overlapping
<1>5. Sorted /\ InLine /\ SameNumber /\ RowsHeld
  BY <1>1 DEF Sorted, InLine, SameNumber, RowsHeld
<1>6. Loads(store, Strict)
  <2>1. Len(<<>>) \in Nat /\ Len(<<>>) = 0
    OBVIOUS
  <2>2. From(<<>>, Strict) = {EmptyLog}
    BY <2>1, FromRecursion
  <2> QED
    BY <1>1, <2>2 DEF Loads
<1> QED
  BY <1>3, <1>4, <1>5, <1>6 DEF IInv, SInv

LEMMA NextIInv ==
    ASSUME IInv, SInv, [Next]_vars
    PROVE IInv' /\ SInv'
<1>1. CASE UNCHANGED vars
  <2>1. /\ UNCHANGED <<store, keyCount, calls, overlaps, call, stored, signing>>
    BY <1>1 DEF vars
  <2>2. CallsKeep /\ ReceiptsKeep
    BY <2>1 DEF CallsKeep, ReceiptsKeep, IInv, Typed
  <2> QED
    BY <2>1, <2>2, UnchangedKeeps, SameSigning, QuietStep
<1>2. ASSUME NEW c \in Sessions, Progress(c) PROVE IInv' /\ SInv'
  <2>1. CASE RequestReceipt(c)
    BY <2>1, RequestReceiptStep
  <2>2. CASE NoReceipt(c)
    BY <2>2, NoReceiptSteps
  <2>3. CASE Receipt(c)
    BY <2>3, ReceiptStep
  <2>4. CASE Disagree(c)
    BY <2>4, FailSteps
  <2>5. CASE Agree(c)
    BY <2>5, AgreeStep
  <2>6. CASE Deliver(c)
    BY <2>6, DeliverStep
  <2>7. CASE DeliveryRefused(c)
    BY <2>7, FailSteps
  <2>8. CASE Finish(c)
    BY <2>8, FinishStep
  <2>9. CASE Rejected(c)
    BY <2>9, FailSteps
  <2> QED
    BY <1>2, <2>1, <2>2, <2>3, <2>4, <2>5, <2>6, <2>7, <2>8, <2>9 DEF Progress
<1>3. ASSUME NEW c \in Sessions, Incept(c) PROVE IInv' /\ SInv'
  BY <1>3, InceptStep
<1>4. ASSUME NEW c \in Sessions, Rotate(c) PROVE IInv' /\ SInv'
  BY <1>4, RotateStep
<1>5. ASSUME NEW c \in Sessions, RequestFails(c) \/ GiveUp(c) PROVE IInv' /\ SInv'
  BY <1>5, NoReceiptSteps
<1>6. ASSUME NEW c \in Sessions, DeliveryFails(c) PROVE IInv' /\ SInv'
  BY <1>6, FailSteps
<1>7. ASSUME NEW c \in Sessions, NEW data \in Data, Anchor(c, data) PROVE IInv' /\ SInv'
  BY <1>7, AnchorStep
<1>8. ASSUME NEW w \in Witnesses, LateReceipt(w) PROVE IInv' /\ SInv'
  BY <1>8, LateReceiptStep
<1> QED
  BY <1>1, <1>2, <1>3, <1>4, <1>5, <1>6, <1>7, <1>8 DEF Next

-----------------------------------------------------------------------------
(* Witnesses whose rows replay: what they store and what calls are about,   *)
(* while calls are made one by one and no request is given up.              *)

\* What identifies a signed event: its body and its signatures, not its receipts.
Copy(m) == [body |-> m.body, sigs |-> m.sigs]

\* The signed events that witnesses store or calls are about.
HeldCopies == UNION {{Copy(row) : row \in Elements(stored[w])} : w \in Witnesses}

CalledCopies == {Copy(call[c].event) : c \in {e \in Sessions : Active(e)}}

Known == HeldCopies \cup CalledCopies

\* The event that anchor or rotate builds after a state, for what it anchors or
\* the key it draws.
Following(k, state) ==
    LET event == IF k.body.t = "ixn" THEN InteractEvent(state, k.body.d[2])
                                     ELSE RotateEvent(state, k.body.d[2])
    IN  k = Copy(Signed(event, IF k.body.t = "ixn" THEN state.signingKeys ELSE event.k))

\* An event that was built from a log that is stored and, if it extends that log as
\* it is now, is what this log comes to.
BuiltFrom(k) ==
    /\ Built(k.body)
    /\ k.body.t = "icp" => k = Copy(Signed(InceptEvent(1, 2), <<1>>))
    /\ k.body.t # "icp" =>
          /\ k.body.d = <<k.body.t, k.body.d[2], k.body.p>>
          /\ Stores(store, k.body.p)
          /\ \A log \in From(store, Strict) :
                HasState(log) /\ log.state.lastEvent.d = k.body.p => Following(k, log.state)

KnownBuilt == \A k \in Known : BuiltFrom(k)

\* An event made again is the same event with the same signatures.
OneCopy == \A k, l \in Known : k.body.d = l.body.d => k = l

\* The rows of a witness replay, and none is ahead of the controller.
RowsReplay ==
    \A w \in Witnesses :
        /\ Loads(stored[w], PartiallyWitnessed)
        /\ \A row \in Elements(stored[w]) :
              row.body.s <= NextSn /\ SignaturesValid(Backers, row.wigs)

\* The receipt of one witness.
Own(w) == [x \in {BackerIndex(Backers, w)} |-> w]

\* What a witness is about to save is the one request of the call that waits for it,
\* and still extends the rows it was checked against.
RequestsFit ==
    \A w \in Witnesses : \A request \in signing[w] :
        /\ \A other \in signing[w] : other = request
        /\ \E c \in Sessions : /\ call[c].pc = "waiting" /\ call[c].id = request.id
                               /\ Head(call[c].todo) = w
                               /\ request.row.sigs = call[c].event.sigs
        /\ request.row.wigs = Own(w)
        /\ \E log \in From(stored[w], PartiallyWitnessed) : CanAppend(log, request.row, PartiallyWitnessed)

\* Calls were made one by one, and none was given up.
Calm == timeouts = 0 /\ overlaps = 0

CInv == KnownBuilt /\ OneCopy /\ RowsReplay /\ RequestsFit

WInv == timeouts \in Nat /\ (Calm => CInv)

-----------------------------------------------------------------------------
(* Logs that are read under weaker rules, or with other receipts. *)

\* KeyEventLog.from returns one log.
LEMMA FromSingle ==
    ASSUME NEW rows, Len(rows) \in Nat, NEW opts, NEW l \in From(rows, opts), NEW k \in From(rows, opts)
    PROVE l = k
<1>1. PICK after :
        /\ From(rows, opts) = after[Len(rows)]
        /\ after[0] = {EmptyLog}
        /\ \A x \in 1 .. Len(rows) : after[x] = NextLogs(after[x - 1], rows[x], opts)
  BY FromRecursion
<1> DEFINE S == {x \in Nat : x <= Len(rows) => \A a, b \in after[x] : a = b}
<1>2. 0 \in S
  BY <1>1
<1>3. \A x \in Nat : x \in S => x + 1 \in S
  <2> SUFFICES ASSUME NEW x \in Nat, x \in S, x + 1 <= Len(rows), NEW a \in after[x + 1], NEW b \in after[x + 1]
               PROVE a = b
    OBVIOUS
  <2>1. x + 1 \in 1 .. Len(rows) /\ (x + 1) - 1 = x /\ x <= Len(rows)
    OBVIOUS
  <2>2. PICK c \in after[x] : a = Extend(c, rows[x + 1], opts)
    BY <1>1, <2>1 DEF NextLogs
  <2>3. PICK e \in after[x] : b = Extend(e, rows[x + 1], opts)
    BY <1>1, <2>1 DEF NextLogs
  <2> QED
    BY <2>1, <2>2, <2>3
<1> HIDE DEF S
<1>4. Len(rows) \in S
  BY <1>2, <1>3, SetInduction
<1> QED
  BY <1>1, <1>4 DEF S

\* Every receipt present is valid where enough are present.
LEMMA Leniently ==
    ASSUME NEW log, NEW m, CanAppend(log, m, Strict)
    PROVE /\ CanAppend(log, m, PartiallyWitnessed)
          /\ Extend(log, m, PartiallyWitnessed) = Extend(log, m, Strict)
<1>1. /\ ~Strict.allowPartiallySigned /\ ~PartiallyWitnessed.allowPartiallySigned
      /\ ~Strict.allowPartiallyWitnessed /\ PartiallyWitnessed.allowPartiallyWitnessed
      /\ Strict.delegator = PartiallyWitnessed.delegator
  BY DEF Strict, PartiallyWitnessed, Options
<1>2. DelegatorFor(log, Strict) = DelegatorFor(log, PartiallyWitnessed)
  BY <1>1 DEF DelegatorFor
<1>3. \A keys, kt, sigs :
         VerifySigning(keys, kt, sigs, Strict) => VerifySigning(keys, kt, sigs, PartiallyWitnessed)
  BY <1>1 DEF VerifySigning
<1>4. \A backers, bt, wigs :
         VerifyWitness(backers, bt, wigs, Strict) => VerifyWitness(backers, bt, wigs, PartiallyWitnessed)
  BY <1>1 DEF VerifyWitness, VerifyThreshold, VerifySignatures
<1>5. CanIncept(log, m, Strict) => CanIncept(log, m, PartiallyWitnessed)
  BY <1>2, <1>3, <1>4 DEF CanIncept
<1>6. CanInteract(log, m, Strict) => CanInteract(log, m, PartiallyWitnessed)
  BY <1>3, <1>4 DEF CanInteract
<1>7. CanRotate(log, m, Strict) => CanRotate(log, m, PartiallyWitnessed)
  BY <1>2, <1>3, <1>4 DEF CanRotate
<1> QED
  BY <1>2, <1>5, <1>6, <1>7 DEF CanAppend, Extend

LEMMA FromLeniently ==
    ASSUME NEW rows, Len(rows) \in Nat, NEW log \in From(rows, Strict)
    PROVE log \in From(rows, PartiallyWitnessed)
<1>1. PICK f :
        /\ From(rows, Strict) = f[Len(rows)]
        /\ f[0] = {EmptyLog}
        /\ \A x \in 1 .. Len(rows) : f[x] = NextLogs(f[x - 1], rows[x], Strict)
  BY FromRecursion
<1>2. PICK g :
        /\ From(rows, PartiallyWitnessed) = g[Len(rows)]
        /\ g[0] = {EmptyLog}
        /\ \A x \in 1 .. Len(rows) : g[x] = NextLogs(g[x - 1], rows[x], PartiallyWitnessed)
  BY FromRecursion
<1> DEFINE S == {x \in Nat : x <= Len(rows) => f[x] \subseteq g[x]}
<1>3. 0 \in S
  BY <1>1, <1>2
<1>4. \A x \in Nat : x \in S => x + 1 \in S
  <2> SUFFICES ASSUME NEW x \in Nat, x \in S, x + 1 <= Len(rows), NEW l \in f[x + 1]
               PROVE l \in g[x + 1]
    OBVIOUS
  <2>1. x + 1 \in 1 .. Len(rows) /\ (x + 1) - 1 = x /\ x <= Len(rows)
    OBVIOUS
  <2>2. PICK k \in f[x] : CanAppend(k, rows[x + 1], Strict) /\ l = Extend(k, rows[x + 1], Strict)
    BY <1>1, <2>1 DEF NextLogs
  <2>3. k \in g[x]
    BY <2>1
  <2>4. CanAppend(k, rows[x + 1], PartiallyWitnessed) /\ l = Extend(k, rows[x + 1], PartiallyWitnessed)
    BY <2>2, Leniently
  <2> QED
    BY <1>2, <2>1, <2>3, <2>4 DEF NextLogs
<1> HIDE DEF S
<1>5. Len(rows) \in S
  BY <1>3, <1>4, SetInduction
<1> QED
  BY <1>1, <1>2, <1>5 DEF S

\* Receipts that pass after any inception and rotations of the controller.
Accepted(wigs, opts) == \A bt \in {0, Toad} : VerifyWitness(Backers, bt, wigs, opts)

LEMMA ValidAccepted ==
    ASSUME NEW wigs, SignaturesValid(Backers, wigs)
    PROVE Accepted(wigs, PartiallyWitnessed)
BY DEF Accepted, VerifyWitness, VerifySignatures, PartiallyWitnessed, Options

\* What a log accepts, it accepts with other receipts that pass, under the rules
\* for these.
LEMMA OtherReceipts ==
    ASSUME NEW rows, NEW log, StateOf(log, rows), NEW l, l.state = log.state, HasState(l) <=> HasState(log),
           NEW m, NEW r, Built(m.body), r.body = m.body, r.sigs = m.sigs,
           NEW o \in {Strict, PartiallyWitnessed}, NEW p \in {Strict, PartiallyWitnessed},
           Accepted(r.wigs, p), CanAppend(log, m, o)
    PROVE CanAppend(l, r, p)
<1>1. ~o.allowPartiallySigned /\ ~p.allowPartiallySigned
  BY DEF Strict, PartiallyWitnessed, Options
<1>2. \A keys, kt : VerifySigning(keys, kt, m.sigs, o) => VerifySigning(keys, kt, r.sigs, p)
  BY <1>1 DEF VerifySigning
<1>3. HasState(log) => log.state.backers = Backers /\ log.state.backerThreshold \in {0, Toad}
  BY DEF StateOf, HasState
<1>4. /\ m.body.t \in {"icp", "ixn", "rot"}
      /\ m.body.t = "icp" => m.body.b = Backers /\ m.body.bt \in {0, Toad}
  BY DEF Built
<1>5. CanIncept(log, m, o) => CanIncept(l, r, p)
  BY <1>2, <1>4 DEF CanIncept, IsInception, Accepted
<1>6. CanInteract(log, m, o) => CanInteract(l, r, p)
  BY <1>2, <1>3 DEF CanInteract, Accepted
<1>7. CanRotate(log, m, o) => CanRotate(l, r, p)
  BY <1>2, <1>3, <1>4 DEF CanRotate, Accepted
<1> QED
  BY <1>5, <1>6, <1>7 DEF CanAppend

\* Rows that load come to the same state with other receipts that pass.
LEMMA Reattached ==
    ASSUME NEW rows, IsSequence(rows), \A row \in Elements(rows) : Built(row.body),
           NEW other, IsSequence(other), Len(other) = Len(rows), NEW opts \in {Strict, PartiallyWitnessed},
           \A x \in 1 .. Len(rows) : /\ other[x].body = rows[x].body /\ other[x].sigs = rows[x].sigs
                                     /\ Accepted(other[x].wigs, opts),
           NEW log \in From(rows, opts)
    PROVE \E k \in From(other, opts) : k.state = log.state
<1>1. /\ Len(rows) \in Nat /\ rows \in Seq(Elements(rows))
      /\ \A x \in 1 .. Len(rows) : rows[x] \in Elements(rows)
  BY DEF IsSequence, Elements
<1>2. PICK f :
        /\ From(rows, opts) = f[Len(rows)]
        /\ f[0] = {EmptyLog}
        /\ \A x \in 1 .. Len(rows) : f[x] = NextLogs(f[x - 1], rows[x], opts)
  BY <1>1, FromRecursion
<1>3. PICK g :
        /\ From(other, opts) = g[Len(rows)]
        /\ g[0] = {EmptyLog}
        /\ \A x \in 1 .. Len(rows) : g[x] = NextLogs(g[x - 1], other[x], opts)
  <2>1. Len(other) \in Nat
    BY <1>1
  <2>2. PICK g :
          /\ From(other, opts) = g[Len(other)]
          /\ g[0] = {EmptyLog}
          /\ \A x \in 1 .. Len(other) : g[x] = NextLogs(g[x - 1], other[x], opts)
    BY <2>1, FromRecursion
  <2> QED
    BY <2>2
<1> DEFINE S == {x \in Nat : x <= Len(rows) =>
                   \A l \in f[x] : /\ StateOf(l, SubSeq(rows, 1, x))
                                   /\ \E k \in g[x] : k.state = l.state /\ k.events = SubSeq(other, 1, x)}
<1>4. 0 \in S
  <2>1. SubSeq(rows, 1, 0) = <<>> /\ SubSeq(other, 1, 0) = <<>> /\ EmptyLog.events = <<>>
    BY SubSeqEmpty DEF EmptyLog
  <2>2. StateOf(EmptyLog, <<>>)
    BY DEF StateOf, EmptyLog
  <2> QED
    BY <1>2, <1>3, <2>1, <2>2
<1>5. \A x \in Nat : x \in S => x + 1 \in S
  <2> SUFFICES ASSUME NEW x \in Nat, x \in S, x + 1 <= Len(rows), NEW l \in f[x + 1]
               PROVE /\ StateOf(l, SubSeq(rows, 1, x + 1))
                     /\ \E k \in g[x + 1] : k.state = l.state /\ k.events = SubSeq(other, 1, x + 1)
    OBVIOUS
  <2>1. x + 1 \in 1 .. Len(rows) /\ (x + 1) - 1 = x /\ x <= Len(rows)
    BY <1>1
  <2>2. PICK m, r : m = rows[x + 1] /\ r = other[x + 1]
    OBVIOUS
  <2>3. PICK a \in f[x] : CanAppend(a, m, opts) /\ l = Extend(a, m, opts)
    BY <1>2, <2>1, <2>2 DEF NextLogs
  <2>4. StateOf(a, SubSeq(rows, 1, x)) /\ \E k \in g[x] : k.state = a.state /\ k.events = SubSeq(other, 1, x)
    BY <2>1
  <2>5. PICK b \in g[x] : b.state = a.state /\ b.events = SubSeq(other, 1, x)
    BY <2>4
  <2>6. /\ SubSeq(rows, 1, x) \in Seq(Elements(rows)) /\ m \in Elements(rows)
        /\ SubSeq(rows, 1, x + 1) = Append(SubSeq(rows, 1, x), m)
    BY <1>1, <2>1, <2>2, Prefixed
  <2>7. Built(m.body) /\ r.body = m.body /\ r.sigs = m.sigs /\ Accepted(r.wigs, opts)
    BY <2>1, <2>2, <2>6
  <2>8. StateOf(l, SubSeq(rows, 1, x + 1))
    BY <2>3, <2>4, <2>6, <2>7, LogStep
  <2>9. /\ SubSeq(other, 1, x) \in Seq(Elements(other))
        /\ SubSeq(other, 1, x + 1) = Append(SubSeq(other, 1, x), r)
    <3>1. other \in Seq(Elements(other)) /\ x + 1 <= Len(other)
      BY <2>1 DEF IsSequence
    <3> QED
      BY <2>2, <3>1, Prefixed
  <2>10. HasState(b) <=> HasState(a)
    <3>1. a.events = SubSeq(rows, 1, x)
      BY <2>4 DEF StateOf
    <3>2. Len(SubSeq(rows, 1, x)) = x /\ Len(SubSeq(other, 1, x)) = x
      <4>1. other \in Seq(Elements(other)) /\ x \in 0 .. Len(rows) /\ x \in 0 .. Len(other)
        BY <2>1 DEF IsSequence
      <4> QED
        BY <1>1, <4>1
    <3>3. SubSeq(rows, 1, x) = <<>> <=> x = 0
      BY <2>6, <3>2, EmptySeq
    <3>4. SubSeq(other, 1, x) = <<>> <=> x = 0
      BY <2>9, <3>2, EmptySeq
    <3> QED
      BY <2>5, <3>1, <3>3, <3>4 DEF HasState
  <2>11. CanAppend(b, r, opts)
    BY <2>3, <2>4, <2>5, <2>7, <2>10, OtherReceipts
  <2>12. Extend(b, r, opts) \in g[x + 1]
    BY <1>3, <2>1, <2>2, <2>11 DEF NextLogs
  <2>13. /\ Extend(b, r, opts).state = l.state
         /\ Extend(b, r, opts).events = SubSeq(other, 1, x + 1)
    BY <2>3, <2>5, <2>7, <2>9 DEF Extend
  <2> QED
    BY <2>8, <2>12, <2>13
<1> HIDE DEF S
<1>6. Len(rows) \in S
  BY <1>1, <1>4, <1>5, SetInduction
<1> QED
  BY <1>1, <1>2, <1>3, <1>6 DEF S

-----------------------------------------------------------------------------
(* Tables of witnesses. *)

\* A table of built events with valid receipts that replays.
Fine(t) ==
    /\ IsTable(t)
    /\ \A row \in Elements(t) : Built(row.body) /\ SignaturesValid(Backers, row.wigs)
    /\ Loads(t, PartiallyWitnessed)

\* saveMessage of a copy of an event that is stored.
LEMMA SavedAgain ==
    ASSUME NEW t, Fine(t), NEW m, IsRow(m), SignaturesValid(Backers, m.wigs),
           Stores(t, m.body.d),
           \A row \in Elements(t) : row.body.d = m.body.d => Copy(row) = Copy(m)
    PROVE /\ Fine(SaveMessage(t, m))
          /\ \A row \in Elements(SaveMessage(t, m)) : \E old \in Elements(t) : Copy(row) = Copy(old)
<1>1. /\ Len(t) \in Nat /\ t \in Seq(Elements(t)) /\ DOMAIN t = 1 .. Len(t)
      /\ \A x \in 1 .. Len(t) : t[x] \in Elements(t)
  BY DEF Fine, IsTable, IsSequence, Elements
<1>2. PICK x \in 1 .. Len(t) : x = RowOf(t, m.body.d) /\ t[x].body.d = m.body.d
  BY <1>1, RowFound
<1>3. t[x].body = m.body /\ t[x].sigs = m.sigs
  <2>1. Copy(t[x]) = Copy(m)
    BY <1>1, <1>2
  <2> QED
    BY <2>1 DEF Copy
<1>4. [m EXCEPT !.body = t[x].body] = m
  BY <1>3 DEF IsRow
<1>5. SaveMessage(t, m) = [t EXCEPT ![x] = m]
  BY <1>2, <1>4 DEF SaveMessage, ReplaceAt
<1> DEFINE S == Elements(t) \cup {m}
           new == [t EXCEPT ![x] = m]
<1>6. t \in Seq(S) /\ m \in S
  BY <1>1
<1> HIDE DEF S
<1>7. /\ new \in Seq(S) /\ Len(new) = Len(t) /\ DOMAIN new = 1 .. Len(t)
      /\ \A y \in 1 .. Len(t) : new[y] = IF y = x THEN m ELSE t[y]
  BY <1>1, <1>2, <1>6, ExceptSeq, LenProperties
<1> HIDE DEF new
<1>8. \A y \in 1 .. Len(t) : new[y] = m \/ new[y] = t[y]
  BY <1>7
<1>9. IsTable(new)
  <2>1. \A row \in Elements(new) : row = m \/ row \in Elements(t)
    BY <1>1, <1>7, <1>8 DEF Elements
  <2>2. \A row \in Elements(t) : IsRow(row)
    BY DEF Fine, IsTable
  <2>3. IsSequence(new)
    BY <1>7, SequenceOfElements
  <2> QED
    BY <2>1, <2>2, <2>3 DEF IsTable
<1>10. \A y \in 1 .. Len(t) : /\ new[y].body = t[y].body /\ new[y].sigs = t[y].sigs
                              /\ SignaturesValid(Backers, new[y].wigs)
                              /\ Built(t[y].body)
  <2> TAKE y \in 1 .. Len(t)
  <2>1. Built(t[y].body) /\ SignaturesValid(Backers, t[y].wigs)
    BY <1>1 DEF Fine
  <2>2. CASE y = x
    BY <1>3, <1>7, <2>1, <2>2
  <2>3. CASE y # x
    BY <1>7, <2>1, <2>3
  <2> QED
    BY <2>2, <2>3
<1>11. Loads(new, PartiallyWitnessed)
  <2>1. IsSequence(t) /\ \A row \in Elements(t) : Built(row.body)
    BY DEF Fine, IsTable
  <2>2. IsSequence(new)
    BY <1>9 DEF IsTable
  <2>3. PICK log : log \in From(t, PartiallyWitnessed)
    BY DEF Fine, Loads
  <2>4. \A y \in 1 .. Len(t) : /\ new[y].body = t[y].body /\ new[y].sigs = t[y].sigs
                               /\ Accepted(new[y].wigs, PartiallyWitnessed)
    BY <1>10, ValidAccepted
  <2> QED
    BY <1>7, <2>1, <2>2, <2>3, <2>4, Reattached DEF Loads
<1>12. Fine(new)
  BY <1>7, <1>9, <1>10, <1>11 DEF Fine, Elements
<1>13. \A row \in Elements(new) : \E old \in Elements(t) : Copy(row) = Copy(old)
  <2>1. \A y \in 1 .. Len(t) : t[y] \in Elements(t) /\ Copy(new[y]) = Copy(t[y])
    BY <1>1, <1>10 DEF Copy
  <2>2. \A row \in Elements(new) : \E y \in 1 .. Len(t) : row = new[y]
    BY <1>7 DEF Elements
  <2> QED
    BY <2>1, <2>2
<1> QED
  BY <1>5, <1>12, <1>13 DEF new

\* saveMessage of an event that extends the table.
LEMMA SavedNext ==
    ASSUME NEW t, Fine(t), NEW m, IsRow(m), Built(m.body), SignaturesValid(Backers, m.wigs),
           ~Stores(t, m.body.d),
           \E log \in From(t, PartiallyWitnessed) : CanAppend(log, m, PartiallyWitnessed),
           \A row \in Elements(t) : row.body.s <= m.body.s
    PROVE /\ Fine(SaveMessage(t, m))
          /\ \A row \in Elements(SaveMessage(t, m)) : row = m \/ row \in Elements(t)
<1> DEFINE S == Elements(t) \cup {m}
<1>1. t \in Seq(S) /\ m \in S /\ \A x \in DOMAIN t : t[x] \in Elements(t)
  BY DEF Fine, IsTable, IsSequence, Elements
<1> HIDE DEF S
<1>2. SaveMessage(t, m) = Append(t, m)
  BY <1>1, SavedLast
<1>3. Elements(SaveMessage(t, m)) = Elements(t) \cup {m}
  BY <1>1, SavedInsert
<1>4. IsTable(SaveMessage(t, m))
  BY TableSaved DEF Fine
<1>5. Loads(SaveMessage(t, m), PartiallyWitnessed)
  <2>1. From(Append(t, m), PartiallyWitnessed) = NextLogs(From(t, PartiallyWitnessed), m, PartiallyWitnessed)
    BY <1>1, FromAppended
  <2>2. PICK log \in From(t, PartiallyWitnessed) : CanAppend(log, m, PartiallyWitnessed)
    OBVIOUS
  <2>3. Extend(log, m, PartiallyWitnessed) \in NextLogs(From(t, PartiallyWitnessed), m, PartiallyWitnessed)
    BY <2>2 DEF NextLogs
  <2> QED
    BY <1>2, <2>1, <2>3 DEF Loads
<1>6. \A row \in Elements(SaveMessage(t, m)) : Built(row.body) /\ SignaturesValid(Backers, row.wigs)
  BY <1>3 DEF Fine
<1> QED
  BY <1>3, <1>4, <1>5, <1>6 DEF Fine

-----------------------------------------------------------------------------
(* What witnesses store and calls are about, step by step. *)

\* Rows of events that are known, and that replay.
Holding(t) == Fine(t) /\ \A row \in Elements(t) : Copy(row) \in Known

\* The calls that are under way are so still, with their events.
EventsStay ==
    \A c \in Sessions : Active(c)' => Active(c) /\ call'[c].event = call[c].event

LEMMA IsKnown ==
    /\ \A k : k \in Known <=> \/ \E w \in Witnesses : \E row \in Elements(stored[w]) : k = Copy(row)
                              \/ \E c \in Sessions : Active(c) /\ k = Copy(call[c].event)
    /\ \A k : k \in Known' <=> \/ \E w \in Witnesses : \E row \in Elements(stored'[w]) : k = Copy(row)
                               \/ \E c \in Sessions : Active(c)' /\ k = Copy(call'[c].event)
<1>1. \A k : k \in HeldCopies <=> \E w \in Witnesses : \E row \in Elements(stored[w]) : k = Copy(row)
  BY DEF HeldCopies
<1>2. \A k : k \in HeldCopies' <=> \E w \in Witnesses : \E row \in Elements(stored'[w]) : k = Copy(row)
  BY DEF HeldCopies
<1>3. \A k : k \in CalledCopies <=> \E c \in Sessions : Active(c) /\ k = Copy(call[c].event)
  BY DEF CalledCopies
<1>4. \A k : k \in CalledCopies' <=> \E c \in Sessions : Active(c)' /\ k = Copy(call'[c].event)
  BY DEF CalledCopies
<1> QED
  BY <1>1, <1>2, <1>3, <1>4 DEF Known

\* What the invariant says of the table of a witness.
LEMMA TablesHold ==
    ASSUME IInv, KnownBuilt, RowsReplay, NEW w \in Witnesses
    PROVE Holding(stored[w])
<1>1. IsTable(stored[w]) /\ Loads(stored[w], PartiallyWitnessed)
  BY DEF IInv, Typed, RowsReplay
<1>2. \A row \in Elements(stored[w]) : Copy(row) \in Known
  BY IsKnown
<1>3. \A row \in Elements(stored[w]) : Built(row.body) /\ SignaturesValid(Backers, row.wigs)
  <2> TAKE row \in Elements(stored[w])
  <2>1. BuiltFrom(Copy(row))
    BY <1>2 DEF KnownBuilt
  <2>2. Built(row.body)
    BY <2>1 DEF BuiltFrom, Copy
  <2> QED
    BY <2>2 DEF RowsReplay
<1> QED
  BY <1>1, <1>2, <1>3 DEF Holding, Fine

\* Without an overlap nobody waits while another call is under way, and without
\* a wait no witness has anything to sign.
LEMMA NobodySigns ==
    ASSUME IInv, RequestsFit, overlaps = 0, NEW c \in Sessions, Active(c), call[c].pc # "waiting"
    PROVE \A w \in Witnesses : signing[w] = {}
<1>1. \A e \in Sessions : call[e].pc # "waiting"
  BY DEF IInv, Overlapping, Active
<1> QED
  BY <1>1 DEF RequestsFit

\* Nothing known is ahead of the controller.
LEMMA KnownInReach ==
    ASSUME IInv, SInv, RowsReplay, overlaps = 0
    PROVE \A k \in Known : k.body.s <= NextSn
<1> SUFFICES ASSUME NEW k \in Known PROVE k.body.s <= NextSn
  OBVIOUS
<1>1. CASE \E w \in Witnesses : \E row \in Elements(stored[w]) : k = Copy(row)
  BY <1>1 DEF RowsReplay, Copy
<1>2. CASE \E c \in Sessions : Active(c) /\ k = Copy(call[c].event)
  <2>1. PICK c \in Sessions : Active(c) /\ k = Copy(call[c].event)
    BY <1>2
  <2>2. PICK sn : sn = call[c].event.body.s
    OBVIOUS
  <2>3. sn \in Nat
    BY <2>1, <2>2 DEF IInv, Typed, CallTyped, Built
  <2>4. AtMostOneOverlap
    BY DEF AtMostOneOverlap
  <2>5. sn = NextSn
    BY <2>1, <2>2, <2>4 DEF SInv, InLine
  <2>6. k.body.s = sn
    BY <2>1, <2>2 DEF Copy
  <2> QED
    BY <2>3, <2>5, <2>6
<1> QED
  BY <1>1, <1>2, IsKnown

\* A step of the witnesses and of the calls that are under way.
LEMMA WitnessStep ==
    ASSUME IInv, SInv, CInv, overlaps = 0, store' = store, EventsStay, RequestsFit',
           \A w \in Witnesses : Holding(stored'[w])
    PROVE CInv'
<1>1. NextSn' = NextSn
  BY DEF NextSn
<1>2. \A k : k \in Known' => k \in Known
  <2> SUFFICES ASSUME NEW k \in Known' PROVE k \in Known
    OBVIOUS
  <2>1. CASE \E w \in Witnesses : \E row \in Elements(stored'[w]) : k = Copy(row)
    BY <2>1 DEF Holding
  <2>2. CASE \E c \in Sessions : Active(c)' /\ k = Copy(call'[c].event)
    BY <2>2, IsKnown DEF EventsStay
  <2> QED
    BY <2>1, <2>2, IsKnown
<1>3. KnownBuilt'
  <2>1. \A k : BuiltFrom(k)' <=> BuiltFrom(k)
    BY DEF BuiltFrom
  <2> QED
    BY <1>2, <2>1 DEF KnownBuilt, CInv
<1>4. OneCopy'
  BY <1>2 DEF OneCopy, CInv
<1>5. RowsReplay'
  <2> SUFFICES ASSUME NEW w \in Witnesses
               PROVE /\ Loads(stored'[w], PartiallyWitnessed)
                     /\ \A row \in Elements(stored'[w]) :
                           row.body.s <= NextSn /\ SignaturesValid(Backers, row.wigs)
    BY <1>1 DEF RowsReplay
  <2>1. Holding(stored'[w])
    OBVIOUS
  <2>2. \A row \in Elements(stored'[w]) : Copy(row).body.s <= NextSn
    BY <2>1, KnownInReach DEF Holding, CInv
  <2> QED
    BY <2>1, <2>2 DEF Holding, Fine, Copy
<1> QED
  BY <1>3, <1>4, <1>5 DEF CInv

\* saveMessage of an event that is known and fits.
LEMMA SavedKnown ==
    ASSUME OneCopy, NEW t, Holding(t), NEW m, IsRow(m), Built(m.body), Copy(m) \in Known,
           SignaturesValid(Backers, m.wigs),
           ~Stores(t, m.body.d) =>
               /\ \E log \in From(t, PartiallyWitnessed) : CanAppend(log, m, PartiallyWitnessed)
               /\ \A row \in Elements(t) : row.body.s <= m.body.s
    PROVE Holding(SaveMessage(t, m))
<1>1. Fine(t) /\ \A row \in Elements(t) : Copy(row) \in Known
  BY DEF Holding
<1>2. CASE Stores(t, m.body.d)
  <2>1. \A row \in Elements(t) : row.body.d = m.body.d => Copy(row) = Copy(m)
    <3> SUFFICES ASSUME NEW row \in Elements(t), row.body.d = m.body.d PROVE Copy(row) = Copy(m)
      OBVIOUS
    <3>1. Copy(row).body.d = Copy(m).body.d
      BY DEF Copy
    <3> QED
      BY <1>1, <3>1 DEF OneCopy
  <2>2. /\ Fine(SaveMessage(t, m))
        /\ \A row \in Elements(SaveMessage(t, m)) : \E old \in Elements(t) : Copy(row) = Copy(old)
    BY <1>1, <1>2, <2>1, SavedAgain
  <2> QED
    BY <1>1, <2>2 DEF Holding
<1>3. CASE ~Stores(t, m.body.d)
  <2>1. /\ Fine(SaveMessage(t, m))
        /\ \A row \in Elements(SaveMessage(t, m)) : row = m \/ row \in Elements(t)
    BY <1>1, <1>3, SavedNext
  <2> QED
    BY <1>1, <2>1 DEF Holding
<1> QED
  BY <1>2, <1>3

\* A step of a call that is not waiting, in which no witness begins to sign.
LEMMA RequestsStay ==
    ASSUME IInv, CInv, overlaps = 0, NEW c \in Sessions, Active(c), call[c].pc # "waiting", signing' = signing
    PROVE RequestsFit'
<1>1. \A w \in Witnesses : signing[w] = {}
  BY NobodySigns DEF CInv
<1> QED
  BY <1>1 DEF RequestsFit

\* A step of a call at which no witness does anything.
LEMMA SilentStep ==
    ASSUME IInv, SInv, CInv, overlaps = 0, NEW c \in Sessions, Active(c), call[c].pc # "waiting",
           UNCHANGED <<store, stored, signing>>, EventsStay
    PROVE CInv'
<1>1. \A w \in Witnesses : Holding(stored'[w])
  BY TablesHold DEF CInv
<1>2. RequestsFit'
  BY RequestsStay
<1> QED
  BY <1>1, <1>2, WitnessStep

\* The receipt of another witness, joined to a row, leaves a table that replays.
LEMMA JoinedHolds ==
    ASSUME IInv, CInv, NEW w, NEW d, NEW other, HandleReceipt(w, d, other)
    PROVE \A v \in Witnesses : Holding(stored'[v])
<1>1. \A v \in Witnesses : Holding(stored[v])
  BY TablesHold DEF CInv
<1>2. CASE stored' = stored
  BY <1>1, <1>2
<1>3. CASE ~(stored' = stored)
  <2> DEFINE row == stored[w][RowOf(stored[w], d)]
  <2>1. PICK kel \in From(stored[w], PartiallyWitnessed) :
          /\ Includes(kel, d)
          /\ stored' = [stored EXCEPT ![w] = SaveMessage(@,
                [row EXCEPT !.wigs = MergedWigs(kel.state.backers, row.wigs, other), !.hints = {}])]
    BY <1>3 DEF HandleReceipt
  <2>2. DOMAIN stored = Witnesses
    BY DEF IInv, Typed
  <2> SUFFICES ASSUME w \in Witnesses PROVE \A v \in Witnesses : Holding(stored'[v])
    <3>1. w \notin Witnesses => \A v \in Witnesses : stored'[v] = stored[v]
      BY <2>1, <2>2
    <3> QED
      BY <1>1, <3>1
  <2>3. w \in Witnesses
    OBVIOUS
  <2>4. PICK t : t = stored[w]
    OBVIOUS
  <2>5. /\ Holding(t) /\ IsTable(t) /\ t \in Seq(Elements(t))
        /\ \A r \in Elements(t) : Built(r.body) /\ SignaturesValid(Backers, r.wigs) /\ IsRow(r)
    BY <1>1, <2>3, <2>4 DEF Holding, Fine, IsTable, IsSequence
  <2>6. kel.events = t
    BY <2>1, <2>4, <2>5, FromEvents
  <2>7. Stores(t, d)
    BY <2>1, <2>6 DEF Includes
  <2>8. /\ RowOf(t, d) \in DOMAIN t /\ t[RowOf(t, d)].body.d = d
    BY <2>5, <2>7, RowFound
  <2>9. PICK r : r = t[RowOf(t, d)] /\ r \in Elements(t) /\ r.body.d = d
    BY <2>8 DEF Elements
  <2>10. PICK wigs : wigs = MergedWigs(kel.state.backers, r.wigs, other)
    OBVIOUS
  <2>11. PICK m : m = [r EXCEPT !.wigs = wigs, !.hints = {}]
    OBVIOUS
  <2>12. stored' = [stored EXCEPT ![w] = SaveMessage(t, m)]
    BY <2>1, <2>4, <2>9, <2>10, <2>11
  <2>13. IsRow(m) /\ m.body = r.body /\ m.sigs = r.sigs /\ m.wigs = wigs
    BY <2>5, <2>9, <2>11, RowJoined DEF IsRow
  <2>14. kel.state.backers = Backers
    <3>1. StateOf(kel, t)
      BY <2>1, <2>4, <2>5, Replayed DEF IsTable
    <3>2. t # <<>>
      BY <2>8
    <3> QED
      BY <3>1, <3>2 DEF StateOf
  <2>15. SignaturesValid(Backers, wigs)
    <3>1. SignaturesValid(Backers, r.wigs)
      BY <2>5, <2>9
    <3>2. CASE other \notin Elements(Backers)
      BY <2>10, <2>14, <3>1, <3>2 DEF MergedWigs
    <3>3. CASE other \in Elements(Backers)
      <4>1. PICK index : index = BackerIndex(Backers, other)
        OBVIOUS
      <4>2. wigs = [x \in DOMAIN r.wigs \cup {index} |-> IF x = index THEN other ELSE r.wigs[x]]
        BY <2>10, <2>14, <3>3, <4>1 DEF MergedWigs
      <4>3. index \in DOMAIN Backers /\ Backers[index] = other
        BY <3>3, <4>1, BackerFound, KawaAssumption
      <4> QED
        BY <3>1, <4>2, <4>3 DEF SignaturesValid, SignedIndices
    <3> QED
      BY <3>2, <3>3
  <2>16. Copy(m) = Copy(r) /\ Copy(m) \in Known /\ Built(m.body) /\ Stores(t, m.body.d)
    BY <2>5, <2>7, <2>9, <2>13 DEF Copy, Holding
  <2>17. Holding(SaveMessage(t, m))
    BY <2>5, <2>13, <2>15, <2>16, SavedKnown DEF CInv
  <2>18. \A v \in Witnesses : stored'[v] = IF v = w THEN SaveMessage(t, m) ELSE stored[v]
    BY <2>2, <2>12
  <2> QED
    BY <1>1, <2>17, <2>18
<1> QED
  BY <1>2, <1>3

-----------------------------------------------------------------------------
(* The steps of a call that no other overlaps. *)

\* What a call that goes on, or ends, does to the calls under way.
LEMMA EventStays ==
    ASSUME IInv, NEW c \in Sessions, Active(c), DOMAIN call' = Sessions,
           \A e \in Sessions : e # c => call'[e] = call[e],
           call'[c].pc = "idle" \/ call'[c].event = call[c].event
    PROVE EventsStay
BY DEF EventsStay, Active

\* A call that is under way has the fields of one.
LEMMA UnderWay ==
    ASSUME IInv, NEW c \in Sessions, call[c].pc # "idle"
    PROVE Active(c) /\ CallTyped(c) /\ DOMAIN call = Sessions /\ DOMAIN call[c] = CallFields
BY DEF Active, IInv, Typed, CallTyped

LEMMA StepEvents ==
    ASSUME IInv, NEW c \in Sessions, call[c].pc # "idle", NEW pc, Step(c, pc)
    PROVE EventsStay
<1>1. Active(c) /\ DOMAIN call = Sessions /\ DOMAIN call[c] = CallFields
  BY UnderWay
<1>2. /\ DOMAIN call' = Sessions /\ \A e \in Sessions : e # c => call'[e] = call[e]
      /\ call'[c] = [call[c] EXCEPT !.pc = pc, !.todo = Tail(call[c].todo)]
  BY <1>1 DEF Step
<1>3. call'[c].event = call[c].event
  BY <1>1, <1>2 DEF CallFields
<1> QED
  BY <1>1, <1>2, <1>3, EventStays

LEMMA EndEvents ==
    ASSUME IInv, NEW c \in Sessions, call[c].pc # "idle", NEW r, r.pc = "idle", call' = [call EXCEPT ![c] = r]
    PROVE EventsStay
<1>1. Active(c) /\ DOMAIN call = Sessions
  BY UnderWay
<1>2. DOMAIN call' = Sessions /\ call'[c].pc = "idle" /\ \A e \in Sessions : e # c => call'[e] = call[e]
  BY <1>1
<1> QED
  BY <1>1, <1>2, EventStays

LEMMA FailEvents ==
    ASSUME IInv, NEW c \in Sessions, call[c].pc # "idle", Fail(c)
    PROVE EventsStay
<1>1. PICK r : r.pc = "idle" /\ call' = [call EXCEPT ![c] = r]
  BY DEF Fail
<1> QED
  BY <1>1, EndEvents

LEMMA SilentSteps ==
    ASSUME IInv, SInv, CInv, overlaps = 0, NEW c \in Sessions,
           NoReceipt(c) \/ RequestFails(c) \/ Disagree(c) \/ Agree(c) \/ DeliveryRefused(c) \/ Rejected(c)
    PROVE CInv'
<1>1. call[c].pc \in {"receipts", "distribution"} /\ UNCHANGED <<store, stored, signing>>
  BY DEF NoReceipt, RequestFails, Disagree, Agree, DeliveryRefused, Rejected
<1>2. call[c].pc # "idle" /\ call[c].pc # "waiting"
  BY <1>1
<1>3. Active(c) /\ DOMAIN call = Sessions /\ DOMAIN call[c] = CallFields
  BY <1>2, UnderWay
<1>4. EventsStay
  <2>1. CASE NoReceipt(c) \/ RequestFails(c)
    <3>1. PICK pc : Step(c, pc)
      BY <2>1 DEF NoReceipt, RequestFails
    <3> QED
      BY <1>2, <3>1, StepEvents
  <2>2. CASE Disagree(c) \/ DeliveryRefused(c) \/ Rejected(c)
    <3>1. Fail(c)
      BY <2>2 DEF Disagree, DeliveryRefused, Rejected
    <3> QED
      BY <1>2, <3>1, FailEvents
  <2>3. CASE Agree(c)
    <3>1. PICK todo : call' = [call EXCEPT ![c].pc = "distribution", ![c].todo = todo]
      BY <2>3 DEF Agree
    <3>2. /\ DOMAIN call' = Sessions /\ \A e \in Sessions : e # c => call'[e] = call[e]
          /\ call'[c] = [call[c] EXCEPT !.pc = "distribution", !.todo = todo]
      BY <1>3, <3>1
    <3>3. call'[c].event = call[c].event
      BY <1>3, <3>2 DEF CallFields
    <3> QED
      BY <1>3, <3>2, <3>3, EventStays
  <2> QED
    BY <2>1, <2>2, <2>3
<1> QED
  BY <1>1, <1>2, <1>3, <1>4, SilentStep

LEMMA DeliverySteps ==
    ASSUME IInv, SInv, CInv, overlaps = 0, NEW c \in Sessions, Deliver(c) \/ DeliveryFails(c)
    PROVE CInv'
<1>1. /\ call[c].pc = "distribution" /\ store' = store
      /\ Distribute(c) \/ UNCHANGED <<stored, signing>>
      /\ Step(c, "distribution") \/ Fail(c)
  BY DEF Deliver, DeliveryFails
<1>2. call[c].pc # "idle" /\ call[c].pc # "waiting"
  BY <1>1
<1>3. Active(c)
  BY <1>2, UnderWay
<1>4. EventsStay
  BY <1>1, <1>2, StepEvents, FailEvents
<1>5. CASE UNCHANGED <<stored, signing>>
  BY <1>1, <1>2, <1>3, <1>4, <1>5, SilentStep
<1>6. CASE Distribute(c)
  <2>1. PICK w, d, other : HandleReceipt(w, d, other)
    BY <1>6 DEF Distribute
  <2>2. \A v \in Witnesses : Holding(stored'[v])
    BY <2>1, JoinedHolds
  <2>3. signing' = signing
    BY <2>1 DEF HandleReceipt
  <2>4. RequestsFit'
    BY <1>2, <1>3, <2>3, RequestsStay
  <2> QED
    BY <1>1, <1>4, <2>2, <2>4, WitnessStep
<1> QED
  BY <1>1, <1>5, <1>6

LEMMA OwnValid == \A w \in Witnesses : SignaturesValid(Backers, Own(w))
BY BackerFound, KawaAssumption DEF Own, SignaturesValid, SignedIndices

\* A row that a witness signs, with the log it was checked against.
LEMMA RowSigned ==
    ASSUME IInv, CInv, NEW w \in Witnesses, NEW m, IsRow(m), Built(m.body), NEW id, BeginReceipt(w, m, id)
    PROVE \E row :
            /\ signing' = [signing EXCEPT ![w] = @ \cup {[id |-> id, row |-> row]}]
            /\ row.sigs = m.sigs
            /\ row.wigs = Own(w)
            /\ \E log \in From(stored[w], PartiallyWitnessed) : CanAppend(log, row, PartiallyWitnessed)
<1>1. PICK t : t = stored[w]
  OBVIOUS
<1>2. Holding(t) /\ IsSequence(t) /\ Len(t) \in Nat /\ \A r \in Elements(t) : Built(r.body)
  BY <1>1, TablesHold DEF CInv, Holding, Fine, IsTable, IsSequence
<1>3. PICK kel \in From(t, Strict) :
        /\ CanAppend(kel, m, PartiallyWitnessed)
        /\ w \in Elements(Extend(kel, m, PartiallyWitnessed).state.backers)
  BY <1>1 DEF BeginReceipt, Receiptable
<1>4. PICK k \in From(t, Strict) :
        LET backers == Extend(k, m, PartiallyWitnessed).state.backers
            row     == [body |-> m.body, sigs |-> m.sigs, hints |-> {},
                        wigs |-> [x \in {BackerIndex(backers, w)} |-> w]]
        IN  signing' = [signing EXCEPT ![w] = @ \cup {[id |-> id, row |-> row]}]
  BY <1>1 DEF BeginReceipt
<1>5. k = kel
  BY <1>2, FromSingle
<1>6. StateOf(kel, t)
  BY <1>2, <1>3, Replayed
<1>7. Extend(kel, m, PartiallyWitnessed).state.backers = Backers
  <2> DEFINE S == Elements(t) \cup {m}
  <2>1. t \in Seq(S) /\ m \in S
    BY <1>2 DEF IsSequence
  <2> HIDE DEF S
  <2>2. StateOf(Extend(kel, m, PartiallyWitnessed), Append(t, m))
    BY <1>3, <1>6, <2>1, LogStep
  <2>3. Append(t, m) # <<>>
    BY <2>1, AppendProperties
  <2> QED
    BY <2>2, <2>3 DEF StateOf
<1>8. PICK index : index = BackerIndex(Backers, w) /\ index \in DOMAIN Backers /\ Backers[index] = w
  BY BackerFound, KawaAssumption
<1>9. PICK row : row = [body |-> m.body, sigs |-> m.sigs, hints |-> {}, wigs |-> [x \in {index} |-> w]]
  OBVIOUS
<1>10. signing' = [signing EXCEPT ![w] = @ \cup {[id |-> id, row |-> row]}]
  BY <1>4, <1>5, <1>7, <1>8, <1>9
<1>11. row.sigs = m.sigs /\ row.body = m.body /\ row.wigs = [x \in {index} |-> w]
  BY <1>9
<1>12. row.wigs = Own(w) /\ SignaturesValid(Backers, row.wigs)
  BY <1>8, <1>11, OwnValid DEF Own
<1>13. kel \in From(t, PartiallyWitnessed)
  BY <1>2, FromLeniently
<1>14. CanAppend(kel, row, PartiallyWitnessed)
  BY <1>3, <1>6, <1>11, <1>12, ValidAccepted, OtherReceipts
<1> QED
  BY <1>1, <1>10, <1>11, <1>12, <1>13, <1>14

LEMMA RequestReceiptCalm ==
    ASSUME IInv, SInv, CInv, overlaps = 0, NEW c \in Sessions, RequestReceipt(c)
    PROVE CInv'
<1> DEFINE w == Head(call[c].todo)
           m == call[c].event
<1>1. /\ call[c].pc = "receipts" /\ call[c].todo # <<>> /\ stored' = stored /\ store' = store
      /\ BeginReceipt(w, m, call[c].id)
      /\ call' = [call EXCEPT ![c].pc = "waiting"]
  BY DEF RequestReceipt, BeginReceipt
<1>2. w \in Witnesses /\ Active(c) /\ CallTyped(c)
  BY <1>1, Asked
<1>3. DOMAIN call = Sessions /\ DOMAIN call[c] = CallFields
  BY <1>1, UnderWay
<1>4. /\ DOMAIN call' = Sessions /\ \A e \in Sessions : e # c => call'[e] = call[e]
      /\ call'[c].pc = "waiting" /\ call'[c].id = call[c].id
      /\ call'[c].todo = call[c].todo /\ call'[c].event = call[c].event
  BY <1>1, <1>3 DEF CallFields
<1> HIDE DEF w
<1>5. EventsStay
  BY <1>2, <1>4, EventStays
<1>6. \A v \in Witnesses : Holding(stored'[v])
  BY <1>1, TablesHold DEF CInv
<1>7. RequestsFit'
  <2>1. IsRow(m) /\ Built(m.body)
    BY <1>2 DEF CallTyped
  <2>2. PICK row :
          /\ signing' = [signing EXCEPT ![w] = @ \cup {[id |-> call[c].id, row |-> row]}]
          /\ row.sigs = m.sigs
          /\ row.wigs = Own(w)
          /\ \E log \in From(stored[w], PartiallyWitnessed) : CanAppend(log, row, PartiallyWitnessed)
    BY <1>1, <1>2, <2>1, RowSigned
  <2>3. DOMAIN signing = Witnesses /\ \A v \in Witnesses : signing[v] = {}
    <3>1. call[c].pc # "waiting"
      BY <1>1
    <3> QED
      BY <1>2, <3>1, NobodySigns DEF CInv, IInv, Typed
  <2>4. \A v \in Witnesses : \A request \in signing'[v] :
           v = w /\ request = [id |-> call[c].id, row |-> row]
    BY <2>2, <2>3
  <2> SUFFICES ASSUME NEW v \in Witnesses, NEW request \in signing'[v]
               PROVE /\ \A other \in signing'[v] : other = request
                     /\ \E e \in Sessions : /\ call'[e].pc = "waiting" /\ call'[e].id = request.id
                                            /\ Head(call'[e].todo) = v
                                            /\ request.row.sigs = call'[e].event.sigs
                     /\ request.row.wigs = Own(v)
                     /\ \E log \in From(stored'[v], PartiallyWitnessed) :
                           CanAppend(log, request.row, PartiallyWitnessed)
    BY DEF RequestsFit
  <2>5. v = w /\ request.id = call[c].id /\ request.row = row /\ \A other \in signing'[v] : other = request
    BY <2>4
  <2>6. Head(call'[c].todo) = w
    BY <1>4 DEF w
  <2> QED
    BY <1>1, <1>4, <2>2, <2>5, <2>6
<1> QED
  BY <1>1, <1>5, <1>6, <1>7, WitnessStep

LEMMA ReceiptCalm ==
    ASSUME IInv, SInv, CInv, overlaps = 0, NEW c \in Sessions, Receipt(c)
    PROVE CInv'
<1> DEFINE w == Head(call[c].todo)
<1>1. call[c].pc = "waiting" /\ store' = store
  BY DEF Receipt
<1>2. Active(c) /\ CallTyped(c) /\ DOMAIN call = Sessions /\ DOMAIN call[c] = CallFields
  BY <1>1, UnderWay
<1>3. w \in Witnesses
  BY <1>1, <1>2, Asked DEF CallTyped
<1>4. PICK request \in signing[w] : request.id = call[c].id /\ FinishReceipt(w, request)
  BY DEF Receipt
<1>5. call' = [call EXCEPT ![c].pc = "receipts", ![c].todo = Tail(@), ![c].receipts = WithReceipt(@, w)]
  BY DEF Receipt
<1>6. EventsStay
  <2>1. PICK todo, receipts : call' = [call EXCEPT ![c].pc = "receipts", ![c].todo = todo, ![c].receipts = receipts]
    BY <1>2, <1>5 DEF CallFields
  <2>2. /\ DOMAIN call' = Sessions /\ \A e \in Sessions : e # c => call'[e] = call[e]
        /\ call'[c] = [call[c] EXCEPT !.pc = "receipts", !.todo = todo, !.receipts = receipts]
    BY <1>2, <2>1
  <2>3. call'[c].event = call[c].event
    BY <1>2, <2>2 DEF CallFields
  <2> QED
    BY <1>2, <2>2, <2>3, EventStays
<1>7. \A e \in Sessions : call[e].pc = "waiting" => e = c
  BY <1>2 DEF IInv, Overlapping, Active
<1>8. \A v \in Witnesses : v # w => signing[v] = {}
  BY <1>7 DEF CInv, RequestsFit
<1> HIDE DEF w
<1>9. PICK m : m = request.row
  OBVIOUS
<1>10. /\ \A other \in signing[w] : other = request
       /\ m.sigs = call[c].event.sigs /\ SignaturesValid(Backers, m.wigs)
       /\ \E log \in From(stored[w], PartiallyWitnessed) : CanAppend(log, m, PartiallyWitnessed)
  BY <1>3, <1>4, <1>7, <1>9, OwnValid DEF CInv, RequestsFit
<1>11. IsRow(m) /\ m.body = call[c].event.body /\ Built(m.body)
  BY <1>2, <1>3, <1>4, <1>9 DEF IInv, Typed, RequestsFounded, CallTyped
<1>12. /\ DOMAIN stored = Witnesses /\ DOMAIN signing = Witnesses
       /\ signing' = [signing EXCEPT ![w] = @ \ {request}]
       /\ stored' = [stored EXCEPT ![w] = SaveMessage(stored[w], m)]
  BY <1>4, <1>9 DEF FinishReceipt, IInv, Typed
<1>13. Copy(m) \in Known
  <2>1. Copy(m) = Copy(call[c].event)
    BY <1>10, <1>11 DEF Copy
  <2> QED
    BY <1>2, <2>1, IsKnown
<1>14. \A row \in Elements(stored[w]) : row.body.s <= m.body.s
  <2>1. AtMostOneOverlap
    BY DEF AtMostOneOverlap
  <2>2. m.body.s = NextSn
    BY <1>2, <1>11, <2>1 DEF SInv, InLine
  <2> QED
    BY <1>3, <2>2 DEF CInv, RowsReplay
<1>15. \A v \in Witnesses : Holding(stored[v])
  BY TablesHold DEF CInv
<1>16. Holding(SaveMessage(stored[w], m))
  BY <1>3, <1>10, <1>11, <1>13, <1>14, <1>15, SavedKnown DEF CInv
<1>17. \A v \in Witnesses : Holding(stored'[v])
  <2>1. \A v \in Witnesses : stored'[v] = IF v = w THEN SaveMessage(stored[w], m) ELSE stored[v]
    BY <1>12
  <2> QED
    BY <1>15, <1>16, <2>1
<1>18. RequestsFit'
  <2>1. \A v \in Witnesses : signing'[v] = {}
    BY <1>8, <1>10, <1>12
  <2> QED
    BY <2>1 DEF RequestsFit
<1> QED
  BY <1>1, <1>6, <1>17, <1>18, WitnessStep

\* A step after which nothing more is known, and the controller has not gone back.
LEMMA FinishCalm ==
    ASSUME IInv, SInv, CInv, overlaps = 0, NEW c \in Sessions, Finish(c)
    PROVE CInv'
<1>1. PICK m : m = Witnessed(c)
  OBVIOUS
<1>2. /\ call[c].pc = "distribution" /\ UNCHANGED <<stored, signing>>
      /\ store' = IF Stores(store, m.body.d) THEN store ELSE SaveMessage(store, m)
  BY <1>1 DEF Finish
<1>3. call[c].pc # "idle" /\ call[c].pc # "waiting" /\ Active(c) /\ CallTyped(c)
  BY <1>2, UnderWay
<1>4. PICK r : r.pc = "idle" /\ call' = [call EXCEPT ![c] = r]
  BY DEF Finish
<1>5. EventsStay
  BY <1>3, <1>4, EndEvents
<1>6. CASE Stores(store, m.body.d)
  BY <1>2, <1>3, <1>5, <1>6, SilentStep
<1>7. CASE ~Stores(store, m.body.d)
  <2>1. IsRow(m) /\ m.body = call[c].event.body /\ Built(m.body)
    BY <1>1, <1>3, WitnessedRow DEF CallTyped
  <2>2. AtMostOneOverlap /\ Sorted /\ InLine
    BY DEF SInv, AtMostOneOverlap
  <2>3. /\ store' = Append(store, m) /\ m.body.s \in Nat /\ NextSn \in Nat
        /\ m.body.s = NextSn \/ (overlaps >= 1 /\ m.body.s + 1 = NextSn)
    BY <1>2, <1>3, <1>7, <2>1, <2>2, RowAdded
  <2> DEFINE S == Elements(store) \cup {m}
  <2>4. IsSequence(store) /\ \A row \in Elements(store) : Built(row.body)
    BY DEF IInv, Typed, IsTable
  <2>5. store \in Seq(S) /\ m \in S
    BY <2>4 DEF IsSequence
  <2> HIDE DEF S
  <2>6. PICK new : new = Append(store, m)
    OBVIOUS
  <2>7. /\ new \in Seq(S) /\ Len(new) = Len(store) + 1 /\ new # <<>>
         /\ new[Len(new)] = m /\ Len(store) \in Nat
         /\ \A x \in 1 .. Len(store) : new[x] = store[x]
    BY <2>5, <2>6, AppendProperties, LenProperties
  <2>8. DOMAIN new = 1 .. Len(store) + 1 /\ IsSequence(new)
    BY <2>7, LenProperties, SequenceOfElements
  <2>9. /\ IsSequence(store') /\ store' \in Seq(S) /\ Len(store') = Len(store) + 1
        /\ store'[Len(store')] = m /\ DOMAIN store' = 1 .. Len(store) + 1 /\ Len(store) \in Nat
        /\ \A x \in 1 .. Len(store) : store'[x] = store[x]
    BY <2>3, <2>6, <2>7, <2>8
  <2>10. store' # <<>>
    BY <2>3, <2>6, <2>7
  <2>11. NextSn' = NextSn + 1
    BY <2>3, <2>9, <2>10 DEF NextSn
  <2>12. \A log \in From(store', Strict) : log.state.lastEvent.d = m.body.d
    <3>1. \A row \in Elements(store') : Built(row.body)
      <4>1. \A x \in 1 .. Len(store) : store[x] \in Elements(store)
        BY <2>5 DEF Elements
      <4>2. \A x \in 1 .. Len(store) + 1 : x \in 1 .. Len(store) \/ x = Len(store')
        BY <2>9
      <4> QED
        BY <2>1, <2>4, <2>9, <4>1, <4>2 DEF Elements
    <3>2. ASSUME NEW log \in From(store', Strict) PROVE log.state.lastEvent.d = m.body.d
      <4>1. StateOf(log, store')
        BY <2>9, <3>1, Replayed
      <4> QED
        BY <2>9, <2>10, <4>1 DEF StateOf
    <3> QED
      BY <3>2
  <2>13. \A d : Stores(store, d) => Stores(store', d)
    <3>1. \A x \in 1 .. Len(store) : x \in DOMAIN store'
      BY <2>9
    <3>2. DOMAIN store = 1 .. Len(store)
      BY <2>5
    <3> QED
      BY <2>9, <3>1, <3>2 DEF Stores, Elements
  <2>14. \A k : k \in Known' => k \in Known
    BY <1>2, <1>5, IsKnown DEF EventsStay
  <2>15. KnownBuilt'
    <3> SUFFICES ASSUME NEW k \in Known' PROVE BuiltFrom(k)'
      BY DEF KnownBuilt
    <3>1. BuiltFrom(k)
      BY <2>14 DEF CInv, KnownBuilt
    <3>2. Stores(store, k.body.p) => k.body.p # m.body.d
      BY <1>7
    <3>3. k.body.t # "icp" => \A log \in From(store', Strict) : log.state.lastEvent.d # k.body.p
      BY <2>12, <3>1, <3>2 DEF BuiltFrom
    <3> QED
      BY <2>13, <3>1, <3>3 DEF BuiltFrom
  <2>16. OneCopy'
    BY <2>14 DEF OneCopy, CInv
  <2>17. RowsReplay'
    <3> SUFFICES ASSUME NEW w \in Witnesses, NEW row \in Elements(stored[w]) PROVE row.body.s <= NextSn + 1
      BY <1>2, <2>11 DEF RowsReplay, CInv
    <3>1. row.body.s <= NextSn
      BY DEF RowsReplay, CInv
    <3>2. row.body.s \in Nat
      BY TablesHold DEF CInv, Holding, Fine, Built
    <3> QED
      BY <2>3, <3>1, <3>2
  <2>18. RequestsFit'
    BY <1>2, <1>3, RequestsStay
  <2> QED
    BY <2>15, <2>16, <2>17, <2>18 DEF CInv
<1> QED
  BY <1>6, <1>7

\* A log whose last event is stored.
LEMMA LastStored ==
    ASSUME IInv, NEW log \in From(store, Strict), HasState(log)
    PROVE Stores(store, log.state.lastEvent.d)
<1>1. IsSequence(store) /\ \A row \in Elements(store) : Built(row.body)
  BY DEF IInv, Typed, IsTable
<1>2. StateOf(log, store)
  BY <1>1, Replayed
<1>3. store # <<>>
  BY <1>2 DEF StateOf, HasState
<1>4. Len(store) \in DOMAIN store
  BY <1>1, <1>3 DEF IsSequence
<1>5. store[Len(store)] \in Elements(store)
  BY <1>4 DEF Elements
<1> QED
  BY <1>2, <1>3, <1>5 DEF StateOf, Stores

\* A call that begins, with an event that was built like those that are known.
LEMMA BeginCalm ==
    ASSUME IInv, CInv, overlaps' = 0, NEW c \in Sessions, NEW m, NEW state, Commit(c, m, Backers, state),
           BuiltFrom(Copy(m)), \A k \in Known : k.body.d = m.body.d => k = Copy(m)
    PROVE CInv'
<1>1. UNCHANGED <<store, stored, signing>> /\ DOMAIN call' = Sessions /\ DOMAIN call = Sessions
  BY DEF Commit, IInv, Typed
<1>2. \A e \in Sessions : ~Active(e)
  <2>1. overlaps \in Nat
    BY DEF IInv, Typed
  <2>2. overlaps' = overlaps + 1 \/ \A e \in Sessions : call[e].pc = "idle"
    BY DEF Commit
  <2>3. overlaps' # overlaps + 1
    BY <2>1
  <2> QED
    BY <2>2, <2>3 DEF Active
<1>3. /\ call'[c].event = m /\ \A e \in Sessions : e # c => call'[e] = call[e]
  <2>1. PICK toad : call' = [call EXCEPT ![c] =
                        [pc |-> "receipts", result |-> "none", id |-> calls, event |-> m,
                         endpoints |-> Backers, todo |-> Backers, receipts |-> <<>>, toad |-> toad]]
    BY DEF Commit
  <2> QED
    BY <1>1, <2>1
<1>4. \A k : k \in Known' => k \in Known \/ k = Copy(m)
  BY <1>1, <1>2, <1>3, IsKnown DEF Active
<1>5. KnownBuilt'
  <2>1. \A k : BuiltFrom(k)' <=> BuiltFrom(k)
    BY <1>1 DEF BuiltFrom
  <2> QED
    BY <1>4, <2>1 DEF KnownBuilt, CInv
<1>6. OneCopy'
  <2> SUFFICES ASSUME NEW k \in Known', NEW l \in Known', k.body.d = l.body.d PROVE k = l
    BY DEF OneCopy
  <2>1. Copy(m).body.d = m.body.d
    BY DEF Copy
  <2>2. CASE k \in Known /\ l \in Known
    BY <2>2 DEF OneCopy, CInv
  <2>3. CASE k = Copy(m)
    BY <1>4, <2>1, <2>3
  <2>4. CASE l = Copy(m)
    BY <1>4, <2>1, <2>4
  <2> QED
    BY <1>4, <2>2, <2>3, <2>4
<1>7. RowsReplay'
  <2>1. NextSn' = NextSn
    BY <1>1 DEF NextSn
  <2> QED
    BY <1>1, <2>1 DEF RowsReplay, CInv
<1>8. RequestsFit'
  <2>1. \A w \in Witnesses : signing[w] = {}
    BY <1>2 DEF RequestsFit, CInv, Active
  <2> QED
    BY <1>1, <2>1 DEF RequestsFit
<1> QED
  BY <1>5, <1>6, <1>7, <1>8 DEF CInv

LEMMA InceptCalm ==
    ASSUME IInv, CInv, overlaps' = 0, NEW c \in Sessions, Incept(c)
    PROVE CInv'
<1> DEFINE body == InceptEvent(1, 2)
           m == Signed(body, <<1>>)
<1>1. Commit(c, m, Backers, Null)
  BY DEF Incept
<1>2. Built(body) /\ body.t = "icp" /\ body.d = <<"icp">>
  BY InceptBuilt DEF InceptEvent
<1>3. m.body = body /\ Copy(m).body = body
  BY DEF Signed, Copy
<1>4. BuiltFrom(Copy(m))
  BY <1>2, <1>3 DEF BuiltFrom
<1>5. \A k \in Known : k.body.d = m.body.d => k = Copy(m)
  <2> SUFFICES ASSUME NEW k \in Known, k.body.d = <<"icp">> PROVE k = Copy(m)
    BY <1>2, <1>3
  <2>1. BuiltFrom(k)
    BY DEF CInv, KnownBuilt
  <2>2. k.body.t = "icp"
    <3>1. Len(<<"icp">>) = 1 /\ Len(<<k.body.t, k.body.d[2], k.body.p>>) = 3
      OBVIOUS
    <3> QED
      BY <2>1, <3>1 DEF BuiltFrom
  <2> QED
    BY <2>1, <2>2 DEF BuiltFrom
<1> HIDE DEF m
<1> QED
  BY <1>1, <1>4, <1>5, BeginCalm

\* The event that a call builds after the log of the store is the one that every
\* such call builds with these keys and data.
LEMMA BuiltNext ==
    ASSUME IInv, CInv, overlaps' = 0, NEW c \in Sessions, NEW log \in From(store, Strict), HasState(log),
           NEW m, Commit(c, m, Backers, log.state), Built(m.body), m.body.t \in {"ixn", "rot"},
           NEW x, m.body.d = <<m.body.t, x, m.body.p>>, m.body.p = log.state.lastEvent.d,
           \A k : k.body.t = m.body.t /\ k.body.d[2] = x => (Following(k, log.state) <=> k = Copy(m))
    PROVE CInv'
<1>1. Copy(m).body = m.body /\ m.body.d[2] = x
  BY DEF Copy
<1>2. Len(store) \in Nat
  BY DEF IInv, Typed, IsTable, IsSequence
<1>3. \A l \in From(store, Strict) : l = log
  BY <1>2, FromSingle
<1>4. Stores(store, m.body.p)
  BY LastStored
<1>5. BuiltFrom(Copy(m))
  <2>1. Following(Copy(m), log.state)
    BY <1>1
  <2> QED
    BY <1>1, <1>3, <1>4, <2>1 DEF BuiltFrom
<1>6. \A k \in Known : k.body.d = m.body.d => k = Copy(m)
  <2> SUFFICES ASSUME NEW k \in Known, k.body.d = m.body.d PROVE k = Copy(m)
    OBVIOUS
  <2>1. BuiltFrom(k)
    BY DEF CInv, KnownBuilt
  <2>2. k.body.t # "icp"
    <3>1. Len(<<"icp">>) = 1 /\ Len(<<m.body.t, x, m.body.p>>) = 3
      OBVIOUS
    <3>2. k.body.t = "icp" => k.body.d = <<"icp">>
      BY <2>1 DEF BuiltFrom, Copy, Signed, InceptEvent
    <3> QED
      BY <3>1, <3>2
  <2>3. PICK y : y = k.body.d[2]
    OBVIOUS
  <2>4. <<k.body.t, y, k.body.p>> = <<m.body.t, x, m.body.p>>
    BY <2>1, <2>2, <2>3 DEF BuiltFrom
  <2>5. k.body.t = m.body.t /\ y = x /\ k.body.p = m.body.p
    BY <2>4
  <2>6. Following(k, log.state)
    BY <2>1, <2>2, <2>5 DEF BuiltFrom
  <2> QED
    BY <2>3, <2>5, <2>6
<1> QED
  BY <1>5, <1>6, BeginCalm

LEMMA AnchorCalm ==
    ASSUME IInv, CInv, overlaps' = 0, NEW c \in Sessions, NEW data, Anchor(c, data)
    PROVE CInv'
<1>1. PICK log \in From(store, Strict) :
        /\ HasState(log)
        /\ Commit(c, Signed(InteractEvent(log.state, data), log.state.signingKeys),
                  log.state.backers, log.state)
  BY DEF Anchor
<1>2. log.state.backers = Backers /\ log.state.lastEvent.s \in Nat
  BY <1>1, LogRead
<1> DEFINE body == InteractEvent(log.state, data)
           m == Signed(body, log.state.signingKeys)
<1>3. Commit(c, m, Backers, log.state) /\ m.body = body
  BY <1>1, <1>2 DEF Signed
<1>4. /\ body.t = "ixn" /\ body.p = log.state.lastEvent.d /\ body.d = <<body.t, data, body.p>>
      /\ Built(body)
  BY <1>2, InteractBuilt DEF InteractEvent
<1>5. \A k : k.body.t = "ixn" /\ k.body.d[2] = data => (Following(k, log.state) <=> k = Copy(m))
  BY DEF Following
<1> HIDE DEF m, body
<1> QED
  BY <1>1, <1>3, <1>4, <1>5, BuiltNext

LEMMA RotateCalm ==
    ASSUME IInv, CInv, overlaps' = 0, NEW c \in Sessions, Rotate(c)
    PROVE CInv'
<1> DEFINE next == keyCount + 1
<1>1. PICK log \in From(store, Strict) :
        /\ HasState(log)
        /\ Commit(c, Signed(RotateEvent(log.state, next), RotateEvent(log.state, next).k),
                  log.state.backers, log.state)
  BY DEF Rotate
<1> HIDE DEF next
<1>2. /\ log.state.backers = Backers /\ log.state.lastEvent.s \in Nat
      /\ SingleKeys(log.state.signingKeys, log.state.signingThreshold, log.state.nextKeyDigests)
  BY <1>1, LogRead
<1> DEFINE body == RotateEvent(log.state, next)
           m == Signed(body, body.k)
<1>3. Commit(c, m, Backers, log.state) /\ m.body = body
  BY <1>1, <1>2 DEF Signed
<1>4. /\ body.t = "rot" /\ body.p = log.state.lastEvent.d /\ body.d = <<body.t, next, body.p>>
      /\ Built(body)
  BY <1>2, RotateBuilt DEF RotateEvent
<1>5. \A k : k.body.t = "rot" /\ k.body.d[2] = next => (Following(k, log.state) <=> k = Copy(m))
  BY DEF Following
<1> HIDE DEF m, body
<1> QED
  BY <1>1, <1>3, <1>4, <1>5, BuiltNext

LEMMA InitWInv ==
    ASSUME Init
    PROVE WInv
<1>1. /\ stored = [w \in Witnesses |-> <<>>] /\ signing = [w \in Witnesses |-> {}]
      /\ store = <<>> /\ timeouts = 0 /\ \A c \in Sessions : ~Active(c)
  BY DEF Init, WitnessInit, NoCall, Active
<1>2. Elements(<<>>) = {}
  BY DEF Elements
<1>3. Known = {}
  BY <1>1, <1>2, IsKnown
<1>4. Loads(<<>>, PartiallyWitnessed)
  <2>1. Len(<<>>) \in Nat /\ Len(<<>>) = 0
    OBVIOUS
  <2>2. From(<<>>, PartiallyWitnessed) = {EmptyLog}
    BY <2>1, FromRecursion
  <2> QED
    BY <2>2 DEF Loads
<1>5. KnownBuilt /\ OneCopy
  BY <1>3 DEF KnownBuilt, OneCopy
<1>6. RowsReplay /\ RequestsFit
  BY <1>1, <1>2, <1>4 DEF RowsReplay, RequestsFit
<1> QED
  BY <1>1, <1>5, <1>6 DEF WInv, CInv

\* A step of a call, or a call that begins, when no calls overlap.
LEMMA CallCalm ==
    ASSUME IInv, SInv, CInv, timeouts = 0, overlaps' = 0, timeouts' = 0, NEW c \in Sessions,
           \/ Incept(c) \/ Rotate(c) \/ Progress(c) \/ RequestFails(c) \/ GiveUp(c) \/ DeliveryFails(c)
           \/ \E data \in Data : Anchor(c, data)
    PROVE CInv'
<1>1. ASSUME overlaps' = overlaps, Progress(c) \/ RequestFails(c) \/ DeliveryFails(c) PROVE CInv'
  <2>1. overlaps = 0
    BY <1>1
  <2>2. CASE RequestReceipt(c)
    BY <2>1, <2>2, RequestReceiptCalm
  <2>3. CASE Receipt(c)
    BY <2>1, <2>3, ReceiptCalm
  <2>4. CASE NoReceipt(c) \/ RequestFails(c) \/ Disagree(c) \/ Agree(c) \/ DeliveryRefused(c) \/ Rejected(c)
    BY <2>1, <2>4, SilentSteps
  <2>5. CASE Deliver(c) \/ DeliveryFails(c)
    BY <2>1, <2>5, DeliverySteps
  <2>6. CASE Finish(c)
    BY <2>1, <2>6, FinishCalm
  <2> QED
    BY <1>1, <2>2, <2>3, <2>4, <2>5, <2>6 DEF Progress
<1>2. Progress(c) \/ RequestFails(c) \/ DeliveryFails(c) => overlaps' = overlaps
  BY DEF Progress, RequestReceipt, NoReceipt, Receipt, Disagree, Agree, Deliver, DeliveryRefused,
         Finish, Rejected, RequestFails, DeliveryFails
<1>3. ~GiveUp(c)
  BY DEF GiveUp
<1>4. CASE Incept(c)
  BY <1>4, InceptCalm
<1>5. CASE Rotate(c)
  BY <1>5, RotateCalm
<1>6. ASSUME NEW data \in Data, Anchor(c, data) PROVE CInv'
  BY <1>6, AnchorCalm
<1> QED
  BY <1>1, <1>2, <1>3, <1>4, <1>5, <1>6

\* Requests that are given up are counted.
LEMMA TimeoutsCounted ==
    ASSUME [Next]_vars, timeouts \in Nat
    PROVE /\ timeouts' \in Nat /\ timeouts <= timeouts'
          /\ overlaps' = overlaps \/ overlaps' = overlaps + 1
<1> DEFINE Counts == /\ timeouts' = timeouts \/ timeouts' = timeouts + 1
                     /\ overlaps' = overlaps \/ overlaps' = overlaps + 1
<1>1. ASSUME NEW c \in Sessions, Progress(c) \/ RequestFails(c) \/ GiveUp(c) \/ DeliveryFails(c)
      PROVE Counts
  BY <1>1 DEF Progress, RequestReceipt, NoReceipt, Receipt, Disagree, Agree, Deliver, DeliveryRefused,
              Finish, Rejected, RequestFails, GiveUp, DeliveryFails
<1>2. ASSUME NEW c \in Sessions, Incept(c) \/ Rotate(c) \/ \E data \in Data : Anchor(c, data)
      PROVE Counts
  BY <1>2 DEF Incept, Rotate, Anchor, Commit
<1>3. ASSUME NEW w \in Witnesses, LateReceipt(w)
      PROVE Counts
  BY <1>3 DEF LateReceipt
<1>4. ASSUME UNCHANGED vars PROVE Counts
  BY <1>4 DEF vars
<1>5. ASSUME Next
      PROVE \/ \E c \in Sessions : Progress(c) \/ RequestFails(c) \/ GiveUp(c) \/ DeliveryFails(c)
            \/ \E c \in Sessions : Incept(c) \/ Rotate(c) \/ \E data \in Data : Anchor(c, data)
            \/ \E w \in Witnesses : LateReceipt(w)
  BY <1>5, Zenon DEF Next
<1> HIDE DEF Counts
<1>6. Counts
  BY <1>1, <1>2, <1>3, <1>4, <1>5
<1> QED
  BY <1>6 DEF Counts

LEMMA NextWInv ==
    ASSUME IInv, SInv, WInv, [Next]_vars
    PROVE WInv'
<1>1. /\ timeouts \in Nat /\ timeouts' \in Nat /\ timeouts <= timeouts'
      /\ overlaps' = overlaps \/ overlaps' = overlaps + 1
  BY TimeoutsCounted DEF WInv
<1>2. overlaps \in Nat
  BY DEF IInv, Typed
<1>3. ASSUME Calm' PROVE CInv'
  <2>1. timeouts' = 0 /\ overlaps' = 0 /\ timeouts = 0 /\ overlaps = 0
    BY <1>1, <1>2, <1>3 DEF Calm
  <2>2. CInv
    BY <2>1 DEF WInv, Calm
  <2>3. CASE UNCHANGED vars
    <3>1. UNCHANGED <<store, stored, signing, call>>
      BY <2>3 DEF vars
    <3>2. \A w \in Witnesses : Holding(stored'[w])
      BY <2>2, <3>1, TablesHold DEF CInv
    <3>3. EventsStay /\ RequestsFit'
      BY <2>2, <3>1 DEF EventsStay, Active, CInv, RequestsFit
    <3> QED
      BY <2>1, <2>2, <3>1, <3>2, <3>3, WitnessStep
  <2>4. ASSUME NEW w \in Witnesses, LateReceipt(w) PROVE CInv'
    <3>1. PICK request \in signing[w] :
            \A c \in Sessions : call[c].pc = "waiting" => call[c].id # request.id \/ Head(call[c].todo) # w
      BY <2>4 DEF LateReceipt
    <3> QED
      BY <2>2, <3>1 DEF CInv, RequestsFit
  <2>5. ASSUME NEW c \in Sessions,
               \/ Incept(c) \/ Rotate(c) \/ Progress(c) \/ RequestFails(c) \/ GiveUp(c) \/ DeliveryFails(c)
               \/ \E data \in Data : Anchor(c, data)
        PROVE CInv'
    BY <2>1, <2>2, <2>5, CallCalm
  <2> QED
    BY <2>3, <2>4, <2>5 DEF Next
<1> QED
  BY <1>1, <1>3 DEF WInv

-----------------------------------------------------------------------------
(* The messages of the second pass. *)

\* The lists of p one after the other, as a loop puts them together.
Strings(f, n, p) == f = [x \in 0 .. n |-> IF x = 0 THEN <<>> ELSE f[x - 1] \o p[x]]

LEMMA StringExists ==
    ASSUME NEW n \in Nat, NEW p
    PROVE \E f : Strings(f, n, p)
<1> DEFINE N == {k \in Nat : \E f : Strings(f, k, p)}
<1>1. 0 \in N
  <2> DEFINE f == [x \in 0 .. 0 |-> <<>>]
  <2>1. Strings(f, 0, p)
    BY DEF Strings
  <2> QED
    BY <2>1
<1>2. \A k \in Nat : k \in N => k + 1 \in N
  <2> SUFFICES ASSUME NEW k \in Nat, k \in N PROVE \E g : Strings(g, k + 1, p)
    BY \A k \in Nat : k + 1 \in Nat
  <2>1. PICK f : Strings(f, k, p)
    OBVIOUS
  <2>2. \A x \in 0 .. k : f[x] = IF x = 0 THEN <<>> ELSE f[x - 1] \o p[x]
    BY <2>1, Zenon DEF Strings
  <2> DEFINE g == [x \in 0 .. k + 1 |-> IF x = k + 1 THEN f[k] \o p[k + 1] ELSE f[x]]
  <2>3. \A x \in 0 .. k + 1 : g[x] = IF x = k + 1 THEN f[k] \o p[k + 1] ELSE f[x]
    OBVIOUS
  <2>4. g = [x \in 0 .. k + 1 |-> g[x]]
    OBVIOUS
  <2> HIDE DEF g
  <2>5. \A x \in 0 .. k + 1 : g[x] = IF x = 0 THEN <<>> ELSE g[x - 1] \o p[x]
    <3> TAKE x \in 0 .. k + 1
    <3>1. CASE x = k + 1
      <4>1. x # 0 /\ x - 1 = k /\ k \in 0 .. k + 1 /\ k # k + 1
        BY <3>1
      <4>2. g[k] = f[k]
        BY <2>3, <4>1
      <4> QED
        BY <2>3, <3>1, <4>1, <4>2
    <3>2. CASE x # k + 1
      <4>1. x \in 0 .. k /\ (x # 0 => x - 1 \in 0 .. k + 1 /\ x - 1 # k + 1)
        BY <3>2
      <4>2. g[x] = f[x] /\ (x # 0 => g[x - 1] = f[x - 1])
        BY <2>3, <3>2, <4>1
      <4> QED
        BY <2>2, <4>1, <4>2
    <3> QED
      BY <3>1, <3>2
  <2>6. g = [x \in 0 .. k + 1 |-> IF x = 0 THEN <<>> ELSE g[x - 1] \o p[x]]
    BY <2>4, <2>5, Zenon
  <2> QED
    BY <2>6 DEF Strings
<1> HIDE DEF N
<1>3. n \in N
  BY <1>1, <1>2, SetInduction
<1> QED
  BY <1>3 DEF N

\* Such a list has what each of them has.
LEMMA StringHas ==
    ASSUME NEW S, NEW n \in Nat, NEW p, \A x \in 1 .. n : p[x] \in Seq(S), NEW f, Strings(f, n, p)
    PROVE /\ f[n] \in Seq(S)
          /\ \A y \in 1 .. n : Elements(p[y]) \subseteq Elements(f[n])
<1>1. f[0] = <<>> /\ \A x \in 1 .. n : f[x] = f[x - 1] \o p[x]
  <2>1. \A x \in 0 .. n : f[x] = IF x = 0 THEN <<>> ELSE f[x - 1] \o p[x]
    BY Zenon DEF Strings
  <2>2. 0 \in 0 .. n /\ \A x \in 1 .. n : x \in 0 .. n /\ x # 0
    OBVIOUS
  <2> QED
    BY <2>1, <2>2
<1> DEFINE N == {k \in Nat : k <= n => /\ f[k] \in Seq(S)
                                       /\ \A y \in 1 .. k : Elements(p[y]) \subseteq Elements(f[k])}
<1>2. 0 \in N
  <2>1. f[0] \in Seq(S) /\ \A y \in 1 .. 0 : FALSE
    BY <1>1
  <2> QED
    BY <2>1
<1>3. \A k \in Nat : k \in N => k + 1 \in N
  <2> DEFINE Good(k) == f[k] \in Seq(S) /\ \A y \in 1 .. k : Elements(p[y]) \subseteq Elements(f[k])
  <2>1. N = {k \in Nat : k <= n => Good(k)}
    OBVIOUS
  <2> HIDE DEF N, Good
  <2> SUFFICES ASSUME NEW k \in Nat, k <= n => Good(k), k + 1 <= n PROVE Good(k + 1)
    BY <2>1
  <2>2. k <= n /\ k + 1 \in 1 .. n /\ (k + 1) - 1 = k
    BY n \in Nat
  <2>3. PICK a, b, c : a = f[k] /\ b = p[k + 1] /\ c = f[k + 1]
    OBVIOUS
  <2>4. a \in Seq(S) /\ b \in Seq(S) /\ c = a \o b
    BY <1>1, <2>2, <2>3 DEF Good
  <2>5. c \in Seq(S) /\ Elements(a) \subseteq Elements(c) /\ Elements(b) \subseteq Elements(c)
    <3>1. /\ c \in Seq(S) /\ Len(c) = Len(a) + Len(b)
          /\ \A x \in 1 .. Len(a) : c[x] = a[x]
          /\ \A x \in 1 .. Len(b) : c[Len(a) + x] = b[x]
      BY <2>4, ConcatProperties
    <3>2. /\ Len(a) \in Nat /\ DOMAIN a = 1 .. Len(a)
          /\ Len(b) \in Nat /\ DOMAIN b = 1 .. Len(b)
          /\ DOMAIN c = 1 .. Len(c)
      BY <2>4, <3>1, LenProperties
    <3>3. /\ \A x \in 1 .. Len(a) : x \in DOMAIN c
          /\ \A x \in 1 .. Len(b) : Len(a) + x \in DOMAIN c
      BY <3>1, <3>2
    <3> QED
      BY <3>1, <3>2, <3>3 DEF Elements
  <2>6. \A y \in 1 .. k + 1 : y \in 1 .. k \/ y = k + 1
    OBVIOUS
  <2>7. \A y \in 1 .. k : Elements(p[y]) \subseteq Elements(a)
    BY <2>2, <2>3 DEF Good
  <2> QED
    BY <2>3, <2>5, <2>6, <2>7 DEF Good
<1> HIDE DEF N
<1>4. n \in N
  BY <1>2, <1>3, SetInduction
<1> QED
  BY <1>4 DEF N

\* What is left of a list has all that is not cut.
LEMMA WithoutKeeps ==
    ASSUME NEW S, NEW list \in Seq(S), NEW cut, NEW e \in Elements(list), e \notin cut
    PROVE e \in Elements(Without(list, cut))
<1>1. /\ Len(list) \in Nat /\ DOMAIN list = 1 .. Len(list)
      /\ \A x \in 1 .. Len(list) : list[x] \in S
  BY LenProperties
<1>2. PICK kept : /\ Without(list, cut) = kept[Len(list)]
                 /\ \A x \in 0 .. Len(list) : kept[x] = KeptStep(list, cut, kept, x)
  BY WithoutEquation
<1>3. PICK y \in 1 .. Len(list) : list[y] = e
  BY <1>1 DEF Elements
<1> DEFINE M == {n \in Nat : n <= Len(list) => kept[n] \in Seq(S) /\ (y <= n => e \in Elements(kept[n]))}
<1>4. 0 \in M
  <2>1. kept[0] = <<>>
    BY <1>1, <1>2 DEF KeptStep
  <2>2. kept[0] \in Seq(S) /\ 0 \in Nat /\ ~(y <= 0)
    BY <2>1
  <2> QED
    BY <2>2
<1>5. \A n \in Nat : n \in M => n + 1 \in M
  <2> SUFFICES ASSUME NEW n \in Nat, n \in M, n + 1 <= Len(list)
               PROVE kept[n + 1] \in Seq(S) /\ (y <= n + 1 => e \in Elements(kept[n + 1]))
    OBVIOUS
  <2>1. PICK a, b, l : a = kept[n] /\ b = kept[n + 1] /\ l = list[n + 1]
    OBVIOUS
  <2>2. a \in Seq(S) /\ (y <= n => e \in Elements(a))
    BY <1>1, <2>1
  <2>3. n + 1 \in 0 .. Len(list) /\ n + 1 # 0 /\ (n + 1) - 1 = n /\ l \in S
    BY <1>1, <2>1
  <2>4. b = IF l \in cut THEN a ELSE Append(a, l)
    BY <1>2, <2>1, <2>3 DEF KeptStep
  <2>5. CASE l \in cut
    <3>1. y <= n + 1 => y <= n
      BY <1>3, <2>1, <2>5
    <3> QED
      BY <2>1, <2>2, <2>4, <2>5, <3>1
  <2>6. CASE l \notin cut
    <3>1. b = Append(a, l)
      BY <2>4, <2>6
    <3>2. /\ b \in Seq(S) /\ Len(b) = Len(a) + 1 /\ b[Len(b)] = l
          /\ \A x \in 1 .. Len(a) : b[x] = a[x]
      BY <2>2, <2>3, <3>1, AppendProperties
    <3>3. Len(a) \in Nat /\ DOMAIN a = 1 .. Len(a) /\ DOMAIN b = 1 .. Len(a) + 1
      BY <2>2, <3>2, LenProperties
    <3>4. l \in Elements(b) /\ Elements(a) \subseteq Elements(b)
      BY <3>2, <3>3 DEF Elements
    <3>5. y <= n + 1 => y <= n \/ y = n + 1
      BY <1>3
    <3> QED
      BY <1>3, <2>1, <2>2, <3>2, <3>4, <3>5
  <2> QED
    BY <2>5, <2>6
<1> HIDE DEF M
<1>6. Len(list) \in M
  BY <1>1, <1>4, <1>5, SetInduction
<1> QED
  BY <1>1, <1>2, <1>3, <1>6 DEF M

\* Each witness is sent the receipt of each other one.
LEMMA EverythingTold ==
    ASSUME NEW W, NEW endpoints \in Seq(W), NEW receipts \in Seq(W)
    PROVE /\ Exchanges(endpoints, receipts) \in Seq([to : W, receipt : W])
          /\ \A w \in Elements(endpoints), v \in Elements(receipts) : v # w =>
                [to |-> w, receipt |-> v] \in Elements(Exchanges(endpoints, receipts))
<1> DEFINE n == Len(endpoints)
           p == [x \in 1 .. n |-> OthersFor(endpoints[x], receipts)]
           M == [to : W, receipt : W]
<1>1. n \in Nat /\ DOMAIN endpoints = 1 .. n /\ \A x \in 1 .. n : endpoints[x] \in W
  BY LenProperties
<1>2. \A w \in W : /\ OthersFor(w, receipts) \in Seq(M)
                   /\ \A v \in Elements(receipts) : v # w =>
                         [to |-> w, receipt |-> v] \in Elements(OthersFor(w, receipts))
  <2> TAKE w \in W
  <2>1. PICK others : others = Without(receipts, {w})
    OBVIOUS
  <2>2. others \in Seq(W) /\ \A v \in Elements(receipts) : v # w => v \in Elements(others)
    BY <2>1, WithoutIsSequence, WithoutKeeps
  <2>3. OthersFor(w, receipts) = [x \in DOMAIN others |-> [to |-> w, receipt |-> others[x]]]
    BY <2>1 DEF OthersFor
  <2>4. DOMAIN others = 1 .. Len(others) /\ Len(others) \in Nat /\ \A x \in 1 .. Len(others) : others[x] \in W
    BY <2>2, LenProperties
  <2>5. OthersFor(w, receipts) \in Seq(M)
    BY <2>3, <2>4
  <2>6. \A v \in Elements(others) : [to |-> w, receipt |-> v] \in Elements(OthersFor(w, receipts))
    BY <2>3 DEF Elements
  <2> QED
    BY <2>2, <2>5, <2>6
<1> HIDE DEF M
<1>3. \A x \in 1 .. n : p[x] = OthersFor(endpoints[x], receipts) /\ p[x] \in Seq(M)
  BY <1>1, <1>2
<1> DEFINE IsTold(f) == f = [x \in 0 .. Len(endpoints) |->
                                IF x = 0 THEN <<>> ELSE f[x - 1] \o OthersFor(endpoints[x], receipts)]
<1> HIDE DEF p
<1>4. \A f : Strings(f, n, p) <=> IsTold(f)
  <2> TAKE f
  <2>1. \A x \in 0 .. n : (IF x = 0 THEN <<>> ELSE f[x - 1] \o p[x])
                           = (IF x = 0 THEN <<>> ELSE f[x - 1] \o OthersFor(endpoints[x], receipts))
    <3>1. \A x \in 0 .. n : x # 0 => x \in 1 .. n
      BY <1>1
    <3> QED
      BY <1>3, <3>1
  <2>2. [x \in 0 .. n |-> IF x = 0 THEN <<>> ELSE f[x - 1] \o p[x]]
         = [x \in 0 .. n |-> IF x = 0 THEN <<>> ELSE f[x - 1] \o OthersFor(endpoints[x], receipts)]
    BY <2>1, Zenon
  <2> QED
    BY <2>2 DEF Strings
<1>5. \E f : IsTold(f)
  BY <1>1, <1>4, StringExists
<1>6. PICK f : IsTold(f) /\ Exchanges(endpoints, receipts) = f[n]
  BY <1>5 DEF Exchanges
<1> HIDE DEF IsTold
<1>7. Strings(f, n, p)
  BY <1>4, <1>6
<1>8. f[n] \in Seq(M) /\ \A y \in 1 .. n : Elements(p[y]) \subseteq Elements(f[n])
  BY <1>1, <1>3, <1>7, StringHas
<1>9. \A w \in Elements(endpoints) : \E y \in 1 .. n : endpoints[y] = w
  BY <1>1 DEF Elements
<1> QED
  BY <1>1, <1>2, <1>3, <1>6, <1>8, <1>9 DEF M

-----------------------------------------------------------------------------
(* What undisturbed calls come to. *)

\* The places of the witnesses among the backers, one for each.
Places == {BackerIndex(Backers, w) : w \in Witnesses}

\* Receipts of backers at their places, and of all of them.
Placed(wigs) == DOMAIN wigs \subseteq Places /\ \A x \in DOMAIN wigs : wigs[x] = Backers[x]

Full(wigs) == Placed(wigs) /\ DOMAIN wigs = Places

Numbered(rows) == \A x \in 1 .. Len(rows) : rows[x].body.s = x - 1

\* A table of a witness begins with the events of the controller, with all receipts.
Mirrors(t, rows) == \A x \in 1 .. Len(rows) : Copy(t[x]) = Copy(rows[x]) /\ Full(t[x].wigs)

Level(t, rows) == Len(t) = Len(rows) /\ Mirrors(t, rows)

\* It has one event more, with the receipt of w and maybe of others.
Ahead(t, rows, m, w) ==
    /\ Len(t) = Len(rows) + 1 /\ Mirrors(t, rows)
    /\ Copy(t[Len(t)]) = Copy(m)
    /\ Placed(t[Len(t)].wigs) /\ BackerIndex(Backers, w) \in DOMAIN t[Len(t)].wigs

\* The witnesses that have answered a call are ahead, the others are level.
InStep(m, receipts, rows, tables) ==
    \A w \in Witnesses : IF w \in Elements(receipts) THEN Ahead(tables[w], rows, m, w)
                                                     ELSE Level(tables[w], rows)

\* The first pass: the backers are asked in their order, and each has answered, once.
Asking(receipts, todo) ==
    /\ \A x, y \in DOMAIN receipts : receipts[x] = receipts[y] => x = y
    /\ \E n \in 0 .. Len(Backers) :
          /\ Elements(receipts) = {Backers[x] : x \in 1 .. n}
          /\ n + Len(todo) = Len(Backers)
          /\ \A x \in 1 .. Len(todo) : todo[x] = Backers[n + x]

\* The second pass: the receipt that a witness does not have yet is on its way.
Telling(receipts, todo, tables) ==
    /\ Elements(receipts) = Witnesses
    /\ todo \in Seq([to : Witnesses, receipt : Witnesses])
    /\ \A w, v \in Witnesses :
          \/ BackerIndex(Backers, v) \in DOMAIN tables[w][Len(tables[w])].wigs
          \/ [to |-> w, receipt |-> v] \in Elements(todo)

\* An event that the controller can store when all witnesses have signed it.
Fits(m, toad, rows) ==
    /\ DOMAIN m.sigs # {} /\ m.wigs = <<>>
    /\ \E log \in From(rows, Strict) : CanAppend(log, m, PartiallyWitnessed)
    /\ toad \in Nat
    /\ IF m.body.t = "icp" THEN toad = ParsedThreshold(Toad) ELSE toad <= Cardinality(Witnesses)

\* A call k that nothing disturbs.
OnCourse(k, rows, tables) ==
    /\ Fits(k.event, k.toad, rows)
    /\ InStep(k.event, k.receipts, rows, tables)
    /\ IF k.pc = "distribution"
       THEN k.toad <= Cardinality(Witnesses) /\ Telling(k.receipts, k.todo, tables)
       ELSE Asking(k.receipts, k.todo)

\* An inception whose threshold, as it is read, the witnesses do not meet: it was
\* made and refused, and cannot be made again.
Stillborn ==
    /\ store = <<>> /\ keyCount # 0
    /\ \A w \in Witnesses : \A row \in Elements(stored[w]) : row.body = InceptEvent(1, 2)

AInv ==
    /\ Numbered(store)
    /\ store # <<>> => ParsedThreshold(Toad) <= Cardinality(Witnesses)
    /\ \A c \in Sessions : Active(c) => OnCourse(call[c], store, stored)
    /\ (\A c \in Sessions : ~Active(c)) => Stillborn \/ \A w \in Witnesses : Level(stored[w], store)

UInv == failures \in Nat /\ (Undisturbed => AInv)

-----------------------------------------------------------------------------
(* Receipts of all witnesses. *)

LEMMA PlacesCounted ==
    /\ IsFiniteSet(Places) /\ Cardinality(Places) = Cardinality(Witnesses)
    /\ Places \subseteq DOMAIN Backers
    /\ \A w \in Witnesses : BackerIndex(Backers, w) \in Places /\ Backers[BackerIndex(Backers, w)] = w
    /\ {Backers[x] : x \in Places} = Witnesses
<1>1. \A w \in Witnesses : BackerIndex(Backers, w) \in DOMAIN Backers /\ Backers[BackerIndex(Backers, w)] = w
  BY BackerFound, KawaAssumption
<1>2. \A x \in Places : \E w \in Witnesses : x = BackerIndex(Backers, w) /\ Backers[x] = w /\ x \in DOMAIN Backers
  BY <1>1 DEF Places
<1>3. \A w \in Witnesses : BackerIndex(Backers, w) \in Places
  BY DEF Places
<1> DEFINE f == [w \in Witnesses |-> BackerIndex(Backers, w)]
<1>4. f \in [Witnesses -> Places] /\ \A w \in Witnesses : f[w] = BackerIndex(Backers, w)
  BY <1>3
<1> HIDE DEF f
<1>5. f \in Bijection(Witnesses, Places)
  BY <1>1, <1>2, <1>4 DEF Bijection, Injection, Surjection, IsInjective
<1>6. IsFiniteSet(Places) /\ Cardinality(Places) = Cardinality(Witnesses)
  BY <1>5, WitnessesFinite, FS_Bijection DEF ExistsBijection
<1> QED
  BY <1>1, <1>2, <1>3, <1>6

\* With the receipts of all witnesses an event passes, when they are enough.
LEMMA FullAccepted ==
    ASSUME NEW wigs, Full(wigs), Toad <= Cardinality(Witnesses)
    PROVE Accepted(wigs, Strict)
<1>1. /\ DOMAIN wigs = Places /\ \A x \in Places : wigs[x] = Backers[x]
      /\ SignedIndices(Backers, wigs) = Places
  BY PlacesCounted DEF Full, Placed, SignedIndices
<1> SUFFICES ASSUME NEW bt \in {0, Toad}, bt # 0, Len(Backers) > 0
             PROVE VerifyThreshold(Backers, Simple(bt), wigs)
  BY DEF Accepted, VerifyWitness, Strict, Options
<1>2. bt = Toad /\ Len(Backers) \in Nat /\ bt \in 1 .. Len(Backers) /\ DOMAIN Backers = 1 .. Len(Backers)
  BY KawaAssumption DEF IsSequence
<1>3. ParseableThreshold(Simple(bt), Len(Backers))
  BY <1>2 DEF ParseableThreshold, Simple
<1>4. SignaturesValid(Backers, wigs)
  BY <1>1 DEF SignaturesValid
<1> DEFINE n == Len(Backers)
           v == [x \in 1 .. n |-> 1]
<1>5. ParseThreshold(Simple(bt), n) = [required |-> bt, weights |-> v]
  BY DEF ParseThreshold, Simple
<1>6. SumMeets(v, bt, Places)
  <2>1. Places \in SUBSET (1 .. n) /\ v \in [1 .. n -> {1}]
    BY <1>2, PlacesCounted
  <2> HIDE DEF v, n
  <2>2. SumFunctionOnSet(v, Places) = Cardinality(Places)
    BY <2>1, PlacesCounted, SumCounts
  <2>3. SumFunctionOnSet(v, Places) >= bt
    BY <1>2, <2>2, PlacesCounted
  <2> QED
    BY <2>3 DEF SumMeets
<1> QED
  BY <1>1, <1>3, <1>4, <1>5, <1>6 DEF VerifyThreshold

LEMMA ParsedNotLess == ParsedThreshold(0) = 0 /\ Toad <= ParsedThreshold(Toad) /\ ParsedThreshold(Toad) \in Nat
<1>1. Toad \in Nat
  BY KawaAssumption DEF IsSequence
<1>2. \A n \in Nat : n \div 10 \in Nat /\ n % 10 \in Nat /\ n = 10 * (n \div 10) + (n % 10)
  OBVIOUS
<1>3. \A n, q, r \in Nat : n = 10 * q + r => n <= 16 * q + r /\ 16 * q + r \in Nat
  OBVIOUS
<1>4. 0 \div 10 = 0 /\ 0 % 10 = 0
  OBVIOUS
<1> QED
  BY <1>1, <1>2, <1>3, <1>4 DEF ParsedThreshold

\* A call that has asked every backer has a receipt of every witness.
LEMMA AllAsked ==
    ASSUME NEW receipts \in Seq(Witnesses), Asking(receipts, <<>>)
    PROVE Elements(receipts) = Witnesses /\ Len(receipts) = Cardinality(Witnesses)
<1>1. /\ Len(Backers) \in Nat /\ DOMAIN Backers = 1 .. Len(Backers)
      /\ Witnesses = {Backers[x] : x \in 1 .. Len(Backers)}
  BY KawaAssumption DEF IsSequence, Elements
<1>2. PICK n \in 0 .. Len(Backers) :
        Elements(receipts) = {Backers[x] : x \in 1 .. n} /\ n + Len(<<>>) = Len(Backers)
  BY DEF Asking
<1>3. Elements(receipts) = Witnesses
  BY <1>1, <1>2
<1>4. Len(receipts) \in Nat /\ DOMAIN receipts = 1 .. Len(receipts) /\ \A x \in 1 .. Len(receipts) : receipts[x] \in Witnesses
  OBVIOUS
<1>5. receipts \in [1 .. Len(receipts) -> Witnesses]
  OBVIOUS
<1>6. receipts \in Bijection(1 .. Len(receipts), Witnesses)
  <2>1. \A x, y \in 1 .. Len(receipts) : receipts[x] = receipts[y] => x = y
    BY <1>4 DEF Asking
  <2>2. \A w \in Witnesses : \E x \in 1 .. Len(receipts) : receipts[x] = w
    BY <1>3, <1>4 DEF Elements
  <2> QED
    BY <1>5, <2>1, <2>2 DEF Bijection, Injection, Surjection, IsInjective
<1>7. Cardinality(Witnesses) = Len(receipts)
  BY <1>4, <1>6, FS_CountingElements DEF ExistsBijection
<1> QED
  BY <1>3, <1>7

-----------------------------------------------------------------------------
(* One call under way, and its event. *)

LEMMA NextIsLen ==
    ASSUME IInv, Numbered(store)
    PROVE Len(store) \in Nat /\ DOMAIN store = 1 .. Len(store) /\ NextSn = Len(store)
<1>1. Len(store) \in Nat /\ DOMAIN store = 1 .. Len(store) /\ (store = <<>> <=> Len(store) = 0)
  BY EmptySeq DEF IInv, Typed, IsTable, IsSequence
<1>2. CASE store = <<>>
  BY <1>1, <1>2 DEF NextSn
<1>3. CASE store # <<>>
  <2>1. Len(store) \in 1 .. Len(store)
    BY <1>1, <1>3
  <2>2. store[Len(store)].body.s = Len(store) - 1
    BY <2>1 DEF Numbered
  <2> QED
    BY <1>1, <1>3, <2>2 DEF NextSn
<1> QED
  BY <1>1, <1>2, <1>3

LEMMA Alone ==
    ASSUME IInv, overlaps = 0, NEW c \in Sessions, Active(c)
    PROVE \A e \in Sessions : Active(e) => e = c
BY DEF IInv, Overlapping

LEMMA NextEvent ==
    ASSUME IInv, SInv, overlaps = 0, Numbered(store), NEW c \in Sessions, Active(c)
    PROVE call[c].event.body.s = Len(store)
<1>1. AtMostOneOverlap
  BY DEF AtMostOneOverlap
<1>2. call[c].event.body.s = NextSn
  BY <1>1 DEF SInv, InLine
<1> QED
  BY <1>2, NextIsLen

\* The event of a call is none of those that a witness has with the controller.
LEMMA EventNew ==
    ASSUME IInv, SInv, CInv, overlaps = 0, Numbered(store), NEW c \in Sessions, Active(c),
           NEW w \in Witnesses, Mirrors(stored[w], store), Len(store) <= Len(stored[w])
    PROVE \A x \in 1 .. Len(store) : /\ stored[w][x].body.d # call[c].event.body.d
                                     /\ stored[w][x].body.s <= call[c].event.body.s
<1>1. PICK m, n, t : m = call[c].event /\ n = Len(store) /\ t = stored[w]
  OBVIOUS
<1>2. n \in Nat /\ m.body.s = n
  BY <1>1, NextIsLen, NextEvent
<1>3. IsTable(t) /\ Len(t) \in Nat /\ DOMAIN t = 1 .. Len(t)
  BY <1>1 DEF IInv, Typed, IsTable, IsSequence
<1> SUFFICES ASSUME NEW x \in 1 .. n PROVE t[x].body.d # m.body.d /\ t[x].body.s <= m.body.s
  BY <1>1
<1>4. x \in DOMAIN t /\ x \in 1 .. Len(store)
  BY <1>1, <1>2, <1>3
<1>5. t[x] \in Elements(t)
  BY <1>4 DEF Elements
<1>6. Copy(t[x]) \in Known /\ Copy(m) \in Known
  BY <1>1, <1>5, IsKnown
<1>7. t[x].body.s = x - 1
  <2>1. Copy(t[x]) = Copy(store[x])
    BY <1>1, <1>4 DEF Mirrors
  <2>2. store[x].body.s = x - 1
    BY <1>4 DEF Numbered
  <2> QED
    BY <2>1, <2>2 DEF Copy
<1>8. t[x].body.s # m.body.s /\ t[x].body.s <= m.body.s
  BY <1>2, <1>7
<1>9. t[x].body.d = m.body.d => t[x].body = m.body
  BY <1>6 DEF CInv, OneCopy, Copy
<1> QED
  BY <1>8, <1>9

\* A witness that is level replays to the state of the controller.
LEMMA LevelReads ==
    ASSUME NEW rows, IsSequence(rows), \A row \in Elements(rows) : Built(row.body),
           NEW t, IsSequence(t), Level(t, rows), rows # <<>> => Toad <= Cardinality(Witnesses),
           NEW log \in From(rows, Strict)
    PROVE \E k \in From(t, Strict) : k.state = log.state /\ (HasState(k) <=> HasState(log))
<1>1. /\ Len(t) = Len(rows) /\ Len(rows) \in Nat
      /\ rows \in Seq(Elements(rows)) /\ t \in Seq(Elements(t))
  BY DEF Level, IsSequence
<1>2. \A x \in 1 .. Len(rows) : /\ t[x].body = rows[x].body /\ t[x].sigs = rows[x].sigs
                                /\ Accepted(t[x].wigs, Strict)
  <2> TAKE x \in 1 .. Len(rows)
  <2>1. Copy(t[x]) = Copy(rows[x]) /\ Full(t[x].wigs)
    BY DEF Level, Mirrors
  <2>2. rows # <<>>
    BY <1>1, EmptySeq
  <2>3. Accepted(t[x].wigs, Strict)
    BY <2>1, <2>2, FullAccepted
  <2> QED
    BY <2>1, <2>3 DEF Copy
<1>3. PICK k \in From(t, Strict) : k.state = log.state
  <2>1. Strict \in {Strict, PartiallyWitnessed}
    OBVIOUS
  <2> QED
    BY <1>1, <1>2, <2>1, Reattached
<1>4. k.events = t /\ log.events = rows
  BY <1>1, FromEvents
<1>5. t = <<>> <=> rows = <<>>
  BY <1>1, EmptySeq
<1> QED
  BY <1>3, <1>4, <1>5 DEF HasState

\* It receipts the event of a call.
LEMMA LevelReceipts ==
    ASSUME IInv, NEW m, Built(m.body), NEW toad, Fits(m, toad, store),
           store # <<>> => Toad <= Cardinality(Witnesses),
           NEW w \in Witnesses, Level(stored[w], store)
    PROVE Receiptable(w, m)
<1>1. /\ IsSequence(store) /\ \A row \in Elements(store) : Built(row.body)
      /\ IsSequence(stored[w])
  BY DEF IInv, Typed, IsTable
<1>2. PICK log \in From(store, Strict) : CanAppend(log, m, PartiallyWitnessed)
  BY DEF Fits
<1>3. PICK kel \in From(stored[w], Strict) : kel.state = log.state /\ (HasState(kel) <=> HasState(log))
  BY <1>1, LevelReads
<1>4. StateOf(log, store)
  BY <1>1, Replayed
<1>5. CanAppend(kel, m, PartiallyWitnessed)
  <2>1. SignaturesValid(Backers, m.wigs)
    BY DEF Fits, SignaturesValid, SignedIndices
  <2>2. PartiallyWitnessed \in {Strict, PartiallyWitnessed} /\ m.body = m.body /\ m.sigs = m.sigs
    OBVIOUS
  <2>3. Accepted(m.wigs, PartiallyWitnessed)
    BY <2>1, ValidAccepted
  <2> QED
    BY <1>2, <1>3, <1>4, <2>2, <2>3, OtherReceipts
<1>6. Extend(kel, m, PartiallyWitnessed).state = Extend(log, m, PartiallyWitnessed).state
  BY <1>3 DEF Extend
<1>7. Extend(log, m, PartiallyWitnessed).state.backers = Backers
  <2> DEFINE S == Elements(store) \cup {m}
  <2>1. store \in Seq(S) /\ m \in S
    BY <1>1 DEF IsSequence
  <2> HIDE DEF S
  <2>2. StateOf(Extend(log, m, PartiallyWitnessed), Append(store, m))
    BY <1>2, <1>4, <2>1, LogStep
  <2>3. Append(store, m) # <<>>
    BY <2>1, AppendProperties
  <2> QED
    BY <2>2, <2>3 DEF StateOf
<1>8. w \in Elements(Backers) /\ DOMAIN m.sigs # {}
  BY KawaAssumption DEF Fits
<1> QED
  BY <1>3, <1>5, <1>6, <1>7, <1>8 DEF Receiptable

-----------------------------------------------------------------------------
(* Tables in step with the controller. *)

\* A witness that is level saves the event of a call.
LEMMA AheadAppended ==
    ASSUME NEW t, IsSequence(t), NEW rows, Len(rows) \in Nat, Level(t, rows), NEW m, NEW r, Copy(r) = Copy(m),
           NEW w, Placed(r.wigs), BackerIndex(Backers, w) \in DOMAIN r.wigs
    PROVE Ahead(Append(t, r), rows, m, w)
<1> DEFINE S == Elements(t) \cup {r}
           new == Append(t, r)
<1>1. t \in Seq(S) /\ r \in S
  BY DEF IsSequence
<1> HIDE DEF S
<1>2. Len(t) = Len(rows)
  BY DEF Level
<1>3. Len(new) = Len(rows) + 1 /\ new[Len(new)] = r /\ \A x \in 1 .. Len(rows) : new[x] = t[x]
  BY <1>1, <1>2, AppendProperties
<1> HIDE DEF new
<1>4. Mirrors(new, rows)
  BY <1>3 DEF Level, Mirrors
<1>5. Ahead(new, rows, m, w)
  BY <1>3, <1>4 DEF Ahead
<1> QED
  BY <1>5 DEF new

\* A witness that is ahead saves it again.
LEMMA AheadReplaced ==
    ASSUME NEW t, IsSequence(t), NEW rows, Len(rows) \in Nat, NEW m, NEW v, Ahead(t, rows, m, v),
           \A x \in 1 .. Len(rows) : t[x].body.d # m.body.d,
           NEW r, IsRow(r), Copy(r) = Copy(m),
           NEW w, Placed(r.wigs), BackerIndex(Backers, w) \in DOMAIN r.wigs
    PROVE /\ RowOf(t, m.body.d) = Len(t) /\ Stores(t, m.body.d)
          /\ Ahead(SaveMessage(t, r), rows, m, w)
          /\ SaveMessage(t, r)[Len(SaveMessage(t, r))] = r
<1> DEFINE n == Len(rows)
           last == n + 1
           d == m.body.d
<1>1. /\ Len(t) = last /\ last \in DOMAIN t /\ DOMAIN t = 1 .. last /\ n \in Nat
      /\ t \in Seq(Elements(t))
  BY DEF Ahead, IsSequence
<1>2. t[last].body = m.body
  BY <1>1 DEF Ahead, Copy
<1>3. Stores(t, d)
  BY <1>1, <1>2 DEF Stores, Elements
<1>4. RowOf(t, d) = last
  <2>1. RowOf(t, d) \in DOMAIN t /\ t[RowOf(t, d)].body.d = d
    BY <1>1, <1>3, RowFound
  <2>2. \A x \in 1 .. last : x \in 1 .. n \/ x = last
    BY <1>1
  <2> QED
    BY <1>1, <2>1, <2>2
<1>5. r.body = m.body /\ r.sigs = m.sigs
  BY DEF Copy
<1>6. [r EXCEPT !.body = t[last].body] = r
  BY <1>2, <1>5 DEF IsRow
<1>7. SaveMessage(t, r) = [t EXCEPT ![last] = r]
  BY <1>3, <1>4, <1>5, <1>6 DEF SaveMessage, ReplaceAt
<1> DEFINE S == Elements(t) \cup {r}
           new == [t EXCEPT ![last] = r]
<1>8. t \in Seq(S) /\ r \in S
  BY <1>1
<1> HIDE DEF S, last, d
<1>9. /\ Len(new) = last /\ new[last] = r
      /\ \A x \in 1 .. n : new[x] = t[x]
  <2>1. /\ Len(new) = Len(t) /\ \A y \in 1 .. Len(t) : new[y] = IF y = last THEN r ELSE t[y]
    BY <1>1, <1>8, ExceptSeq
  <2>2. last \in 1 .. last /\ \A x \in 1 .. n : x \in 1 .. last /\ x # last
    BY <1>1 DEF last
  <2> QED
    BY <1>1, <2>1, <2>2
<1> HIDE DEF new
<1>10. Mirrors(new, rows)
  BY <1>9 DEF Ahead, Mirrors, n
<1>11. Ahead(new, rows, m, w)
  BY <1>9, <1>10 DEF Ahead, last, n
<1> QED
  BY <1>1, <1>3, <1>4, <1>7, <1>9, <1>11 DEF new, d

\* The witness that is asked next answers, or has answered already.
LEMMA AskedNext ==
    ASSUME NEW receipts \in Seq(Witnesses), NEW todo \in Seq(Witnesses), todo # <<>>, Asking(receipts, todo)
    PROVE /\ Asking(WithReceipt(receipts, Head(todo)), Tail(todo))
          /\ Elements(WithReceipt(receipts, Head(todo))) = Elements(receipts) \cup {Head(todo)}
<1> DEFINE w == Head(todo)
           rest == Tail(todo)
           next == WithReceipt(receipts, w)
<1>1. /\ Len(todo) \in Nat /\ Len(todo) # 0 /\ w \in Witnesses /\ w = todo[1]
      /\ Len(rest) = Len(todo) - 1 /\ \A x \in 1 .. Len(rest) : rest[x] = todo[x + 1]
  OBVIOUS
<1>2. Len(receipts) \in Nat /\ DOMAIN receipts = 1 .. Len(receipts)
  OBVIOUS
<1>3. Len(Backers) \in Nat
  BY KawaAssumption DEF IsSequence
<1> HIDE DEF w, rest, next
<1>4. /\ Elements(next) = Elements(receipts) \cup {w}
      /\ \A x, y \in DOMAIN next : next[x] = next[y] => x = y
  <2>1. CASE w \in Elements(receipts)
    BY <2>1 DEF next, WithReceipt, Asking
  <2>2. CASE w \notin Elements(receipts)
    <3>1. next = Append(receipts, w)
      BY <2>2 DEF next, WithReceipt
    <3>2. /\ DOMAIN next = 1 .. Len(receipts) + 1 /\ next[Len(receipts) + 1] = w
          /\ \A x \in 1 .. Len(receipts) : next[x] = receipts[x] /\ x \in DOMAIN next
          /\ Len(receipts) + 1 \in DOMAIN next
      BY <1>1, <1>2, <3>1
    <3>3. \A x \in DOMAIN next : x \in 1 .. Len(receipts) \/ x = Len(receipts) + 1
      BY <1>2, <3>2
    <3>4. Elements(next) = Elements(receipts) \cup {w}
      BY <1>2, <3>2, <3>3 DEF Elements
    <3>5. \A x \in DOMAIN receipts : receipts[x] # w
      BY <2>2 DEF Elements
    <3>6. \A x, y \in DOMAIN next : next[x] = next[y] => x = y
      BY <1>2, <3>2, <3>3, <3>5 DEF Asking
    <3> QED
      BY <3>4, <3>6
  <2> QED
    BY <2>1, <2>2
<1>5. PICK n \in 0 .. Len(Backers) :
        /\ Elements(receipts) = {Backers[x] : x \in 1 .. n}
        /\ n + Len(todo) = Len(Backers)
        /\ \A x \in 1 .. Len(todo) : todo[x] = Backers[n + x]
  BY DEF Asking
<1>6. n + 1 \in 0 .. Len(Backers) /\ (n + 1) + Len(rest) = Len(Backers)
  BY <1>1, <1>3, <1>5
<1>7. Backers[n + 1] = w
  BY <1>1, <1>5
<1>8. Elements(next) = {Backers[x] : x \in 1 .. n + 1}
  <2>1. \A x : x \in 1 .. n + 1 <=> x \in 1 .. n \/ x = n + 1
    BY <1>5
  <2> QED
    BY <1>4, <1>5, <1>7, <2>1
<1>9. \A x \in 1 .. Len(rest) : rest[x] = Backers[(n + 1) + x]
  <2> TAKE x \in 1 .. Len(rest)
  <2>1. x + 1 \in 1 .. Len(todo) /\ n + (x + 1) = (n + 1) + x
    BY <1>1, <1>5
  <2> QED
    BY <1>1, <1>5, <2>1
<1>10. Asking(next, rest)
  BY <1>4, <1>6, <1>8, <1>9 DEF Asking
<1> QED
  BY <1>4, <1>10 DEF next, rest, w

LEMMA CourseKept ==
    ASSUME IInv, AInv, overlaps = 0, NEW c \in Sessions, Active(c),
           DOMAIN call' = Sessions, \A e \in Sessions : e # c => call'[e] = call[e],
           store' = store, call'[c].pc # "idle", OnCourse(call'[c], store, stored')
    PROVE AInv'
<1>1. \A e \in Sessions : Active(e)' => e = c
  BY Alone DEF Active
<1>2. Active(c)'
  BY DEF Active
<1>3. Numbered(store') /\ (store' # <<>> => ParsedThreshold(Toad) <= Cardinality(Witnesses))
  BY DEF AInv
<1>4. \A e \in Sessions : Active(e)' => OnCourse(call'[e], store', stored')
  BY <1>1
<1> QED
  BY <1>2, <1>3, <1>4 DEF AInv

-----------------------------------------------------------------------------
(* The steps of a call that nothing disturbs. *)

\* What the steps of a call may change, and what they leave.
Proceeds(c, pc, todo, receipts) ==
    /\ DOMAIN call' = Sessions /\ \A e \in Sessions : e # c => call'[e] = call[e]
    /\ call'[c].pc = pc /\ call'[c].todo = todo /\ call'[c].receipts = receipts
    /\ call'[c].event = call[c].event /\ call'[c].toad = call[c].toad

LEMMA StepProceeds ==
    ASSUME IInv, NEW c \in Sessions, call[c].pc # "idle", NEW pc, Step(c, pc)
    PROVE Proceeds(c, pc, Tail(call[c].todo), call[c].receipts)
<1>1. Active(c) /\ DOMAIN call = Sessions /\ DOMAIN call[c] = CallFields
  BY UnderWay
<1>2. /\ DOMAIN call' = Sessions /\ \A e \in Sessions : e # c => call'[e] = call[e]
      /\ call'[c] = [call[c] EXCEPT !.pc = pc, !.todo = Tail(call[c].todo)]
  BY <1>1 DEF Step
<1> QED
  BY <1>1, <1>2 DEF Proceeds, CallFields

LEMMA RequestReceiptCourse ==
    ASSUME IInv, AInv, overlaps = 0, NEW c \in Sessions, RequestReceipt(c)
    PROVE AInv'
<1>1. /\ call[c].pc = "receipts" /\ store' = store /\ stored' = stored
      /\ call' = [call EXCEPT ![c].pc = "waiting"]
  BY DEF RequestReceipt, BeginReceipt
<1>2. Active(c) /\ DOMAIN call = Sessions /\ DOMAIN call[c] = CallFields
  BY <1>1, UnderWay
<1>3. /\ DOMAIN call' = Sessions /\ \A e \in Sessions : e # c => call'[e] = call[e]
      /\ call'[c] = [call[c] EXCEPT !.pc = "waiting"]
  BY <1>1, <1>2
<1>4. Proceeds(c, "waiting", call[c].todo, call[c].receipts)
  BY <1>2, <1>3 DEF Proceeds, CallFields
<1>5. OnCourse(call[c], store, stored)
  BY <1>2 DEF AInv
<1>6. OnCourse(call'[c], store, stored')
  BY <1>1, <1>4, <1>5 DEF OnCourse, Proceeds
<1> QED
  BY <1>1, <1>2, <1>4, <1>6, CourseKept DEF Proceeds

\* A witness refuses nothing but what it has receipted.
LEMMA NoReceiptCourse ==
    ASSUME IInv, SInv, AInv, overlaps = 0, NEW c \in Sessions, NoReceipt(c)
    PROVE AInv'
<1> DEFINE k == call[c]
           w == Head(k.todo)
<1>1. /\ k.pc = "receipts" /\ k.todo # <<>> /\ ~Receiptable(w, k.event)
      /\ Step(c, "receipts") /\ store' = store /\ stored' = stored
  BY DEF NoReceipt
<1>2. w \in Witnesses /\ Active(c) /\ CallTyped(c)
  BY <1>1, Asked
<1>3. OnCourse(k, store, stored)
  BY <1>2 DEF AInv
<1>4. /\ k.todo \in Seq(Witnesses) /\ k.receipts \in Seq(Witnesses) /\ Built(k.event.body)
      /\ Fits(k.event, k.toad, store) /\ InStep(k.event, k.receipts, store, stored)
      /\ Asking(k.receipts, k.todo)
  BY <1>1, <1>2, <1>3 DEF CallTyped, OnCourse
<1>5. w \in Elements(k.receipts)
  <2> SUFFICES ASSUME w \notin Elements(k.receipts) PROVE FALSE
    OBVIOUS
  <2>1. Level(stored[w], store)
    BY <1>2, <1>4 DEF InStep
  <2>2. store # <<>> => Toad <= Cardinality(Witnesses)
    <3>1. store # <<>> => ParsedThreshold(Toad) <= Cardinality(Witnesses)
      BY DEF AInv
    <3>2. Toad \in Nat /\ Cardinality(Witnesses) \in Nat
      BY WitnessesFinite, KawaAssumption DEF IsSequence
    <3> QED
      BY <3>1, <3>2, ParsedNotLess
  <2> HIDE DEF w, k
  <2>3. Receiptable(w, k.event)
    BY <1>2, <1>4, <2>1, <2>2, LevelReceipts
  <2> QED
    BY <1>1, <2>3
<1>6. Asking(k.receipts, Tail(k.todo))
  <2>1. WithReceipt(k.receipts, w) = k.receipts
    BY <1>5 DEF WithReceipt
  <2> QED
    BY <1>1, <1>4, <2>1, AskedNext
<1>7. Proceeds(c, "receipts", Tail(k.todo), k.receipts)
  BY <1>1, StepProceeds
<1>8. OnCourse(call'[c], store, stored')
  BY <1>1, <1>4, <1>6, <1>7 DEF OnCourse, Proceeds
<1> QED
  BY <1>1, <1>2, <1>7, <1>8, CourseKept DEF Proceeds

LEMMA ReceiptCourse ==
    ASSUME IInv, SInv, CInv, AInv, overlaps = 0, NEW c \in Sessions, Receipt(c)
    PROVE AInv'
<1> DEFINE k == call[c]
           w == Head(k.todo)
<1>1. k.pc = "waiting" /\ store' = store
  BY DEF Receipt
<1>2. Active(c) /\ CallTyped(c) /\ DOMAIN call = Sessions /\ DOMAIN k = CallFields
  BY <1>1, UnderWay
<1>3. k.todo \in Seq(Witnesses) /\ k.todo # <<>> /\ k.receipts \in Seq(Witnesses) /\ w \in Witnesses
  BY <1>1, <1>2 DEF CallTyped
<1>4. PICK request \in signing[w] : request.id = k.id /\ FinishReceipt(w, request)
  BY DEF Receipt
<1>5. call' = [call EXCEPT ![c].pc = "receipts", ![c].todo = Tail(@), ![c].receipts = WithReceipt(@, w)]
  BY DEF Receipt
<1>6. PICK r, t, m : r = request.row /\ t = stored[w] /\ m = k.event
  OBVIOUS
<1>7. /\ IsRow(r) /\ r.body = m.body /\ r.sigs = m.sigs /\ r.wigs = Own(w)
  <2>1. \A e \in Sessions : call[e].pc = "waiting" => e = c
    BY <1>2, Alone DEF Active
  <2>2. r.sigs = m.sigs /\ r.wigs = Own(w)
    BY <1>3, <1>4, <1>6, <2>1 DEF CInv, RequestsFit
  <2>3. IsRow(r) /\ r.body = m.body
    BY <1>2, <1>3, <1>4, <1>6 DEF IInv, Typed, RequestsFounded
  <2> QED
    BY <2>2, <2>3
<1>8. stored' = [stored EXCEPT ![w] = SaveMessage(t, r)] /\ DOMAIN stored = Witnesses
  BY <1>4, <1>6 DEF FinishReceipt, IInv, Typed
<1>9. /\ OnCourse(k, store, stored) /\ Fits(m, k.toad, store)
      /\ InStep(m, k.receipts, store, stored) /\ Asking(k.receipts, k.todo)
  BY <1>1, <1>2, <1>6 DEF AInv, OnCourse
<1>10. IsTable(t) /\ IsSequence(t) /\ Len(store) \in Nat /\ Numbered(store)
  BY <1>3, <1>6, NextIsLen DEF IInv, Typed, IsTable, AInv
<1> DEFINE next == WithReceipt(k.receipts, w)
<1>11. Asking(next, Tail(k.todo)) /\ Elements(next) = Elements(k.receipts) \cup {w}
  BY <1>3, <1>9, AskedNext
<1>12. Proceeds(c, "receipts", Tail(k.todo), next)
  <2>1. PICK todo, receipts : todo = Tail(k.todo) /\ receipts = next
    OBVIOUS
  <2>2. /\ DOMAIN call' = Sessions /\ \A e \in Sessions : e # c => call'[e] = call[e]
        /\ call'[c] = [call[c] EXCEPT !.pc = "receipts", !.todo = todo, !.receipts = receipts]
    BY <1>2, <1>5, <2>1
  <2>3. Proceeds(c, "receipts", todo, receipts)
    BY <1>2, <2>2 DEF Proceeds, CallFields
  <2> QED
    BY <2>1, <2>3
<1> HIDE DEF next, w, k
<1>13. Copy(r) = Copy(m) /\ Placed(r.wigs) /\ BackerIndex(Backers, w) \in DOMAIN r.wigs
  BY <1>3, <1>7, PlacesCounted DEF Copy, Placed, Own
<1>14. w \in Elements(k.receipts) => Ahead(t, store, m, w)
  BY <1>3, <1>6, <1>9 DEF InStep
<1>15. w \notin Elements(k.receipts) => Level(t, store)
  BY <1>3, <1>6, <1>9 DEF InStep
<1>16. \A x \in 1 .. Len(store) : t[x].body.d # m.body.d /\ t[x].body.s <= m.body.s
  <2>1. Mirrors(t, store) /\ Len(store) <= Len(t)
    BY <1>10, <1>14, <1>15 DEF Ahead, Level
  <2> QED
    BY <1>2, <1>3, <1>6, <1>10, <2>1, EventNew DEF k
<1>17. Ahead(SaveMessage(t, r), store, m, w)
  <2>1. CASE w \in Elements(k.receipts)
    BY <1>7, <1>10, <1>13, <1>14, <1>16, <2>1, AheadReplaced
  <2>2. CASE w \notin Elements(k.receipts)
    <3>1. Level(t, store)
      BY <1>15, <2>2
    <3>2. DOMAIN t = 1 .. Len(store)
      BY <1>10, <3>1 DEF Level, IsSequence
    <3>3. ~Stores(t, r.body.d) /\ \A x \in DOMAIN t : t[x].body.s <= r.body.s
      BY <1>7, <1>16, <3>2 DEF Stores, Elements
    <3>4. SaveMessage(t, r) = Append(t, r)
      <4> DEFINE S == Elements(t) \cup {r}
      <4>1. t \in Seq(S) /\ r \in S
        BY <1>10 DEF IsSequence
      <4> HIDE DEF S
      <4> QED
        BY <3>3, <4>1, SavedLast
    <3> QED
      BY <1>10, <1>13, <3>1, <3>4, AheadAppended
  <2> QED
    BY <2>1, <2>2
<1>18. InStep(m, next, store, stored')
  <2>1. \A v \in Witnesses : stored'[v] = IF v = w THEN SaveMessage(t, r) ELSE stored[v]
    BY <1>8
  <2>2. \A v \in Witnesses : v # w => (v \in Elements(next) <=> v \in Elements(k.receipts))
    BY <1>11
  <2> QED
    BY <1>9, <1>11, <1>17, <2>1, <2>2 DEF InStep
<1>19. OnCourse(call'[c], store, stored')
  BY <1>6, <1>9, <1>11, <1>12, <1>18 DEF OnCourse, Proceeds, k
<1> QED
  BY <1>1, <1>2, <1>12, <1>19, CourseKept DEF Proceeds

LEMMA AgreeCourse ==
    ASSUME IInv, AInv, overlaps = 0, NEW c \in Sessions, Agree(c)
    PROVE AInv'
<1> DEFINE k == call[c]
           exchanges == Exchanges(Backers, k.receipts)
<1>1. /\ k.pc = "receipts" /\ k.todo = <<>> /\ Len(k.receipts) >= k.toad
      /\ call' = [call EXCEPT ![c].pc = "distribution", ![c].todo = Exchanges(k.endpoints, k.receipts)]
      /\ store' = store /\ stored' = stored
  BY DEF Agree
<1>2. Active(c) /\ CallTyped(c) /\ DOMAIN call = Sessions /\ DOMAIN k = CallFields
  BY <1>1, UnderWay
<1>3. k.endpoints = Backers /\ k.receipts \in Seq(Witnesses)
  BY <1>2 DEF CallTyped
<1>4. PICK todo : todo = exchanges
  OBVIOUS
<1>5. Proceeds(c, "distribution", todo, k.receipts)
  <2>1. /\ DOMAIN call' = Sessions /\ \A e \in Sessions : e # c => call'[e] = call[e]
        /\ call'[c] = [call[c] EXCEPT !.pc = "distribution", !.todo = todo]
    BY <1>1, <1>2, <1>3, <1>4
  <2> QED
    BY <1>2, <2>1 DEF Proceeds, CallFields
<1>6. /\ Fits(k.event, k.toad, store) /\ InStep(k.event, k.receipts, store, stored)
      /\ Asking(k.receipts, <<>>)
  BY <1>1, <1>2 DEF AInv, OnCourse
<1>7. Elements(k.receipts) = Witnesses /\ Len(k.receipts) = Cardinality(Witnesses)
  BY <1>3, <1>6, AllAsked
<1>8. Telling(k.receipts, todo, stored)
  <2>1. Backers \in Seq(Witnesses) /\ Elements(Backers) = Witnesses
    BY KawaAssumption DEF IsSequence
  <2> HIDE DEF k, exchanges
  <2>2. /\ todo \in Seq([to : Witnesses, receipt : Witnesses])
        /\ \A w, v \in Witnesses : v # w => [to |-> w, receipt |-> v] \in Elements(todo)
    BY <1>3, <1>4, <1>7, <2>1, EverythingTold DEF exchanges
  <2>3. \A w \in Witnesses : BackerIndex(Backers, w) \in DOMAIN stored[w][Len(stored[w])].wigs
    BY <1>6, <1>7 DEF InStep, Ahead
  <2> QED
    BY <1>7, <2>2, <2>3 DEF Telling
<1>9. k.toad <= Cardinality(Witnesses)
  BY <1>1, <1>7
<1>10. OnCourse(call'[c], store, stored')
  BY <1>1, <1>5, <1>6, <1>8, <1>9 DEF OnCourse, Proceeds
<1> QED
  BY <1>1, <1>2, <1>5, <1>10, CourseKept DEF Proceeds

LEMMA CourseEnds ==
    ASSUME IInv, overlaps = 0, NEW c \in Sessions, Active(c), NEW r, r.pc = "idle", call' = [call EXCEPT ![c] = r],
           Numbered(store'), store' # <<>> => ParsedThreshold(Toad) <= Cardinality(Witnesses),
           Stillborn' \/ \A w \in Witnesses : Level(stored'[w], store')
    PROVE AInv'
<1>1. DOMAIN call = Sessions
  BY DEF IInv, Typed
<1>2. \A e \in Sessions : call'[e] = IF e = c THEN r ELSE call[e]
  BY <1>1
<1>3. \A e \in Sessions : ~Active(e)'
  BY <1>2, Alone DEF Active
<1> QED
  BY <1>3 DEF AInv


\* Only an inception is refused for want of receipts: when its threshold is read
\* as more than there are witnesses.
LEMMA DisagreeCourse ==
    ASSUME IInv, CInv, AInv, overlaps = 0, NEW c \in Sessions, Disagree(c)
    PROVE AInv'
<1> DEFINE k == call[c]
<1>1. /\ k.pc = "receipts" /\ k.todo = <<>> /\ Len(k.receipts) < k.toad
      /\ Fail(c) /\ store' = store /\ stored' = stored /\ keyCount' = keyCount
  BY DEF Disagree
<1>2. Active(c) /\ CallTyped(c)
  BY <1>1, UnderWay
<1>3. /\ Fits(k.event, k.toad, store) /\ InStep(k.event, k.receipts, store, stored)
      /\ Asking(k.receipts, <<>>)
  BY <1>1, <1>2 DEF AInv, OnCourse
<1>4. Elements(k.receipts) = Witnesses /\ Len(k.receipts) = Cardinality(Witnesses)
  BY <1>2, <1>3, AllAsked DEF CallTyped
<1>5. k.event.body.t = "icp" /\ ~(ParsedThreshold(Toad) <= Cardinality(Witnesses))
  <2>1. k.toad \in Nat /\ Cardinality(Witnesses) \in Nat /\ Cardinality(Witnesses) < k.toad
    BY <1>1, <1>3, <1>4, WitnessesFinite DEF Fits
  <2>2. ~(k.toad <= Cardinality(Witnesses))
    BY <2>1
  <2> QED
    BY <1>3, <2>2 DEF Fits
<1>6. store = <<>>
  BY <1>5 DEF AInv
<1>7. keyCount # 0
  BY <1>2 DEF IInv, Unborn
<1>8. \A w \in Witnesses : \A row \in Elements(stored[w]) : row.body = InceptEvent(1, 2)
  <2> SUFFICES ASSUME NEW w \in Witnesses, NEW row \in Elements(stored[w]) PROVE row.body = InceptEvent(1, 2)
    OBVIOUS
  <2>1. Ahead(stored[w], store, k.event, w)
    BY <1>3, <1>4 DEF InStep
  <2>2. Len(stored[w]) = 1 /\ Copy(stored[w][1]) = Copy(k.event)
    <3>1. Len(store) = 0
      BY <1>6
    <3> QED
      BY <2>1, <3>1 DEF Ahead
  <2>3. row = stored[w][1]
    BY <2>2 DEF Elements, IInv, Typed, IsTable, IsSequence
  <2>4. Copy(k.event) \in Known
    BY <1>2, IsKnown
  <2>5. Copy(k.event) = Copy(Signed(InceptEvent(1, 2), <<1>>))
    BY <1>5, <2>4 DEF CInv, KnownBuilt, BuiltFrom, Copy
  <2>6. Copy(Signed(InceptEvent(1, 2), <<1>>)).body = InceptEvent(1, 2)
    BY DEF Copy, Signed
  <2> QED
    BY <2>2, <2>3, <2>5, <2>6 DEF Copy
<1>9. Stillborn'
  BY <1>1, <1>6, <1>7, <1>8 DEF Stillborn
<1>10. PICK r : r.pc = "idle" /\ call' = [call EXCEPT ![c] = r]
  BY <1>1 DEF Fail
<1>11. Numbered(store') /\ (store' # <<>> => ParsedThreshold(Toad) <= Cardinality(Witnesses))
  BY <1>1 DEF AInv
<1> QED
  BY <1>2, <1>9, <1>10, <1>11, CourseEnds

\* An event whose receipts are distributed can be stored.
LEMMA Reached ==
    ASSUME IInv, AInv, NEW c \in Sessions, call[c].pc = "distribution"
    PROVE ParsedThreshold(Toad) <= Cardinality(Witnesses) /\ Toad <= Cardinality(Witnesses)
<1>1. Active(c)
  BY UnderWay
<1>2. Fits(call[c].event, call[c].toad, store) /\ call[c].toad <= Cardinality(Witnesses)
  BY <1>1 DEF AInv, OnCourse
<1>3. ParsedThreshold(Toad) <= Cardinality(Witnesses)
  <2>1. CASE call[c].event.body.t = "icp"
    BY <1>2, <2>1 DEF Fits
  <2>2. CASE call[c].event.body.t # "icp"
    <3>1. PICK log \in From(store, Strict) : CanAppend(log, call[c].event, PartiallyWitnessed)
      BY <1>2 DEF Fits
    <3>2. call[c].event.body.t \in {"icp", "ixn", "rot"}
      BY <1>1 DEF IInv, Typed, CallTyped, Built
    <3>3. HasState(log)
      BY <2>2, <3>1, <3>2 DEF CanAppend, CanIncept, CanInteract, CanRotate, IsInception
    <3>4. store # <<>>
      BY <3>1, <3>3, LogRead
    <3> QED
      BY <3>4 DEF AInv
  <2> QED
    BY <2>1, <2>2
<1>4. Toad \in Nat /\ Cardinality(Witnesses) \in Nat
  BY WitnessesFinite, KawaAssumption DEF IsSequence
<1> QED
  BY <1>3, <1>4, ParsedNotLess

\* The witnesses answer 500 to no receipt.
LEMMA DeliveryAnswered ==
    ASSUME CInv, AInv, IInv, NEW c \in Sessions, DeliveryRefused(c)
    PROVE FALSE
<1>1. call[c].pc = "distribution" /\ call[c].todo # <<>> /\ ~Answers(Head(call[c].todo).to)
  BY DEF DeliveryRefused
<1>2. Active(c)
  BY <1>1, UnderWay
<1>3. call[c].todo \in Seq([to : Witnesses, receipt : Witnesses])
  BY <1>1, <1>2 DEF AInv, OnCourse, Telling
<1>4. Head(call[c].todo) \in [to : Witnesses, receipt : Witnesses]
  <2>1. \A M : \A s \in Seq(M) : s # <<>> => Head(s) \in M
    OBVIOUS
  <2> QED
    BY <1>1, <1>3, <2>1, Zenon
<1>5. Head(call[c].todo).to \in Witnesses
  BY <1>4
<1> QED
  BY <1>1, <1>5 DEF CInv, RowsReplay, Answers

\* A receipt that is distributed is joined to the row of the event.
LEMMA DeliverCourse ==
    ASSUME IInv, SInv, CInv, AInv, overlaps = 0, NEW c \in Sessions, Deliver(c)
    PROVE AInv'
<1> DEFINE k == call[c]
           M == [to : Witnesses, receipt : Witnesses]
<1>1. /\ k.pc = "distribution" /\ k.todo # <<>> /\ store' = store
      /\ Distribute(c) /\ Step(c, "distribution")
  BY DEF Deliver
<1>2. Active(c) /\ CallTyped(c)
  BY <1>1, UnderWay
<1>3. /\ Fits(k.event, k.toad, store) /\ InStep(k.event, k.receipts, store, stored)
      /\ k.toad <= Cardinality(Witnesses) /\ Telling(k.receipts, k.todo, stored)
  BY <1>1, <1>2 DEF AInv, OnCourse
<1>4. PICK next, rest : /\ next = Head(k.todo) /\ rest = Tail(k.todo)
                        /\ next \in M /\ rest \in Seq(M)
                        /\ \A e \in Elements(k.todo) : e = next \/ e \in Elements(rest)
  <2> HIDE DEF M, k
  <2>1. k.todo \in Seq(M) /\ k.todo # <<>>
    BY <1>1, <1>3 DEF Telling, M
  <2>2. PICK todo : todo = k.todo
    OBVIOUS
  <2>3. /\ Len(todo) \in Nat /\ DOMAIN todo = 1 .. Len(todo)
        /\ Head(todo) = todo[1] /\ Head(todo) \in M /\ Tail(todo) \in Seq(M)
        /\ Len(Tail(todo)) = Len(todo) - 1
        /\ \A x \in 1 .. Len(todo) - 1 : Tail(todo)[x] = todo[x + 1]
    BY <2>1, <2>2
  <2>4. \A x \in 1 .. Len(todo) : x = 1 \/ (x - 1 \in 1 .. Len(todo) - 1 /\ (x - 1) + 1 = x)
    BY <2>3
  <2>5. DOMAIN Tail(todo) = 1 .. Len(todo) - 1
    BY <2>3
  <2>6. \A e \in Elements(todo) : e = Head(todo) \/ e \in Elements(Tail(todo))
    <3> SUFFICES ASSUME NEW x \in 1 .. Len(todo), x # 1 PROVE todo[x] \in Elements(Tail(todo))
      BY <2>3 DEF Elements
    <3>1. x - 1 \in DOMAIN Tail(todo) /\ Tail(todo)[x - 1] = todo[x]
      BY <2>3, <2>4, <2>5
    <3> QED
      BY <3>1 DEF Elements
  <2> QED
    BY <2>2, <2>3, <2>6
<1>5. PICK w, other, m, t : w = next.to /\ other = next.receipt /\ m = k.event /\ t = stored[w]
  OBVIOUS
<1>6. w \in Witnesses /\ other \in Witnesses /\ next = [to |-> w, receipt |-> other]
  BY <1>4, <1>5
<1>7. HandleReceipt(w, m.body.d, other)
  BY <1>1, <1>4, <1>5 DEF Distribute
<1> HIDE DEF M
<1>8. /\ IsSequence(t) /\ Len(store) \in Nat /\ Numbered(store) /\ DOMAIN stored = Witnesses
      /\ IsTable(t) /\ t \in Seq(Elements(t)) /\ \A row \in Elements(t) : Built(row.body)
  BY <1>5, <1>6, NextIsLen, TablesHold DEF IInv, Typed, IsTable, IsSequence, AInv, CInv, Holding, Fine
<1>9. Ahead(t, store, m, w) /\ \A v \in Witnesses : Ahead(stored[v], store, m, v)
  BY <1>3, <1>5, <1>6 DEF InStep, Telling
<1>10. \A x \in 1 .. Len(store) : t[x].body.d # m.body.d
  <2>1. Mirrors(t, store) /\ Len(store) <= Len(t)
    BY <1>8, <1>9 DEF Ahead
  <2> QED
    BY <1>2, <1>5, <1>6, <1>8, <2>1, EventNew
<1>11. PICK last : /\ last = t[Len(t)] /\ last \in Elements(t) /\ IsRow(last) /\ Copy(last) = Copy(m)
                   /\ Placed(last.wigs) /\ BackerIndex(Backers, w) \in DOMAIN last.wigs
  <2>1. Len(t) \in DOMAIN t
    BY <1>8, <1>9 DEF Ahead, IsSequence
  <2>2. t[Len(t)] \in Elements(t) /\ IsRow(t[Len(t)])
    BY <1>8, <2>1 DEF Elements, IsTable
  <2> QED
    BY <1>9, <2>2 DEF Ahead
<1>12. RowOf(t, m.body.d) = Len(t) /\ Stores(t, m.body.d)
  BY <1>8, <1>9, <1>10, <1>11, AheadReplaced
<1>13. PICK wigs, r : /\ wigs = MergedWigs(Backers, last.wigs, other)
                      /\ r = [last EXCEPT !.wigs = wigs, !.hints = {}]
                      /\ stored' = [stored EXCEPT ![w] = SaveMessage(t, r)]
  <2>1. PICK kel \in From(t, PartiallyWitnessed) :
          IF HasState(kel) /\ w \in Elements(kel.state.backers) /\ Includes(kel, m.body.d)
          THEN LET row == t[RowOf(t, m.body.d)]
               IN  stored' = [stored EXCEPT ![w] = SaveMessage(t,
                       [row EXCEPT !.wigs = MergedWigs(kel.state.backers, row.wigs, other), !.hints = {}])]
          ELSE UNCHANGED stored
    BY <1>5, <1>7, <1>8 DEF HandleReceipt
  <2>2. StateOf(kel, t)
    BY <1>8, <2>1, Replayed
  <2>3. t # <<>>
    BY <1>8, <1>9 DEF Ahead
  <2>4. HasState(kel) /\ kel.state.backers = Backers /\ Includes(kel, m.body.d)
    BY <1>12, <2>2, <2>3 DEF StateOf, HasState, Includes
  <2>5. w \in Elements(Backers)
    BY <1>6, KawaAssumption
  <2> QED
    BY <1>11, <1>12, <2>1, <2>4, <2>5
<1>14. IsRow(r) /\ Copy(r) = Copy(m) /\ r.wigs = wigs
  <2>1. IsRow(r)
    BY <1>11, <1>13, RowJoined
  <2>2. r.body = last.body /\ r.sigs = last.sigs /\ r.wigs = wigs
    BY <1>11, <1>13 DEF IsRow
  <2> QED
    BY <1>11, <2>1, <2>2 DEF Copy
<1>15. PICK index : /\ index = BackerIndex(Backers, other) /\ index \in Places /\ Backers[index] = other
                    /\ wigs = [x \in DOMAIN last.wigs \cup {index} |-> IF x = index THEN other ELSE last.wigs[x]]
  BY <1>6, <1>13, PlacesCounted, KawaAssumption DEF MergedWigs
<1>16. Placed(wigs) /\ DOMAIN wigs = DOMAIN last.wigs \cup {index}
  BY <1>11, <1>15 DEF Placed
<1>17. Ahead(SaveMessage(t, r), store, m, w) /\ SaveMessage(t, r)[Len(SaveMessage(t, r))] = r
  BY <1>8, <1>9, <1>10, <1>11, <1>14, <1>16, AheadReplaced
<1>18. \A v \in Witnesses : stored'[v] = IF v = w THEN SaveMessage(t, r) ELSE stored[v]
  BY <1>8, <1>13
<1>19. InStep(m, k.receipts, store, stored')
  BY <1>3, <1>9, <1>17, <1>18 DEF InStep, Telling
<1>20. Telling(k.receipts, rest, stored')
  <2> SUFFICES ASSUME NEW v \in Witnesses, NEW u \in Witnesses,
                      ~([to |-> v, receipt |-> u] \in Elements(rest))
               PROVE BackerIndex(Backers, u) \in DOMAIN stored'[v][Len(stored'[v])].wigs
    BY <1>3, <1>4 DEF Telling, M
  <2>1. CASE v = w /\ u = other
    BY <1>14, <1>15, <1>16, <1>17, <1>18, <2>1
  <2>2. CASE ~(v = w /\ u = other)
    <3>1. [to |-> v, receipt |-> u] # next
      BY <1>6, <2>2
    <3>2. BackerIndex(Backers, u) \in DOMAIN stored[v][Len(stored[v])].wigs
      BY <1>3, <1>4, <3>1 DEF Telling
    <3>3. CASE v = w
      BY <1>5, <1>11, <1>14, <1>16, <1>17, <1>18, <3>2, <3>3
    <3>4. CASE v # w
      BY <1>18, <3>2, <3>4
    <3> QED
      BY <3>3, <3>4
  <2> QED
    BY <2>1, <2>2
<1>21. Proceeds(c, "distribution", rest, k.receipts)
  BY <1>1, <1>4, StepProceeds
<1>22. OnCourse(call'[c], store, stored')
  BY <1>3, <1>5, <1>19, <1>20, <1>21 DEF OnCourse, Proceeds
<1> QED
  BY <1>1, <1>2, <1>21, <1>22, CourseKept DEF Proceeds

\* The event with the receipts of all witnesses, and the witnesses that have them too.
LEMMA FullRow ==
    ASSUME IInv, AInv, NEW c \in Sessions, call[c].pc = "distribution", call[c].todo = <<>>
    PROVE /\ IsRow(Witnessed(c)) /\ Copy(Witnessed(c)) = Copy(call[c].event)
          /\ Full(Witnessed(c).wigs) /\ Acceptable(Witnessed(c))
          /\ \A w \in Witnesses : /\ Ahead(stored[w], store, call[c].event, w)
                                  /\ Full(stored[w][Len(stored[w])].wigs)
<1>1. Active(c) /\ CallTyped(c)
  BY UnderWay
<1>2. PICK m, k : m = Witnessed(c) /\ k = call[c]
  OBVIOUS
<1>3. /\ Fits(k.event, k.toad, store) /\ InStep(k.event, k.receipts, store, stored)
      /\ Telling(k.receipts, <<>>, stored)
  BY <1>1, <1>2 DEF AInv, OnCourse
<1>4. Elements(k.receipts) = Witnesses
  BY <1>3 DEF Telling
<1>5. /\ IsRow(m) /\ m.body = k.event.body
      /\ m.wigs = [x \in Places |-> Backers[x]]
  BY <1>1, <1>2, <1>4, WitnessedRow DEF Places
<1>6. m.sigs = k.event.sigs
  BY <1>1, <1>2 DEF Witnessed, CallTyped, IsRow
<1>7. Copy(m) = Copy(k.event) /\ Full(m.wigs)
  BY <1>5, <1>6 DEF Copy, Full, Placed
<1>8. Acceptable(m)
  <2>1. PICK log \in From(store, Strict) : CanAppend(log, k.event, PartiallyWitnessed)
    BY <1>3 DEF Fits
  <2>2. StateOf(log, store)
    BY <2>1, Replayed DEF IInv, Typed, IsTable
  <2>3. Accepted(m.wigs, Strict)
    BY <1>7, Reached, FullAccepted
  <2>4. Built(k.event.body)
    BY <1>1, <1>2 DEF CallTyped
  <2>5. CanAppend(log, m, Strict)
    <3>1. Strict \in {Strict, PartiallyWitnessed} /\ PartiallyWitnessed \in {Strict, PartiallyWitnessed}
      OBVIOUS
    <3>2. log.state = log.state /\ (HasState(log) <=> HasState(log))
      OBVIOUS
    <3> QED
      BY <1>5, <1>6, <2>1, <2>2, <2>3, <2>4, <3>1, <3>2, OtherReceipts
  <2> QED
    BY <2>1, <2>5 DEF Acceptable
<1>9. ASSUME NEW w \in Witnesses
      PROVE Ahead(stored[w], store, k.event, w) /\ Full(stored[w][Len(stored[w])].wigs)
  <2>1. Ahead(stored[w], store, k.event, w)
    BY <1>3, <1>4 DEF InStep
  <2>2. PICK last : last = stored[w][Len(stored[w])]
    OBVIOUS
  <2>3. Placed(last.wigs)
    BY <2>1, <2>2 DEF Ahead
  <2>4. \A v \in Witnesses : BackerIndex(Backers, v) \in DOMAIN last.wigs
    BY <1>3, <2>2 DEF Telling, Elements
  <2>5. DOMAIN last.wigs = Places
    BY <2>3, <2>4 DEF Placed, Places
  <2> QED
    BY <2>1, <2>2, <2>3, <2>5 DEF Full
<1> QED
  BY <1>2, <1>5, <1>7, <1>8, <1>9

LEMMA FinishCourse ==
    ASSUME IInv, SInv, CInv, AInv, overlaps = 0, NEW c \in Sessions, Finish(c)
    PROVE AInv'
<1>1. PICK m, k : m = Witnessed(c) /\ k = call[c]
  OBVIOUS
<1>2. /\ k.pc = "distribution" /\ k.todo = <<>> /\ stored' = stored
      /\ store' = IF Stores(store, m.body.d) THEN store ELSE SaveMessage(store, m)
      /\ call' = [call EXCEPT ![c] = [pc |-> "idle", result |-> "ok"]]
  BY <1>1 DEF Finish
<1>3. Active(c)
  BY <1>1, <1>2, UnderWay
<1>4. /\ IsRow(m) /\ Copy(m) = Copy(k.event)
      /\ \A w \in Witnesses : /\ Ahead(stored[w], store, k.event, w)
                              /\ Full(stored[w][Len(stored[w])].wigs)
      /\ ParsedThreshold(Toad) <= Cardinality(Witnesses)
  BY <1>1, <1>2, FullRow, Reached
<1>5. m.body = k.event.body
  BY <1>4 DEF Copy
<1>6. PICK n : n = Len(store) /\ n \in Nat /\ DOMAIN store = 1 .. n /\ m.body.s = n /\ Numbered(store)
  BY <1>1, <1>3, <1>5, NextIsLen, NextEvent DEF AInv
<1>7. Numbered(store') /\ \A w \in Witnesses : Level(stored[w], store')
  <2>1. CASE Stores(store, m.body.d)
    <3>1. PICK x \in 1 .. n : store[x].body.d = m.body.d
      BY <1>6, <2>1 DEF Stores, Elements
    <3>2. ASSUME NEW w \in Witnesses PROVE FALSE
      <4>1. Mirrors(stored[w], store) /\ Len(store) <= Len(stored[w])
        BY <1>4, <1>6 DEF Ahead
      <4>2. stored[w][x].body.d # m.body.d
        BY <1>1, <1>3, <1>5, <1>6, <4>1, EventNew
      <4>3. Copy(stored[w][x]) = Copy(store[x])
        BY <1>6, <4>1 DEF Mirrors
      <4> QED
        BY <3>1, <4>2, <4>3 DEF Copy
    <3> QED
      BY <1>2, <1>6, <2>1, <3>2
  <2>2. CASE ~Stores(store, m.body.d)
    <3>1. store' = Append(store, m)
      <4>1. AtMostOneOverlap
        BY DEF AtMostOneOverlap
      <4>2. SaveMessage(store, m) = Append(store, m)
        BY <1>1, <1>3, <1>4, <1>5, <2>2, <4>1, RowAdded DEF SInv
      <4> QED
        BY <1>2, <2>2, <4>2
    <3>2. Len(store') = n + 1 /\ store'[n + 1] = m /\ \A x \in 1 .. n : store'[x] = store[x]
      <4> DEFINE S == Elements(store) \cup {m}
      <4>1. store \in Seq(S) /\ m \in S
        BY DEF IInv, Typed, IsTable, IsSequence
      <4> HIDE DEF S
      <4> QED
        BY <1>6, <3>1, <4>1, AppendProperties
    <3>3. \A x \in 1 .. n + 1 : x \in 1 .. n \/ x = n + 1
      BY <1>6
    <3>4. Numbered(store')
      <4>1. \A x \in 1 .. n : store'[x].body.s = x - 1
        BY <1>6, <3>2 DEF Numbered
      <4>2. store'[n + 1].body.s = (n + 1) - 1
        BY <1>6, <3>2
      <4> QED
        BY <3>2, <3>3, <4>1, <4>2 DEF Numbered
    <3>5. ASSUME NEW w \in Witnesses PROVE Level(stored[w], store')
      <4>1. Len(stored[w]) = n + 1 /\ Mirrors(stored[w], store) /\ Copy(stored[w][n + 1]) = Copy(m)
            /\ Full(stored[w][n + 1].wigs)
        BY <1>4, <1>6 DEF Ahead
      <4>2. Mirrors(stored[w], store')
        BY <1>6, <3>2, <3>3, <4>1 DEF Mirrors
      <4> QED
        BY <3>2, <4>1, <4>2 DEF Level
    <3> QED
      BY <3>4, <3>5
  <2> QED
    BY <2>1, <2>2
<1>8. PICK r : r.pc = "idle" /\ call' = [call EXCEPT ![c] = r]
  BY <1>2
<1> QED
  BY <1>2, <1>3, <1>4, <1>7, <1>8, CourseEnds

-----------------------------------------------------------------------------
(* Calls that begin. *)

LEMMA SingleSigned ==
    ASSUME NEW keys, \E y : keys = <<y>>
    PROVE VerifySigning(keys, Simple(1), keys, PartiallyWitnessed) /\ DOMAIN keys # {} /\ Len(keys) > 0
<1>1. Len(keys) = 1 /\ DOMAIN keys = {1}
  OBVIOUS
<1>2. ParseableThreshold(Simple(1), 1) /\ SignaturesValid(keys, keys) /\ SignedIndices(keys, keys) = {1}
  BY <1>1 DEF ParseableThreshold, Simple, SignaturesValid, SignedIndices
<1> DEFINE v == [x \in 1 .. 1 |-> 1]
<1>3. ParseThreshold(Simple(1), 1) = [required |-> 1, weights |-> v]
  BY DEF ParseThreshold, Simple
<1>4. SumMeets(v, 1, {1})
  <2>1. v \in [1 .. 1 -> {1}] /\ {1} \in SUBSET (1 .. 1)
    OBVIOUS
  <2> HIDE DEF v
  <2>2. IsFiniteSet({1}) /\ Cardinality({1}) = 1
    BY FS_Singleton
  <2>3. SumFunctionOnSet(v, {1}) = 1
    BY <2>1, <2>2, SumCounts
  <2> QED
    BY <2>3 DEF SumMeets
<1> HIDE DEF v
<1>5. VerifyThreshold(keys, Simple(1), keys)
  BY <1>1, <1>2, <1>3, <1>4 DEF VerifyThreshold
<1> QED
  BY <1>1, <1>5 DEF VerifySigning, PartiallyWitnessed, Options

\* Without receipts an event passes where they need not be enough.
LEMMA UnwitnessedPasses == \A bt : VerifyWitness(Backers, bt, <<>>, PartiallyWitnessed)
<1>1. SignaturesValid(Backers, <<>>)
  BY DEF SignaturesValid, SignedIndices
<1> QED
  BY <1>1 DEF VerifyWitness, VerifySignatures, PartiallyWitnessed, Options

\* A call that finds nobody else, and witnesses that are level.
LEMMA BeginCourse ==
    ASSUME IInv, AInv, NEW c \in Sessions, NEW m, NEW state, Commit(c, m, Backers, state),
           overlaps = 0, overlaps' = 0, ~Stillborn,
           NEW toad, toad = ParsedThreshold(IF m.body.t = "ixn" THEN state.backerThreshold ELSE m.body.bt),
           Fits(m, toad, store)
    PROVE AInv'
<1>1. DOMAIN call = Sessions
  BY DEF IInv, Typed
<1>2. \A e \in Sessions : ~Active(e)
  BY DEF Commit, Active
<1>3. \A w \in Witnesses : Level(stored[w], store)
  BY <1>2 DEF AInv
<1>4. /\ store' = store /\ stored' = stored /\ DOMAIN call' = Sessions
      /\ \A e \in Sessions : e # c => call'[e] = call[e]
      /\ call'[c] = [pc |-> "receipts", result |-> "none", id |-> calls, event |-> m,
                     endpoints |-> Backers, todo |-> Backers, receipts |-> <<>>, toad |-> toad]
  BY <1>1 DEF Commit
<1>5. /\ call'[c].pc = "receipts" /\ call'[c].event = m /\ call'[c].todo = Backers
      /\ call'[c].receipts = <<>> /\ call'[c].toad = toad
  BY <1>4
<1>6. InStep(m, <<>>, store, stored)
  BY <1>3 DEF InStep, Elements
<1>7. Asking(<<>>, Backers)
  <2>1. Len(Backers) \in Nat
    BY KawaAssumption DEF IsSequence
  <2>2. /\ 0 \in 0 .. Len(Backers) /\ 0 + Len(Backers) = Len(Backers)
        /\ \A x \in 1 .. Len(Backers) : 0 + x = x
    BY <2>1
  <2>3. Elements(<<>>) = {Backers[x] : x \in 1 .. 0}
    BY DEF Elements
  <2>4. \A x, y \in DOMAIN <<>> : x = y
    OBVIOUS
  <2> QED
    BY <2>2, <2>3, <2>4 DEF Asking
<1>8. OnCourse(call'[c], store, stored')
  BY <1>4, <1>5, <1>6, <1>7 DEF OnCourse
<1>9. \A e \in Sessions : Active(e)' => e = c
  BY <1>2, <1>4 DEF Active
<1>10. Active(c)'
  BY <1>5 DEF Active
<1>11. Numbered(store') /\ (store' # <<>> => ParsedThreshold(Toad) <= Cardinality(Witnesses))
  BY <1>4 DEF AInv
<1>12. \A e \in Sessions : Active(e)' => OnCourse(call'[e], store', stored')
  BY <1>4, <1>8, <1>9
<1> QED
  BY <1>10, <1>11, <1>12 DEF AInv

LEMMA InceptCourse ==
    ASSUME IInv, AInv, overlaps = 0, overlaps' = 0, NEW c \in Sessions, Incept(c)
    PROVE AInv'
<1> DEFINE body == InceptEvent(1, 2)
           m == Signed(body, <<1>>)
           toad == ParsedThreshold(IF m.body.t = "ixn" THEN Null.backerThreshold ELSE m.body.bt)
<1>1. Commit(c, m, Backers, Null) /\ keyCount = 0
  BY DEF Incept
<1>2. store = <<>> /\ ~Stillborn
  BY <1>1 DEF IInv, Unborn, Stillborn
<1>3. /\ m.body = body /\ m.sigs = <<1>> /\ m.wigs = <<>>
      /\ body.t = "icp" /\ body.k = <<1>> /\ body.kt = Simple(1) /\ body.b = Backers /\ body.bt = Toad
  BY DEF Signed, InceptEvent
<1>4. toad = ParsedThreshold(Toad)
  BY <1>3
<1> HIDE DEF body, m
<1>5. EmptyLog \in From(store, Strict)
  <2>1. Len(<<>>) = 0
    OBVIOUS
  <2>2. \E after : From(<<>>, Strict) = after[Len(<<>>)] /\ after[0] = {EmptyLog}
    BY <2>1, FromRecursion
  <2> QED
    BY <1>2, <2>1, <2>2
<1>6. CanAppend(EmptyLog, m, PartiallyWitnessed)
  <2>1. VerifySigning(<<1>>, Simple(1), <<1>>, PartiallyWitnessed) /\ Len(<<1>>) > 0
    BY SingleSigned
  <2>2. ~HasState(EmptyLog)
    BY DEF HasState, EmptyLog
  <2> QED
    BY <1>3, <2>1, <2>2, UnwitnessedPasses DEF CanAppend, CanIncept, IsInception
<1>7. Fits(m, toad, store)
  <2>1. DOMAIN <<1>> # {}
    OBVIOUS
  <2> QED
    BY <1>3, <1>4, <1>5, <1>6, <2>1, ParsedNotLess DEF Fits
<1> QED
  BY <1>1, <1>2, <1>7, BeginCourse

LEMMA AnchorCourse ==
    ASSUME IInv, AInv, overlaps = 0, overlaps' = 0, NEW c \in Sessions, NEW data, Anchor(c, data)
    PROVE AInv'
<1>1. PICK log \in From(store, Strict) :
        /\ HasState(log)
        /\ Commit(c, Signed(InteractEvent(log.state, data), log.state.signingKeys),
                  log.state.backers, log.state)
  BY DEF Anchor
<1>2. /\ store # <<>> /\ log.state.backers = Backers
      /\ SingleKeys(log.state.signingKeys, log.state.signingThreshold, log.state.nextKeyDigests)
  BY <1>1, LogRead
<1>3. log.state.backerThreshold \in {0, Toad}
  BY <1>2, Replayed DEF StateOf, IInv, Typed, IsTable
<1> DEFINE body == InteractEvent(log.state, data)
           m == Signed(body, log.state.signingKeys)
           toad == ParsedThreshold(IF m.body.t = "ixn" THEN log.state.backerThreshold ELSE m.body.bt)
<1>4. m.body = body /\ m.sigs = log.state.signingKeys /\ m.wigs = <<>> /\ body.t = "ixn"
  BY DEF Signed, InteractEvent
<1>5. toad = ParsedThreshold(log.state.backerThreshold)
  BY <1>4
<1> HIDE DEF body
<1>6. Commit(c, m, Backers, log.state)
  BY <1>1, <1>2 DEF body
<1> HIDE DEF m
<1>7. toad \in Nat /\ toad <= Cardinality(Witnesses)
  <2>1. Cardinality(Witnesses) \in Nat /\ ParsedThreshold(Toad) <= Cardinality(Witnesses)
    BY <1>2, WitnessesFinite DEF AInv
  <2> QED
    BY <1>3, <1>5, <2>1, ParsedNotLess
<1>8. CanAppend(log, m, PartiallyWitnessed)
  <2>1. VerifySigning(log.state.signingKeys, log.state.signingThreshold, m.sigs, PartiallyWitnessed)
    BY <1>2, <1>4, SingleSigned DEF SingleKeys
  <2> QED
    BY <1>1, <1>2, <1>4, <2>1, UnwitnessedPasses DEF CanAppend, CanInteract
<1>9. Fits(m, toad, store)
  <2>1. DOMAIN m.sigs # {}
    BY <1>2, <1>4, SingleSigned DEF SingleKeys
  <2> QED
    BY <1>4, <1>7, <1>8, <2>1 DEF Fits
<1> QED
  BY <1>2, <1>6, <1>9, BeginCourse DEF Stillborn

LEMMA RotateCourse ==
    ASSUME IInv, AInv, overlaps = 0, overlaps' = 0, NEW c \in Sessions, Rotate(c)
    PROVE AInv'
<1>1. PICK log \in From(store, Strict) :
        /\ HasState(log)
        /\ Commit(c, Signed(RotateEvent(log.state, keyCount + 1), RotateEvent(log.state, keyCount + 1).k),
                  log.state.backers, log.state)
  BY DEF Rotate
<1>2. /\ store # <<>> /\ log.state.backers = Backers /\ log.state.lastEvent.s \in Nat
      /\ SingleKeys(log.state.signingKeys, log.state.signingThreshold, log.state.nextKeyDigests)
  BY <1>1, LogRead
<1> DEFINE body == RotateEvent(log.state, keyCount + 1)
           m == Signed(body, body.k)
           toad == ParsedThreshold(IF m.body.t = "ixn" THEN log.state.backerThreshold ELSE m.body.bt)
<1>3. Built(body) /\ body.t = "rot" /\ body.bt = 0
  BY <1>2, RotateBuilt DEF RotateEvent
<1>4. PICK z : log.state.nextKeyDigests = <<NextKeyDigest(z)>> /\ body.k = <<z>>
  <2>1. PICK z : log.state.nextKeyDigests = <<NextKeyDigest(z)>>
    BY <1>2 DEF SingleKeys
  <2>2. body.k = [x \in DOMAIN log.state.nextKeyDigests |-> log.state.nextKeyDigests[x].digestOf]
    BY DEF RotateEvent
  <2>3. DOMAIN log.state.nextKeyDigests = {1} /\ log.state.nextKeyDigests[1].digestOf = z
    BY <2>1 DEF NextKeyDigest
  <2>4. body.k = <<z>>
    BY <2>2, <2>3
  <2> QED
    BY <2>1, <2>4
<1> HIDE DEF body
<1>5. m.body = body /\ m.sigs = body.k /\ m.wigs = <<>>
  BY DEF Signed
<1>6. toad = 0
  BY <1>3, <1>5, ParsedNotLess
<1>7. Commit(c, m, Backers, log.state)
  BY <1>1, <1>2 DEF body
<1> HIDE DEF m
<1>8. body.kt = Simple(1)
  BY <1>3 DEF Built, SingleKeys
<1>9. VerifySigning(body.k, body.kt, m.sigs, PartiallyWitnessed) /\ DOMAIN m.sigs # {}
  BY <1>4, <1>5, <1>8, SingleSigned
<1>10. Committed(log.state, body.k)
  BY <1>4 DEF Committed, Elements
<1>11. CanAppend(log, m, PartiallyWitnessed)
  BY <1>1, <1>2, <1>3, <1>5, <1>9, <1>10, UnwitnessedPasses DEF CanAppend, CanRotate, IsRotation
<1>12. Fits(m, toad, store)
  BY <1>3, <1>5, <1>6, <1>9, <1>11, WitnessesFinite DEF Fits
<1> QED
  BY <1>2, <1>7, <1>12, BeginCourse DEF Stillborn

-----------------------------------------------------------------------------
(* Every step. *)

LEMMA InitUInv == Init => UInv
<1> SUFFICES ASSUME Init PROVE UInv
  OBVIOUS
<1>1. /\ store = <<>> /\ failures = 0
      /\ \A c \in Sessions : ~Active(c)
      /\ \A w \in Witnesses : stored[w] = <<>>
  BY DEF Init, WitnessInit, NoCall, Active
<1>2. Len(<<>>) = 0
  OBVIOUS
<1>3. Numbered(<<>>) /\ Level(<<>>, <<>>)
  BY <1>2 DEF Numbered, Level, Mirrors
<1> QED
  BY <1>1, <1>3 DEF UInv, AInv

\* A call that nothing disturbs takes its course.
LEMMA ProgressCourse ==
    ASSUME IInv, SInv, CInv, AInv, overlaps = 0, NEW c \in Sessions, Progress(c)
    PROVE AInv'
<1>1. CASE RequestReceipt(c)
  BY <1>1, RequestReceiptCourse
<1>2. CASE NoReceipt(c)
  BY <1>2, NoReceiptCourse
<1>3. CASE Receipt(c)
  BY <1>3, ReceiptCourse
<1>4. CASE Disagree(c)
  BY <1>4, DisagreeCourse
<1>5. CASE Agree(c)
  BY <1>5, AgreeCourse
<1>6. CASE Deliver(c)
  BY <1>6, DeliverCourse
<1>7. ~DeliveryRefused(c)
  BY DeliveryAnswered
<1>8. CASE Finish(c)
  BY <1>8, FinishCourse
<1>9. ~Rejected(c)
  BY FullRow DEF Rejected
<1> QED
  BY <1>1, <1>2, <1>3, <1>4, <1>5, <1>6, <1>7, <1>8, <1>9 DEF Progress

\* What goes wrong is counted.
LEMMA FailuresCounted ==
    ASSUME [Next]_vars, failures \in Nat, timeouts \in Nat
    PROVE /\ failures' = failures \/ failures' = failures + 1
          /\ \A c \in Sessions : /\ RequestFails(c) \/ DeliveryFails(c) => failures' # 0
                                 /\ GiveUp(c) => timeouts' # 0
<1>1. ASSUME NEW c \in Sessions, Progress(c) \/ RequestFails(c) \/ GiveUp(c) \/ DeliveryFails(c)
      PROVE failures' = failures \/ failures' = failures + 1
  BY <1>1 DEF Progress, RequestReceipt, NoReceipt, Receipt, Disagree, Agree, Deliver, DeliveryRefused,
              Finish, Rejected, RequestFails, GiveUp, DeliveryFails
<1>2. ASSUME NEW c \in Sessions, Incept(c) \/ Rotate(c) \/ \E data \in Data : Anchor(c, data)
      PROVE failures' = failures
  BY <1>2 DEF Incept, Rotate, Anchor, Commit
<1>3. ASSUME NEW w \in Witnesses, LateReceipt(w)
      PROVE failures' = failures
  BY <1>3 DEF LateReceipt
<1>4. ASSUME UNCHANGED vars PROVE failures' = failures
  BY <1>4 DEF vars
<1>5. ASSUME Next
      PROVE \/ \E c \in Sessions : Progress(c) \/ RequestFails(c) \/ GiveUp(c) \/ DeliveryFails(c)
            \/ \E c \in Sessions : Incept(c) \/ Rotate(c) \/ \E data \in Data : Anchor(c, data)
            \/ \E w \in Witnesses : LateReceipt(w)
  BY <1>5, Zenon DEF Next
<1>6. failures' = failures \/ failures' = failures + 1
  BY <1>1, <1>2, <1>3, <1>4, <1>5
<1>7. \A c \in Sessions : /\ RequestFails(c) \/ DeliveryFails(c) => failures' # 0
                          /\ GiveUp(c) => timeouts' # 0
  BY DEF RequestFails, DeliveryFails, GiveUp
<1> QED
  BY <1>6, <1>7

LEMMA NextUInv ==
    ASSUME IInv, SInv, WInv, UInv, [Next]_vars
    PROVE UInv'
<1>1. failures \in Nat /\ timeouts \in Nat /\ overlaps \in Nat
  BY DEF UInv, WInv, IInv, Typed
<1>2. /\ failures' = failures \/ failures' = failures + 1
      /\ \A c \in Sessions : /\ RequestFails(c) \/ DeliveryFails(c) => failures' # 0
                             /\ GiveUp(c) => timeouts' # 0
  BY <1>1, FailuresCounted
<1>3. /\ timeouts' \in Nat /\ timeouts <= timeouts'
      /\ overlaps' = overlaps \/ overlaps' = overlaps + 1
  BY <1>1, TimeoutsCounted
<1>4. ASSUME Undisturbed' PROVE AInv'
  <2>1. failures' = 0 /\ overlaps' = 0 /\ timeouts' = 0
    BY <1>4 DEF Undisturbed
  <2>2. failures = 0 /\ overlaps = 0 /\ timeouts = 0
    BY <1>1, <1>2, <1>3, <2>1
  <2>3. CInv /\ AInv
    BY <2>2 DEF WInv, Calm, UInv, Undisturbed
  <2>4. CASE UNCHANGED vars
    BY <2>3, <2>4 DEF vars, AInv, Stillborn, Active
  <2>5. ASSUME NEW w \in Witnesses, LateReceipt(w) PROVE FALSE
    <3>1. PICK request \in signing[w] :
            \A c \in Sessions : call[c].pc = "waiting" => call[c].id # request.id \/ Head(call[c].todo) # w
      BY <2>5 DEF LateReceipt
    <3> QED
      BY <2>3, <3>1 DEF CInv, RequestsFit
  <2>6. ASSUME NEW c \in Sessions,
               \/ Incept(c) \/ Rotate(c) \/ Progress(c) \/ RequestFails(c) \/ GiveUp(c) \/ DeliveryFails(c)
               \/ \E data \in Data : Anchor(c, data)
        PROVE AInv'
    <3>1. ~RequestFails(c) /\ ~DeliveryFails(c) /\ ~GiveUp(c)
      BY <1>2, <2>1
    <3>2. CASE Incept(c)
      BY <2>1, <2>2, <2>3, <3>2, InceptCourse
    <3>3. CASE Rotate(c)
      BY <2>1, <2>2, <2>3, <3>3, RotateCourse
    <3>4. CASE Progress(c)
      BY <2>2, <2>3, <3>4, ProgressCourse
    <3>5. ASSUME NEW data \in Data, Anchor(c, data) PROVE AInv'
      BY <2>1, <2>2, <2>3, <3>5, AnchorCourse
    <3> QED
      BY <2>6, <3>1, <3>2, <3>3, <3>4, <3>5
  <2> QED
    BY <2>4, <2>5, <2>6 DEF Next
<1> QED
  BY <1>1, <1>2, <1>4 DEF UInv

-----------------------------------------------------------------------------
(* What the witnesses hold of one number is one event. *)

LEMMA OneBody ==
    ASSUME IInv, SInv, AInv, overlaps = 0,
           NEW v \in Witnesses, NEW w \in Witnesses, NEW e \in Elements(stored[v]), NEW f \in Elements(stored[w]),
           e.body.s = f.body.s
    PROVE e.body = f.body
<1> DEFINE Old(body) == \E x \in 1 .. Len(store) : body = store[x].body /\ body.s = x - 1
<1>1. /\ Len(store) \in Nat /\ Numbered(store)
      /\ \A x \in 1 .. Len(store) : store[x].body.s = x - 1
  BY NextIsLen DEF AInv, Numbered
<1>2. \A u \in Witnesses : \A r \in Elements(stored[u]) : \E x \in 1 .. Len(stored[u]) : r = stored[u][x]
  <2> SUFFICES ASSUME NEW u \in Witnesses
               PROVE \A r \in Elements(stored[u]) : \E x \in 1 .. Len(stored[u]) : r = stored[u][x]
    OBVIOUS
  <2>1. DOMAIN stored[u] = 1 .. Len(stored[u])
    BY DEF IInv, Typed, IsTable, IsSequence
  <2> QED
    BY <2>1 DEF Elements
<1>3. \A u \in Witnesses : Mirrors(stored[u], store) =>
        \A x \in 1 .. Len(store) : stored[u][x].body = store[x].body
  BY DEF Mirrors, Copy
<1>4. \A u \in Witnesses : Level(stored[u], store) => \A r \in Elements(stored[u]) : Old(r.body)
  <2> SUFFICES ASSUME NEW u \in Witnesses, Level(stored[u], store), NEW r \in Elements(stored[u])
               PROVE Old(r.body)
    OBVIOUS
  <2>1. PICK x \in 1 .. Len(stored[u]) : r = stored[u][x]
    BY <1>2
  <2>2. x \in 1 .. Len(store) /\ r.body = store[x].body /\ store[x].body.s = x - 1
    BY <1>1, <1>3, <2>1 DEF Level
  <2> QED
    BY <2>2
<1>5. CASE \E c \in Sessions : Active(c)
  <2>1. PICK c \in Sessions : Active(c)
    BY <1>5
  <2>2. PICK m : m = call[c].event
    OBVIOUS
  <2>3. m.body.s = Len(store)
    BY <1>1, <2>1, <2>2, NextEvent
  <2>4. \A u \in Witnesses : Ahead(stored[u], store, m, u) \/ Level(stored[u], store)
    BY <2>1, <2>2 DEF AInv, OnCourse, InStep
  <2>5. \A u \in Witnesses : Ahead(stored[u], store, m, u) =>
            \A r \in Elements(stored[u]) : Old(r.body) \/ r.body = m.body
    <3> SUFFICES ASSUME NEW u \in Witnesses, Ahead(stored[u], store, m, u), NEW r \in Elements(stored[u])
                 PROVE Old(r.body) \/ r.body = m.body
      OBVIOUS
    <3>1. PICK x \in 1 .. Len(stored[u]) : r = stored[u][x]
      BY <1>2
    <3>2. Len(stored[u]) = Len(store) + 1 /\ Mirrors(stored[u], store) /\ Copy(stored[u][Len(stored[u])]) = Copy(m)
      BY DEF Ahead
    <3>3. CASE x = Len(stored[u])
      BY <3>2, <3>3, <3>1 DEF Copy
    <3>4. CASE x # Len(stored[u])
      <4>1. x \in 1 .. Len(store)
        BY <1>1, <3>2, <3>4
      <4> QED
        BY <1>1, <1>3, <3>2, <3>1, <4>1
    <3> QED
      BY <3>3, <3>4
  <2>6. (Old(e.body) \/ e.body = m.body) /\ (Old(f.body) \/ f.body = m.body)
    BY <1>4, <2>4, <2>5
  <2> QED
    BY <1>1, <2>3, <2>6
<1>6. CASE \A c \in Sessions : ~Active(c)
  <2>1. CASE Stillborn
    BY <2>1 DEF Stillborn
  <2>2. CASE \A u \in Witnesses : Level(stored[u], store)
    <3>1. Old(e.body) /\ Old(f.body)
      BY <1>4, <2>2
    <3> QED
      BY <1>1, <3>1
  <2> QED
    BY <1>6, <2>1, <2>2 DEF AInv
<1> QED
  BY <1>5, <1>6

LEMMA AgreedOnce ==
    ASSUME IInv, SInv, UInv
    PROVE AtMostOneAgreement
<1> SUFFICES ASSUME Undisturbed,
                    NEW v \in Witnesses, NEW w \in Witnesses,
                    NEW e \in Elements(stored[v]), NEW f \in Elements(stored[w]),
                    e.body.s = f.body.s, e.body.d # f.body.d
             PROVE FALSE
  BY DEF AtMostOneAgreement
<1>1. AInv /\ overlaps = 0
  BY DEF UInv, Undisturbed
<1>2. e.body = f.body
  BY <1>1, OneBody
<1> QED
  BY <1>2

\* Full receipts are those of all backers.
LEMMA FullElements == \A wigs : Full(wigs) => Elements(wigs) = Elements(Backers)
<1> SUFFICES ASSUME NEW wigs, Full(wigs) PROVE Elements(wigs) = Elements(Backers)
  OBVIOUS
<1>1. DOMAIN wigs = Places /\ \A x \in Places : wigs[x] = Backers[x]
  BY DEF Full, Placed
<1>2. Elements(wigs) = {Backers[x] : x \in Places}
  BY <1>1 DEF Elements
<1> QED
  BY <1>2, PlacesCounted, KawaAssumption

LEMMA EntriesHeld ==
    ASSUME IInv, UInv
    PROVE CompleteEntries
<1> SUFFICES ASSUME Undisturbed, \A c \in Sessions : call[c].pc = "idle",
                    NEW w \in Witnesses, NEW m \in Elements(store)
             PROVE \E row \in Elements(stored[w]) : row.body.d = m.body.d /\ Elements(row.wigs) = Elements(Backers)
  BY DEF CompleteEntries
<1>1. /\ IsSequence(store) /\ Len(store) \in Nat /\ DOMAIN store = 1 .. Len(store)
      /\ IsSequence(stored[w]) /\ DOMAIN stored[w] = 1 .. Len(stored[w])
  BY DEF IInv, Typed, IsTable, IsSequence
<1>2. PICK x \in 1 .. Len(store) : m = store[x]
  BY <1>1 DEF Elements
<1>3. ~Stillborn
  BY <1>1, <1>2 DEF Stillborn
<1>4. Level(stored[w], store)
  BY <1>3 DEF UInv, AInv, Active
<1>5. /\ stored[w][x] \in Elements(stored[w])
      /\ Copy(stored[w][x]) = Copy(store[x]) /\ Full(stored[w][x].wigs)
  BY <1>1, <1>4 DEF Level, Mirrors, Elements
<1>6. stored[w][x].body = m.body
  BY <1>2, <1>5 DEF Copy
<1> QED
  BY <1>5, <1>6, FullElements

-----------------------------------------------------------------------------
(* The theorems. *)

\* The inductive invariant: what calls and witnesses have agreed on, and while
\* calls have overlapped once at most, the order of the controller's rows.
THEOREM Inductive == Spec => [](IInv /\ SInv)
<1>1. Init => IInv /\ SInv
  BY InitIInv
<1>2. IInv /\ SInv /\ [Next]_vars => IInv' /\ SInv'
  BY NextIInv
<1> QED
  BY <1>1, <1>2, PTL DEF Spec

\* A witness whose receipt a call counts has stored the event of the call, in
\* every behaviour: submitToWitnesses never takes the word of a witness that
\* still has the event to write.
THEOREM CountedIsHeld == Spec => []ReceiptsFounded
<1>1. IInv => ReceiptsFounded
  BY DEF IInv
<1> QED
  BY <1>1, Inductive, PTL

\* What incept, anchor and rotate store, enough witnesses hold: as many as the
\* log before the event asks for (KeyEventLog.append), although commit waits for
\* the number of the event itself, and requests fail. Calls may overlap once.
THEOREM HeldByWitnesses == Spec => []CommittedIsHeld
<1>1. IInv /\ SInv => CommittedIsHeld
  BY DEF SInv, RowsHeld, Required, CommittedIsHeld
<1> QED
  BY <1>1, Inductive, PTL

\* The controller's rows always load as a log (loadEventLog), while calls have
\* overlapped once at most: each row extends the rows that are read before it.
THEOREM AlwaysReplays == Spec => []StoreReplays
<1>1. IInv /\ SInv => StoreReplays
  BY DEF SInv, StoreReplays
<1> QED
  BY <1>1, Inductive, PTL

\* A witness can always replay what it stored, while calls are made one by one
\* and no request is given up, whatever requests failed: receipt saves the event
\* after its await as it verified it before, and handleMessage only ever joins
\* valid receipts to a row. Events that a controller builds again after a failed
\* call carry the digest and the signatures that the witness has.
THEOREM WitnessesReplay == Spec => []WitnessReplays
<1>1. Init => WInv
  BY InitWInv
<1>2. IInv /\ SInv /\ WInv /\ [Next]_vars => WInv'
  BY NextWInv
<1>3. WInv => WitnessReplays
  BY DEF WInv, Calm, CInv, RowsReplay, WitnessReplays
<1> QED
  BY <1>1, <1>2, <1>3, Inductive, PTL DEF Spec

\* docs/kawa.md: at most one valid agreement can exist per sequence number. The
\* witnesses never hold two events of one number with Toad receipts each, while
\* no request fails or is given up and calls are made one by one.
THEOREM OneAgreement == Spec => []AtMostOneAgreement
<1>1. Init => WInv /\ UInv
  BY InitWInv, InitUInv
<1>2. IInv /\ SInv /\ WInv /\ UInv /\ [Next]_vars => WInv' /\ UInv'
  BY NextWInv, NextUInv
<1>3. IInv /\ SInv /\ UInv => AtMostOneAgreement
  BY AgreedOnce
<1> QED
  BY <1>1, <1>2, <1>3, Inductive, PTL DEF Spec

\* Between calls that nothing disturbed, every witness holds every event of the
\* controller with the receipts of all of them: what the two passes of
\* submitToWitnesses are for.
THEOREM EntriesComplete == Spec => []CompleteEntries
<1>1. Init => WInv /\ UInv
  BY InitWInv, InitUInv
<1>2. IInv /\ SInv /\ WInv /\ UInv /\ [Next]_vars => WInv' /\ UInv'
  BY NextWInv, NextUInv
<1>3. IInv /\ SInv /\ UInv => CompleteEntries
  BY EntriesHeld
<1> QED
  BY <1>1, <1>2, <1>3, Inductive, PTL DEF Spec

=============================================================================
