--------------------------------- MODULE Kawa --------------------------------
(***************************************************************************)
(* A controller and the witnesses of one of its identifiers: the calls     *)
(* incept, anchor and rotate of                                            *)
(* packages/keri-infra/src/controller/controller.ts, each of which builds  *)
(* an event, runs submitToWitnesses of ../http/kawa.ts and stores the      *)
(* event.                                                                  *)
(*                                                                         *)
(* A session is one caller of the controller; sessions share its store.    *)
(* A call suspends at every request it sends, and the sessions and the     *)
(* witnesses interleave there. A request may fail before it reaches the    *)
(* witness or while the witness works on it, and a call that fails may be  *)
(* made again.                                                             *)
(***************************************************************************)
EXTENDS Witness

CONSTANTS
    Sessions,
    Backers,       \* args.wits, a sequence
    Toad,          \* args.toad
    Data,          \* what anchor calls anchor
    MaxSn,         \* bound: sequence numbers
    MaxCalls,      \* bound: calls made
    MaxFailures,   \* bound: requests that fail
    MaxTimeouts,   \* bound: requests given up while the witness works on them
    MaxOverlaps    \* bound: calls made while another is under way

ASSUME KawaAssumption ==
    /\ Sessions \subseteq Nat
    /\ IsSequence(Backers) /\ Elements(Backers) = Witnesses
    /\ Toad \in 0 .. Len(Backers)

VARIABLES
    store,         \* the controller's rows
    keyCount,      \* keys generated so far; a key is its number
    call,          \* session -> the call it is in, or its last one
    calls,         \* calls made so far
    failures,      \* requests that failed so far
    overlaps,      \* calls made so far while another was under way
    timeouts       \* requests given up so far

vars == <<store, keyCount, call, calls, failures, overlaps, timeouts, stored, signing>>

\* Bounds: calls that overlap leave room for one failure less, and for no timeout.
MayFail == failures + overlaps < MaxFailures

MayTimeOut == timeouts < MaxTimeouts /\ overlaps = 0

MayOverlap == overlaps < MaxOverlaps /\ failures < MaxFailures /\ timeouts = 0

NoCall == [pc |-> "idle", result |-> "none"]

Init ==
    /\ WitnessInit
    /\ store = <<>>
    /\ keyCount = 0
    /\ call = [c \in Sessions |-> NoCall]
    /\ calls = 0
    /\ failures = 0
    /\ overlaps = 0
    /\ timeouts = 0

-----------------------------------------------------------------------------
(* Building an event. The digest of an event is its own content: a chain    *)
(* that ends at the inception of the one identifier.                        *)

Identifier == "aid"

InceptEvent(key, nextKey) ==
    [t |-> "icp", i |-> Identifier, s |-> 0, d |-> <<"icp">>,
     k |-> <<key>>, kt |-> Simple(1), n |-> <<NextKeyDigest(nextKey)>>,
     b |-> Backers, bt |-> Toad, a |-> {}]

InteractEventAfterEstablishment(state, data) ==
    [t |-> "ixn", i |-> state.identifier, s |-> state.lastEstablishment.s + 1,
     d |-> <<"ixn", data, state.lastEvent.d>>, p |-> state.lastEvent.d, a |-> {}]

InteractEvent(state, data) ==
    [t |-> "ixn", i |-> state.identifier, s |-> state.lastEvent.s + 1,
     d |-> <<"ixn", data, state.lastEvent.d>>, p |-> state.lastEvent.d, a |-> {}]

\* The keys behind the digests (getPublicKeyByDigest), a threshold of one, and
\* a backer threshold of zero: the controller passes none.
RotateEvent(state, nextKey) ==
    [t |-> "rot", i |-> state.identifier, s |-> state.lastEvent.s + 1,
     d |-> <<"rot", nextKey, state.lastEvent.d>>, p |-> state.lastEvent.d,
     k |-> [x \in DOMAIN state.nextKeyDigests |-> state.nextKeyDigests[x].digestOf],
     kt |-> Simple(1), n |-> <<NextKeyDigest(nextKey)>>,
     bt |-> 0, br |-> <<>>, ba |-> <<>>, a |-> {}]

\* signEvent by the keys of the event or of the state it extends.
Signed(body, keys) == [body |-> body, sigs |-> keys, wigs |-> <<>>, hints |-> {}]

-----------------------------------------------------------------------------
(* commit and submitToWitnesses. *)

\* bt is written in decimal (toString) and read as hexadecimal (parseInt of base 16).
ParsedThreshold(bt) == 16 * (bt \div 10) + (bt % 10)

\* What commit hands to submitToWitnesses: the witnesses before the event, and
\* the threshold of the event itself where it has one.
Commit(c, m, backers, state) ==
    /\ calls < MaxCalls
    /\ calls' = calls + 1
    /\ IF \A other \in Sessions : call[other].pc = "idle"
       THEN UNCHANGED overlaps
       ELSE MayOverlap /\ overlaps' = overlaps + 1
    /\ call' = [call EXCEPT ![c] =
            [pc |-> "receipts", result |-> "none", id |-> calls, event |-> m,
             endpoints |-> backers, todo |-> backers, receipts |-> <<>>,
             toad |-> ParsedThreshold(IF m.body.t = "ixn" THEN state.backerThreshold ELSE m.body.bt)]]
    /\ UNCHANGED <<store, failures, timeouts, stored, signing>>

\* The next caller; which of the idle ones it is makes no difference.
Free(c) == call[c].pc = "idle" /\ \A other \in Sessions : call[other].pc = "idle" => c <= other

Incept(c) ==
    /\ Free(c)
    /\ keyCount = 0
    /\ keyCount' = 2
    /\ Commit(c, Signed(InceptEvent(1, 2), <<1>>), Backers, Null)

Anchor(c, data) ==
    /\ Free(c)
    /\ \E log \in From(store, Strict) :
          /\ HasState(log)
          /\ log.state.lastEvent.s < MaxSn
          /\ Commit(c, Signed(InteractEvent(log.state, data), log.state.signingKeys),
                    log.state.backers, log.state)
    /\ UNCHANGED keyCount

Rotate(c) ==
    /\ Free(c)
    /\ \E log \in From(store, Strict) :
          LET event == RotateEvent(log.state, keyCount + 1) IN
              /\ HasState(log)
              /\ log.state.lastEvent.s < MaxSn
              /\ Commit(c, Signed(event, event.k), log.state.backers, log.state)
    /\ keyCount' = keyCount + 1

\* The call throws.
Fail(c) == call' = [call EXCEPT ![c] = [pc |-> "idle", result |-> "failed"]]

Step(c, pc) == call' = [call EXCEPT ![c].pc = pc, ![c].todo = Tail(@)]

\* First pass: POST /receipts to the next endpoint. It verifies the event ...
RequestReceipt(c) ==
    /\ call[c].pc = "receipts" /\ call[c].todo # <<>>
    /\ BeginReceipt(Head(call[c].todo), call[c].event, call[c].id)
    /\ call' = [call EXCEPT ![c].pc = "waiting"]
    /\ UNCHANGED <<store, keyCount, calls, failures, overlaps, timeouts>>

NoReceiptRetrying(c) ==
    /\ call[c].pc = "receipts" /\ call[c].todo # <<>>
    /\ ~Receiptable(Head(call[c].todo), call[c].event)
    /\ UNCHANGED vars

\* ... or refuses it, and the loop goes on ...
NoReceipt(c) ==
    /\ call[c].pc = "receipts" /\ call[c].todo # <<>>
    /\ ~Receiptable(Head(call[c].todo), call[c].event)
    /\ Step(c, "receipts")
    /\ UNCHANGED <<store, keyCount, calls, failures, overlaps, timeouts, stored, signing>>

\* ... or never gets the request.
RequestFails(c) ==
    /\ MayFail /\ failures' = failures + 1
    /\ call[c].pc = "receipts" /\ call[c].todo # <<>>
    /\ Step(c, "receipts")
    /\ UNCHANGED <<store, keyCount, calls, overlaps, timeouts, stored, signing>>

\* Receipts are kept by witness, in the order in which the first of each came.
WithReceipt(receipts, w) == IF w \in Elements(receipts) THEN receipts ELSE Append(receipts, w)

\* The signed receipt comes back.
Receipt(c) ==
    /\ call[c].pc = "waiting"
    /\ \E request \in signing[Head(call[c].todo)] :
          request.id = call[c].id /\ FinishReceipt(Head(call[c].todo), request)
    /\ call' = [call EXCEPT ![c].pc = "receipts", ![c].todo = Tail(@),
                           ![c].receipts = WithReceipt(@, Head(call[c].todo))]
    /\ UNCHANGED <<store, keyCount, calls, failures, overlaps, timeouts>>

\* The connection breaks while the witness works on the receipt, which it will
\* finish for nobody.
GiveUp(c) ==
    /\ MayTimeOut /\ timeouts' = timeouts + 1
    /\ call[c].pc = "waiting"
    /\ Step(c, "receipts")
    /\ UNCHANGED <<store, keyCount, calls, failures, overlaps, stored, signing>>

LateReceipt(w) ==
    /\ \E request \in signing[w] :
          /\ \A c \in Sessions : call[c].pc = "waiting" => call[c].id # request.id \/ Head(call[c].todo) # w
          /\ FinishReceipt(w, request)
    /\ UNCHANGED <<store, keyCount, call, calls, failures, overlaps, timeouts>>

\* Fewer receipts than toad: submitToWitnesses throws.
Disagree(c) ==
    /\ call[c].pc = "receipts" /\ call[c].todo = <<>>
    /\ Len(call[c].receipts) < call[c].toad
    /\ Fail(c)
    /\ UNCHANGED <<store, keyCount, calls, failures, overlaps, timeouts, stored, signing>>

\* The receipts of others, addressed to one endpoint.
OthersFor(w, receipts) ==
    LET others == Without(receipts, {w})
    IN  [x \in DOMAIN others |-> [to |-> w, receipt |-> others[x]]]

ExchangesSkippingFailed(endpoints, receipts) ==
    LET told[x \in 0 .. Len(endpoints)] ==
            IF x = 0 THEN <<>>
            ELSE IF endpoints[x] \in Elements(receipts) THEN told[x - 1]
            ELSE told[x - 1] \o OthersFor(endpoints[x], receipts)
    IN  told[Len(endpoints)]

\* The messages of the second pass: to every endpoint the receipts of others.
Exchanges(endpoints, receipts) ==
    LET told[x \in 0 .. Len(endpoints)] ==
            IF x = 0 THEN <<>> ELSE told[x - 1] \o OthersFor(endpoints[x], receipts)
    IN  told[Len(endpoints)]

Agree(c) ==
    /\ call[c].pc = "receipts" /\ call[c].todo = <<>>
    /\ Len(call[c].receipts) >= call[c].toad
    /\ call' = [call EXCEPT ![c].pc = "distribution",
                           ![c].todo = Exchanges(call[c].endpoints, call[c].receipts)]
    /\ UNCHANGED <<store, keyCount, calls, failures, overlaps, timeouts, stored, signing>>

Distribute(c) == HandleReceipt(Head(call[c].todo).to, call[c].event.body.d, Head(call[c].todo).receipt)

\* Second pass: one receipt is sent to one witness.
Deliver(c) ==
    /\ call[c].pc = "distribution" /\ call[c].todo # <<>>
    /\ Distribute(c)
    /\ Step(c, "distribution")
    /\ UNCHANGED <<store, keyCount, calls, failures, overlaps, timeouts>>

\* The witness answers 500.
DeliveryRefused(c) ==
    /\ call[c].pc = "distribution" /\ call[c].todo # <<>>
    /\ ~Answers(Head(call[c].todo).to)
    /\ Fail(c)
    /\ UNCHANGED <<store, keyCount, calls, failures, overlaps, timeouts, stored, signing>>

\* The witness cannot be reached, or its answer is lost: sendMessage throws, and
\* nothing catches it.
DeliveryFails(c) ==
    /\ MayFail /\ failures' = failures + 1
    /\ call[c].pc = "distribution" /\ call[c].todo # <<>>
    /\ Distribute(c) \/ UNCHANGED <<stored, signing>>
    /\ Fail(c)
    /\ UNCHANGED <<store, keyCount, calls, overlaps, timeouts>>

\* The event with the indexed signatures of the receipts, each at the position
\* of its witness among the endpoints.
Witnessed(c) ==
    LET e == call[c].endpoints
    IN  [call[c].event EXCEPT !.wigs = [x \in {BackerIndex(e, w) : w \in Elements(call[c].receipts)} |-> e[x]]]

\* processMessage: the store is read again, and the event must extend it with
\* the receipts the log asks for, whatever toad was.
AcceptablePartially(m) ==
    \E log \in From(store, Strict) :
        Includes(log, m.body.d) \/ CanAppend(log, m, PartiallyWitnessed)

Acceptable(m) ==
    \E log \in From(store, Strict) :
        Includes(log, m.body.d) \/ CanAppend(log, m, Strict)

Finish(c) ==
    LET m == Witnessed(c) IN
        /\ call[c].pc = "distribution" /\ call[c].todo = <<>>
        /\ Acceptable(m)
        /\ store' = IF Stores(store, m.body.d) THEN store ELSE SaveMessage(store, m)
        /\ call' = [call EXCEPT ![c] = [pc |-> "idle", result |-> "ok"]]
        /\ UNCHANGED <<keyCount, calls, failures, overlaps, timeouts, stored, signing>>

Rejected(c) ==
    /\ call[c].pc = "distribution" /\ call[c].todo = <<>>
    /\ ~Acceptable(Witnessed(c))
    /\ Fail(c)
    /\ UNCHANGED <<store, keyCount, calls, failures, overlaps, timeouts, stored, signing>>

-----------------------------------------------------------------------------

\* A step of a call that is in progress, when nothing fails.
Progress(c) ==
    \/ RequestReceipt(c) \/ NoReceipt(c) \/ Receipt(c) \/ Disagree(c) \/ Agree(c)
    \/ Deliver(c) \/ DeliveryRefused(c) \/ Finish(c) \/ Rejected(c)

Next ==
    \/ \E c \in Sessions :
          \/ Incept(c) \/ Rotate(c) \/ Progress(c)
          \/ RequestFails(c) \/ GiveUp(c) \/ DeliveryFails(c)
          \/ \E data \in Data : Anchor(c, data)
    \/ \E w \in Witnesses : LateReceipt(w)

Spec == Init /\ [][Next]_vars

\* A call that was made runs to its end, and a witness finishes what it began:
\* both are async functions that only await requests, timers and the signer.
Fairness ==
    /\ \A c \in Sessions : WF_vars(Progress(c))
    /\ \A w \in Witnesses : WF_vars(LateReceipt(w))

FairSpec == Spec /\ Fairness

-----------------------------------------------------------------------------
(* Properties. *)

HoldersOf(d) == {w \in Witnesses : Stores(stored[w], d)}

\* One overlap at most: no call began while another was under way, but once.
\* append looks at neither s nor p, and the rows are read ORDER BY sn: a rotation
\* that two anchors overtake is accepted behind them and read between them, and
\* the event after it, signed with the keys before it, no longer replays.
AtMostOneOverlap == overlaps <= 1

\* An event in the controller's store is held by at least as many witnesses as
\* the backer threshold before it, although toad is taken from the event itself
\* (commit) and requests fail.
CommittedIsHeld ==
    AtMostOneOverlap =>
        \A x \in DOMAIN store :
            \E before \in From(SubSeq(store, 1, x - 1), Strict) :
                Cardinality(HoldersOf(store[x].body.d)) >=
                    IF x = 1 THEN store[1].body.bt ELSE before.state.backerThreshold

\* The controller can always load its own identifier (loadEventLog).
StoreReplays == AtMostOneOverlap => Loads(store, Strict)

\* Nothing has gone wrong between the controller and the witnesses so far, and
\* calls were made one after the other.
Undisturbed == failures = 0 /\ overlaps = 0 /\ timeouts = 0

\* A witness can always replay what it stored, if only partially witnessed, and
\* so serve it to a controller that asks (introduce), whatever requests failed
\* and whatever was tried instead, unless two requests were with it at
\* once, after a timeout or from two calls: receipt saves what it verified
\* before its await.
WitnessReplays == timeouts = 0 /\ overlaps = 0 => \A w \in Witnesses : Loads(stored[w], PartiallyWitnessed)

\* No two events with one sequence number that enough witnesses have signed.
\* docs/kawa.md: at most one valid agreement can exist per sequence number. The
\* code keeps it while no message is lost: after a failed second pass the caller
\* may have another event of that number signed.
AtMostOneAgreement ==
    Undisturbed =>
        \A v, w \in Witnesses : \A e \in Elements(stored[v]), f \in Elements(stored[w]) :
            /\ e.body.s = f.body.s /\ e.body.d # f.body.d
            /\ Cardinality(HoldersOf(e.body.d)) >= Toad
            => Cardinality(HoldersOf(f.body.d)) < Toad

\* What calls have achieved when nothing is lost: between calls every witness
\* holds every event of the store with the receipts of all witnesses
\* (submitToWitnesses, both passes).
CompleteEntries ==
    Undisturbed /\ (\A c \in Sessions : call[c].pc = "idle") =>
        \A w \in Witnesses, m \in Elements(store) :
            \E row \in Elements(stored[w]) :
                row.body.d = m.body.d /\ Elements(row.wigs) = Elements(Backers)

\* Every call that is made succeeds, unless something is lost or calls overlap.
CallsSucceed ==
    \A c \in Sessions : call[c].pc = "receipts" ~> (call[c].result = "ok" \/ ~Undisturbed)

\* Every call that is made comes to an end, however requests fail.
CallsEnd ==
    \A c \in Sessions : call[c].pc # "idle" ~> call[c].pc = "idle"

=============================================================================
