---------------------------- MODULE Introduction -----------------------------
(***************************************************************************)
(* How a controller comes to know an identifier it does not own.            *)
(*                                                                         *)
(* A host publishes what owners hand it: enroll and serveOobi of           *)
(* packages/keri-infra/src/mailbox/mailbox.ts and portal/portal.ts, and    *)
(* the intake of portal/portal-router.ts. A receiver fetches that:         *)
(* introduce and processMessage of controller/controller.ts; forwarded     *)
(* events reach its table through query as well.                           *)
(*                                                                         *)
(* introduce judges the whole stream leniently (receipts may be missing)   *)
(* and then takes it event by event strictly, with an await before each,   *)
(* so other work on the same table runs in between and an event in the     *)
(* middle may be refused.                                                  *)
(***************************************************************************)
EXTENDS KelStream

CONSTANTS
    History,      \* identifier -> its key events, signed, receipted and approved
    Sent          \* the copies of these events that travel

Aids == DOMAIN History

SentFor(aid) == {m \in Sent : m.body.i = aid}

\* Every message that is about.
Travelling == Sent \cup UNION {Elements(History[aid]) : aid \in Aids}

ASSUME IntroductionAssumption ==
    /\ \A aid \in Aids : /\ History[aid] \in Seq(Elements(History[aid]))
                         /\ \A m \in Elements(History[aid]) : m.body.i = aid
    /\ \A m \in Travelling :
          /\ m \in [body : {m.body}, sigs : {m.sigs}, wigs : {m.wigs}, hints : {m.hints}]
          /\ m.body.i \in Aids
          /\ m.body.t = "dip" => m.body.di \in Aids
    \* A digest stands for one event, a delegate's identifier for its inception.
    /\ \A m \in Travelling, k \in Travelling :
          /\ m.body.d = k.body.d => m.body = k.body
          /\ m.body.t = "dip" /\ IsInception(k.body.t) /\ m.body.i = k.body.i => m.body = k.body

\* The event at y is the establishment event in force before the event at x.
InForce(log, y, x) ==
    /\ y \in 1 .. x - 1 /\ IsEstablishment(log[y].body.t)
    /\ \A z \in y + 1 .. x - 1 : ~IsEstablishment(log[z].body.t)

CommitsTo(event, keys) ==
    \E z \in DOMAIN keys : NextKeyDigest(keys[z]) \in Elements(event.n)

SignedWith(m, keys) == \E z \in DOMAIN m.sigs : z \in DOMAIN keys /\ m.sigs[z] = keys[z]

(***************************************************************************)
(* The histories are logs of owners that run controller.ts: they replay,    *)
(* numbered upwards. incept and rotate make a new key pair for each         *)
(* commitment (generateKey), so that one establishment event commits to it; *)
(* interactions are signed with the keys in force.                         *)
(***************************************************************************)
ASSUME HistoryAssumption ==
    \A aid \in Aids : LET log == History[aid] IN
        /\ Loads(log, Strict)
        /\ \A m \in Travelling : m.body.i = aid => \E x \in DOMAIN log : m.body = log[x].body
        /\ \A x \in DOMAIN log : log[x].body.s \in Nat
        /\ \A x \in DOMAIN log : \A y \in 1 .. x - 1 : log[y].body.s < log[x].body.s
        /\ \A y \in DOMAIN log : IsEstablishment(log[y].body.t) =>
              LET event == log[y].body IN
              /\ event.k \in Seq(Elements(event.k)) /\ IsThreshold(event.kt)
              /\ \A x \in DOMAIN log :
                    IsRotation(log[x].body.t) /\ CommitsTo(event, log[x].body.k) => InForce(log, y, x)
              /\ \A x \in DOMAIN log : \A m \in Travelling :
                    m.body = log[x].body /\ m.body.t = "ixn" /\ SignedWith(m, event.k)
                        => InForce(log, y, x)

VARIABLES
    hosted,       \* the host: identifier -> its rows
    endRoles,     \* the host: the end role replies it stored
    rows,         \* the receiver: identifier -> its rows
    replies,      \* the receiver: the replies it stored
    call          \* the introduce call under way, or the last one that returned

vars == <<hosted, endRoles, rows, replies, call>>

NoCall == [pc |-> "idle"]

Init ==
    /\ hosted = [aid \in Aids |-> <<>>]
    /\ endRoles = {}
    /\ rows = [aid \in Aids |-> <<>>]
    /\ replies = {}
    /\ call = NoCall

-----------------------------------------------------------------------------
(* The host. *)

\* An owner's /end/role/add for this host, signed with the keys of, and sealed to,
\* one of its establishment events.
EndRole(event) == [cid |-> event.body.i, seal |-> EventRef(event.body), sigs |-> event.body.k]

EndRolesOf(aid) == {EndRole(e) : e \in {e \in Elements(History[aid]) : IsEstablishment(e.body.t)}}

\* verifyReply: sealed to the last establishment event, signed by its keys.
VerifyReply(rpy, state) ==
    /\ rpy.seal = state.lastEstablishment
    /\ VerifyThreshold(state.signingKeys, state.signingThreshold, rpy.sigs)

SaveAll(stored, messages) ==
    LET after[x \in 0 .. Len(messages)] ==
            IF x = 0 THEN stored ELSE SaveMessage(after[x - 1], messages[x])
    IN  after[Len(messages)]

\* The texts an owner may post as its log: copies of its first n events.
Posts(aid, n) ==
    {kel \in [1 .. n -> SentFor(aid)] : \A x \in 1 .. n : kel[x].body = History[aid][x].body}

\* enroll accepts. Whatever it refuses leaves no trace.
Enroll(kel, rpy) ==
    /\ \E log \in FromMessages(kel, PartiallyWitnessed) :
          /\ HasState(log)
          /\ rpy.cid = log.state.identifier
          /\ VerifyReply(rpy, log.state)
          /\ hosted' = [hosted EXCEPT ![log.state.identifier] = SaveAll(@, log.events)]
    /\ endRoles' = endRoles \cup {rpy}
    /\ UNCHANGED <<rows, replies, call>>

\* handleIntake for a key event: no check at all.
Intake(m) ==
    /\ hosted' = [hosted EXCEPT ![m.body.i] = SaveMessage(@, m)]
    /\ UNCHANGED <<endRoles, rows, replies, call>>

-----------------------------------------------------------------------------
(* The receiver. *)

\* The key events of the answer: serveOobi has those of the identifier, and
\* hosts of other make put those of its delegator first.
Answers(aid) ==
    {hosted[aid]} \cup {hosted[m.body.di] \o hosted[aid] :
                           m \in {e \in Elements(hosted[aid]) : e.body.t = "dip"}}

\* introduce up to the first processMessage: the fetch, and the validation of
\* the stream. A host that has nothing answers 404.
Introduce(aid) ==
    /\ call.pc # "running"
    /\ hosted[aid] # <<>>
    /\ \E messages \in Answers(aid) : \E log \in FromMessages(messages, PartiallyWitnessed) :
          call' = [pc |-> "running", log |-> log, about |-> Identifiers(messages),
                   events |-> messages, others |-> {r \in endRoles : r.cid = aid}]
    /\ UNCHANGED <<hosted, endRoles, rows, replies>>

\* processMessage for the next key event; it throws, and so does introduce, when
\* the stored log does not take the event.
ProcessEvent ==
    /\ call.pc = "running" /\ call.events # <<>>
    /\ LET m    == Head(call.events)
           next == ProcessMessage(rows[m.body.i], m)
       IN  \/ /\ next = {}
              /\ call' = NoCall
              /\ UNCHANGED rows
           \/ /\ \E after \in next : rows' = [rows EXCEPT ![m.body.i] = after]
              /\ call' = [call EXCEPT !.events = Tail(@)]
    /\ UNCHANGED <<hosted, endRoles, replies>>

ProcessReplyAnyTime(rpy) ==
    /\ call.pc = "running" /\ rpy \in call.others
    /\ replies' = replies \cup {rpy}
    /\ call' = [call EXCEPT !.others = @ \ {rpy}]
    /\ UNCHANGED <<hosted, endRoles, rows>>

\* processMessage for a reply: stored unverified, without its signatures.
ProcessReply(rpy) ==
    /\ call.pc = "running" /\ call.events = <<>> /\ rpy \in call.others
    /\ replies' = replies \cup {rpy}
    /\ call' = [call EXCEPT !.others = @ \ {rpy}]
    /\ UNCHANGED <<hosted, endRoles, rows>>

ReturnEarly ==
    /\ call.pc = "running"
    /\ call.events # <<>> => Stores(rows[Head(call.events).body.i], Head(call.events).body.d)
    /\ call' = [pc |-> "returned", log |-> call.log, about |-> call.about]
    /\ UNCHANGED <<hosted, endRoles, rows, replies>>

\* introduce returns the state of the log it validated.
Return ==
    /\ call.pc = "running" /\ call.events = <<>> /\ call.others = {}
    /\ call' = [pc |-> "returned", log |-> call.log, about |-> call.about]
    /\ UNCHANGED <<hosted, endRoles, rows, replies>>

\* processMessage called for an event that arrived by itself.
Deliver(m) ==
    /\ \E after \in ProcessMessage(rows[m.body.i], m) : rows' = [rows EXCEPT ![m.body.i] = after]
    /\ UNCHANGED <<hosted, endRoles, replies, call>>

\* query stores what is in the mailbox unverified. Senders forward a log they
\* have loaded, from its inception on (sendCredentialArtifacts), and boxes keep
\* the order: everything before the event has been stored.
Forwarded(aid, n) ==
    /\ \A x \in 1 .. n - 1 : Stores(rows[aid], History[aid][x].body.d)
    /\ rows' = [rows EXCEPT ![aid] = SaveMessage(@, History[aid][n])]
    /\ UNCHANGED <<hosted, endRoles, replies, call>>

-----------------------------------------------------------------------------

Next ==
    \/ \E aid \in Aids : \E n \in 1 .. Len(History[aid]) :
          \E kel \in Posts(aid, n), rpy \in EndRolesOf(aid) : Enroll(kel, rpy)
    \/ \E m \in Sent : Intake(m)
    \/ \E aid \in Aids : Introduce(aid)
    \/ ProcessEvent
    \/ \E rpy \in UNION {EndRolesOf(aid) : aid \in Aids} : ProcessReply(rpy)
    \/ Return
    \/ \E m \in Sent : Deliver(m)
    \/ \E aid \in Aids : \E n \in 1 .. Len(History[aid]) : Forwarded(aid, n)

Spec == Init /\ [][Next]_vars

-----------------------------------------------------------------------------
(* Properties. *)

\* What the receiver stores replays strictly, whatever order and copies the
\* events came in and whatever introductions failed half-way: append judges an
\* event at the end of the log, getKeyEvents puts it at its sequence number.
ReceiverReplays == \A aid \in Aids : Loads(rows[aid], Strict)

\* When introduce returns, the whole log it judged is in the table and stays,
\* the delegator's with it, although it judged them under weaker rules.
IntroducedIsHeld ==
    call.pc = "returned" =>
        /\ \A m \in Elements(call.log.events) : Stores(rows[m.body.i], m.body.d)
        /\ call.log.delegator # Null =>
              \A m \in Elements(call.log.delegator.events) : Stores(rows[m.body.i], m.body.d)

\* A delegated identifier whose stream had its delegator's events was approved
\* by it: the receiver holds the delegator's seal of its inception.
\* (processMessage itself is never given a delegator.)
IntroducedIsApproved ==
    call.pc = "returned" /\ Cardinality(call.about) > 1 =>
        LET dip == call.log.events[1].body IN
        \E row \in Elements(rows[dip.di]) : \E seal \in row.body.a :
            seal.i = dip.i /\ seal.s = dip.s /\ seal.d = dip.d

\* A stored end role rests on key events that are stored: the receiver has the
\* establishment event the owner sealed it to.
ReplyBacked == \A rpy \in replies : Stores(rows[rpy.cid], rpy.seal.d)

\* No gap: the stored events are the first ones of the history.
Gapless(aid) ==
    \A x \in DOMAIN rows[aid] : rows[aid][x].body = History[aid][x].body

TakesAll(stored, messages) ==
    LET after[x \in 0 .. Len(messages)] ==
            IF x = 0 THEN {stored} ELSE UNION {ProcessMessage(r, messages[x]) : r \in after[x - 1]}
    IN  after[Len(messages)] # {}

\* A failed introduction is not final: as long as no event was skipped, the
\* complete history is still taken from where the receiver is.
Retryable == \A aid \in Aids : Gapless(aid) => TakesAll(rows[aid], History[aid])

=============================================================================
