------------------------------ MODULE KelStream ------------------------------
(***************************************************************************)
(* KeyEventLog.fromMessages of packages/keri/src/core/key-event-log.ts: the  *)
(* one log that a stream with the key events of several identifiers stands *)
(* for, and Controller.processMessage for a key event, which takes such a  *)
(* stream into the event table one message at a time.                      *)
(***************************************************************************)
EXTENDS EventStore

\* The members of a list at these positions, in their order.
Selected(list, positions) ==
    [n \in 1 .. Cardinality(positions) |->
        list[CHOOSE x \in positions : Cardinality({y \in positions : y <= x}) = n]]

\* The keys of byAid, and the events under one of them in stream order.
Identifiers(messages) == {m.body.i : m \in Elements(messages)}

EventsOf(messages, aid) == Selected(messages, {x \in DOMAIN messages : messages[x].body.i = aid})

\* referencedAsDelegator: named by the first dip of some identifier.
Delegators(messages) ==
    {messages[x].body.di : x \in {y \in DOMAIN messages :
        /\ messages[y].body.t = "dip"
        /\ \A z \in 1 .. y - 1 : ~(messages[z].body.t = "dip"
                                     /\ messages[z].body.i = messages[y].body.i)}}

Leaves(messages) == Identifiers(messages) \ Delegators(messages)

BuildAlone(messages, aid, opts) == From(EventsOf(messages, aid), [opts EXCEPT !.delegator = Null])

\* buildFor: the delegator's log is built first when the stream has it. A chain
\* of more links than there are identifiers is a cycle, and does not return.
BuildFor(messages, aid, opts) ==
    LET ids   == Identifiers(messages)
        built[link \in 0 .. Cardinality(ids)] ==
            [id \in ids |->
                LET events == EventsOf(messages, id)
                    first  == events[1].body
                IN  IF first.t = "dip" /\ first.di \in ids
                    THEN IF link = 0 THEN {}
                         ELSE UNION {From(events, [opts EXCEPT !.delegator = log]) :
                                        log \in built[link - 1][first.di]}
                    ELSE From(events, [opts EXCEPT !.delegator = Null])]
    IN  built[Cardinality(ids)][aid]

\* fromMessages: the set of the one log it returns, or the empty set when it throws.
FromMessages(messages, opts) ==
    CASE messages = <<>> -> {EmptyLog}
      [] Cardinality(Identifiers(messages)) = 1 -> From(messages, opts)
      [] OTHER -> IF Cardinality(Leaves(messages)) = 1
                  THEN UNION {BuildFor(messages, leaf, opts) : leaf \in Leaves(messages)}
                  ELSE {}

-----------------------------------------------------------------------------
(* Controller.processMessage, on the rows of the event's identifier.        *)

ProcessLeniently(rows, m) ==
    {IF Includes(log, m.body.d) THEN rows ELSE SaveMessage(rows, m) :
        log \in {l \in From(rows, Strict) :
                    Includes(l, m.body.d) \/ CanAppend(l, m, PartiallyWitnessed)}}

ProcessRefreshing(rows, m) ==
    {SaveMessage(rows, m) :
        log \in {l \in From(rows, Strict) : Includes(l, m.body.d) \/ CanAppend(l, m, Strict)}}

\* The rows afterwards, or the empty set when it throws: a known event changes
\* nothing, an event the stored log accepts is saved.
ProcessMessage(rows, m) ==
    {IF Includes(log, m.body.d) THEN rows ELSE SaveMessage(rows, m) :
        log \in {l \in From(rows, Strict) :
                    Includes(l, m.body.d) \/ CanAppend(l, m, Strict)}}

=============================================================================
