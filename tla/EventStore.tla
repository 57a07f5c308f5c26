----------------------------- MODULE EventStore ------------------------------
(***************************************************************************)
(* The key events of one identifier in the event table of                  *)
(* packages/keri-infra/src/sqlite/sqlite-storage.ts, and the log that       *)
(* KeyEventLog.from makes of them.                                         *)
(*                                                                         *)
(* The table is keyed by the digest of the event and read ORDER BY sn.     *)
(* Equal sequence numbers come back in insertion order, so the rows are    *)
(* kept in the order they are read in.                                     *)
(***************************************************************************)
EXTENDS KeyEvents, FiniteSets, SequencesExt

\* The position of the row with this digest.
RowOf(rows, d) == SelectInSeq(rows, LAMBDA row : row.body.d = d)

Stores(rows, d) == \E row \in Elements(rows) : row.body.d = d

\* INSERT ... ON CONFLICT(event_id) DO UPDATE SET attachments.
SaveMessage(rows, m) ==
    IF Stores(rows, m.body.d)
    THEN LET x == RowOf(rows, m.body.d) IN ReplaceAt(rows, x, [m EXCEPT !.body = rows[x].body])
    ELSE InsertAt(rows, 1 + Cardinality({x \in DOMAIN rows : rows[x].body.s <= m.body.s}), m)

\* KeyEventLog.from: the set of the one log it returns, or the empty set when
\* append throws on one of the messages.
From(messages, opts) ==
    LET after[x \in 0 .. Len(messages)] ==
            IF x = 0 THEN {EmptyLog}
            ELSE {Extend(log, messages[x], opts) :
                    log \in {l \in after[x - 1] : CanAppend(l, messages[x], opts)}}
    IN  after[Len(messages)]

Loads(rows, opts) == From(rows, opts) # {}

\* The log holds an event with this digest.
Includes(log, d) == Stores(log.events, d)

=============================================================================
