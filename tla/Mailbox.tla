------------------------------- MODULE Mailbox -------------------------------
(***************************************************************************)
(* Store and forward: senders deposit messages in the boxes of a mailbox    *)
(* (packages/keri-infra/src/mailbox/mailbox.ts and the mailbox_entry table *)
(* of ../sqlite/sqlite-storage.ts), and the recipient polls them            *)
(* (query and receiveGrants of ../controller/controller.ts, through        *)
(* ../http/mailbox-client.ts). A portal also answers tels and logs queries *)
(* by deposits (replay of ../portal/portal-router.ts).                     *)
(*                                                                         *)
(* A box is one (recipient, topic). Polls of one recipient share its store *)
(* and its cursors. A poll reads the cursor, awaits the answer and then    *)
(* stores messages and cursor without a further await, so another poll     *)
(* runs in between and only a crash cuts the storing short.                *)
(***************************************************************************)
EXTENDS Naturals, Sequences, FiniteSets

CONSTANTS
    Boxes,
    Grants,       \* messages that carry a credential and its issuance
    Broken,       \* grant messages that carry neither
    Others,       \* any other message
    Held,         \* what a query may ask of the server -> its events, in their order
    Pollers,
    MaxEntries,   \* bound: entries of a box
    MaxCrashes    \* bound: crashes of the client

Messages == Grants \cup Broken \cup Others

ASSUME MailboxAssumption ==
    /\ MaxEntries \in Nat
    /\ "replay" \in Boxes
    /\ \A subject \in DOMAIN Held : Held[subject] \in Seq(Messages)

VARIABLES
    entries,      \* the server: box -> its messages; the ordinal of the first is 0
    cursor,       \* the client: box -> next ordinal to fetch
    store,        \* the client: messages stored
    credentials,  \* the client: grants whose credential and issuance are stored
    poll,         \* poller -> the poll it is in
    crashes       \* crashes so far

vars == <<entries, cursor, store, credentials, poll, crashes>>

NoPoll == [pc |-> "idle"]

Init ==
    /\ entries = [b \in Boxes |-> <<>>]
    /\ cursor = [b \in Boxes |-> 0]
    /\ store = {}
    /\ credentials = {}
    /\ poll = [p \in Pollers |-> NoPoll]
    /\ crashes = 0

\* exn /fwd: the message gets the next ordinal of the box. A sender that saw no
\* answer sends again, and the box then holds the message twice.
SaveMailboxEntry(b, m) ==
    /\ Len(entries[b]) < MaxEntries
    /\ entries' = [entries EXCEPT ![b] = Append(@, m)]
    /\ UNCHANGED <<cursor, store, credentials, poll, crashes>>

\* replay: a tels or logs query. The events go into the requester's /replay box, one
\* after the other and without an await.
Replay(subject) ==
    LET b == "replay" IN
        /\ Len(entries[b]) + Len(Held[subject]) <= MaxEntries
        /\ entries' = [entries EXCEPT ![b] = @ \o Held[subject]]
        /\ UNCHANGED <<cursor, store, credentials, poll, crashes>>

\* query: the cursor is read and the request sent.
Query(p, b) ==
    /\ poll[p].pc = "idle"
    /\ poll' = [poll EXCEPT ![p] = [pc |-> "sent", box |-> b, offset |-> cursor[b]]]
    /\ UNCHANGED <<entries, cursor, store, credentials, crashes>>

\* getMailboxEntries: the offset is inclusive.
GetMailboxEntries(b, offset) ==
    {[id |-> x - 1, message |-> entries[b][x]] : x \in offset + 1 .. Len(entries[b])}

\* queryMailbox, for the one topic the controller asks for.
QueryMailbox(request) == GetMailboxEntries(request.box, request.offset)

\* What the client may read of an event stream: up to its end, to a cut or to a pause
\* longer than its patience, that is, any first part.
ParseEventStream(reply) ==
    {{e \in reply : e.id < n} : n \in 0 .. MaxEntries}

\* sendMessage returns what was read.
Answer(p) ==
    /\ poll[p].pc = "sent"
    /\ \E answer \in ParseEventStream(QueryMailbox(poll[p])) :
          poll' = [poll EXCEPT ![p] = [pc |-> "answered", box |-> poll[p].box,
                                       offset |-> poll[p].offset, answer |-> answer]]
    /\ UNCHANGED <<entries, cursor, store, credentials, crashes>>

\* The request fails or is aborted: query throws before it stores anything.
Abort(p) ==
    /\ poll[p].pc = "sent"
    /\ poll' = [poll EXCEPT ![p] = NoPoll]
    /\ UNCHANGED <<entries, cursor, store, credentials, crashes>>

NextOffsetOfCount(b, answer) == Cardinality(answer)

NextOffsetOffByOne(b, answer) ==
    IF answer = {} THEN cursor[b] + 1 ELSE 2 + CHOOSE n \in 0 .. MaxEntries :
        (\E e \in answer : n = e.id) /\ \A e \in answer : e.id <= n

\* max(ids) + 1, and the cursor as it is when there are none.
NextOffset(b, answer) ==
    IF answer = {} THEN cursor[b]
    ELSE CHOOSE n \in 1 .. MaxEntries :
            /\ \E e \in answer : n = e.id + 1
            /\ \A e \in answer : e.id < n

CredentialsUntilOther(answer) ==
    {e.message : e \in {g \in answer : \A x \in answer : x.id <= g.id => x.message \in Grants}}

\* receiveGrants goes through the answer in order, passes over other messages
\* and throws at the first broken grant: what comes after it is not looked at.
CredentialsOf(answer) ==
    {e.message : e \in {g \in answer : /\ g.message \in Grants
                                       /\ \A x \in answer : x.message \in Broken => g.id < x.id}}

\* The rest of query, and of receiveGrants: the messages, the cursor, the
\* credentials of the grants.
Receive(p) ==
    LET answer == poll[p].answer IN
        /\ poll[p].pc = "answered"
        /\ store' = store \cup {e.message : e \in answer}
        /\ cursor' = [cursor EXCEPT ![poll[p].box] = NextOffset(poll[p].box, answer)]
        /\ credentials' = credentials \cup CredentialsOf(answer)
        /\ poll' = [poll EXCEPT ![p] = NoPoll]
        /\ UNCHANGED <<entries, crashes>>

CrashCursorFirst(p) ==
    LET answer == poll[p].answer IN
        /\ crashes < MaxCrashes /\ crashes' = crashes + 1
        /\ poll[p].pc = "answered"
        /\ cursor' = [cursor EXCEPT ![poll[p].box] = NextOffset(poll[p].box, answer)]
        /\ poll' = [q \in Pollers |-> NoPoll]
        /\ UNCHANGED <<entries, store, credentials>>

\* The client process ends between two of those writes: before the last message,
\* before the cursor, or before the last credential. The polls are gone.
Crash(p) ==
    LET answer == poll[p].answer
        first(n) == {e \in answer : e.id < n}
    IN  /\ crashes < MaxCrashes /\ crashes' = crashes + 1
        /\ poll[p].pc = "answered"
        /\ \E n \in 0 .. MaxEntries :
              \/ /\ store' = store \cup {e.message : e \in first(n)}
                 /\ UNCHANGED <<cursor, credentials>>
              \/ /\ store' = store \cup {e.message : e \in answer}
                 /\ cursor' = [cursor EXCEPT ![poll[p].box] = NextOffset(poll[p].box, answer)]
                 /\ credentials' = credentials \cup (CredentialsOf(answer) \cap {e.message : e \in first(n)})
        /\ poll' = [q \in Pollers |-> NoPoll]
        /\ UNCHANGED entries

Next ==
    \/ \E b \in Boxes, m \in Messages : SaveMailboxEntry(b, m)
    \/ \E subject \in DOMAIN Held : Replay(subject)
    \/ \E p \in Pollers :
          \/ \E b \in Boxes : Query(p, b)
          \/ Answer(p) \/ Abort(p) \/ Receive(p) \/ Crash(p)

Spec == Init /\ [][Next]_vars

-----------------------------------------------------------------------------
(* Properties. *)

\* Ordinals of a box are dense and a cursor never points beyond the next one.
TypeOK ==
    /\ entries \in [Boxes -> Seq(Messages)]
    /\ cursor \in [Boxes -> Nat]
    /\ \A b \in Boxes : cursor[b] <= Len(entries[b])
    /\ store \subseteq Messages
    /\ credentials \subseteq Grants

\* The cursor skips nothing: what lies before it is stored, although polls
\* overlap, answers are cut short and the client crashes (query: messages are
\* stored before the cursor, and the cursor follows the ids of the answer).
NothingSkipped ==
    \A b \in Boxes : \A x \in 1 .. cursor[b] : entries[b][x] \in store

\* Without a crash or a broken grant, no grant before a cursor is left without
\* its credential: overlapping polls and answers cut short lose none, although
\* receiveGrants moves the cursor before it stores the credentials.
GrantsFollowCursor ==
    crashes = 0 /\ (\A b \in Boxes : \A x \in DOMAIN entries[b] : entries[b][x] \notin Broken) =>
        \A b \in Boxes : \A x \in 1 .. cursor[b] :
            entries[b][x] \in Grants => entries[b][x] \in credentials

\* The cursor is the last id seen plus one (comment of MailboxStorage). It returns
\* to an id that was seen only by a poll that another poll of the box has
\* overtaken: query writes the end of its own answer without looking again.
CursorAdvances ==
    [][\A b \in Boxes : cursor'[b] < cursor[b] =>
          \E p \in Pollers : poll[p].pc = "answered" /\ poll[p].box = b /\ poll[p].offset < cursor[b]]_vars

=============================================================================
