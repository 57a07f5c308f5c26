---------------------------- MODULE MailboxProofs ----------------------------
(***************************************************************************)
(* Proofs about Mailbox, for boxes of any length, any number of pollers and *)
(* of crashes, and any messages.                                           *)
(*                                                                         *)
(* What a poll holds is the stretch of its box from the offset it asked for *)
(* (StretchesHeld), and everything before that offset has been stored       *)
(* (OffsetsReached): these two make NothingSkipped inductive, because a     *)
(* cursor only ever moves to the end of such a stretch.                    *)
(***************************************************************************)
EXTENDS Mailbox, TLAPS

EntryAt(b, x) == [id |-> x - 1, message |-> entries[b][x]]

\* The entries of box b with the ordinals offset to k - 1.
Stretch(b, offset, k) == {EntryAt(b, x) : x \in offset + 1 .. k}

Polls ==
    {NoPoll} \cup [pc : {"sent"}, box : Boxes, offset : Nat]
    \cup [pc : {"answered"}, box : Boxes, offset : Nat, answer : SUBSET [id : Nat, message : Messages]]

PollsTyped == poll \in [Pollers -> Polls]

BoxesBounded == \A b \in Boxes : Len(entries[b]) <= MaxEntries

StretchesHeld ==
    \A p \in Pollers : poll[p].pc = "answered" =>
        \E k \in 0 .. Len(entries[poll[p].box]) :
            poll[p].answer = Stretch(poll[p].box, poll[p].offset, k)

OffsetsReached ==
    \A p \in Pollers : poll[p].pc # "idle" =>
        /\ poll[p].offset <= Len(entries[poll[p].box])
        /\ \A x \in 1 .. poll[p].offset : entries[poll[p].box][x] \in store

IInv ==
    /\ TypeOK
    /\ PollsTyped
    /\ BoxesBounded
    /\ StretchesHeld
    /\ OffsetsReached
    /\ NothingSkipped

-----------------------------------------------------------------------------
(* Stretches and the offset that query derives from them. *)

\* A stretch that ends within a box consists of entries of it.
LEMMA StretchTyped ==
    ASSUME TypeOK, NEW b \in Boxes, NEW offset \in Nat, NEW k \in 0 .. Len(entries[b])
    PROVE  Stretch(b, offset, k) \subseteq [id : Nat, message : Messages]
<1> SUFFICES ASSUME NEW x \in offset + 1 .. k
             PROVE  EntryAt(b, x) \in [id : Nat, message : Messages]
  BY DEF Stretch
<1>1. x \in 1 .. Len(entries[b]) /\ x - 1 \in Nat
  OBVIOUS
<1>2. entries[b][x] \in Messages
  BY <1>1 DEF TypeOK
<1> QED
  BY <1>1, <1>2 DEF EntryAt

\* The next offset is the end of the stretch, also when it is the end of the box; an
\* empty one leaves the cursor.
LEMMA NextOffsetIsEnd ==
    ASSUME TypeOK, BoxesBounded, NEW b \in Boxes, NEW offset \in Nat,
           NEW k \in 0 .. Len(entries[b])
    PROVE  NextOffset(b, Stretch(b, offset, k)) = IF offset < k THEN k ELSE cursor[b]
<1> DEFINE A == Stretch(b, offset, k)
<1>1. CASE k <= offset
  <2>1. A = {}
    BY <1>1 DEF Stretch
  <2> QED
    BY <1>1, <2>1 DEF NextOffset
<1>2. CASE offset < k
  <2>1. k \in 1 .. MaxEntries
    <3>1. Len(entries[b]) \in Nat /\ Len(entries[b]) <= MaxEntries
      BY DEF TypeOK, BoxesBounded
    <3> QED
      BY <1>2, <3>1, MailboxAssumption
  <2>2. EntryAt(b, k) \in A /\ EntryAt(b, k).id = k - 1
    <3>1. k \in offset + 1 .. k
      BY <1>2, <2>1
    <3> QED
      BY <3>1 DEF Stretch, EntryAt
  <2>3. \A e \in A : e.id \in Nat /\ e.id < k
    BY DEF Stretch, EntryAt
  <2>4. \A n \in 1 .. MaxEntries :
           (\E e \in A : n = e.id + 1) /\ (\A e \in A : e.id < n) => n = k
    BY <2>2, <2>3
  <2>5. (\E e \in A : k = e.id + 1) /\ (\A e \in A : e.id < k)
    BY <2>2, <2>3
  <2>6. k = CHOOSE n \in 1 .. MaxEntries :
               (\E e \in A : n = e.id + 1) /\ (\A e \in A : e.id < n)
    BY <2>1, <2>4, <2>5
  <2> QED
    BY <1>2, <2>2, <2>6 DEF NextOffset
<1> QED
  BY <1>1, <1>2 DEF TypeOK

\* What the client reads of the entries from an offset on is a stretch that ends
\* within the box.
LEMMA ReadIsStretch ==
    ASSUME TypeOK, BoxesBounded, NEW b \in Boxes, NEW offset \in Nat, offset <= Len(entries[b]),
           NEW answer \in ParseEventStream(GetMailboxEntries(b, offset))
    PROVE  \E k \in 0 .. Len(entries[b]) : answer = Stretch(b, offset, k)
<1>1. PICK n \in 0 .. MaxEntries : answer = {e \in GetMailboxEntries(b, offset) : e.id < n}
  BY DEF ParseEventStream
<1>2. Len(entries[b]) \in Nat /\ n \in Nat
  BY MailboxAssumption DEF TypeOK
<1> DEFINE k == IF n <= Len(entries[b]) THEN n ELSE Len(entries[b])
<1>3. k \in 0 .. Len(entries[b])
  BY <1>2
<1>4. ASSUME NEW e \in answer PROVE e \in Stretch(b, offset, k)
  <2>1. PICK x \in offset + 1 .. Len(entries[b]) : e = EntryAt(b, x)
    BY <1>1 DEF GetMailboxEntries, EntryAt
  <2>2. x - 1 < n
    BY <1>1, <2>1 DEF EntryAt
  <2> QED
    BY <1>2, <2>1, <2>2 DEF Stretch
<1>5. ASSUME NEW e \in Stretch(b, offset, k) PROVE e \in answer
  <2>1. PICK x \in offset + 1 .. k : e = EntryAt(b, x)
    BY DEF Stretch
  <2>2. x \in offset + 1 .. Len(entries[b]) /\ x - 1 < n
    BY <1>2, <2>1
  <2> QED
    BY <1>1, <2>1, <2>2 DEF GetMailboxEntries, EntryAt
<1>6. answer = Stretch(b, offset, k)
  <2>1. answer \subseteq Stretch(b, offset, k)
    BY <1>4
  <2>2. Stretch(b, offset, k) \subseteq answer
    BY <1>5
  <2> QED
    BY <2>1, <2>2
<1> HIDE DEF k
<1> QED
  BY <1>3, <1>6

-----------------------------------------------------------------------------
(* The inductive step, action by action. *)

\* Boxes only grow at their ends.
LEMMA BoxesGrow ==
    ASSUME TypeOK, NEW b \in Boxes, NEW s \in Seq(Messages),
           entries' = [entries EXCEPT ![b] = @ \o s]
    PROVE  \A c \in Boxes : /\ Len(entries[c]) \in Nat /\ Len(entries'[c]) \in Nat
                            /\ Len(entries[c]) <= Len(entries'[c])
                            /\ \A x \in 1 .. Len(entries[c]) : entries'[c][x] = entries[c][x]
<1> TAKE c \in Boxes
<1>1. entries[c] \in Seq(Messages) /\ entries[b] \in Seq(Messages)
  BY DEF TypeOK
<1>2. entries'[c] = IF c = b THEN entries[b] \o s ELSE entries[c]
  BY DEF TypeOK
<1> QED
  BY <1>1, <1>2

\* A deposit disturbs neither what a poll holds nor
\* what lies before an offset or a cursor.
LEMMA DepositStep ==
    ASSUME IInv, NEW b \in Boxes, NEW s \in Seq(Messages),
           Len(entries[b]) + Len(s) <= MaxEntries,
           entries' = [entries EXCEPT ![b] = @ \o s],
           UNCHANGED <<cursor, store, credentials, poll>>
    PROVE  IInv'
<1> USE DEF IInv
<1>1. entries' \in [Boxes -> Seq(Messages)]
  BY DEF TypeOK
<1>2. \A c \in Boxes : /\ Len(entries[c]) \in Nat /\ Len(entries'[c]) \in Nat
                       /\ Len(entries[c]) <= Len(entries'[c])
                       /\ \A x \in 1 .. Len(entries[c]) : entries'[c][x] = entries[c][x]
  BY BoxesGrow
<1>3. TypeOK'
  BY <1>1, <1>2 DEF TypeOK
<1>4. PollsTyped'
  BY DEF PollsTyped, Polls
<1>5. BoxesBounded'
  BY DEF BoxesBounded, TypeOK
<1>6. StretchesHeld'
  <2> SUFFICES ASSUME NEW p \in Pollers, poll[p].pc = "answered"
               PROVE  \E k \in 0 .. Len(entries'[poll[p].box]) :
                         poll[p].answer = Stretch(poll[p].box, poll[p].offset, k)'
    BY DEF StretchesHeld
  <2> DEFINE c == poll[p].box
  <2>1. c \in Boxes /\ poll[p].offset \in Nat
    BY DEF PollsTyped, Polls, NoPoll
  <2>2. PICK k \in 0 .. Len(entries[c]) : poll[p].answer = Stretch(c, poll[p].offset, k)
    BY DEF StretchesHeld
  <2>3. \A x \in poll[p].offset + 1 .. k : EntryAt(c, x)' = EntryAt(c, x)
    BY <1>2, <2>1 DEF EntryAt
  <2>4. Stretch(c, poll[p].offset, k)' = Stretch(c, poll[p].offset, k)
    BY <2>3 DEF Stretch
  <2>5. k \in 0 .. Len(entries'[c])
    BY <1>2, <2>1
  <2> QED
    BY <2>2, <2>4, <2>5
<1>7. OffsetsReached'
  <2> SUFFICES ASSUME NEW p \in Pollers, poll'[p].pc # "idle"
               PROVE  /\ poll'[p].offset <= Len(entries'[poll'[p].box])
                      /\ \A x \in 1 .. poll'[p].offset : entries'[poll'[p].box][x] \in store'
    BY Zenon DEF OffsetsReached
  <2>0. poll' = poll /\ store' = store
    OBVIOUS
  <2>1. poll[p].box \in Boxes /\ poll[p].offset \in Nat
    BY <2>0 DEF PollsTyped, Polls, NoPoll
  <2>2. /\ poll[p].offset <= Len(entries[poll[p].box])
        /\ \A x \in 1 .. poll[p].offset : entries[poll[p].box][x] \in store
    BY <2>0 DEF OffsetsReached
  <2>3. poll[p].offset <= Len(entries'[poll[p].box])
    BY <1>2, <2>1, <2>2
  <2>4. \A x \in 1 .. poll[p].offset : entries'[poll[p].box][x] = entries[poll[p].box][x]
    BY <1>2, <2>1, <2>2
  <2> QED
    BY <2>0, <2>2, <2>3, <2>4
<1>8. NothingSkipped'
  BY <1>2 DEF NothingSkipped, TypeOK
<1> QED
  BY <1>3, <1>4, <1>5, <1>6, <1>7, <1>8

\* The cursor that a new poll starts from has everything before it in the store.
LEMMA QueryStep ==
    ASSUME IInv, NEW p \in Pollers, NEW b \in Boxes, Query(p, b)
    PROVE  IInv'
<1> USE DEF IInv
<1>1. poll' = [poll EXCEPT ![p] = [pc |-> "sent", box |-> b, offset |-> cursor[b]]]
      /\ UNCHANGED <<entries, cursor, store, credentials>>
  BY DEF Query
<1>2. TypeOK' /\ BoxesBounded' /\ NothingSkipped'
  BY <1>1 DEF TypeOK, BoxesBounded, NothingSkipped
<1>3. PollsTyped'
  BY <1>1 DEF PollsTyped, Polls, TypeOK
<1>4. StretchesHeld'
  BY <1>1 DEF StretchesHeld, PollsTyped, Stretch, EntryAt
<1>5. OffsetsReached'
  BY <1>1 DEF OffsetsReached, PollsTyped, TypeOK, NothingSkipped
<1> QED
  BY <1>2, <1>3, <1>4, <1>5

\* The box may have grown since the cursor was read; what is read of it is a stretch
\* of what it is now.
LEMMA AnswerStep ==
    ASSUME IInv, NEW p \in Pollers, Answer(p)
    PROVE  IInv'
<1> USE DEF IInv
<1> DEFINE b == poll[p].box
           offset == poll[p].offset
<1>1. b \in Boxes /\ offset \in Nat /\ offset <= Len(entries[b]) /\ poll[p].pc = "sent"
  BY DEF Answer, PollsTyped, Polls, NoPoll, OffsetsReached
<1>2. PICK answer \in ParseEventStream(GetMailboxEntries(b, offset)) :
         poll' = [poll EXCEPT ![p] = [pc |-> "answered", box |-> b, offset |-> offset, answer |-> answer]]
  BY DEF Answer, QueryMailbox
<1>3. PICK k \in 0 .. Len(entries[b]) : answer = Stretch(b, offset, k)
  BY <1>1, ReadIsStretch
<1>4. answer \in SUBSET [id : Nat, message : Messages]
  BY <1>1, <1>3, StretchTyped
<1>5. UNCHANGED <<entries, cursor, store, credentials>>
  BY DEF Answer
<1>6. TypeOK' /\ BoxesBounded' /\ NothingSkipped'
  BY <1>5 DEF TypeOK, BoxesBounded, NothingSkipped
<1>7. PollsTyped'
  BY <1>1, <1>2, <1>4 DEF PollsTyped, Polls
<1>8. StretchesHeld'
  <2>1. \A i, j, n : Stretch(i, j, n)' = Stretch(i, j, n)
    BY <1>5 DEF Stretch, EntryAt
  <2>2. poll'[p].box = b /\ poll'[p].offset = offset /\ poll'[p].answer = Stretch(b, offset, k)
    BY <1>2, <1>3 DEF PollsTyped
  <2>3. \A q \in Pollers \ {p} : poll'[q] = poll[q]
    BY <1>2 DEF PollsTyped
  <2> SUFFICES ASSUME NEW q \in Pollers, poll'[q].pc = "answered"
               PROVE  \E n \in 0 .. Len(entries[poll'[q].box]) :
                         poll'[q].answer = Stretch(poll'[q].box, poll'[q].offset, n)
    BY <1>5, <2>1 DEF StretchesHeld
  <2>4. CASE q = p
    BY <2>2, <2>4
  <2>5. CASE q # p
    BY <2>3, <2>5 DEF StretchesHeld
  <2> QED
    BY <2>4, <2>5
<1>9. OffsetsReached'
  BY <1>1, <1>2, <1>5 DEF OffsetsReached, PollsTyped
<1> QED
  BY <1>6, <1>7, <1>8, <1>9

\* The store only grows, and polls end: what holds of those that are left still does.
LEMMA PollsEnd ==
    ASSUME IInv, UNCHANGED entries, store \subseteq store',
           \A p \in Pollers : poll'[p] \in {poll[p], NoPoll},
           poll' \in [Pollers -> Polls]
    PROVE  PollsTyped' /\ BoxesBounded' /\ StretchesHeld' /\ OffsetsReached'
<1> USE DEF IInv
<1>1. PollsTyped' /\ BoxesBounded'
  BY DEF PollsTyped, Polls, BoxesBounded
<1>2. StretchesHeld'
  BY DEF StretchesHeld, NoPoll, Stretch, EntryAt
<1>3. OffsetsReached'
  BY DEF OffsetsReached, NoPoll
<1> QED
  BY <1>1, <1>2, <1>3

\* The stores of an answered poll: its messages and, whatever other polls have done
\* to the cursor since, the end of its own stretch.
LEMMA StoringKeeps ==
    ASSUME IInv, NEW p \in Pollers, poll[p].pc = "answered",
           store' = store \cup {e.message : e \in poll[p].answer},
           cursor' = [cursor EXCEPT ![poll[p].box] = NextOffset(poll[p].box, poll[p].answer)],
           NEW creds \in SUBSET Grants, credentials' = credentials \cup creds,
           UNCHANGED entries
    PROVE  TypeOK' /\ NothingSkipped'
<1> USE DEF IInv
<1> DEFINE b == poll[p].box
           offset == poll[p].offset
<1>1. b \in Boxes /\ offset \in Nat /\ poll[p].answer \in SUBSET [id : Nat, message : Messages]
  BY DEF PollsTyped, Polls, NoPoll
<1>2. PICK k \in 0 .. Len(entries[b]) : poll[p].answer = Stretch(b, offset, k)
  BY DEF StretchesHeld
<1>3. NextOffset(b, poll[p].answer) = IF offset < k THEN k ELSE cursor[b]
  BY <1>1, <1>2, NextOffsetIsEnd
<1>4. Len(entries[b]) \in Nat /\ cursor \in [Boxes -> Nat] /\ cursor[b] <= Len(entries[b])
  BY <1>1 DEF TypeOK
<1>5. TypeOK'
  <2>1. {e.message : e \in poll[p].answer} \subseteq Messages
    BY <1>1
  <2> QED
    BY <1>1, <1>3, <1>4, <2>1 DEF TypeOK
<1>6. \A x \in 1 .. k : entries[b][x] \in store'
  <2> TAKE x \in 1 .. k
  <2>1. CASE x <= offset
    BY <2>1, <1>1 DEF OffsetsReached
  <2>2. CASE offset < x
    <3>1. x \in offset + 1 .. k
      BY <1>1, <2>2
    <3>2. EntryAt(b, x) \in poll[p].answer
      BY <1>2, <3>1 DEF Stretch
    <3>3. EntryAt(b, x).message = entries[b][x]
      BY DEF EntryAt
    <3> QED
      BY <3>2, <3>3
  <2> QED
    BY <1>1, <2>1, <2>2
<1>7. NothingSkipped'
  <2> SUFFICES ASSUME NEW c \in Boxes, NEW x \in 1 .. cursor'[c]
               PROVE  entries[c][x] \in store'
    BY DEF NothingSkipped
  <2>1. cursor'[c] = IF c = b /\ offset < k THEN k ELSE cursor[c]
    BY <1>1, <1>3, <1>4
  <2> QED
    BY <1>6, <2>1 DEF NothingSkipped
<1> QED
  BY <1>5, <1>7

\* Only messages that hold a credential come among the grants.
LEMMA CredentialsTyped ==
    ASSUME NEW answer PROVE CredentialsOf(answer) \in SUBSET Grants
BY DEF CredentialsOf

\* A crash keeps some first part of those writes.
LEMMA PollStep ==
    ASSUME IInv, NEW p \in Pollers, Abort(p) \/ Receive(p) \/ Crash(p)
    PROVE  IInv'
<1> USE DEF IInv
<1>1. CASE Abort(p)
  <2>1. poll' \in [Pollers -> Polls] /\ \A q \in Pollers : poll'[q] \in {poll[q], NoPoll}
    BY <1>1 DEF Abort, PollsTyped, Polls
  <2>2. UNCHANGED <<entries, cursor, store, credentials>>
    BY <1>1 DEF Abort
  <2>3. TypeOK' /\ NothingSkipped'
    BY <2>2 DEF TypeOK, NothingSkipped
  <2> QED
    BY <2>1, <2>2, <2>3, PollsEnd
<1>2. CASE Receive(p)
  <2>1. poll' \in [Pollers -> Polls] /\ \A q \in Pollers : poll'[q] \in {poll[q], NoPoll}
    BY <1>2 DEF Receive, PollsTyped, Polls
  <2>2. CredentialsOf(poll[p].answer) \in SUBSET Grants
    BY CredentialsTyped
  <2>3. TypeOK' /\ NothingSkipped'
    BY <1>2, <2>2, StoringKeeps DEF Receive
  <2>4. UNCHANGED entries /\ store \subseteq store'
    BY <1>2 DEF Receive
  <2> QED
    BY <2>1, <2>3, <2>4, PollsEnd
<1>3. CASE Crash(p)
  <2> DEFINE first(n) == {e \in poll[p].answer : e.id < n}
  <2>1. poll' \in [Pollers -> Polls] /\ \A q \in Pollers : poll'[q] \in {poll[q], NoPoll}
    BY <1>3 DEF Crash, PollsTyped, Polls
  <2>2. poll[p].pc = "answered" /\ UNCHANGED entries
    BY <1>3 DEF Crash
  <2>3. PICK n \in 0 .. MaxEntries :
           \/ /\ store' = store \cup {e.message : e \in first(n)}
              /\ UNCHANGED <<cursor, credentials>>
           \/ /\ store' = store \cup {e.message : e \in poll[p].answer}
              /\ cursor' = [cursor EXCEPT ![poll[p].box] = NextOffset(poll[p].box, poll[p].answer)]
              /\ credentials' = credentials \cup
                    (CredentialsOf(poll[p].answer) \cap {e.message : e \in first(n)})
    BY <1>3 DEF Crash
  <2>4. TypeOK' /\ NothingSkipped' /\ store \subseteq store'
    <3>1. CASE /\ store' = store \cup {e.message : e \in first(n)}
               /\ UNCHANGED <<cursor, credentials>>
      <4>1. poll[p].answer \in SUBSET [id : Nat, message : Messages]
        BY <2>2 DEF PollsTyped, Polls, NoPoll
      <4>2. {e.message : e \in first(n)} \subseteq Messages
        BY <4>1
      <4> QED
        BY <2>2, <3>1, <4>2 DEF TypeOK, NothingSkipped
    <3>2. CASE /\ store' = store \cup {e.message : e \in poll[p].answer}
               /\ cursor' = [cursor EXCEPT ![poll[p].box] = NextOffset(poll[p].box, poll[p].answer)]
               /\ credentials' = credentials \cup
                    (CredentialsOf(poll[p].answer) \cap {e.message : e \in first(n)})
      <4>1. CredentialsOf(poll[p].answer) \cap {e.message : e \in first(n)} \in SUBSET Grants
        BY CredentialsTyped
      <4> QED
        BY <2>2, <3>2, <4>1, StoringKeeps
    <3> QED
      BY <2>3, <3>1, <3>2
  <2> QED
    BY <2>1, <2>2, <2>4, PollsEnd
<1> QED
  BY <1>1, <1>2, <1>3

LEMMA Initial == Init => IInv
<1> SUFFICES ASSUME Init PROVE IInv
  OBVIOUS
<1>1. TypeOK /\ PollsTyped
  BY DEF Init, TypeOK, PollsTyped, Polls
<1>2. BoxesBounded
  BY MailboxAssumption DEF Init, BoxesBounded
<1>3. StretchesHeld /\ OffsetsReached
  BY DEF Init, StretchesHeld, OffsetsReached, NoPoll
<1>4. NothingSkipped
  BY DEF Init, NothingSkipped
<1> QED
  BY <1>1, <1>2, <1>3, <1>4 DEF IInv

LEMMA Inductive == IInv /\ [Next]_vars => IInv'
<1> SUFFICES ASSUME IInv, [Next]_vars PROVE IInv'
  OBVIOUS
<1>1. ASSUME NEW b \in Boxes, NEW m \in Messages, SaveMailboxEntry(b, m) PROVE IInv'
  <2>1. <<m>> \in Seq(Messages) /\ Len(<<m>>) = 1
    OBVIOUS
  <2>2. entries[b] \in Seq(Messages) /\ Append(entries[b], m) = entries[b] \o <<m>>
    BY DEF IInv, TypeOK
  <2>3. Len(entries[b]) + 1 <= MaxEntries
    BY <1>1, <2>2, MailboxAssumption DEF SaveMailboxEntry
  <2>4. entries' = [entries EXCEPT ![b] = @ \o <<m>>]
    BY <1>1, <2>2 DEF SaveMailboxEntry
  <2>5. UNCHANGED <<cursor, store, credentials, poll>>
    BY <1>1 DEF SaveMailboxEntry
  <2> QED
    BY <2>1, <2>3, <2>4, <2>5, DepositStep
<1>2. ASSUME NEW subject \in DOMAIN Held, Replay(subject) PROVE IInv'
  <2>1. "replay" \in Boxes /\ Held[subject] \in Seq(Messages)
    BY MailboxAssumption
  <2> QED
    BY <1>2, <2>1, DepositStep DEF Replay
<1>3. ASSUME NEW p \in Pollers, NEW b \in Boxes, Query(p, b) PROVE IInv'
  BY <1>3, QueryStep
<1>4. ASSUME NEW p \in Pollers, Answer(p) PROVE IInv'
  BY <1>4, AnswerStep
<1>5. ASSUME NEW p \in Pollers, Abort(p) \/ Receive(p) \/ Crash(p) PROVE IInv'
  BY <1>5, PollStep
<1>6. CASE UNCHANGED vars
  <2>1. UNCHANGED <<entries, cursor, store, credentials, poll>>
    BY <1>6 DEF vars
  <2>2. \A i, j, n : Stretch(i, j, n)' = Stretch(i, j, n)
    BY <2>1 DEF Stretch, EntryAt
  <2>3. StretchesHeld'
    BY <2>1, <2>2 DEF IInv, StretchesHeld
  <2>4. TypeOK' /\ PollsTyped' /\ BoxesBounded'
    BY <2>1 DEF IInv, TypeOK, PollsTyped, Polls, BoxesBounded
  <2>5. OffsetsReached' /\ NothingSkipped'
    BY <2>1 DEF IInv, OffsetsReached, NothingSkipped
  <2> QED
    BY <2>3, <2>4, <2>5 DEF IInv
<1> QED
  BY <1>1, <1>2, <1>3, <1>4, <1>5, <1>6 DEF Next

-----------------------------------------------------------------------------
(* Grants. *)

NoBroken == \A b \in Boxes : \A x \in DOMAIN entries[b] : entries[b][x] \notin Broken

GrantsReached ==
    crashes = 0 /\ NoBroken =>
        \A p \in Pollers : poll[p].pc # "idle" =>
            \A x \in 1 .. poll[p].offset :
                entries[poll[p].box][x] \in Grants => entries[poll[p].box][x] \in credentials

GrantsInv == crashes \in Nat /\ GrantsReached /\ GrantsFollowCursor

\* Without a broken grant receiveGrants gets through the whole answer.
LEMMA AllGrantsRead ==
    ASSUME IInv, NoBroken, NEW p \in Pollers, poll[p].pc = "answered",
           NEW e \in poll[p].answer, e.message \in Grants
    PROVE  e.message \in CredentialsOf(poll[p].answer)
<1>1. poll[p].box \in Boxes /\ poll[p].offset \in Nat
  BY DEF IInv, PollsTyped, Polls, NoPoll
<1>2. PICK k \in 0 .. Len(entries[poll[p].box]) :
         poll[p].answer = Stretch(poll[p].box, poll[p].offset, k)
  BY DEF IInv, StretchesHeld
<1>3. \A f \in poll[p].answer : f.message \notin Broken
  <2> TAKE f \in poll[p].answer
  <2>1. PICK x \in poll[p].offset + 1 .. k : f = EntryAt(poll[p].box, x)
    BY <1>2 DEF Stretch
  <2>2. entries[poll[p].box] \in Seq(Messages)
    BY <1>1 DEF IInv, TypeOK
  <2>3. x \in DOMAIN entries[poll[p].box]
    BY <1>1, <2>2
  <2>4. f.message = entries[poll[p].box][x]
    BY <2>1 DEF EntryAt
  <2> QED
    BY <1>1, <2>3, <2>4 DEF NoBroken
<1> QED
  BY <1>3 DEF CredentialsOf

\* What comes after an offset or a cursor later does not lie before it.
LEMMA GrantsDepositStep ==
    ASSUME IInv, GrantsInv, NEW b \in Boxes, NEW s \in Seq(Messages),
           entries' = [entries EXCEPT ![b] = @ \o s],
           UNCHANGED <<cursor, store, credentials, poll, crashes>>
    PROVE  GrantsInv'
<1>1. \A c \in Boxes : /\ Len(entries[c]) \in Nat /\ Len(entries'[c]) \in Nat
                       /\ Len(entries[c]) <= Len(entries'[c])
                       /\ \A x \in 1 .. Len(entries[c]) : entries'[c][x] = entries[c][x]
  BY BoxesGrow DEF IInv
<1>2. \A c \in Boxes : DOMAIN entries[c] = 1 .. Len(entries[c])
                       /\ DOMAIN entries'[c] = 1 .. Len(entries'[c])
  BY DEF IInv, TypeOK
<1>3. NoBroken' => NoBroken
  BY <1>1, <1>2 DEF NoBroken
<1>4. GrantsReached'
  <2> SUFFICES ASSUME crashes' = 0, NoBroken', NEW p \in Pollers, poll'[p].pc # "idle",
                      NEW x \in 1 .. poll'[p].offset,
                      entries'[poll'[p].box][x] \in Grants
               PROVE  entries'[poll'[p].box][x] \in credentials'
    BY Zenon DEF GrantsReached
  <2>0. poll' = poll /\ credentials' = credentials /\ crashes' = crashes
    OBVIOUS
  <2>1. poll[p].box \in Boxes /\ poll[p].offset \in Nat
        /\ poll[p].offset <= Len(entries[poll[p].box])
    BY <2>0 DEF IInv, PollsTyped, Polls, NoPoll, OffsetsReached
  <2>2. entries'[poll[p].box][x] = entries[poll[p].box][x]
    BY <1>1, <2>0, <2>1
  <2>3. entries[poll[p].box][x] \in Grants => entries[poll[p].box][x] \in credentials
    BY <1>3, <2>0 DEF GrantsInv, GrantsReached
  <2> QED
    BY <2>0, <2>2, <2>3
<1>5. GrantsFollowCursor'
  <2> SUFFICES ASSUME crashes = 0, NoBroken', NEW c \in Boxes, NEW x \in 1 .. cursor[c],
                      entries'[c][x] \in Grants
               PROVE  entries'[c][x] \in credentials
    BY Zenon DEF GrantsFollowCursor, NoBroken
  <2>1. cursor[c] \in Nat /\ cursor[c] <= Len(entries[c])
    BY DEF IInv, TypeOK
  <2>2. entries'[c][x] = entries[c][x]
    BY <1>1, <2>1
  <2> QED
    BY <1>3, <2>2 DEF GrantsInv, GrantsFollowCursor, NoBroken
<1> QED
  BY <1>4, <1>5 DEF GrantsInv

\* The steps of a poll: an offset is a cursor, and the cursor goes to the end of an
\* answer whose grants have all been read.
LEMMA GrantsPollStep ==
    ASSUME IInv, GrantsInv, NEW p \in Pollers,
           (\E b \in Boxes : Query(p, b)) \/ Answer(p) \/ Abort(p) \/ Receive(p)
    PROVE  GrantsInv'
<1>0. UNCHANGED <<entries, crashes>> /\ credentials \subseteq credentials'
  BY DEF Query, Answer, Abort, Receive
<1>1. NoBroken' <=> NoBroken
  BY <1>0 DEF NoBroken
<1> SUFFICES ASSUME crashes = 0, NoBroken
             PROVE  GrantsInv'
  BY <1>0, <1>1 DEF GrantsInv, GrantsReached, GrantsFollowCursor, NoBroken
<1>2. \A q \in Pollers : poll[q].pc # "idle" =>
         \A x \in 1 .. poll[q].offset :
             entries[poll[q].box][x] \in Grants => entries[poll[q].box][x] \in credentials
  BY DEF GrantsInv, GrantsReached
<1>3. \A c \in Boxes : \A x \in 1 .. cursor[c] : entries[c][x] \in Grants => entries[c][x] \in credentials
  BY DEF GrantsInv, GrantsFollowCursor, NoBroken
<1>4. GrantsReached'
  <2> SUFFICES ASSUME NEW q \in Pollers, poll'[q].pc # "idle", NEW x \in 1 .. poll'[q].offset,
                      entries'[poll'[q].box][x] \in Grants
               PROVE  entries'[poll'[q].box][x] \in credentials'
    BY Zenon DEF GrantsReached
  <2>1. \/ poll'[q] = poll[q]
        \/ /\ poll[q].pc # "idle"
           /\ poll'[q].offset = poll[q].offset /\ poll'[q].box = poll[q].box
        \/ \E b \in Boxes : poll'[q].offset = cursor[b] /\ poll'[q].box = b
    BY DEF Query, Answer, Abort, Receive, NoPoll, IInv, PollsTyped
  <2> QED
    BY <1>0, <1>2, <1>3, <2>1
<1>5. GrantsFollowCursor'
  <2>1. CASE UNCHANGED cursor
    BY <1>0, <1>3, <2>1 DEF GrantsFollowCursor
  <2>2. CASE Receive(p)
    <3> DEFINE b == poll[p].box
               offset == poll[p].offset
    <3>1. poll[p].pc = "answered" /\ b \in Boxes /\ offset \in Nat
      BY <2>2 DEF Receive, IInv, PollsTyped, Polls, NoPoll
    <3>2. PICK k \in 0 .. Len(entries[b]) : poll[p].answer = Stretch(b, offset, k)
      BY <3>1 DEF IInv, StretchesHeld
    <3>3. cursor' = [cursor EXCEPT ![b] = IF offset < k THEN k ELSE cursor[b]]
      BY <2>2, <3>1, <3>2, NextOffsetIsEnd DEF Receive, IInv
    <3>4. \A x \in offset + 1 .. k : entries[b][x] \in Grants => entries[b][x] \in credentials'
      <4> SUFFICES ASSUME NEW x \in offset + 1 .. k, entries[b][x] \in Grants
                   PROVE  entries[b][x] \in credentials'
        OBVIOUS
      <4>1. EntryAt(b, x) \in poll[p].answer
        BY <3>2 DEF Stretch
      <4>2. EntryAt(b, x).message = entries[b][x]
        BY DEF EntryAt
      <4>3. entries[b][x] \in CredentialsOf(poll[p].answer)
        BY <3>1, <4>1, <4>2, AllGrantsRead
      <4> QED
        BY <2>2, <4>3 DEF Receive
    <3> SUFFICES ASSUME NEW c \in Boxes, NEW x \in 1 .. cursor'[c], entries[c][x] \in Grants
                 PROVE  entries[c][x] \in credentials'
      BY <1>0 DEF GrantsFollowCursor
    <3>5. cursor'[c] = IF c = b /\ offset < k THEN k ELSE cursor[c]
      BY <3>1, <3>3 DEF IInv, TypeOK
    <3>6. CASE c = b /\ offset < k
      <4>1. x \in 1 .. offset \/ x \in offset + 1 .. k
        BY <3>1, <3>5, <3>6
      <4>2. x \in 1 .. offset => entries[c][x] \in credentials
        BY <1>2, <3>1, <3>6
      <4> QED
        BY <1>0, <3>4, <3>6, <4>1, <4>2
    <3>7. CASE ~(c = b /\ offset < k)
      BY <1>0, <1>3, <3>5, <3>7
    <3> QED
      BY <3>6, <3>7
  <2> QED
    BY <2>1, <2>2 DEF Query, Answer, Abort
<1> QED
  BY <1>0, <1>4, <1>5 DEF GrantsInv

LEMMA GrantsInductive == IInv /\ GrantsInv /\ [Next]_vars => GrantsInv'
<1> SUFFICES ASSUME IInv, GrantsInv, [Next]_vars PROVE GrantsInv'
  OBVIOUS
<1>1. ASSUME NEW b \in Boxes, NEW m \in Messages, SaveMailboxEntry(b, m) PROVE GrantsInv'
  <2>1. <<m>> \in Seq(Messages)
    OBVIOUS
  <2>2. entries[b] \in Seq(Messages) /\ Append(entries[b], m) = entries[b] \o <<m>>
    BY DEF IInv, TypeOK
  <2>3. entries' = [entries EXCEPT ![b] = @ \o <<m>>]
    BY <1>1, <2>2 DEF SaveMailboxEntry
  <2>4. UNCHANGED <<cursor, store, credentials, poll, crashes>>
    BY <1>1 DEF SaveMailboxEntry
  <2> QED
    BY <2>1, <2>3, <2>4, GrantsDepositStep
<1>2. ASSUME NEW subject \in DOMAIN Held, Replay(subject) PROVE GrantsInv'
  <2>1. "replay" \in Boxes /\ Held[subject] \in Seq(Messages)
    BY MailboxAssumption
  <2> QED
    BY <1>2, <2>1, GrantsDepositStep DEF Replay
<1>3. ASSUME NEW p \in Pollers,
             (\E b \in Boxes : Query(p, b)) \/ Answer(p) \/ Abort(p) \/ Receive(p)
      PROVE  GrantsInv'
  BY <1>3, GrantsPollStep
<1>4. ASSUME NEW p \in Pollers, Crash(p) PROVE GrantsInv'
  <2>1. crashes' = crashes + 1
    BY <1>4 DEF Crash
  <2>2. crashes' \in Nat /\ crashes' # 0
    BY <2>1 DEF GrantsInv
  <2> QED
    BY <2>2 DEF GrantsInv, GrantsReached, GrantsFollowCursor
<1>5. CASE UNCHANGED vars
  BY <1>5 DEF vars, GrantsInv, GrantsReached, GrantsFollowCursor, NoBroken
<1> QED
  BY <1>1, <1>2, <1>3, <1>4, <1>5 DEF Next

-----------------------------------------------------------------------------
(* Theorems. *)

LEMMA Invariance == Spec => []IInv
<1> QED
  BY Initial, Inductive, PTL DEF Spec

\* Boxes hold messages, a cursor never points beyond the end of its box, and only
\* grants become credentials, for every number of polls, deposits and crashes.
THEOREM TypeCorrect == Spec => []TypeOK
<1>1. IInv => TypeOK
  BY DEF IInv
<1> QED
  BY <1>1, Invariance, PTL

\* The cursor skips nothing (query stores the messages of its answer before the
\* cursor), although polls overlap, answers are cut short and the client crashes.
THEOREM NothingSkippedHolds == Spec => []NothingSkipped
<1>1. IInv => NothingSkipped
  BY DEF IInv
<1> QED
  BY <1>1, Invariance, PTL

\* A cursor returns to a place that it has passed only when a poll stores the end of
\* its answer after another poll of the same box has overtaken it.
THEOREM CursorAdvancesHolds == Spec => CursorAdvances
<1>1. IInv /\ [Next]_vars =>
         [\A b \in Boxes : cursor'[b] < cursor[b] =>
             \E p \in Pollers : poll[p].pc = "answered" /\ poll[p].box = b /\ poll[p].offset < cursor[b]]_vars
  <2> SUFFICES ASSUME IInv, Next, NEW b \in Boxes, cursor'[b] < cursor[b]
               PROVE  \E p \in Pollers : /\ poll[p].pc = "answered" /\ poll[p].box = b
                                         /\ poll[p].offset < cursor[b]
    OBVIOUS
  <2>1. cursor[b] \in Nat
    BY DEF IInv, TypeOK
  <2>2. PICK p \in Pollers :
           /\ poll[p].pc = "answered"
           /\ cursor' = [cursor EXCEPT ![poll[p].box] = NextOffset(poll[p].box, poll[p].answer)]
    BY <2>1 DEF Next, SaveMailboxEntry, Replay, Query, Answer, Abort, Receive, Crash
  <2>3. poll[p].box = b
    BY <2>1, <2>2
  <2>4. poll[p].offset \in Nat
    BY <2>2 DEF IInv, PollsTyped, Polls, NoPoll
  <2>5. PICK k \in 0 .. Len(entries[b]) : poll[p].answer = Stretch(b, poll[p].offset, k)
    BY <2>2, <2>3 DEF IInv, StretchesHeld
  <2>6. cursor'[b] = IF poll[p].offset < k THEN k ELSE cursor[b]
    BY <2>2, <2>3, <2>4, <2>5, NextOffsetIsEnd DEF IInv, TypeOK
  <2> QED
    BY <2>1, <2>2, <2>3, <2>4, <2>6
<1> QED
  BY <1>1, Invariance, PTL DEF Spec, CursorAdvances

\* Without a crash or a broken grant, no grant before a cursor is left without its
\* credential, although receiveGrants moves the cursor before it stores them.
THEOREM GrantsFollowCursorHolds == Spec => []GrantsFollowCursor
<1>1. Init => GrantsInv
  BY DEF Init, GrantsInv, GrantsReached, GrantsFollowCursor, NoPoll
<1>2. GrantsInv => GrantsFollowCursor
  BY DEF GrantsInv
<1> QED
  BY <1>1, <1>2, GrantsInductive, Invariance, PTL DEF Spec
=============================================================================
