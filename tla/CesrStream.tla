----------------------------- MODULE CesrStream -----------------------------
(***************************************************************************)
(* The stream parser (packages/cesr/src/cesr/parse.ts and message.ts): an   *)
(* async generator over chunks of bytes. A stream arrives in chunks that    *)
(* end anywhere; between two chunks the parser takes frame after frame off  *)
(* its buffer, and it hands a message out when the next one begins or the   *)
(* stream ends.                                                            *)
(***************************************************************************)
EXTENDS Attachments

CONSTANTS
    Sources   \* the streams, see SourceOf

(***************************************************************************)
(* A source is a stream with what it says: its frames, where each ends, the *)
(* messages it stands for, the signatures made for the controller groups of *)
(* each (signed), and the ranges of bytes that a chunk must not tear:       *)
(* genera, and groups outside an attachment group (loose). cuts are the     *)
(* places where chunks may end. After a flaw the frames make no stream.     *)
(***************************************************************************)
SourceOf(frames, expected, signed, genera, loose, cuts) ==
    [frames |-> frames, ends |-> Ends(frames), expected |-> expected,
     signed |-> signed, genera |-> genera, loose |-> loose, cuts |-> cuts, flawed |-> FALSE]

VARIABLES
    source,
    received,     \* bytes that have arrived
    at,           \* frames taken off the buffer
    message,      \* the body read last and not handed out, or NoBody
    attachments,  \* what was attached since
    major,        \* of the genus in force
    out,          \* messages handed out
    status,       \* parsing, waiting (for a chunk), ended or failed
    torn          \* a chunk has ended where it must not

vars == <<source, received, at, message, attachments, major, out, status, torn>>

NoBody == Body(TRUE, 0, "")

Init ==
    /\ source \in Sources
    /\ received = 0 /\ at = 0
    /\ message = NoBody /\ attachments = NoAttachments
    /\ major = 1
    /\ out = <<>>
    /\ status = "parsing"
    /\ torn = FALSE

\* The buffer: bytes not taken yet.
Left == received - source.ends[at]

AtKind(kinds) == Left >= 4 /\ at < Len(source.frames) /\ source.frames[at + 1].kind \in kinds

Upcoming == source.frames[at + 1]

\* The buffer as AttachmentsReader gets it.
Buffered ==
    LET complete == {i \in at .. Len(source.frames) : source.ends[i] <= received}
        last == CHOOSE i \in complete : \A j \in complete : j <= i
    IN  Buffer(source.frames, source.ends, last, received)

BodyIncompleteUnsized == Left < 25

\* read: null below 25 bytes, or below the size of the version string.
BodyIncomplete == Left < 25 \/ Left < DeclaredSize(Upcoming)

HandOut ==
    /\ out' = Append(out, [body |-> message.text, attachments |-> attachments])
    /\ message' = NoBody /\ attachments' = NoAttachments

Become(new) ==
    /\ status' = new
    /\ UNCHANGED <<source, received, at, message, attachments, major, out, torn>>

Fail == Become("failed")

\* Less than a code is left.
Exhaust ==
    /\ status = "parsing"
    /\ Left < 4
    /\ Become("waiting")

\* A body begins: yield of the one before.
YieldPending ==
    /\ status = "parsing"
    /\ AtKind({"body"}) /\ message # NoBody
    /\ HandOut
    /\ UNCHANGED <<source, received, at, major, status, torn>>

\* Message.parse: JSON that is cut at another length than it has does not parse. A
\* modern version string makes the groups that follow those of version 2.
ReadBody ==
    /\ status = "parsing"
    /\ AtKind({"body"}) /\ message = NoBody
    /\ IF BodyIncomplete THEN Become("waiting")
       ELSE IF DeclaredSize(Upcoming) # ByteSize(Upcoming) THEN Fail
       ELSE /\ message' = Upcoming
            /\ major' = IF Upcoming.code = "modern" THEN 2 ELSE major
            /\ at' = at + 1
            /\ UNCHANGED <<source, received, attachments, out, status, torn>>

\* Genus.parse throws when the buffer does not hold it all.
ReadGenus ==
    /\ status = "parsing"
    /\ AtKind({"genus"})
    /\ IF Left < PeekSize(Upcoming) THEN Fail
       ELSE /\ major' = Number(64, SubSeq(Upcoming.soft, 1, 1))
            /\ at' = at + 1
            /\ UNCHANGED <<source, received, message, attachments, out, status, torn>>

\* What is attached replaces what was attached before.
ReadAttached ==
    /\ status = "parsing"
    /\ AtKind(Counters)
    /\ \E result \in UNION {{ReadAttachments(b, at + 1, major)} : b \in {Buffered}} :
          \/ result.status = "wait" /\ Become("waiting")
          \/ result.status = "throw" /\ Fail
          \/ /\ result.status = "read"
             /\ attachments' = result.attachments
             /\ at' = result.next - 1
             /\ UNCHANGED <<source, received, message, major, out, status, torn>>

\* Neither "{" nor "-".
UnexpectedStart ==
    /\ status = "parsing"
    /\ AtKind({"matter", "indexer"})
    /\ Fail

Total == source.ends[Len(source.frames)]

\* A chunk ends at byte n, from four bytes into a genus on but before its end, or
\* where the reader of a loose run finds less or more than the run in the buffer.
Tears(n) ==
    \/ \E r \in source.genera : r[1] + 4 <= n /\ n < r[2]
    \/ \E r \in source.loose : received < r[2] /\ r[1] + 4 <= n /\ n # r[2]

Chunk ==
    /\ status = "waiting"
    /\ \E n \in source.cuts :
          /\ n > received
          /\ received' = n
          /\ torn' = (torn \/ Tears(n))
    /\ status' = "parsing"
    /\ UNCHANGED <<source, at, message, attachments, major, out>>

\* After the last chunk: the message that is left, then the end, or "Unexpected end
\* of stream".
YieldLast ==
    /\ status = "waiting"
    /\ received = Total /\ message # NoBody
    /\ HandOut
    /\ UNCHANGED <<source, received, at, major, status, torn>>

End ==
    /\ status = "waiting"
    /\ received = Total /\ message = NoBody
    /\ Become(IF Left > 0 THEN "failed" ELSE "ended")

Finished == status \in {"ended", "failed"} /\ UNCHANGED vars

Parse ==
    \/ Exhaust \/ YieldPending \/ ReadBody \/ ReadGenus \/ ReadAttached \/ UnexpectedStart
    \/ Chunk \/ YieldLast \/ End

Next == Parse \/ Finished

Spec == Init /\ [][Next]_vars /\ WF_vars(Parse)

-----------------------------------------------------------------------------
(* Properties. *)

\* The parser takes whole frames, and only bytes that have arrived.
TypeOK ==
    /\ received \in source.cuts \cup {0}
    /\ at \in 0 .. Len(source.frames)
    /\ Left >= 0
    /\ major \in {1, 2}
    /\ message \in {NoBody} \cup {source.frames[i] : i \in 1 .. at}
    /\ status \in {"parsing", "waiting", "ended", "failed"}

\* However a stream is cut into chunks (parse.test.ts, streaming behavior), its
\* messages are handed out in order, each with what was attached to it, to the last,
\* and the parser ends without an error, or fails if the stream has a flaw; unless a
\* chunk tears a genus or a group outside an attachment group.
Promise == INSTANCE Delivery WITH
    expected <- source.expected, flawed <- source.flawed, delivered <- out, closed <- status = "ended", torn <- torn
DeliversInOrder == Promise!Spec

\* The way from signing to verification: a signature handed out has the index of the
\* key it was made with (and the second index, if it was given one), for every
\* algorithm and also where the index outgrows the small code.
KeysFound ==
    ~torn => \A m \in DOMAIN out : \A i \in DOMAIN source.signed[m] :
        LET sig == source.signed[m][i]
            f == out[m].attachments.ControllerIdxSigs[i]
        IN  /\ Encodable(sig)
            /\ f.text = sig.by /\ IndexOf(f) = sig.index
            /\ sig.ondex # None => OndexOf(f) = sig.ondex

=============================================================================
