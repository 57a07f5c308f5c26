----------------------------- MODULE Attachments -----------------------------
(***************************************************************************)
(* What is attached to a message, as frames and read back                  *)
(* (packages/cesr/src/cesr/attachments.ts and attachments-reader.ts).      *)
(*                                                                         *)
(* Texts of prefixes, digests and signatures are the frames they parse to;  *)
(* sequence numbers, dates and paths are converted when written and read.  *)
(***************************************************************************)
EXTENDS CesrCodes, FiniteSets

LOCAL INSTANCE SequencesExt

\* The codes of the groups, by version of the genus.
CountCode == <<
    [ControllerIdxSigs |-> "A", WitnessIdxSigs |-> "B", NonTransReceiptCouples |-> "C",
     FirstSeenReplayCouples |-> "E", TransIdxSigGroups |-> "F", SealSourceCouples |-> "G",
     TransLastIdxSigGroups |-> "H", SealSourceTriples |-> "I",
     PathedMaterialCouples |-> "L", AttachmentGroup |-> "V"],
    [ControllerIdxSigs |-> "K", WitnessIdxSigs |-> "L", AttachmentGroup |-> "C"]>>

v1 == CountCode[1]

NoAttachments ==
    [ControllerIdxSigs |-> <<>>, TransIdxSigGroups |-> <<>>, TransLastIdxSigGroups |-> <<>>,
     SealSourceTriples |-> <<>>, SealSourceCouples |-> <<>>, NonTransReceiptCouples |-> <<>>,
     WitnessIdxSigs |-> <<>>, PathedMaterialCouples |-> <<>>, FirstSeenReplayCouples |-> <<>>]

-----------------------------------------------------------------------------
(* Writing: Attachments.frames *)

Quadlets(frames) ==
    LET sum[i \in 0 .. Len(frames)] == IF i = 0 THEN 0 ELSE sum[i - 1] + QuadletCount(frames[i])
    IN  sum[Len(frames)]

\* A counter and what it counts, left out when there is nothing.
Group(type, items) ==
    IF items = <<>> THEN <<>> ELSE <<Counter(type, Len(items))>> \o FlattenSeq(items)

Signatures(sigs) == [i \in DOMAIN sigs |-> <<Reencoded(sigs[i])>>]

TransIdxSigGroup(group) ==
    <<group.prefix, Hex(group.snu), group.digest,
      Counter(v1.ControllerIdxSigs, Len(group.ControllerIdxSigs))>>
    \o FlattenSeq(Signatures(group.ControllerIdxSigs))

TransLastIdxSigGroup(group) ==
    <<group.prefix, Counter(v1.ControllerIdxSigs, Len(group.ControllerIdxSigs))>>
    \o FlattenSeq(Signatures(group.ControllerIdxSigs))

RECURSIVE Frames(_), PathedMaterialCouple(_)

PathedMaterialCoupleCounted(couple) ==
    LET inner == Frames(couple.attachments)
        nested == <<String(couple.path)>> \o (IF couple.grouped THEN inner ELSE Tail(inner))
    IN  <<Counter(v1.PathedMaterialCouples, Len(nested))>> \o nested

\* One group per couple; the counter has the quadlets. An ungrouped couple goes
\* without the counter of its attachments.
PathedMaterialCouple(couple) ==
    LET inner == Frames(couple.attachments)
        nested == <<String(couple.path)>> \o (IF couple.grouped THEN inner ELSE Tail(inner))
    IN  <<Counter(v1.PathedMaterialCouples, Quadlets(nested))>> \o nested

Frames(a) ==
    LET frames ==
            Group(v1.ControllerIdxSigs, Signatures(a.ControllerIdxSigs))
            \o Group(v1.TransIdxSigGroups, [i \in DOMAIN a.TransIdxSigGroups |->
                     TransIdxSigGroup(a.TransIdxSigGroups[i])])
            \o Group(v1.TransLastIdxSigGroups, [i \in DOMAIN a.TransLastIdxSigGroups |->
                     TransLastIdxSigGroup(a.TransLastIdxSigGroups[i])])
            \o Group(v1.SealSourceTriples, [i \in DOMAIN a.SealSourceTriples |->
                     LET t == a.SealSourceTriples[i] IN <<t.prefix, Hex(t.snu), t.digest>>])
            \o Group(v1.SealSourceCouples, [i \in DOMAIN a.SealSourceCouples |->
                     LET c == a.SealSourceCouples[i] IN <<Hex(c.snu), c.digest>>])
            \o Group(v1.NonTransReceiptCouples, [i \in DOMAIN a.NonTransReceiptCouples |->
                     LET c == a.NonTransReceiptCouples[i] IN <<c.prefix, c.sig>>])
            \o Group(v1.WitnessIdxSigs, Signatures(a.WitnessIdxSigs))
            \o FlattenSeq([i \in DOMAIN a.PathedMaterialCouples |->
                     PathedMaterialCouple(a.PathedMaterialCouples[i])])
            \o Group(v1.FirstSeenReplayCouples, [i \in DOMAIN a.FirstSeenReplayCouples |->
                     LET c == a.FirstSeenReplayCouples[i] IN <<Hex(c.fnu), Date(c.dt)>>])
    IN  <<Counter(v1.AttachmentGroup, Quadlets(frames))>> \o frames

-----------------------------------------------------------------------------
(* Reading: AttachmentsReader. A buffer is a stretch of a stream: its       *)
(* frames, the byte each ends with, the last frame that is complete in the  *)
(* buffer, and the byte the buffer ends with, which may be beyond that.     *)
(* Readers return the number of the frame after what they have read.       *)

Throws == 0

Ends(frames) ==
    LET end[i \in 0 .. Len(frames)] == IF i = 0 THEN 0 ELSE end[i - 1] + ByteSize(frames[i])
    IN  end

Buffer(frames, ends, last, total) == [frames |-> frames, ends |-> ends, last |-> last, total |-> total]

\* Frame i is complete, of that kind, and as long as its code says.
Has(b, i, kinds) ==
    /\ i <= b.last
    /\ b.frames[i].kind \in kinds
    /\ PeekSize(b.frames[i]) = TextSize(b.frames[i])

AllMatter(b, i, count) == \A j \in i .. i + count - 1 : Has(b, j, {"matter"})

Count(b, i) == Number(64, b.frames[i].soft)

\* The frame with which the count quadlets after frame i are reached, or Throws.
LastOfQuadlets(b, i, count) ==
    LET beyond == {j \in i .. b.last : b.ends[j] - b.ends[i] >= 4 * count} IN
    IF beyond = {} THEN Throws ELSE CHOOSE j \in beyond : \A k \in beyond : j <= k

\* The frames after i that fill count quadlets exactly: what readBytes cuts out. In
\* the middle of a frame the next read fails.
ExactQuadlets(b, i, count) ==
    LET last == LastOfQuadlets(b, i, count) IN
    IF last # Throws /\ b.ends[last] - b.ends[i] = 4 * count THEN last ELSE Throws

\* readIndexedSignatures after counter i: version 1 counts signatures, 2 quadlets.
AfterSignatures(b, i, version) ==
    LET last == IF version = 1 THEN i + Count(b, i) ELSE LastOfQuadlets(b, i, Count(b, i)) IN
    IF last # Throws /\ \A j \in i + 1 .. last : Has(b, j, {"indexer"}) THEN last + 1 ELSE Throws

SignaturesRead(b, i, next) == [j \in 1 .. next - i - 1 |-> Reencoded(b.frames[i + j])]

\* readCouples and readTriples after counter i.
AfterTuples(b, i, width) ==
    IF AllMatter(b, i + 1, width * Count(b, i)) THEN i + 1 + width * Count(b, i) ELSE Throws

TuplesRead(b, i, width) ==
    [j \in 1 .. Count(b, i) |-> SubSeq(b.frames, i + 1 + width * (j - 1), i + width * j)]

\* Where the groups counted by counter i start, heads frames before their own counter.
GroupStarts(b, i, heads) ==
    LET start[j \in 0 .. Count(b, i)] ==
            IF j = 0 THEN i + 1
            ELSE LET first == start[j - 1] IN
                 IF /\ first # Throws
                    /\ AllMatter(b, first, heads)
                    /\ Has(b, first + heads, Counters)
                    /\ b.frames[first + heads].code = v1.ControllerIdxSigs
                 THEN AfterSignatures(b, first + heads, 1) ELSE Throws
    IN  start

ReadResult(field, items, next) == [field |-> field, items |-> items, next |-> next]

\* A group of one item per tuple, or signature.
Fails(field) == ReadResult(field, <<>>, Throws)

ReadSignatures(b, i, field, version) ==
    LET next == AfterSignatures(b, i, version) IN
    IF next = Throws THEN Fails(field) ELSE ReadResult(field, SignaturesRead(b, i, next), next)

ReadTuples(b, i, field, width) ==
    LET next == AfterTuples(b, i, width)
        items == IF next = Throws THEN <<>> ELSE
            [j \in 1 .. Count(b, i) |->
                LET t == TuplesRead(b, i, width)[j] IN
                CASE field = "SealSourceTriples"      -> [prefix |-> t[1], snu |-> t[2].text, digest |-> t[3]]
                  [] field = "SealSourceCouples"      -> [snu |-> t[1].text, digest |-> t[2]]
                  [] field = "NonTransReceiptCouples" -> [prefix |-> t[1], sig |-> t[2]]
                  [] field = "FirstSeenReplayCouples" -> [fnu |-> t[1].text, dt |-> t[2].text]]
    IN  ReadResult(field, items, next)

ReadTransGroups(b, i, field, heads) ==
    LET start == GroupStarts(b, i, heads)
        sigs(j) == SignaturesRead(b, start[j - 1] + heads, start[j])
        items == [j \in 1 .. Count(b, i) |->
            LET first == start[j - 1] IN
            IF field = "TransLastIdxSigGroups"
            THEN [prefix |-> b.frames[first], ControllerIdxSigs |-> sigs(j)]
            ELSE [prefix |-> b.frames[first], snu |-> b.frames[first + 1].text,
                  digest |-> b.frames[first + 2], ControllerIdxSigs |-> sigs(j)]]
    IN  IF start[Count(b, i)] = Throws THEN Fails(field)
        ELSE ReadResult(field, items, start[Count(b, i)])

\* Version 2 passes over groups it does not know by their quadlets.
SkipGroup(b, i) ==
    LET last == ExactQuadlets(b, i, Count(b, i)) IN
    ReadResult("ControllerIdxSigs", <<>>, IF last = Throws THEN Throws ELSE last + 1)

\* The element of a set of one: {f(x) : x \in {e}} evaluates e once.
The(S) == CHOOSE x \in S : TRUE

Outcome(status, attachments, next) == [status |-> status, attachments |-> attachments, next |-> next]
Waits == Outcome("wait", NoAttachments, 0)
Failed == Outcome("throw", NoAttachments, 0)

RECURSIVE ReadAttachments(_, _, _), ReadGroups(_, _, _, _, _), ReadPathedAttachments(_, _, _)

\* readPathedAttachments: a reader of its own over the quadlets of the couple.
ReadPathedAttachments(b, i, version) ==
    LET field == "PathedMaterialCouples"
        last == ExactQuadlets(b, i, Count(b, i))
        result == The({ReadAttachments(inner, i + 2, version) :
                          inner \in {Buffer(b.frames, b.ends, last, b.ends[last])}})
        grouped == b.frames[i + 2].code = CountCode[version].AttachmentGroup
    IN  IF last = Throws \/ ~Has(b, i + 1, {"matter"}) \/ result.status # "read" THEN Fails(field)
        ELSE ReadResult(field, <<[path |-> AsString(b.frames[i + 1]), grouped |-> grouped,
                                  attachments |-> result.attachments]>>, last + 1)

ReadGroup(b, i, version) ==
    LET code == b.frames[i].code IN
    CASE code = CountCode[version].ControllerIdxSigs -> ReadSignatures(b, i, "ControllerIdxSigs", version)
      [] code = CountCode[version].WitnessIdxSigs    -> ReadSignatures(b, i, "WitnessIdxSigs", version)
      [] version = 1 /\ code = v1.FirstSeenReplayCouples -> ReadTuples(b, i, "FirstSeenReplayCouples", 2)
      [] version = 1 /\ code = v1.SealSourceCouples      -> ReadTuples(b, i, "SealSourceCouples", 2)
      [] version = 1 /\ code = v1.SealSourceTriples      -> ReadTuples(b, i, "SealSourceTriples", 3)
      [] version = 1 /\ code = v1.NonTransReceiptCouples -> ReadTuples(b, i, "NonTransReceiptCouples", 2)
      [] version = 1 /\ code = v1.PathedMaterialCouples  -> ReadPathedAttachments(b, i, version)
      [] version = 1 /\ code = v1.TransIdxSigGroups      -> ReadTransGroups(b, i, "TransIdxSigGroups", 3)
      [] version = 1 /\ code = v1.TransLastIdxSigGroups  -> ReadTransGroups(b, i, "TransLastIdxSigGroups", 1)
      [] OTHER -> IF version = 1 THEN Fails("ControllerIdxSigs") ELSE SkipGroup(b, i)

\* The loop of readAttachments, until no more than end bytes are left.
ReadGroups(b, i, end, version, a) ==
    IF b.total - b.ends[i - 1] <= end THEN Outcome("read", a, i)
    ELSE IF ~Has(b, i, Counters) THEN Failed
    ELSE The({IF group.next = Throws THEN Failed
              ELSE ReadGroups(b, group.next, end, version, [a EXCEPT ![group.field] = @ \o group.items])
                 : group \in {ReadGroup(b, i, version)}})

\* readAttachments from frame i on. What is not in an attachment group goes on to the
\* end of the buffer.
ReadAttachments(b, i, version) ==
    IF i > b.last THEN Waits
    ELSE IF ~Has(b, i, Counters) THEN Failed
    ELSE LET after == b.total - b.ends[i]
             wrapped == b.frames[i].code = CountCode[version].AttachmentGroup
         IN  IF ~wrapped THEN ReadGroups(b, i, 0, version, NoAttachments)
             ELSE IF after < 4 * Count(b, i) THEN Waits
             ELSE ReadGroups(b, i + 1, after - 4 * Count(b, i), version, NoAttachments)
=============================================================================
