------------------------------- MODULE MCCesr -------------------------------
(***************************************************************************)
(* Streams for CesrStream: every group, alone, together and nested; counts  *)
(* on both sides of 64^2; indices on both sides of 63; sizes that need all  *)
(* digits of their version string; version 2 groups; loose groups; streams   *)
(* that go on with what begins no frame.                                   *)
(***************************************************************************)
EXTENDS CesrStream

\* Chunks end at the start of a frame, before its last byte, and where the parser
\* compares the length of its buffer: 4 (a counter), 8 (a genus), 25 (a body).
CutOffsets == {0, 1, 3, 4, 7, 8, 24, 25}

Flat(seqs) ==
    LET cat[i \in 0 .. Len(seqs)] == IF i = 0 THEN <<>> ELSE cat[i - 1] \o seqs[i] IN cat[Len(seqs)]

Cuts(frames) ==
    LET ends == Ends(frames) IN
    {ends[Len(frames)]} \cup
    UNION {{ends[i - 1] + o : o \in {o \in CutOffsets : ends[i - 1] + o < ends[i]}} \cup {ends[i] - 1}
              : i \in 1 .. Len(frames)}

Prefix == Matter("B", 32, "prefix")
Digest == Matter("E", 32, "digest")
Signature == Matter("0B", 64, "receipt")

Sig(alg, index, ondex, by) == [alg |-> alg, index |-> index, ondex |-> ondex, by |-> by]
Texts(sigs) == [i \in DOMAIN sigs |-> Indexer(sigs[i])]

Two == <<Sig("ed25519", 0, None, "a"), Sig("ed25519", 1, None, "b")>>
Edge == <<Sig("ed25519", 63, None, "c"), Sig("ed25519", 65, None, "d"), Sig("ed25519", 2, 64, "e"),
          Sig("ed448", 63, None, "f"), Sig("ed448", 65, None, "g"), Sig("ed448", 2, 63, "h"),
          Sig("ed448", 2, 65, "i"), Sig("ed448", 65, 2, "j"), Sig("256k1", 63, None, "k"),
          Sig("256k1", 4095, None, "l"), Sig("256r1", 3, None, "m"), Sig("256r1", 65, 4095, "n")>>

\* A message: its body, and what is attached to it (or nothing is sent for it).
Sent(body, sigs, rest) ==
    [body |-> body, sigs |-> sigs, attachments |-> [rest EXCEPT !.ControllerIdxSigs = Texts(sigs)],
     attached |-> TRUE]
Bare(body) == [Sent(body, <<>>, NoAttachments) EXCEPT !.attached = FALSE]

Said(messages) == [m \in DOMAIN messages |->
    [body |-> messages[m].body.text, attachments |-> messages[m].attachments]]
Signed(messages) == [m \in DOMAIN messages |-> messages[m].sigs]

\* What this code writes: bodies, each followed by its attachment group.
Written(messages) ==
    LET frames == Flat([m \in DOMAIN messages |-> <<messages[m].body>> \o
                          (IF messages[m].attached THEN Frames(messages[m].attachments) ELSE <<>>)])
    IN  SourceOf(frames, Said(messages), Signed(messages), {}, {}, Cuts(frames))

Legacy(text) == Body(TRUE, 35, text)

Inner == [NoAttachments EXCEPT !.ControllerIdxSigs = Texts(Two),
                               !.SealSourceCouples = <<[snu |-> "1", digest |-> Digest]>>]

Couple(grouped, raw) ==
    [path |-> [text |-> "-e-acdc", raw |-> raw], grouped |-> grouped, attachments |-> Inner]

Everything == [NoAttachments EXCEPT
    !.TransIdxSigGroups = <<[prefix |-> Prefix, snu |-> "0", digest |-> Digest, ControllerIdxSigs |-> Texts(Two)],
                            [prefix |-> Prefix, snu |-> "a", digest |-> Digest, ControllerIdxSigs |-> <<>>]>>,
    !.TransLastIdxSigGroups = <<[prefix |-> Prefix, ControllerIdxSigs |-> Texts(Two)]>>,
    !.SealSourceTriples = <<[prefix |-> Prefix, snu |-> "2", digest |-> Digest],
                            [prefix |-> Prefix, snu |-> "3", digest |-> Digest]>>,
    !.SealSourceCouples = <<[snu |-> "4", digest |-> Digest]>>,
    !.NonTransReceiptCouples = <<[prefix |-> Prefix, sig |-> Signature], [prefix |-> Prefix, sig |-> Signature]>>,
    !.WitnessIdxSigs = Texts(Two),
    !.PathedMaterialCouples = <<Couple(FALSE, 6), Couple(TRUE, 7)>>,
    !.FirstSeenReplayCouples = <<[fnu |-> "0", dt |-> "monday"]>>]

Pathed(raw) == [NoAttachments EXCEPT !.PathedMaterialCouples = <<Couple(FALSE, raw)>>]

\* The raw size of a path with which the attachment group has that many quadlets.
PathFor(quadlets) ==
    CHOOSE raw \in {3 * q : q \in 4000 .. 64 ^ 2} : Quadlets(Tail(Frames(Pathed(raw)))) = quadlets

\* Groups of version 2 after a genus or a modern body: two signatures are 44 quadlets,
\* and a group of another kind is passed over.
Modern(genus, size) ==
    LET body == Body(FALSE, size, "modern")
        frames == (IF genus THEN <<Genus(2, 0)>> ELSE <<>>) \o <<body, Counter("C", 58), Counter("K", 44)>>
                  \o Texts(Two) \o <<Counter("S", 11), Digest, Counter("L", 0)>>
        said == [body |-> "modern", attachments |-> [NoAttachments EXCEPT !.ControllerIdxSigs = Texts(Two)]]
    IN  SourceOf(frames, <<said>>, <<Two>>, IF genus THEN {<<0, 8>>} ELSE {}, {}, Cuts(frames))

\* Groups without an attachment group around them, at the end of a stream.
Loose ==
    LET frames == <<Legacy("icp"), Counter("A", 2)>> \o Texts(Two) \o <<Counter("B", 2)>> \o Texts(Two)
        ends == Ends(frames)
        said == [body |-> "icp", attachments |->
                    [NoAttachments EXCEPT !.ControllerIdxSigs = Texts(Two), !.WitnessIdxSigs = Texts(Two)]]
    IN  SourceOf(frames, <<said>>, <<Two>>, {}, {<<ends[1], ends[Len(frames)]>>}, Cuts(frames))

\* A signature too many, after the count of its group, or a digest after a body.
Flawed(stray) ==
    LET frames == <<Legacy("icp"), Legacy("ixn")>> \o stray
        said == [body |-> "icp", attachments |-> NoAttachments]
    IN  [SourceOf(frames, <<said>>, <<<<>>>>, {}, {}, Cuts(frames)) EXCEPT !.flawed = TRUE]

FlawedStreams == {
    Flawed(<<Digest>>),
    Flawed(Frames(Inner) \o <<Indexer(Two[1])>>)}

WrittenStreams == {
    Written(<<Bare(Legacy("icp"))>>),
    Written(<<Bare(Legacy("icp")), Sent(Legacy("rot"), Two, NoAttachments), Bare(Legacy("ixn"))>>),
    Written(<<Sent(Legacy("icp"), <<>>, NoAttachments), Sent(Body(TRUE, 16 ^ 6 - 1, "rpy"), Edge, NoAttachments)>>),
    Written(<<Sent(Legacy("exn"), Two, Everything), Sent(Legacy("icp"), Two, NoAttachments)>>)}

WideStreams == {Written(<<Sent(Legacy("exn"), <<>>, Pathed(raw))>>) :
    raw \in {PathFor(64 ^ 2 - 1), PathFor(64 ^ 2), 64 ^ 2 - 1, 64 ^ 2, 64 ^ 2 + 1, 64 ^ 2 + 2}}

MCSources ==
    WrittenStreams \cup WideStreams \cup FlawedStreams
    \cup {Modern(TRUE, 300), Modern(FALSE, 300), Modern(FALSE, 64 ^ 3 - 1), Loose}
=============================================================================
