------------------------------ MODULE CesrCodes ------------------------------
(***************************************************************************)
(* CESR frames and their text form (packages/cesr/src/cesr: frame.ts,       *)
(* counter.ts, genus.ts, indexer.ts, matter.ts, codes.ts, version-string.ts *)
(* and ../encoding/base64.ts).                                             *)
(*                                                                         *)
(* A frame has a code, the digits of its soft part, the number of raw bytes *)
(* behind them, and text, the value these bytes stand for. The writer knows *)
(* the raw bytes and derives sizes from them (TextSize, QuadletCount); the  *)
(* reader has only code and digits (PeekSize).                             *)
(***************************************************************************)
EXTENDS Integers, Sequences

None == -1   \* undefined

-----------------------------------------------------------------------------
(* Numbers in text: base64 in soft parts, hexadecimal in legacy versions. *)

Fits(base, n, length) == n < base ^ length

Digits(base, n, length) == [i \in 1 .. length |-> (n \div base ^ (length - i)) % base]

Number(base, digits) ==
    LET value[i \in 0 .. Len(digits)] == IF i = 0 THEN 0 ELSE base * value[i - 1] + digits[i]
    IN  value[Len(digits)]

-----------------------------------------------------------------------------
(* Sizes: hard part, soft part, whole frame (0: variable), lead bytes. *)

Size(hs, ss, fs, ls) == [hs |-> hs, ss |-> ss, fs |-> fs, ls |-> ls]

CounterSize(kind) ==
    CASE kind = "genus"       -> Size(5, 3, 8, 0)
      [] kind = "big counter" -> Size(3, 5, 8, 0)
      [] kind = "counter"     -> Size(2, 2, 4, 0)

\* Keys and digests.
KeySize == Size(1, 0, 44, 0)

\* Seven types in three sizes of lead bytes, in a small and in a big code each.
VariableSize(code) ==
    CASE code \in {"4A", "4B", "4C", "4D", "4E", "4F", "4H"} -> Size(2, 2, 0, 0)
      [] code \in {"5A", "5B", "5C", "5D", "5E", "5F", "5H"} -> Size(2, 2, 0, 1)
      [] code \in {"6A", "6B", "6C", "6D", "6E", "6F", "6H"} -> Size(2, 2, 0, 2)
      [] code \in {"7AAA", "7AAB", "7AAC", "7AAD", "7AAE", "7AAF", "7AAH"} -> Size(4, 4, 0, 0)
      [] code \in {"8AAA", "8AAB", "8AAC", "8AAD", "8AAE", "8AAF", "8AAH"} -> Size(4, 4, 0, 1)
      [] code \in {"9AAA", "9AAB", "9AAC", "9AAD", "9AAE", "9AAF", "9AAH"} -> Size(4, 4, 0, 2)

\* Salts (numbers of 16 bytes) and signatures.
PairSize(code) == IF code = "0A" THEN Size(2, 0, 24, 0) ELSE Size(2, 0, 88, 0)

MatterSize(code) ==
    CASE code \in {"A", "B", "C", "D", "E", "F", "G", "H", "I", "J"} -> KeySize
      [] code \in {"0A", "0B", "0C", "0D", "0E", "0F", "0G", "0I"} -> PairSize(code)
      [] code = "1AAG" -> Size(4, 0, 36, 0)
      [] OTHER -> VariableSize(code)

IndexerSize(code) ==
    CASE code \in {"A", "B", "C", "D", "E", "F"}       -> Size(1, 1, 88, 0)
      [] code \in {"0A", "0B"}                         -> Size(2, 2, 156, 0)
      [] code \in {"2A", "2B", "2C", "2D", "2E", "2F"} -> Size(2, 4, 92, 0)
      [] code \in {"3A", "3B"}                         -> Size(2, 6, 160, 0)

\* The part of the soft digits that holds the second index.
OndexSize(code) ==
    CASE code \in {"A", "B", "C", "D", "E", "F"}       -> 0
      [] code \in {"0A", "0B"}                         -> 1
      [] code \in {"2A", "2B", "2C", "2D", "2E", "2F"} -> 2
      [] code \in {"3A", "3B"}                         -> 3

Counters == {"counter", "big counter"}

SizeOf(f) ==
    CASE f.kind \in Counters \cup {"genus"} -> CounterSize(f.kind)
      [] f.kind = "matter"                  -> MatterSize(f.code)
      [] f.kind = "indexer"                 -> IndexerSize(f.code)

\* What a frame is filled up to, in triplets of bytes.
Padded(f) ==
    LET content == f.raw + SizeOf(f).ls IN content + ((3 - (content % 3)) % 3)

\* encodeText: code, digits, and the padded bytes without the characters of the padding.
TextSize(f) ==
    SizeOf(f).hs + SizeOf(f).ss + (4 * Padded(f)) \div 3 - (Padded(f) - f.raw - SizeOf(f).ls)

QuadletCount(f) ==
    IF SizeOf(f).fs > 0 THEN SizeOf(f).fs \div 4
    ELSE (SizeOf(f).hs + SizeOf(f).ss) \div 4 + Padded(f) \div 3

\* peekText, with a buffer that starts with f: the bytes f takes.
PeekSize(f) ==
    IF SizeOf(f).fs > 0 THEN SizeOf(f).fs
    ELSE SizeOf(f).hs + SizeOf(f).ss + 4 * Number(64, f.soft)

-----------------------------------------------------------------------------
(* The frames this code makes. *)

Counter(type, count) ==
    LET big == count >= 64 ^ 2 IN
    [kind |-> IF big THEN "big counter" ELSE "counter", code |-> type,
     soft |-> Digits(64, count, IF big THEN 5 ELSE 2), raw |-> 0, text |-> ""]

Genus(major, minor) ==
    [kind |-> "genus", code |-> "-_AAA",
     soft |-> Digits(64, major, 1) \o Digits(64, minor, 2), raw |-> 0, text |-> ""]

Matter(code, raw, text) ==
    [kind |-> "matter", code |-> code, soft |-> <<>>, raw |-> raw, text |-> text]

\* Matter.primitive.hex and date: sequence numbers, and dates in milliseconds.
Hex(text) == Matter("0A", 16, text)
Date(text) == Matter("1AAG", 24, text)

\* resolveVariableSizeCode for base64 text (StrB64): a code by lead bytes and length.
VariableSizeCode(raw) ==
    LET lead == (3 - (raw % 3)) % 3 IN
    IF raw > 64 ^ 2 THEN <<"7AAA", "8AAA", "9AAA">>[lead + 1]
    ELSE <<"4A", "5A", "6A">>[lead + 1]

\* Matter.primitive.string of a path, and as.string, which takes the lead bytes off.
String(path) ==
    LET code == VariableSizeCode(path.raw)
        f == Matter(code, path.raw, path.text)
    IN  [f EXCEPT !.soft = Digits(64, Padded(f) \div 3, MatterSize(code).ss)]

AsString(f) == [text |-> f.text, raw |-> 3 * Number(64, f.soft) - MatterSize(f.code).ls]

-----------------------------------------------------------------------------
(* Indexed signatures. *)

IndexCodeLate(alg, index, ondex) ==
    CASE alg = "ed25519"  -> IF ondex # None THEN "2A" ELSE IF index > 65 THEN "2B" ELSE "A"
      [] alg = "ed448"    -> IF ondex # None
                             THEN IF index > 65 \/ ondex > 65 THEN "3A" ELSE "0A"
                             ELSE IF index > 65 THEN "3B" ELSE "0B"
      [] alg = "256k1"    -> IF ondex # None \/ index > 65 THEN "2C" ELSE "C"
      [] alg = "256r1"    -> IF ondex # None \/ index > 65 THEN "2E" ELSE "E"

\* Indexer.crypto
IndexCode(alg, index, ondex) ==
    CASE alg = "ed25519"  -> IF ondex # None THEN "2A" ELSE IF index > 64 THEN "2B" ELSE "A"
      [] alg = "ed448"    -> IF ondex # None
                             THEN IF index > 64 \/ ondex > 64 THEN "3A" ELSE "0A"
                             ELSE IF index > 64 THEN "3B" ELSE "0B"
      [] alg = "256k1"    -> IF ondex # None \/ index > 64 THEN "2C" ELSE "C"
      [] alg = "256r1"    -> IF ondex # None \/ index > 64 THEN "2E" ELSE "E"

MainSize(code) == IndexerSize(code).ss - OndexSize(code)

\* A signature has a text form if its code has room for both indices: the digits
\* (Indexer.soft) are those of index and ondex, undefined as 0.
Encodable(sig) ==
    LET code == IndexCode(sig.alg, sig.index, sig.ondex) IN
    /\ Fits(64, sig.index, MainSize(code))
    /\ OndexSize(code) > 0 /\ sig.ondex # None => Fits(64, sig.ondex, OndexSize(code))

Indexer(sig) ==
    LET code == IndexCode(sig.alg, sig.index, sig.ondex)
        ondex == IF sig.ondex = None THEN 0 ELSE sig.ondex
    IN  [kind |-> "indexer", code |-> code,
         soft |-> Digits(64, sig.index, MainSize(code)) \o Digits(64, ondex, OndexSize(code)),
         raw |-> IF sig.alg = "ed448" THEN 114 ELSE 64, text |-> sig.by]

\* resolveIndexerInit
IndexOf(f) == Number(64, SubSeq(f.soft, 1, MainSize(f.code)))
OndexOf(f) ==
    IF OndexSize(f.code) = 0 THEN None
    ELSE Number(64, SubSeq(f.soft, MainSize(f.code) + 1, Len(f.soft)))

\* A signature parsed from its text and made text again.
Reencoded(f) ==
    [f EXCEPT !.soft = Digits(64, IndexOf(f), MainSize(f.code))
                       \o (IF OndexOf(f) = None THEN <<>> ELSE Digits(64, OndexOf(f), OndexSize(f.code)))]

-----------------------------------------------------------------------------
(* Message bodies. The version string says how long the JSON is: six      *)
(* hexadecimal digits, or (modern) four base64 digits.                    *)

Body(legacy, size, text) ==
    [kind |-> "body", code |-> IF legacy THEN "legacy" ELSE "modern",
     soft |-> IF legacy THEN Digits(16, size, 6) ELSE Digits(64, size, 4),
     raw |-> size, text |-> text]

\* VersionString.parse takes the last three digits of a modern size.
DeclaredSize(f) ==
    IF f.code = "legacy" THEN Number(16, f.soft) ELSE Number(64, SubSeq(f.soft, 2, 4))

\* The bytes of a stream that stand for f.
ByteSize(f) == IF f.kind = "body" THEN f.raw ELSE TextSize(f)
=============================================================================
