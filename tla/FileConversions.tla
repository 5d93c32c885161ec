--------------------------- MODULE FileConversions ---------------------------
(***************************************************************************)
(* The conversions the file repositories rest on: PathUtils and            *)
(* EncodingUtils of packages/xf-reactnative-fs, which has neither          *)
(* node:path nor Buffer, and PathUtils of packages/xf-fs where it differs. *)
(* A path is absolute or not, and a sequence of segments; a separator at   *)
(* its end is an empty last segment.  The inputs grow one segment, or one  *)
(* byte, at a time.                                                        *)
(***************************************************************************)
EXTENDS Naturals, Sequences, SequencesExt

CONSTANTS
    Names,         \* the segments that are neither "", "." nor ".."
    SampleBytes,   \* bound of the model: the bytes tried
    MaxSegments,   \* bound of the model: the length of a path
    MaxLength      \* bound of the model: the number of bytes

VARIABLES
    from, to,      \* two paths, the second one absolute; a relative one is looked at by itself
    bytes          \* some bytes

vars == <<from, to, bytes>>

Segments == Names \cup {"", ".", ".."}

Init ==
    /\ from \in [abs : BOOLEAN, segs : {<<>>}]
    /\ to = [abs |-> TRUE, segs |-> <<>>]
    /\ bytes = <<>>

Next ==
    \/ /\ bytes = <<>> /\ Len(from.segs) < MaxSegments
       /\ \E s \in Segments : from' = [from EXCEPT !.segs = Append(@, s)]
       /\ UNCHANGED <<to, bytes>>
    \/ /\ from.abs /\ bytes = <<>> /\ Len(to.segs) < MaxSegments
       /\ \E s \in Segments : to' = [to EXCEPT !.segs = Append(@, s)]
       /\ UNCHANGED <<from, bytes>>
    \/ /\ from.segs = <<>> /\ to.segs = <<>>
       /\ Len(bytes) < MaxLength
       /\ \E b \in SampleBytes : bytes' = Append(bytes, b)
       /\ UNCHANGED <<from, to>>

Spec == Init /\ [][Next]_vars

-----------------------------------------------------------------------------
(* PathUtils *)

\* normalizeString(): one segment more, which ".." takes back.
AddSegment(res, s, allowAboveRoot) ==
    CASE s \in {"", "."} -> res
      [] s = ".." /\ res # <<>> /\ Last(res) # ".." -> Front(res)
      [] s = ".." /\ (res = <<>> \/ Last(res) = "..") ->
            IF allowAboveRoot THEN Append(res, "..") ELSE res
      [] OTHER -> Append(res, s)

NormalizeString(segs, allowAboveRoot) ==
    LET res[i \in 0..Len(segs)] ==
            IF i = 0 THEN <<>> ELSE AddSegment(res[i - 1], segs[i], allowAboveRoot)
    IN  res[Len(segs)]

\* posixNormalize(): a separator at the end stays, but for that of the root.
Normalize(p) ==
    LET res == NormalizeString(p.segs, ~p.abs)
        trailing == p.segs # <<>> /\ Last(p.segs) = ""
    IN  [abs |-> p.abs,
         segs |-> IF trailing /\ ~(p.abs /\ res = <<>>) THEN Append(res, "") ELSE res]

Join(p, q) ==
    LET first == Normalize(p)
        second == Normalize(q)
    IN  Normalize([abs |-> first.abs, segs |-> first.segs \o second.segs])

\* Without the separator at its end.
Bare(p) == [p EXCEPT !.segs = IF @ # <<>> /\ Last(@) = "" THEN Front(@) ELSE @]

\* Mutant: one step up too few.
RelativeShort(p, q) ==
    LET f == Normalize(p).segs
        t == Normalize(q).segs
        common == LongestCommonPrefix({f, t})
        up == [i \in 1..(Len(f) - Len(common)) |-> ".."]
    IN  [abs |-> FALSE,
         segs |-> (IF up = <<>> THEN up ELSE Front(up)) \o SubSeq(t, Len(common) + 1, Len(t))]

\* posixRelative() of two absolute paths: what follows the last common separator.
Relative(p, q) ==
    LET f == Normalize(p).segs
        t == Normalize(q).segs
        common == LongestCommonPrefix({f, t})
    IN  [abs |-> FALSE,
         segs |-> [i \in 1..(Len(f) - Len(common)) |-> ".."]
                  \o SubSeq(t, Len(common) + 1, Len(t))]

\* relative() of node:path drops the separators at the end first.
NodeRelative(p, q) == Relative(Bare(Normalize(p)), Bare(Normalize(q)))

Basename(p) ==
    LET segs == Bare(Normalize(p)).segs
    IN  [abs |-> FALSE, segs |-> IF segs = <<>> THEN <<>> ELSE <<Last(segs)>>]

Dirname(p) ==
    LET bare == Bare(Normalize(p))
    IN  [bare EXCEPT !.segs = IF @ = <<>> THEN @ ELSE Front(@)]

-----------------------------------------------------------------------------
(* EncodingUtils *)

Padding == 64     \* '=', beyond the sextets 0..63

\* The four characters for up to three bytes.
Quad(bs) ==
    LET Byte(i) == IF i <= Len(bs) THEN bs[i] ELSE 0
    IN  << Byte(1) \div 4,
           (Byte(1) % 4) * 16 + Byte(2) \div 16,
           IF Len(bs) > 1 THEN (Byte(2) % 16) * 4 + Byte(3) \div 64 ELSE Padding,
           IF Len(bs) > 2 THEN Byte(3) % 64 ELSE Padding >>

\* Cut into pieces of n, the last one perhaps shorter.
Pieces(seq, n) ==
    [i \in 1..((Len(seq) + n - 1) \div n) |->
        SubSeq(seq, n * (i - 1) + 1, IF n * i <= Len(seq) THEN n * i ELSE Len(seq))]

ToBase64(bs) ==
    LET pieces == Pieces(bs, 3)
    IN  [k \in 1..(4 * Len(pieces)) |->
            Quad(pieces[((k - 1) \div 4) + 1])[((k - 1) % 4) + 1]]

\* The three bytes of up to four characters.
Triple(cs) ==
    LET Char(i) == IF i <= Len(cs) THEN cs[i] ELSE 0
    IN  << Char(1) * 4 + Char(2) \div 16,
           (Char(2) % 16) * 16 + Char(3) \div 4,
           (Char(3) % 4) * 64 + Char(4) >>

\* The padding is thrown away, and the length says how many bytes there are.
FromBase64(b64) ==
    LET kept[i \in 0..Len(b64)] ==
            IF i = 0 THEN <<>>
            ELSE IF b64[i] = Padding THEN kept[i - 1] ELSE Append(kept[i - 1], b64[i])
        clean == kept[Len(b64)]
        pieces == Pieces(clean, 4)
    IN  [k \in 1..((Len(clean) * 3) \div 4) |->
            Triple(pieces[((k - 1) \div 3) + 1])[((k - 1) % 3) + 1]]
-----------------------------------------------------------------------------

\* The conversions agree with each other: normalising is idempotent, the directory
\* and the base name of a path make up that path, the relative path from one absolute
\* path leads to the other, and bytes survive the trip through Base64 that every
\* binary read and write of React Native takes.  Separators at the end apart; but when
\* from ends in one, relative() of React Native takes that for one more directory,
\* where node:path does not, though "behaviour is identical to the node version".
ConversionsInvert ==
    /\ Normalize(Normalize(from)) = Normalize(from)
    /\ Bare(Join(Dirname(from), Basename(from))) = Bare(Normalize(from))
    /\ from.abs =>
          /\ Bare(Join(Bare(Normalize(from)), NodeRelative(from, to))) = Bare(Normalize(to))
          /\ Bare(Normalize(from)) = Normalize(from) =>
                Bare(Join(from, Relative(from, to))) = Bare(Normalize(to))
    /\ FromBase64(ToBase64(bytes)) = bytes
=============================================================================
