-------------------------- MODULE MCFilterRegexCutoff --------------------------
(***************************************************************************)
(* The regex branch of the compacted provider at the code's own point-     *)
(* lookup cutoff: candidates < segment size / 10.  The segments are sized *)
(* around the cutoff's boundaries (n = 9, 10, 11, 19, 20, 21), so that    *)
(* the lookup is taken with no candidate (n >= 10) and with one candidate *)
(* that the regex rejects (n >= 20), and the scan is taken one record     *)
(* below each boundary.  What a record holds is abstracted to the three   *)
(* documents the n-gram index and the regex tell apart.  The log may     *)
(* rewrite, overwrite or delete the first record.                        *)
(***************************************************************************)
EXTENDS FilterOperator

CONSTANTS
    dm,    \* a document the regex matches (hence an n-gram candidate)
    dh,    \* an n-gram candidate the regex rejects
    dn,    \* a document the n-gram index rules out
    preg   \* a pattern that is neither exact nor match-all

CutoffDocs == {dm, dh, dn}
CutoffPatterns == {preg}
CutoffRegexMatches == [p \in CutoffPatterns |-> {dm}]
CutoffNgramHits == [p \in CutoffPatterns |-> {dm, dh}]
CutoffExactRegex == [p \in CutoffPatterns |-> FALSE]
CutoffNoContains == [p \in CutoffPatterns |-> {}]
CutoffKeys == {"k"}
CutoffVariantRank == [t \in {"bool", "int", "float", "str"} |-> 0]

\* Segment sizes one below, at and one above n \div 10 = 1 and = 2
CutoffSizes == {9, 10, 11, 19, 20, 21}
CutoffSegOffsets == 1..21
CutoffUids == 1..21

\* A segment of n records: a matching, then b rejected candidates, then c
\* ruled-out documents, the rest without a document; user id = offset
CutoffSegment(n, a, b, c) ==
    [o \in 1..n |->
        [uid |-> o, md |-> [k \in Keys |-> NoValue],
         doc |-> CASE o <= a         -> dm
                   [] o <= a + b     -> dh
                   [] o <= a + b + c -> dn
                   [] OTHER          -> NoValue]]

CutoffSegments ==
    {CutoffSegment(n, a, b, c) : n \in CutoffSizes, a \in 0..2, b \in 0..2, c \in 0..1}

\* No log, or a log with one entry for the first record (the first
\* candidate whenever there is one): any entry the materializer can
\* produce for it (FilterData's EntriesFor)
CutoffLogsOver(seg) ==
    {<<>>} \cup {[o \in {1} |-> e] : e \in EntriesFor(seg, 1)}

DocOp(op, p) == [kind |-> "doc", op |-> op, pattern |-> p]

CutoffClauses == {DocOp("regex", preg), DocOp("notregex", preg)}

=============================================================================
