--------------------------- MODULE MCFilterOperator ---------------------------
(***************************************************************************)
(* A model of FilterOperator for TLC: one segment offset and one new      *)
(* offset, one metadata key with int values, two documents and patterns   *)
(* covering an exact, an approximate and an unbounded n-gram answer and   *)
(* an invalid regex.                                                      *)
(***************************************************************************)
EXTENDS FilterOperator

CONSTANTS u1, u2, d1, d2, p1, p2, p3, pbad

I(n) == [t |-> "int", v |-> n]
S(n) == [t |-> "str", v |-> n]   \* a string, by its rank among the run's strings
F(n) == [t |-> "float", v |-> n] \* an f64, in f64 steps

Prim(op, n)    == [kind |-> "prim", key |-> "k", op |-> op, val |-> I(n)]
InSet(op, ns)  == [kind |-> "set", key |-> "k", op |-> op, vals |-> [i \in DOMAIN ns |-> I(ns[i])]]
DocOp(op, p)   == [kind |-> "doc", op |-> op, pattern |-> p]
And(cs)        == [kind |-> "and", children |-> cs]
Or(cs)         == [kind |-> "or", children |-> cs]

MCKeys       == {"k"}
MCMetaValues == {I(0), I(1)}
MCOneValue   == {I(0)}
MCOneDoc     == {d1}
MCUids       == {u1, u2}
MCDocs       == {d1, d2}
MCPatterns   == {p1, p2, p3, pbad}
MCSegOffsets == {1}
MCNewOffsets == {2}

\* (restricted to the documents of the run)
MCDocContains  == [p \in MCPatterns |-> (IF p = p1 THEN {d1} ELSE {d2}) \cap Docs]
MCRegexMatches == [p \in MCPatterns |-> (CASE p = p1 -> {d1} [] p = p2 -> {d1}
                                            [] p = p3 -> {d2} [] p = pbad -> {}) \cap Docs]
MCValidRegex   == {p1, p2, p3}
\* p1: the n-gram index answers exactly; p2: a superset; p3: no filter
MCNgramHits    == [p \in MCPatterns |-> CASE p = p1 -> {d1} [] p = p2 -> {d1, d2} \cap Docs
                                         [] OTHER -> NoValue]
MCExactRegex   == [p \in MCPatterns |-> p = p1]
MCVariantRank  == [t \in {"bool", "int", "float", "str"} |->
                      CASE t = "bool" -> 0 [] t = "int" -> 1 [] t = "float" -> 2 [] t = "str" -> 3]

\* Metadata comparisons and their composition
MCMetadataClauses ==
    { NoValue,
      Prim("ne", 1), Prim("gt", 0), Prim("lte", 0),
      InSet("in", <<1>>), InSet("nin", <<0, 1>>),
      And(<<Prim("eq", 1), DocOp("contains", p1)>>),
      Or(<<Prim("lt", 1), Prim("ne", 0)>>),
      And(<<>>), Or(<<>>) }

\* Document operators and their composition
MCDocumentClauses ==
    { DocOp("notcontains", p2), DocOp("regex", p1), DocOp("regex", p2),
      DocOp("notregex", p3), DocOp("regex", pbad),
      Or(<<DocOp("notregex", p2), Prim("ne", 0)>>) }

\* A key holding an int in one record and a string in another
MCMixedValues == {I(1), S(0)}
MCRangeClauses == {Prim("gt", 0)}

\* A negative int next to a positive one
MCSignedValues == {I(-1), I(1)}
MCNegativeClauses == {Prim("gt", -1)}

\* Two f64 values one f64 step apart, which f32 does not tell apart
MCNearFloats == {F(0), F(1)}
MCFloatClauses == {[kind |-> "prim", key |-> "k", op |-> "gt", val |-> F(0)]}

\* p3 made exact: every document matches it and the n-gram index
\* answers "no filter" (a pattern such as ".*")
MCRegexMatchesAll == [p \in MCPatterns |-> IF p = p3 THEN Docs ELSE MCRegexMatches[p]]
MCExactRegexAll   == [p \in MCPatterns |-> p \in {p1, p3}]
MCMatchAllClauses == {DocOp("regex", p3)}
MCTwoSegOffsets   == {1, 3}   \* a record with a document next to one without
MCNoQueryIds      == {NoValue}

\* A negated substring filter, for a segment whose full-text index reader
\* may be missing
MCNotContainsClauses == {DocOp("notcontains", p1)}

MCNoNewOffsets  == {}

MCQueryIdSets == {NoValue, {}, {u1}}

=============================================================================
