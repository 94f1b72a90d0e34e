----------------------------- MODULE MCFilterSeed -----------------------------
(***************************************************************************)
(* The fixture of filter.rs's unit tests, run through the FilterOperator  *)
(* model: 120 generated records, the first 60 compacted (offsets 1-50     *)
(* added, 1-10 then deleted), the log adding offsets 51-100 and deleting  *)
(* 11-20.  Every record carries is_even, modulo_3 = offset % 3, id =      *)
(* offset and a document containing <cat> iff offset % 3 = 0 and <dog>    *)
(* iff offset % 5 = 0 (the generator is outside src/; spec.md 8).         *)
(*                                                                         *)
(* The fixture is the only segment and log; each test's query_ids and     *)
(* where clause are the configurations.  The log reader visits the        *)
(* entries in one fixed order, ascending offsets, in place of every       *)
(* order: the general runs cover the orders, this run the size.  The      *)
(* point-lookup cutoff is the code's 10.                                  *)
(***************************************************************************)
EXTENDS FilterOperator

CONSTANTS pcat, pdog   \* the patterns "<cat>" and "<dog>"

B(b) == [t |-> "bool", v |-> IF b THEN 1 ELSE 0]
I(n) == [t |-> "int", v |-> n]

MPrim(key, op, val) == [kind |-> "prim", key |-> key, op |-> op, val |-> val]
MSet(key, op, vals) == [kind |-> "set", key |-> key, op |-> op, vals |-> vals]
DocOp(op, p)        == [kind |-> "doc", op |-> op, pattern |-> p]
And(cs)             == [kind |-> "and", children |-> cs]
Or(cs)              == [kind |-> "or", children |-> cs]

\* A document is what the patterns can tell apart: <cat> and <dog> or not
SeedDocs == [cat : BOOLEAN, dog : BOOLEAN]
SeedKeys == {"is_even", "modulo_3", "id"}

\* add_delete_generator's record for an offset; its user id is the offset
SeedRecord(o) ==
    [uid |-> o,
     md  |-> [k \in SeedKeys |-> CASE k = "is_even"  -> B(o % 2 = 0)
                                   [] k = "modulo_3" -> I(o % 3)
                                   [] k = "id"       -> I(o)],
     doc |-> [cat |-> o % 3 = 0, dog |-> o % 5 = 0]]

\* setup_filter_input: the compacted segment and the materialized log
SeedSegment == [o \in 11..50 |-> SeedRecord(o)]
SeedLogs ==
    [o \in 11..20 \cup 51..100 |->
        IF o <= 20 THEN [op |-> "DeleteExisting", rec |-> SeedSegment[o]]
        ELSE [op |-> "AddNew", rec |-> SeedRecord(o)]]

SeedUids       == 0..100
SeedSegOffsets == 1..50
SeedNewOffsets == 51..100
SeedSegments == {SeedSegment}
SeedLogsOver(seg) == {SeedLogs}

SeedMetaValues == {B(FALSE), B(TRUE)} \cup {I(n) : n \in 0..100}
SeedPatterns == {pcat, pdog}
SeedDocContains == [p \in SeedPatterns |-> {d \in SeedDocs : IF p = pcat THEN d.cat ELSE d.dog}]
SeedNoRegex == [p \in SeedPatterns |-> {}]
SeedNgramHits == [p \in SeedPatterns |-> NoValue]
SeedExactRegex == [p \in SeedPatterns |-> FALSE]
SeedVariantRank == [t \in {"bool", "int", "float", "str"} |->
                      CASE t = "bool" -> 0 [] t = "int" -> 1 [] t = "float" -> 2 [] t = "str" -> 3]

Evens(S) == {o \in S : o % 2 = 0}
Odds(S)  == {o \in S : o % 2 = 1}
Mod(S, m, r) == {o \in S : o % m = r}

(***************************************************************************)
(* The tests: the run's configuration and the two bitmaps it asserts.     *)
(***************************************************************************)
TestTrivialFilter ==
    [qids |-> NoValue, where |-> NoValue, log |-> Full, compact |-> Exclude(11..20)]
TestSimpleUserAllowedIds ==
    [qids |-> 0..29, where |-> NoValue, log |-> Empty, compact |-> Include(21..29)]
TestSimpleEq ==
    [qids |-> NoValue, where |-> MPrim("is_even", "eq", B(TRUE)),
     log |-> Include(Evens(51..100)), compact |-> Include(Evens(21..50))]
TestSimpleNe ==
    [qids |-> NoValue, where |-> MPrim("modulo_3", "ne", I(0)),
     log |-> Exclude(Mod(51..100, 3, 0)), compact |-> Exclude(Mod(21..50, 3, 0) \cup 11..20)]
TestSimpleIn ==
    [qids |-> NoValue, where |-> MSet("is_even", "in", <<B(FALSE), B(TRUE)>>),
     log |-> Include(51..100), compact |-> Include(21..50)]
TestSimpleNin ==
    [qids |-> NoValue, where |-> MSet("modulo_3", "nin", <<I(1), I(2)>>),
     log |-> Exclude((51..100) \ Mod(51..100, 3, 0)),
     compact |-> Exclude(((21..50) \ Mod(21..50, 3, 0)) \cup 11..20)]
TestSimpleGt ==
    [qids |-> NoValue, where |-> MPrim("id", "gt", I(36)),
     log |-> Include(51..100), compact |-> Include(37..50)]
TestSimpleContains ==
    [qids |-> NoValue, where |-> DocOp("contains", pcat),
     log |-> Include(Mod(51..100, 3, 0)), compact |-> Include(Mod(21..50, 3, 0))]
TestSimpleNotContains ==
    [qids |-> NoValue, where |-> DocOp("notcontains", pdog),
     log |-> Exclude(Mod(51..100, 5, 0)), compact |-> Exclude(Mod(21..50, 5, 0) \cup 11..20)]
TestSimpleAnd ==
    [qids |-> NoValue,
     where |-> And(<<MPrim("id", "gt", I(36)), MPrim("is_even", "eq", B(FALSE))>>),
     log |-> Include(Odds(51..100)), compact |-> Include(Odds(37..50))]
TestSimpleOr ==
    [qids |-> NoValue,
     where |-> Or(<<MPrim("modulo_3", "eq", I(0)), MPrim("modulo_3", "eq", I(2))>>),
     log |-> Include((51..100) \ Mod(51..100, 3, 1)),
     compact |-> Include((21..50) \ Mod(21..50, 3, 1))]
TestComplexFilter ==
    [qids |-> 0..95,
     where |-> And(<<DocOp("notcontains", pdog),
                     Or(<<MPrim("id", "lt", I(72)), MSet("modulo_3", "nin", <<I(0), I(1)>>)>>)>>),
     log |-> Include({o \in 51..95 : o % 5 # 0 /\ (o < 72 \/ o % 3 = 2)}),
     compact |-> Include({o \in 21..50 : o % 5 # 0})]

SeedTests ==
    {TestTrivialFilter, TestSimpleUserAllowedIds, TestSimpleEq, TestSimpleNe,
     TestSimpleIn, TestSimpleNin, TestSimpleGt, TestSimpleContains,
     TestSimpleNotContains, TestSimpleAnd, TestSimpleOr, TestComplexFilter}

SeedClauses == {t.where : t \in SeedTests}
SeedQueryIdSets == {t.qids : t \in SeedTests}

\* MetadataLogReader::create visits the materialized entries in one order
InMaterializedOrder == \A o \in pending \ pending', q \in pending' : o < q

SeedNext == Next /\ InMaterializedOrder

SeedSpec == Init /\ [][SeedNext]_vars /\ WF_vars(SeedNext)

(***************************************************************************)
(* The unit tests' assertions: a run configured as a test that finishes   *)
(* returns exactly the log_offset_ids and compact_offset_ids the test     *)
(* asserts, sign included, which is how the next operator reads them.     *)
(***************************************************************************)
SeedOutputsMatchTests ==
    pc = "done" =>
        \A t \in SeedTests :
            t.qids = queryIds /\ t.where = whereClause =>
                logOffsetIds = t.log /\ compactOffsetIds = t.compact

=============================================================================
