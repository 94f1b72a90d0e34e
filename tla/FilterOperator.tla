---------------------------- MODULE FilterOperator ----------------------------
(***************************************************************************)
(* FilterOperator::run (src/rust/worker/src/execution/operators/filter.rs) *)
(* step by step: open the record segment reader, materialize the log,     *)
(* fold every materialized entry into the MetadataLogReader, open the     *)
(* metadata segment reader, resolve query_ids on both sides, evaluate the *)
(* where clause against the log provider and then against the compacted  *)
(* provider.  One action per awaited step and one per error it can end    *)
(* the run with.  The run's inputs (segment, logs, queryIds, whereClause) *)
(* are chosen in Init and never change.                                   *)
(***************************************************************************)
EXTENDS FilterData, SignedRoaringBitmap, SequencesExt

CONSTANTS
    VariantRank,   \* the order of MetadataValue variants in its Ord
    U32Bits,       \* the width of the u32 the segment's int index keys have
    F32Step,       \* the spacing of f32 values, in units of the f64 values of floats
    LookupRatio,   \* the divisor of the point-lookup cutoff (10 in the code)
    NgramHits,     \* NgramHits[p]: documents the n-gram index proposes, or NoValue (no filter)
    ExactRegex,    \* ExactRegex[p]: empty look-set and can_match_exactly
    MissingIndexes \* TRUE: an index reader may be absent although records use it

ASSUME MissingIndexes \in BOOLEAN

ASSUME \A p \in Patterns :
    /\ NgramHits[p] # NoValue => RegexMatches[p] \subseteq NgramHits[p]
    /\ ExactRegex[p] /\ NgramHits[p] # NoValue => NgramHits[p] = RegexMatches[p]
    /\ ExactRegex[p] /\ NgramHits[p] = NoValue => RegexMatches[p] = Docs

VARIABLES
    segment, logs, queryIds, whereClause,  \* the run's inputs
    pc,                 \* the step of run() the task is at
    recordReader,       \* "some" | "none" (uninitialized segment) | "unset"
    pending,            \* materialized entries MetadataLogReader::create has not visited
    compactMetadata,    \* MetadataLogReader.compact_metadata as <<key, value, offset>>
    document,           \* MetadataLogReader.document
    updatedOffsetIds,   \* MetadataLogReader.updated_offset_ids
    userIdToOffsetId,   \* MetadataLogReader.user_id_to_offset_id
    allowLog,           \* user_allowed_log_offset_ids
    allowCompact,       \* user_allowed_compact_offset_ids
    logOffsetIds,       \* FilterOutput.log_offset_ids
    compactOffsetIds,   \* FilterOutput.compact_offset_ids
    error,              \* the FilterError the run ended with
    indexReaders        \* the index readers the metadata segment reader has

inputs == <<segment, logs, queryIds, whereClause>>
logReader == <<pending, compactMetadata, document, updatedOffsetIds, userIdToOffsetId>>
vars == <<inputs, pc, recordReader, logReader, allowLog, allowCompact,
          logOffsetIds, compactOffsetIds, error, indexReaders>>

-----------------------------------------------------------------------------
(***************************************************************************)
(* MetadataLogReader::get: a range of the BTreeMap<MetadataValue, _> of    *)
(* the key.  MetadataValue orders by variant first, then by value.        *)
(***************************************************************************)
MvLess(a, b) == VariantRank[a.t] < VariantRank[b.t] \/ (a.t = b.t /\ a.v < b.v)

InBounds(x, op, val) ==
    CASE op = "eq"  -> x = val
      [] op = "gt"  -> MvLess(val, x)
      [] op = "gte" -> ~MvLess(x, val)
      [] op = "lt"  -> MvLess(x, val)
      [] op = "lte" -> ~MvLess(val, x)

LogGet(key, val, op) ==
    {e[3] : e \in {e2 \in compactMetadata : e2[1] = key /\ InBounds(e2[2], op, val)}}

(***************************************************************************)
(* The compacted side: a typed index per variant, an int probed with the  *)
(* key `i as u32`, a float with `f as f32` (rounded to the nearest f32; a *)
(* float's v counts f64 steps, F32Step of them apart per f32 step).  The  *)
(* index holds its keys under the same casts.  An absent index reader     *)
(* gives the empty bitmap.                                                *)
(***************************************************************************)
IndexKey(x) ==
    CASE x.t = "int"   -> x.v % (2 ^ U32Bits)
      [] x.t = "float" -> ((x.v + F32Step \div 2) \div F32Step) * F32Step
      [] OTHER         -> x.v

SegGet(key, val, op) ==
    {o \in DOMAIN segment :
        val.t \in indexReaders /\
        LET x == segment[o].md[key] IN
        x # NoValue /\ x.t = val.t /\ Cmp(IndexKey(x), op, IndexKey(val))}

HasDocs == \E o \in DOMAIN segment : segment[o].doc # NoValue

\* The indexes some record of the segment uses: one per value variant, and
\* the full-text index ("fti") for documents
UsedIndexes ==
    UNION {{segment[o].md[k].t : k \in {k2 \in Keys : segment[o].md[k2] # NoValue}} :
              o \in DOMAIN segment}
    \cup (IF HasDocs THEN {"fti"} ELSE {})

\* MetadataProvider::filter_by_metadata
FilterByMetadata(prov, key, val, op) ==
    IF prov = "log" THEN LogGet(key, val, op) ELSE SegGet(key, val, op)

\* MetadataProvider::filter_by_document_contains
FilterByDocumentContains(prov, p) ==
    IF prov = "log"
    THEN {o \in DOMAIN document : document[o] \in DocContains[p]}
    ELSE {o \in DOMAIN segment : "fti" \in indexReaders /\ segment[o].doc \in DocContains[p]}

DocMatches(o, p) == segment[o].doc # NoValue /\ segment[o].doc \in RegexMatches[p]

\* Mutant: the point-lookup branch keeps every candidate without matching it
SegRegexTrustCandidates(p) ==
    LET cand == IF NgramHits[p] = NoValue THEN NoValue
                ELSE {o \in DOMAIN segment : segment[o].doc \in NgramHits[p]}
    IN  IF ExactRegex[p] \/ cand # NoValue
        THEN IF cand = NoValue THEN DOMAIN segment ELSE cand
        ELSE {o \in DOMAIN segment : DocMatches(o, p)}

\* (mutant) the point lookup keeps every candidate without running the regex
SegRegexLookupNoMatch(p) ==
    LET cand == IF NgramHits[p] = NoValue THEN NoValue
                ELSE {o \in DOMAIN segment : segment[o].doc \in NgramHits[p]}
    IN  IF ExactRegex[p]
        THEN IF cand = NoValue THEN DOMAIN segment ELSE cand
        ELSE IF cand # NoValue /\ Cardinality(cand) < Cardinality(DOMAIN segment) \div LookupRatio
             THEN cand
             ELSE {o \in DOMAIN segment : (cand = NoValue \/ o \in cand) /\ DocMatches(o, p)}

\* The compacted branch of filter_by_document_regex once both readers exist
SegRegex(p) ==
    LET cand == IF NgramHits[p] = NoValue THEN NoValue
                ELSE {o \in DOMAIN segment : segment[o].doc \in NgramHits[p]}
    IN  IF ExactRegex[p]
        THEN IF cand = NoValue THEN DOMAIN segment ELSE cand
        ELSE IF cand # NoValue /\ Cardinality(cand) < Cardinality(DOMAIN segment) \div LookupRatio
             THEN {o \in cand : DocMatches(o, p)}
             ELSE {o \in DOMAIN segment : (cand = NoValue \/ o \in cand) /\ DocMatches(o, p)}

\* MetadataProvider::filter_by_document_regex (a valid pattern)
FilterByDocumentRegex(prov, p) ==
    IF prov = "log"
    THEN {o \in DOMAIN document : document[o] \in RegexMatches[p]}
    ELSE IF "fti" \in indexReaders /\ recordReader = "some" THEN SegRegex(p) ELSE {}

DocQuery(prov, w) ==
    IF w.op \in {"contains", "notcontains"}
    THEN FilterByDocumentContains(prov, w.pattern)
    ELSE FilterByDocumentRegex(prov, w.pattern)

(***************************************************************************)
(* RoaringMetadataFilter::eval for Where, MetadataExpression,             *)
(* DocumentExpression and CompositeExpression.                            *)
(***************************************************************************)
RECURSIVE Eval(_, _)
Eval(w, prov) ==
    CASE w.kind = "prim" ->
            IF w.op = "ne" THEN Exclude(FilterByMetadata(prov, w.key, w.val, "eq"))
            ELSE Include(FilterByMetadata(prov, w.key, w.val, w.op))
      [] w.kind = "set" /\ w.op = "in" ->
            FoldLeft(BitOr, Empty,
                [i \in DOMAIN w.vals |-> Include(FilterByMetadata(prov, w.key, w.vals[i], "eq"))])
      [] w.kind = "set" /\ w.op = "nin" ->
            FoldLeft(BitAnd, Full,
                [i \in DOMAIN w.vals |-> Exclude(FilterByMetadata(prov, w.key, w.vals[i], "eq"))])
      [] w.kind = "doc" ->
            IF w.op \in {"contains", "regex"} THEN Include(DocQuery(prov, w))
            ELSE Exclude(DocQuery(prov, w))
      [] w.kind = "and" ->
            FoldLeft(BitAnd, Full, [i \in DOMAIN w.children |-> Eval(w.children[i], prov)])
      [] w.kind = "or" ->
            FoldLeft(BitOr, Empty, [i \in DOMAIN w.children |-> Eval(w.children[i], prov)])

-----------------------------------------------------------------------------
Init ==
    /\ segment \in Segments
    /\ logs \in LogsOver(segment)
    /\ queryIds \in QueryIdSets
    /\ whereClause \in Clauses
    /\ pc = "open_record_reader"
    /\ recordReader = "unset"
    /\ pending = {}
    /\ compactMetadata = {}
    /\ document = <<>>
    /\ updatedOffsetIds = {}
    /\ userIdToOffsetId = <<>>
    /\ allowLog = NoValue
    /\ allowCompact = NoValue
    /\ logOffsetIds = NoValue
    /\ compactOffsetIds = NoValue
    /\ error = NoValue
    /\ indexReaders = {}

Fail(kind) ==
    /\ pc' = "failed"
    /\ error' = kind
    /\ UNCHANGED <<inputs, recordReader, logReader, allowLog, allowCompact,
                   logOffsetIds, compactOffsetIds, indexReaders>>

\* RecordSegmentReader::from_segment: a reader, or none for an
\* uninitialized (never compacted, hence empty) segment, or an error.
OpenRecordReader ==
    /\ pc = "open_record_reader"
    /\ \/ recordReader' = "some"
       \/ DOMAIN segment = {} /\ recordReader' = "none"
    /\ pc' = "materialize"
    /\ UNCHANGED <<inputs, logReader, allowLog, allowCompact, logOffsetIds,
                   compactOffsetIds, error, indexReaders>>

OpenRecordReaderFails == pc = "open_record_reader" /\ Fail("RecordReader")

\* materialize_logs: the collapsed entries are the input logs
MaterializeLogs ==
    /\ pc = "materialize"
    /\ pc' = "create_log_reader"
    /\ pending' = DOMAIN logs
    /\ UNCHANGED <<inputs, recordReader, compactMetadata, document, updatedOffsetIds,
                   userIdToOffsetId, allowLog, allowCompact, logOffsetIds,
                   compactOffsetIds, error, indexReaders>>

MaterializeLogsFails == pc = "materialize" /\ Fail("LogMaterializer")

\* Mutants of one loop iteration: only deletions shadow the segment, or
\* an OverwriteExisting entry is missing from the shadow set
LogReaderVisitOnlyDeletes(o) ==
    LET e == logs[o] IN
    /\ pending' = pending \ {o}
    /\ updatedOffsetIds' = IF e.op = "DeleteExisting" THEN updatedOffsetIds \cup {o}
                           ELSE updatedOffsetIds
    /\ IF e.op = "DeleteExisting"
       THEN UNCHANGED <<compactMetadata, document, userIdToOffsetId>>
       ELSE /\ userIdToOffsetId' = (e.rec.uid :> o) @@ userIdToOffsetId
            /\ compactMetadata' = compactMetadata \cup
                   {<<k, e.rec.md[k], o>> : k \in {k2 \in Keys : e.rec.md[k2] # NoValue}}
            /\ document' = IF e.rec.doc = NoValue THEN document
                           ELSE (o :> e.rec.doc) @@ document

LogReaderVisitNoOverwrite(o) ==
    LET e == logs[o] IN
    /\ pending' = pending \ {o}
    /\ updatedOffsetIds' = IF e.op \in {"Initial", "AddNew", "OverwriteExisting"}
                           THEN updatedOffsetIds ELSE updatedOffsetIds \cup {o}
    /\ IF e.op = "DeleteExisting"
       THEN UNCHANGED <<compactMetadata, document, userIdToOffsetId>>
       ELSE /\ userIdToOffsetId' = (e.rec.uid :> o) @@ userIdToOffsetId
            /\ compactMetadata' = compactMetadata \cup
                   {<<k, e.rec.md[k], o>> : k \in {k2 \in Keys : e.rec.md[k2] # NoValue}}
            /\ document' = IF e.rec.doc = NoValue THEN document
                           ELSE (o :> e.rec.doc) @@ document

\* One iteration of the loop of MetadataLogReader::create
LogReaderVisit(o) ==
    LET e == logs[o] IN
    /\ pending' = pending \ {o}
    /\ updatedOffsetIds' = IF e.op \in {"Initial", "AddNew"} THEN updatedOffsetIds
                           ELSE updatedOffsetIds \cup {o}
    /\ IF e.op = "DeleteExisting"
       THEN UNCHANGED <<compactMetadata, document, userIdToOffsetId>>
       ELSE /\ userIdToOffsetId' = (e.rec.uid :> o) @@ userIdToOffsetId
            /\ compactMetadata' = compactMetadata \cup
                   {<<k, e.rec.md[k], o>> : k \in {k2 \in Keys : e.rec.md[k2] # NoValue}}
            /\ document' = IF e.rec.doc = NoValue THEN document
                           ELSE (o :> e.rec.doc) @@ document

CreateLogReader ==
    /\ pc = "create_log_reader"
    /\ \E o \in pending : LogReaderVisit(o)
    /\ UNCHANGED <<inputs, pc, recordReader, allowLog, allowCompact, logOffsetIds,
                   compactOffsetIds, error, indexReaders>>

\* log.hydrate(...) fails on an entry that is not a deletion
HydrateFails ==
    /\ pc = "create_log_reader"
    /\ \E o \in pending : logs[o].op # "DeleteExisting"
    /\ Fail("LogMaterializer")

\* MetadataSegmentReader::from_segment, once the loop has visited every
\* entry: it has an index reader for each index the segment's records use,
\* or (MissingIndexes) only some of them
OpenMetadataReader ==
    /\ pc = "create_log_reader"
    /\ pending = {}
    /\ pc' = "user_ids"
    /\ indexReaders' \in IF MissingIndexes THEN SUBSET UsedIndexes ELSE {UsedIndexes}
    /\ UNCHANGED <<inputs, recordReader, logReader, allowLog, allowCompact,
                   logOffsetIds, compactOffsetIds, error>>

OpenMetadataReaderFails ==
    /\ pc = "create_log_reader"
    /\ pending = {}
    /\ Fail("MetadataReader")

\* MetadataLogReader::search_user_ids: the log offsets of the given user
\* ids that the log holds a live record for
SearchUserIds(ids) == {userIdToOffsetId[u] : u \in ids \cap DOMAIN userIdToOffsetId}

\* The offset ids of query_ids on both sides (search_user_ids and
\* get_offset_id_for_user_id); full when query_ids is not given.
ResolveUserIds ==
    /\ pc = "user_ids"
    /\ IF queryIds = NoValue
       THEN allowLog' = Full /\ allowCompact' = Full
       ELSE /\ allowLog' = Include(SearchUserIds(queryIds))
            /\ allowCompact' = IF recordReader = "some"
                               THEN Include({o \in DOMAIN segment : segment[o].uid \in queryIds})
                               ELSE Full
    /\ pc' = "eval_log"
    /\ UNCHANGED <<inputs, recordReader, logReader, logOffsetIds, compactOffsetIds, error, indexReaders>>

ResolveUserIdsFails ==
    /\ pc = "user_ids"
    /\ queryIds \notin {NoValue, {}}
    /\ recordReader = "some"
    /\ Fail("Record")

\* (mutant) the log result is also masked by the shadow set of the segment
EvalLogShadowMasked ==
    /\ pc = "eval_log"
    /\ whereClause # NoValue => ~HasInvalidRegex(whereClause)
    /\ logOffsetIds' = IF whereClause = NoValue
                       THEN BitAnd(allowLog, Exclude(updatedOffsetIds))
                       ELSE BitAnd(BitAnd(Eval(whereClause, "log"), allowLog), Exclude(updatedOffsetIds))
    /\ pc' = "eval_compact"
    /\ UNCHANGED <<inputs, recordReader, logReader, allowLog, allowCompact,
                   compactOffsetIds, error, indexReaders>>

\* The where clause against the log provider, masked by the allowed ids
EvalLog ==
    /\ pc = "eval_log"
    /\ whereClause # NoValue => ~HasInvalidRegex(whereClause)
    /\ logOffsetIds' = IF whereClause = NoValue THEN allowLog
                       ELSE BitAnd(Eval(whereClause, "log"), allowLog)
    /\ pc' = "eval_compact"
    /\ UNCHANGED <<inputs, recordReader, logReader, allowLog, allowCompact,
                   compactOffsetIds, error, indexReaders>>

EvalLogFails ==
    /\ pc = "eval_log"
    /\ whereClause # NoValue
    /\ HasInvalidRegex(whereClause)
    /\ Fail("Regex")

\* Mutant: the where-clause branch forgets the Exclude(updated_offset_ids) mask
EvalCompactNoShadowMask ==
    /\ pc = "eval_compact"
    /\ compactOffsetIds' =
          IF whereClause = NoValue
          THEN BitAnd(allowCompact, Exclude(updatedOffsetIds))
          ELSE BitAnd(Eval(whereClause, "compact"), allowCompact)
    /\ pc' = "done"
    /\ UNCHANGED <<inputs, recordReader, logReader, allowLog, allowCompact,
                   logOffsetIds, error, indexReaders>>

\* The where clause against the compacted provider, masked by the allowed
\* ids and by the offsets the log updated or deleted
EvalCompact ==
    /\ pc = "eval_compact"
    /\ compactOffsetIds' =
          IF whereClause = NoValue
          THEN BitAnd(allowCompact, Exclude(updatedOffsetIds))
          ELSE BitAnd(BitAnd(Eval(whereClause, "compact"), allowCompact), Exclude(updatedOffsetIds))
    /\ pc' = "done"
    /\ UNCHANGED <<inputs, recordReader, logReader, allowLog, allowCompact,
                   logOffsetIds, error, indexReaders>>

\* A metadata-index, full-text or record read of the segment fails
EvalCompactFails ==
    /\ pc = "eval_compact"
    /\ whereClause # NoValue
    /\ DOMAIN segment # {}
    /\ \E kind \in {"Index", "Record"} : Fail(kind)

Next ==
    \/ OpenRecordReader \/ OpenRecordReaderFails
    \/ MaterializeLogs \/ MaterializeLogsFails
    \/ CreateLogReader \/ HydrateFails
    \/ OpenMetadataReader \/ OpenMetadataReaderFails
    \/ ResolveUserIds \/ ResolveUserIdsFails
    \/ EvalLog \/ EvalLogFails
    \/ EvalCompact \/ EvalCompactFails

\* Every step of run() is an await that returns; the task runs on.
Spec == Init /\ [][Next]_vars /\ WF_vars(Next)

-----------------------------------------------------------------------------
\* The offsets the next operator keeps: the log mask over the log's live
\* entries, the compact mask over the segment's records.
Selected ==
    Selects(logOffsetIds, {o \in DOMAIN logs : logs[o].op # "DeleteExisting"})
    \cup Selects(compactOffsetIds, DOMAIN segment)

(***************************************************************************)
(* Refinement: run() implements FilterSpec.  Every run ends, failed or    *)
(* done, and a run that is done selects exactly the records that are live *)
(* after the log, named by query_ids and satisfying the where clause,     *)
(* whichever side (log or segment) holds them.                            *)
(***************************************************************************)
Abs == INSTANCE FilterSpec WITH
    phase  <- IF pc \in {"done", "failed"} THEN pc ELSE "running",
    result <- IF pc = "done" THEN Selected ELSE {}

FilterRefinesSpec == Abs!Spec

(***************************************************************************)
(* No record is read from both sides unless the two copies agree: an      *)
(* offset both masks select is one whose log entry carries the segment's  *)
(* own record (an Initial entry).  A segment copy the log updated,        *)
(* overwrote or deleted is never selected next to, or instead of, the     *)
(* log's version (the Exclude(updated_offset_ids) term of run()).         *)
(***************************************************************************)
NoStaleDuplicate ==
    pc = "done" =>
        \A o \in Selects(logOffsetIds, {o2 \in DOMAIN logs : logs[o2].op # "DeleteExisting"})
                 \cap Selects(compactOffsetIds, DOMAIN segment) :
            logs[o].rec = segment[o]

=============================================================================
