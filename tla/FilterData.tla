------------------------------ MODULE FilterData ------------------------------
(***************************************************************************)
(* The inputs of one FilterOperator run (filter.rs) and what the run       *)
(* promises about them.                                                    *)
(*                                                                         *)
(* A record is a user id, a metadata map and an optional document.  The   *)
(* committed segment maps its live offsets to records; the materialized   *)
(* log maps each offset the log touched to its final operation and its    *)
(* hydrated record.  A where clause is a tree of the predicate grammar of *)
(* chroma_types::Where.  Strings are abstracted: documents and patterns   *)
(* are model values and "contains" / "matches" are relations given as     *)
(* constants; a metadata value is a variant tag and an integer.           *)
(***************************************************************************)
EXTENDS Integers, FiniteSets, Sequences, Functions

CONSTANTS
    Keys,          \* metadata keys
    MetaValues,    \* metadata values: [t : {"bool","int","float","str"}, v : Int]
    Docs,          \* documents (model values)
    Patterns,      \* document patterns of where clauses (model values)
    Uids,          \* user ids (model values)
    SegOffsets,    \* offsets a committed segment may hold
    NewOffsets,    \* offsets the log may allocate for new records
    NoValue,       \* sentinel: key unset, no document, no where clause, no query ids
    DocContains,   \* DocContains[p] : the documents that contain p as a substring
    RegexMatches,  \* RegexMatches[p] : the documents regex p matches
    ValidRegex,    \* the patterns ChromaRegex::try_from accepts
    Clauses,       \* the where clauses a run may be configured with
    QueryIdSets    \* the query_ids a run may be configured with

ASSUME NoValue \notin MetaValues \cup Docs \cup Uids
ASSUME SegOffsets \cap NewOffsets = {}
ASSUME \A p \in Patterns : DocContains[p] \subseteq Docs /\ RegexMatches[p] \subseteq Docs

Offsets == SegOffsets \cup NewOffsets

Records == [uid : Uids, md : [Keys -> MetaValues \cup {NoValue}], doc : Docs \cup {NoValue}]

Ops == {"Initial", "AddNew", "UpdateExisting", "OverwriteExisting", "DeleteExisting"}

(***************************************************************************)
(* Committed segments: a record for each live offset, user ids unique.     *)
(***************************************************************************)
UidsOf(f) == [o \in DOMAIN f |-> f[o].uid]

Segments == { s \in UNION {[S -> Records] : S \in SUBSET SegOffsets} :
                 IsInjective(UidsOf(s)) }

(***************************************************************************)
(* Materialized logs over a segment seg (chroma_segment::materialize_logs, *)
(* outside src/; spec.md 3): one entry per touched offset with its final   *)
(* operation.  AddNew only for new offsets; the other operations only for  *)
(* offsets live in seg, keeping the record's user id; Initial and          *)
(* DeleteExisting carry the segment's record.  User ids stay unique among  *)
(* the records that are live after the log.                                *)
(***************************************************************************)
EntriesFor(seg, o) ==
    IF o \in NewOffsets
    THEN {[op |-> "AddNew", rec |-> r] : r \in Records}
    ELSE {[op |-> "Initial", rec |-> seg[o]], [op |-> "DeleteExisting", rec |-> seg[o]]}
         \cup {[op |-> x, rec |-> r] : x \in {"UpdateExisting", "OverwriteExisting"},
                                     r \in {r2 \in Records : r2.uid = seg[o].uid}}

Merged(seg, log, o) == IF o \in DOMAIN log THEN log[o].rec ELSE seg[o]

MergedLive(seg, log) ==
    {o \in DOMAIN seg \cup DOMAIN log :
        ~(o \in DOMAIN log /\ log[o].op = "DeleteExisting")}

LogsOver(seg) ==
    { log \in UNION {[S -> UNION {EntriesFor(seg, o) : o \in S}] :
                       S \in SUBSET (DOMAIN seg \cup NewOffsets)} :
        /\ \A o \in DOMAIN log : log[o] \in EntriesFor(seg, o)
        /\ \A a, b \in MergedLive(seg, log) :
              Merged(seg, log, a).uid = Merged(seg, log, b).uid => a = b }

(***************************************************************************)
(* What the where clause means for one record (spec.md 3, 4.4): a         *)
(* comparison only matches a set key of the same variant; "ne" is the     *)
(* complement of "eq", so it selects records lacking the key; a document  *)
(* operator only matches a record that has a document.                    *)
(***************************************************************************)
Cmp(x, op, y) ==
    CASE op = "eq"  -> x = y
      [] op = "gt"  -> x > y
      [] op = "gte" -> x >= y
      [] op = "lt"  -> x < y
      [] op = "lte" -> x <= y

PrimSat(x, op, val) ==
    IF op = "ne" THEN ~(x # NoValue /\ x.t = val.t /\ x.v = val.v)
    ELSE x # NoValue /\ x.t = val.t /\ Cmp(x.v, op, val.v)

DocSat(d, op, p) ==
    CASE op = "contains"    -> d # NoValue /\ d \in DocContains[p]
      [] op = "notcontains" -> ~(d # NoValue /\ d \in DocContains[p])
      [] op = "regex"       -> d # NoValue /\ d \in RegexMatches[p]
      [] op = "notregex"    -> ~(d # NoValue /\ d \in RegexMatches[p])

RECURSIVE Sat(_, _)
Sat(w, r) ==
    CASE w.kind = "prim" -> PrimSat(r.md[w.key], w.op, w.val)
      [] w.kind = "set"  -> IF w.op = "in"
                            THEN \E i \in DOMAIN w.vals : PrimSat(r.md[w.key], "eq", w.vals[i])
                            ELSE \A i \in DOMAIN w.vals : ~PrimSat(r.md[w.key], "eq", w.vals[i])
      [] w.kind = "doc"  -> DocSat(r.doc, w.op, w.pattern)
      [] w.kind = "and"  -> \A i \in DOMAIN w.children : Sat(w.children[i], r)
      [] w.kind = "or"   -> \E i \in DOMAIN w.children : Sat(w.children[i], r)

\* The records a run must return: live after the log, named by query_ids
\* when they are given, and satisfying the where clause when it is given.
Expected(seg, log, qids, where) ==
    {o \in MergedLive(seg, log) :
        /\ qids = NoValue \/ Merged(seg, log, o).uid \in qids
        /\ where = NoValue \/ Sat(where, Merged(seg, log, o))}

RECURSIVE HasInvalidRegex(_)
HasInvalidRegex(w) ==
    CASE w.kind = "doc" -> w.op \in {"regex", "notregex"} /\ w.pattern \notin ValidRegex
      [] w.kind \in {"and", "or"} -> \E i \in DOMAIN w.children : HasInvalidRegex(w.children[i])
      [] OTHER -> FALSE

=============================================================================
