# TLA+ models of the query-predicate filter

This directory models `FilterOperator` (`src/rust/worker/src/execution/operators/filter.rs`) and the collection-configuration layer (`src/rust/types/src/collection_configuration.rs`).

## Inventory

### Components and their state

| Component | Source | State | Operations |
|---|---|---|---|
| SignedRoaringBitmap | chroma_types (outside src/) | `Include(set)` or `Exclude(set)` | `empty`, `full`, `&`, `\|` |
| MetadataLogReader | filter.rs 98-189 | `compact_metadata` (key → ordered value → offsets), `document`, `updated_offset_ids`, `user_id_to_offset_id` | `create` (a loop over materialized entries), `get`, `search_user_ids` |
| MetadataProvider | filter.rs 191-345 | none; borrows the log reader, or the metadata and record segment readers | `filter_by_metadata`, `filter_by_document_contains`, `filter_by_document_regex` |
| RoaringMetadataFilter | filter.rs 347-492 | none | recursive `eval` of `Where` trees |
| FilterOperator::run | filter.rs 494-595 | the locals of `run` | open the record reader, materialize, build the log reader, open the metadata reader, resolve `query_ids`, evaluate on the log, evaluate on the segment |
| CollectionConfiguration | collection_configuration.rs | `InternalCollectionConfiguration { vector_index, embedding_function }` | `try_from_config`, `try_from`, `update`, `get_hnsw_config_from_legacy_metadata` |
| Collaborators | outside src/ | log materializer, record and metadata segment readers, n-gram full-text index, regex parser | consumed through the interfaces in spec.md 6 |

### How the parts interact

`run` builds the log view from the materialized log. It wraps the log view and the segment readers in two providers and evaluates the same `Where` tree against each provider. It masks the log result with the ids allowed on the log side. It masks the segment result with the ids allowed on the segment side and with `Exclude(updated_offset_ids)`. The next operator applies the log mask to the log's live entries and the compact mask to the segment's records.

### What is hard

There is no concurrency inside a run: it is one task awaiting one call at a time. The hard part is that two representations of the same records must give the same answer:

- A record may live in the log or in the segment. It must be selected exactly when its newest version matches, whichever side holds it. A stale segment copy must never be selected.
- The two providers implement comparisons differently. The log uses a BTreeMap over `MetadataValue`; the segment uses typed indexes, with ints cast to u32.
- Negation is symbolic (`Exclude`), so `ne`, `nin`, `notcontains` and `notregex` select records that lack the key or the document.
- Regex on the segment takes one of three paths (exact, point lookup, scan), chosen by the n-gram index's answer and a cutoff.
- Every await can fail, and an error aborts the run.

No run checks a type invariant: the Rust types already give each variable its type, and a mutant that breaks one would not compile.

### Properties that make it correct

- **Refinement** (`FilterRefinesSpec`): every run ends. A finished run selects exactly the records that are live after the log, are named by `query_ids`, and satisfy the where clause (spec.md 3, 4.4, 4.5).
- **Test outputs** (`SeedOutputsMatchTests`): on the unit tests' fixture, each test's configuration yields exactly the bitmaps the test asserts. This pins the sign and the mask of each side, which the refinement, comparing selected records only, does not see.
- **No stale duplicate** (`NoStaleDuplicate`): an offset selected by both masks carries the same record in the log and in the segment.
- **Configuration** (`CollectionConfiguration`):
  - a collection's index kind never changes;
  - its space is the one its creating request named;
  - each field holds the last value written to it;
  - an export round-trips;
  - the parameters the segment is built with honour the user's updates.
  - the unit tests of collection_configuration.rs hold of the model's `try_from_config`, `update` and legacy fallback (`ConfigUnitTestsHold`).

## Modules

- `SignedRoaringBitmap.tla`: the bitmap operators. The type is outside src/, so they are modelled from spec.md 4.1 (`spec_modelled`).
- `FilterData.tla`: the inputs a run can see, and the reference meaning of a where clause.
  - A segment is its live records, with unique user ids.
  - A materialized log is, per touched offset, the final operation and the hydrated record. `AddNew` is only for new offsets; other operations are only for live segment offsets and keep the user id. User ids stay unique after the log.
  - `Sat` is the meaning of a `Where` tree; `Expected` is the set a run must return.
- `FilterSpec.tla`: the abstract run. It ends in one step, either `done` with `result = Expected` or `failed`.
- `FilterOperator.tla`: the detailed run.
  - Variables: the inputs, then `pc`, `recordReader`, the four log-reader maps plus `pending`, the two allow-lists, the two outputs, `error`, and `indexReaders` (the index readers the metadata segment reader opened with).
  - `MissingIndexes` sets which readers can be absent. When FALSE, the reader has exactly the indexes its records use. When TRUE, any of them may be missing, as spec.md 6 allows.
  - There is one action per awaited step of `run` and one per error it can return. `LogReaderVisit` is one iteration of the `MetadataLogReader::create` loop.
  - `Eval` is the recursive evaluator. `LogGet` and `SegGet` are the two `filter_by_metadata` variants. `SegRegex` is the segment regex path with its three branches.
  - The refinement mapping sends `pc` to `phase`. It sends `Selected` (the log mask over live log entries, together with the compact mask over segment records) to `result`.
  - The module also defines the mutants the mutant runs use.
- `MCFilterOperator.tla`: constants and clause sets for TLC.
- `MCFilterSeed.tla`: the fixture of filter.rs's unit tests, run through `FilterOperator`.
  - It replaces `Segments` and `LogsOver` by the fixture. Both `Init` and the abstract `FilterSpec` start from it.
  - The fixture has segment records 11-50, `DeleteExisting` for 11-20 and `AddNew` for 51-100. Each record carries `is_even`, `modulo_3`, `id` and a document with or without `<cat>` and `<dog>`. The generator is outside src/, so its records follow spec.md 8.
  - Each test (`TestTrivialFilter` ... `TestComplexFilter`) is its `query_ids`, its where clause and the two bitmaps it asserts.
  - `SeedSpec` visits the log entries in ascending offset order (`InMaterializedOrder`). Sixty entries in every order are out of reach, and the other runs cover every order.
- `MCFilterRegexCutoff.tla`: the regex branch of the compacted provider at the code's own cutoff (`LookupRatio = 10`).
  - It replaces `Segments` and `LogsOver`. A segment has n records (n in 9, 10, 11, 19, 20, 21): `a` matching documents, `b` n-gram candidates the regex rejects, `c` documents the index rules out, and the rest without a document. The log is empty, or it has one entry of any kind for the first record.
  - `n \div 10` is 0, 1 or 2 here. So the lookup is taken with no candidate (n >= 10) and with one rejected candidate (n >= 20), and the scan is taken just below each boundary.
- `CollectionConfiguration.tla`: one collection's configuration over its life.
  - `config` is `None` until a creation succeeds. `collMetadata` and `segMetadata` are the collection's and the HNSW segment's legacy metadata.
  - `requestedSpace`, `written` and `lastEf` are history: what the user's requests said.
  - Actions:
    - `TryFromConfig` and `TryFromConfigFails` are `try_from_config`. Both take its result from `TryFromConfigOutcome`, a pure operator that returns `Ok(config)` or `Err(error)`.
    - `TryFrom` is `TryFrom<CollectionConfiguration>`.
    - `FromLegacyMetadata`, `FromLegacyMetadataFails` and `DefaultConfiguration` are the constructors `from_legacy_metadata`, `default_hnsw` and `default_spann`.
    - `Update` and `UpdateRejected` are `TryFrom<UpdateCollectionConfiguration>` followed by `update`.
    - `ReplaceVectorIndex` is `VectorIndexConfiguration::update`.
  - `GetHnswConfigFromLegacyMetadata` is the read the HNSW segment makes.
  - The index types live outside src/. They are a kind, a space and a function from parameter names to values. `from_legacy_segment_metadata` is the constant `LegacyHnsw`.
- `MCCollectionConfiguration.tla`: the configuration constants.
  - Spaces {l2, cosine}; values {0, 1} with 0 the default.
  - HNSW parameters `ef_construction` (not updatable) and `ef_search`; SPANN parameter `ef_search`.
  - Metadata that is empty, sets `hnsw:search_ef`, or does not parse.
  - Two more metadata values that only the unit tests read: `hnsw:construction_ef = 1` (`mce`), and the same with `hnsw:space = cosine` (`mlegacy`).
  - The file's 13 unit tests, each a definition named after the test, over the model's values: 1 stands for every non-default number. `ConfigUnitTestsHold` is their conjunction.

## Runs

| Run | cfg | Expect | Shows |
|---|---|---|---|
| filter_metadata | MCFilterMetadata.cfg | pass (698k states) | `eq/ne/gt/lt/lte`, `in/nin`, empty And/Or and composites, over every segment, log and `query_ids` combination (with errors), give exactly `Expected` |
| filter_document | MCFilterDocument.cfg | pass (411k states) | contains, notcontains, regex and notregex over exact, approximate (superset) and unbounded n-gram answers, and an invalid regex |
| filter_seed_tests | MCFilterSeed.cfg | pass (4k states) | the tests' fixture, with 40 live segment records, 60 log entries and the real cutoff of 10, returns under each test's configuration exactly the two bitmaps the test asserts, sign included (`SeedOutputsMatchTests`), and refines `FilterSpec` |
| filter_regex_cutoff | MCFilterRegexCutoff.cfg | pass (33k states) | with the real cutoff of 10 and segments of 9 to 21 records, the point lookup and the range scan return what `FilterSpec` selects, including a lookup whose one candidate the regex rejects, under every log entry for the first record (the first candidate) |
| filter_cross_variant | MCFilterCrossVariant.cfg | violation | `k > 0` on the log side matches a string value |
| filter_negative_int | MCFilterNegativeInt.cfg | violation | `k > -1` misses a compacted `k = 1`, because the probe is `(-1) as u32` |
| filter_float_precision | MCFilterFloatPrecision.cfg | violation | `k > 0` misses a compacted float one f64 step above 0, because the probe is `0 as f32` |
| filter_index_missing | MCFilterIndexMissing.cfg | violation | without a full-text index reader, `notcontains p1` selects a compacted record whose document contains `p1` |
| filter_regex_match_all | MCFilterRegexMatchAll.cfg | violation | an exact regex with no n-gram filter selects segment records that have no document |
| config_lifecycle | MCConfigLifecycle.cfg | pass (31k states) | every creation request, default kind and metadata, then up to 3 updates or replacements, keep kind, requested space, last writes and the export round trip; the file's 13 unit tests hold of the model's operators |
| config_update_lost | MCConfigUpdateLost.cfg | violation | updating `ef_search` to its default value is overridden by the segment's legacy metadata |
| config_legacy_error | MCConfigLegacyError.cfg | violation | an HNSW configuration that is not the default (space cosine in the trace) becomes unreadable when the segment's metadata does not parse; the invariant leaves default configurations out, since for them the metadata is the intended fallback |

### Bounds

- **Offsets:** one segment offset and one new offset. The match-all and regex-lookup runs use two segment offsets; the lookup run has no new offset, to stay within a minute. This covers every combination that matters: each log operation over a segment record, a new record, and the deletion of a record whose user id is re-added at a new offset.
- **Keys and values:** one key, int values {0, 1} or none; documents {d1, d2} or none; two user ids.
- **Query ids:** none, `{}` or `{u1}`.
- **Width and cutoff:** `U32Bits = 8` keeps the wrap of `as u32` for small negative values. `F32Step = 4` makes four neighbouring f64 values share one f32, which is the rounding of `as f32` at any magnitude. `LookupRatio = 1` in the metadata and document runs makes the point lookup reachable in their small segments (for an empty candidate set). `filter_regex_cutoff` checks the code's real divisor of 10, on segments of 9 to 21 records sized around its boundaries; a record's content there is one of the three documents the regex branch tells apart. Both branches return the same set, so an off-by-one in the cutoff changes only the cost and no result. No property can see it, and that is why none is stated.
- **Configuration:** five legacy metadata values, among them one with a non-default space, so that a space inherited from the metadata differs from the default. `MaxUpdates = 3` allows a cross-kind update between two same-kind ones, and an update back to the defaults after an update away from them. One updatable parameter per kind, plus HNSW's non-updatable `ef_construction`, covers written, unwritten and non-updatable fields.
- **Seed fixture:** the unit tests' sizes and the code's cutoff of 10. The fixture has no regex clause, so the cutoff is not exercised there.
- **Variant order:** `VariantRank` is Bool < Int < Float < Str. The cross-variant finding holds for any total order.

### Fairness

`Spec` has weak fairness on `Next`. Every step of `run` is an await on an I/O call that returns a value or an error, and the task is not otherwise blocked (spec.md 5). The runs set `CHECK_DEADLOCK FALSE` because a run really stops at `done` or `failed`.

The configuration model checks safety only. A collection may stop receiving updates; `MaxUpdates` is where the model stops, so its runs also set `CHECK_DEADLOCK FALSE`.

## Findings

1. **Cross-variant range on the log side** (filter.rs:164-177). This is a spec/code divergence.
2. **Negative int cast** (filter.rs:314). This is a spec/code divergence. It assumes the segment writer stores ints with the same cast.
3. **Float precision on the segment side** (filter.rs:318). This is a spec/code divergence. Floats one f64 step apart compare equal once compacted.
4. **Negation over a missing full-text index** (filter.rs:212). This is a spec gap. An absent index reader means "no match", and `notcontains` then selects every compacted record.
5. **Exact regex with an unbounded n-gram answer returns doc-less records** (filter.rs:243). This is a spec gap.
6. **An update back to the defaults is lost** (collection_configuration.rs:131). This is a code bug. The fallback cannot tell "never configured" from "configured to the default values".
7. **Unparsable segment metadata breaks non-default configurations** (collection_configuration.rs:129). This is a spec/code divergence. The metadata is parsed before the check at line 131 that would ignore it for any configuration that is not the default.

## Not modelled, and why

- The passing runs use int values only. Floats appear in the precision run, and they behave like ints on the log side.
- The complement of spec.md 4.1 is not modelled, because filter.rs never calls it. Negations build `Exclude` directly.
- String contents, regex parsing and HIR are abstracted to model values.
- Blockfile storage, the materializer and the indexes appear only through the inputs they produce.
- In the passing runs every index that the segment's records use has a reader. Missing readers are generated only in `filter_index_missing`.
- The error-code mappings are formatting and are not modelled. `UpdateVectorIndexConfiguration::Hnsw(None)` cannot come from `TryFrom<UpdateCollectionConfiguration>`, and no other constructor is modelled.

## Plan

1. Done: `FilterOperator` refining `FilterSpec`, with metadata and document runs and three violation runs.
2. Not pursued: `SignedRoaringBitmap` laws on their own. The operators are modelled from spec.md (the type is outside src/). Every combination the evaluator builds from them is already checked against the set semantics of `FilterSpec`, through `FilterRefinesSpec`.
3. Done: `CollectionConfiguration`, with one passing run and two violation runs.
4. Done: floats in `FilterOperator`, with the f32 rounding of the segment index.
5. Done: `filter_regex_cutoff` reaches the point lookup with a rejected candidate at the real ratio of 10, with segments of up to 21 records whose contents are reduced to the three documents the regex branch tells apart.
