------------------------ MODULE CollectionConfiguration ------------------------
(***************************************************************************)
(* The configuration of one collection over its life                      *)
(* (collection_configuration.rs): it is created from a user's              *)
(* CollectionConfiguration (try_from_config, or TryFrom without a default  *)
(* index kind), updated any number of times from a user's                  *)
(* UpdateCollectionConfiguration, exported back (From), and read by the    *)
(* HNSW segment through the legacy-metadata fallback.                      *)
(*                                                                         *)
(* A vector index is its kind, its distance space and its numeric          *)
(* parameters; a user-side configuration is the same with every field      *)
(* optional (None).  The parameter values are a small set; which           *)
(* parameters exist and which an update may change are constants.  The    *)
(* legacy segment metadata is a model value, and what                     *)
(* InternalHnswConfiguration::from_legacy_segment_metadata (outside src/)  *)
(* makes of it is the constant function LegacyHnsw.                       *)
(***************************************************************************)
EXTENDS Naturals, FiniteSets

CONSTANTS
    Spaces,              \* distance spaces (HnswSpace)
    Vals,                \* parameter values
    DefaultSpace,        \* the space of the Default configurations
    DefaultVal,          \* the parameter value of the Default configurations
    HnswParams,          \* fields of InternalHnswConfiguration besides space
    HnswUpdatable,       \* fields of UpdateHnswConfiguration
    SpannParams,         \* fields of InternalSpannConfiguration besides space
    SpannUpdatable,      \* fields of UpdateSpannConfiguration
    EmbeddingFunctions,  \* EmbeddingFunctionConfiguration values
    Metadatas,           \* legacy metadata a collection or segment may carry
    LegacyHnsw,          \* from_legacy_segment_metadata: Metadatas -> index or ParseError
    ParseError,          \* HnswParametersFromSegmentError
    None,                \* Option::None
    MaxUpdates           \* bound on the updates of one collection

Kinds == {"hnsw", "spann"}

ParamsOf(k)    == IF k = "hnsw" THEN HnswParams ELSE SpannParams
UpdatableOf(k) == IF k = "hnsw" THEN HnswUpdatable ELSE SpannUpdatable

\* InternalHnswConfiguration / InternalSpannConfiguration
IndexesOf(k) == [kind : {k}, space : Spaces, params : [ParamsOf(k) -> Vals]]
VectorIndexes == IndexesOf("hnsw") \cup IndexesOf("spann")

\* HnswConfiguration / SpannConfiguration: every field optional
UserIndexesOf(k) == [space : Spaces \cup {None}, params : [ParamsOf(k) -> Vals \cup {None}]]

\* CollectionConfiguration
CollectionConfigurations ==
    [hnsw : UserIndexesOf("hnsw") \cup {None},
     spann : UserIndexesOf("spann") \cup {None},
     embedding_function : EmbeddingFunctions \cup {None}]

\* UpdateCollectionConfiguration
UpdatesOf(k) == [UpdatableOf(k) -> Vals \cup {None}]
UpdateCollectionConfigurations ==
    [hnsw : UpdatesOf("hnsw") \cup {None},
     spann : UpdatesOf("spann") \cup {None},
     embedding_function : EmbeddingFunctions \cup {None}]

ASSUME \A m \in Metadatas : LegacyHnsw[m] \in IndexesOf("hnsw") \cup {ParseError}

(***************************************************************************)
(* Conversions of the index types (outside src/).                         *)
(***************************************************************************)
\* InternalHnswConfiguration::default(), InternalSpannConfiguration::default()
DefaultIndex(k) ==
    [kind |-> k, space |-> DefaultSpace, params |-> [p \in ParamsOf(k) |-> DefaultVal]]

\* From<HnswConfiguration> for InternalHnswConfiguration (and SPANN): unset fields default
IntoInternal(k, u) ==
    [kind |-> k,
     space |-> IF u.space = None THEN DefaultSpace ELSE u.space,
     params |-> [p \in ParamsOf(k) |-> IF u.params[p] = None THEN DefaultVal ELSE u.params[p]]]

\* From<InternalHnswConfiguration> for HnswConfiguration (and SPANN): every field set
IntoUser(ix) == [space |-> ix.space, params |-> ix.params]

(***************************************************************************)
(* The code of collection_configuration.rs.                               *)
(***************************************************************************)
\* Mutant: the cross-kind arms build the plain default, losing the space
InheritSpaceDropped(k, space) == DefaultIndex(k)

\* VectorIndexConfiguration::update: an index of the same kind replaces the
\* current one; one of the other kind is ignored (no conversion)
VectorIndexUpdate(vi, new) == IF new.kind = vi.kind THEN new ELSE vi

\* Default configuration that keeps only the given space, if there is one
\* (the `..Default::default()` struct updates of try_from_config)
InheritSpace(k, space) ==
    IF space = None THEN DefaultIndex(k) ELSE [DefaultIndex(k) EXCEPT !.space = space]

\* The match (hnsw, spann) / default_knn_index of try_from_config, once
\* hnsw has been filled from the metadata when neither is given
TryFromConfigIndex(hnsw, spann, knn) ==
    CASE hnsw # None /\ knn = "spann"  -> InheritSpace("spann", hnsw.space)
      [] hnsw # None /\ knn = "hnsw"   -> IntoInternal("hnsw", hnsw)
      [] spann # None /\ knn = "hnsw"  -> InheritSpace("hnsw", spann.space)
      [] spann # None /\ knn = "spann" -> IntoInternal("spann", spann)
      [] OTHER                         -> DefaultIndex(knn)

\* TryFrom<CollectionConfiguration> for InternalCollectionConfiguration
TryFromIndex(value) ==
    CASE value.hnsw # None  -> IntoInternal("hnsw", value.hnsw)
      [] value.spann # None -> IntoInternal("spann", value.spann)
      [] OTHER              -> DefaultIndex("hnsw")

Ok(v)  == [ok |-> TRUE, val |-> v]
Err(e) == [ok |-> FALSE, val |-> e]

\* InternalCollectionConfiguration::try_from_config: the legacy metadata is
\* parsed into an HNSW section when neither index section is given (and
\* its error returned), then both sections are an error, else the match
\* on the section and default_knn_index
TryFromConfigOutcome(value, knn, md) ==
    LET neither == value.hnsw = None /\ value.spann = None
    IN IF neither /\ LegacyHnsw[md] = ParseError
       THEN Err("HnswParametersFromSegmentError")
       ELSE LET hnsw == IF neither THEN IntoUser(LegacyHnsw[md]) ELSE value.hnsw
            IN IF hnsw # None /\ value.spann # None
               THEN Err("MultipleVectorIndexConfigurations")
               ELSE Ok([vector_index |-> TryFromConfigIndex(hnsw, value.spann, knn),
                        embedding_function |-> value.embedding_function])

\* Mutant: the export leaves the embedding function out
FromInternalNoEf(c) ==
    [hnsw |-> IF c.vector_index.kind = "hnsw" THEN IntoUser(c.vector_index) ELSE None,
     spann |-> IF c.vector_index.kind = "spann" THEN IntoUser(c.vector_index) ELSE None,
     embedding_function |-> None]

\* From<InternalCollectionConfiguration> for CollectionConfiguration
FromInternal(c) ==
    [hnsw |-> IF c.vector_index.kind = "hnsw" THEN IntoUser(c.vector_index) ELSE None,
     spann |-> IF c.vector_index.kind = "spann" THEN IntoUser(c.vector_index) ELSE None,
     embedding_function |-> c.embedding_function]

\* TryFrom<UpdateCollectionConfiguration> for InternalUpdateCollectionConfiguration
\* (the case of both sections is the error of UpdateRejected)
ToInternalUpdate(u) ==
    [vector_index |-> CASE u.hnsw # None  -> [kind |-> "hnsw", upd |-> u.hnsw]
                        [] u.spann # None -> [kind |-> "spann", upd |-> u.spann]
                        [] OTHER          -> None,
     embedding_function |-> u.embedding_function]

\* Mutant: an update of the other kind replaces the index by that kind's default
ApplyUpdateConverts(c, iu) ==
    IF iu.vector_index # None /\ iu.vector_index.kind # c.vector_index.kind
    THEN [c EXCEPT !.vector_index = DefaultIndex(iu.vector_index.kind)]
    ELSE c

\* Mutant: the embedding function assigned without the `if let Some`
ApplyUpdateClearsEf(c, iu) ==
    [c EXCEPT !.embedding_function = iu.embedding_function]

\* InternalCollectionConfiguration::update: each set field of an update of
\* the index's own kind is written; an update of the other kind is ignored
ApplyUpdate(c, iu) ==
    LET vi == c.vector_index
        applies == iu.vector_index # None /\ iu.vector_index.kind = vi.kind
        upd == iu.vector_index.upd
        writes(p) == applies /\ p \in DOMAIN upd /\ upd[p] # None
    IN [vector_index |->
            [vi EXCEPT !.params = [p \in DOMAIN vi.params |->
                                     IF writes(p) THEN upd[p] ELSE vi.params[p]]],
        embedding_function |->
            IF iu.embedding_function # None THEN iu.embedding_function
            ELSE c.embedding_function]

\* Mutant: the metadata wins whenever it differs, configured or not
GetHnswConfigMetadataAlwaysWins(c, md) ==
    CASE c.vector_index.kind # "hnsw" -> None
      [] LegacyHnsw[md] = ParseError  -> ParseError
      [] OTHER                        -> LegacyHnsw[md]

\* get_hnsw_config_from_legacy_metadata: the HNSW parameters the segment
\* uses; the metadata's when the stored ones equal the defaults
GetHnswConfigFromLegacyMetadata(c, md) ==
    CASE c.vector_index.kind # "hnsw" -> None
      [] LegacyHnsw[md] = ParseError  -> ParseError
      [] c.vector_index = DefaultIndex("hnsw") /\ c.vector_index # LegacyHnsw[md]
                                      -> LegacyHnsw[md]
      [] OTHER                        -> c.vector_index

(***************************************************************************)
(* One collection.  config is None until a creation succeeds.  The        *)
(* collection's legacy metadata (read by try_from_config) and its HNSW    *)
(* segment's metadata (read by get_hnsw_config_with_legacy_fallback) are  *)
(* fixed inputs.  requestedSpace, written and lastEf are history: what the *)
(* user asked for at creation and in later updates.                       *)
(***************************************************************************)
VARIABLES
    config,          \* the stored InternalCollectionConfiguration, or None
    collMetadata,    \* the collection's metadata
    segMetadata,     \* the vector segment's metadata
    updates,         \* updates applied so far (bounded by MaxUpdates)
    lastError,       \* the error of the last rejected call, or None
    requestedSpace,  \* history: the space the creating request named
    written,         \* history: per kind, the last value an update gave each field
    lastEf           \* history: the last embedding function the user gave

vars == <<config, collMetadata, segMetadata, updates, lastError,
          requestedSpace, written, lastEf>>

NoneWritten == [k \in Kinds |-> [p \in UpdatableOf(k) |-> None]]

\* The space a creating request asks for: the one its index section names,
\* else (try_from_config only) the one of the legacy metadata, else default.
RequestedSpace(value, fallback) ==
    CASE value.hnsw # None /\ value.hnsw.space # None   -> value.hnsw.space
      [] value.spann # None /\ value.spann.space # None -> value.spann.space
      [] value.hnsw = None /\ value.spann = None         -> fallback
      [] OTHER                                           -> DefaultSpace

Init ==
    /\ config = None
    /\ collMetadata \in Metadatas
    /\ segMetadata \in Metadatas
    /\ updates = 0
    /\ lastError = None
    /\ requestedSpace = None
    /\ written = NoneWritten
    /\ lastEf = None

Created(c, space, ef) ==
    /\ config' = c
    /\ lastError' = None
    /\ requestedSpace' = space
    /\ written' = NoneWritten
    /\ lastEf' = ef
    /\ UNCHANGED <<collMetadata, segMetadata, updates>>

Rejected(err) ==
    /\ lastError' = err
    /\ UNCHANGED <<config, collMetadata, segMetadata, updates, requestedSpace, written, lastEf>>

\* try_from_config(value, default_knn_index, metadata) succeeding
TryFromConfig(value, knn) ==
    LET r == TryFromConfigOutcome(value, knn, collMetadata)
        neither == value.hnsw = None /\ value.spann = None
    IN /\ config = None
       /\ r.ok
       /\ Created(r.val,
                  RequestedSpace(value, IF neither THEN LegacyHnsw[collMetadata].space ELSE DefaultSpace),
                  value.embedding_function)

\* try_from_config returning an error
TryFromConfigFails(value, knn) ==
    LET r == TryFromConfigOutcome(value, knn, collMetadata) IN
    /\ config = None
    /\ ~r.ok
    /\ Rejected(r.val)

\* TryFrom<CollectionConfiguration> succeeding
TryFrom(value) ==
    /\ config = None
    /\ ~(value.hnsw # None /\ value.spann # None)
    /\ Created([vector_index |-> TryFromIndex(value),
                embedding_function |-> value.embedding_function],
               RequestedSpace(value, DefaultSpace),
               value.embedding_function)

\* InternalCollectionConfiguration::from_legacy_metadata: HNSW with the
\* parameters (and space) of the collection's legacy metadata
FromLegacyMetadata ==
    LET legacy == LegacyHnsw[collMetadata] IN
    /\ config = None
    /\ legacy # ParseError
    /\ Created([vector_index |-> legacy, embedding_function |-> None], legacy.space, None)

FromLegacyMetadataFails ==
    /\ config = None
    /\ LegacyHnsw[collMetadata] = ParseError
    /\ Rejected("HnswParametersFromSegmentError")

\* InternalCollectionConfiguration::default_hnsw and ::default_spann
DefaultConfiguration(k) ==
    /\ config = None
    /\ Created([vector_index |-> DefaultIndex(k), embedding_function |-> None], DefaultSpace, None)

\* An update request: TryFrom<UpdateCollectionConfiguration>, then update
Update(u) ==
    /\ config # None
    /\ updates < MaxUpdates
    /\ ~(u.hnsw # None /\ u.spann # None)
    /\ config' = ApplyUpdate(config, ToInternalUpdate(u))
    /\ updates' = updates + 1
    /\ lastError' = None
    /\ written' = [k \in Kinds |->
                     [p \in UpdatableOf(k) |->
                        IF u[k] # None /\ u[k][p] # None THEN u[k][p] ELSE written[k][p]]]
    /\ lastEf' = IF u.embedding_function # None THEN u.embedding_function ELSE lastEf
    /\ UNCHANGED <<collMetadata, segMetadata, requestedSpace>>

\* TryFrom<UpdateCollectionConfiguration> rejecting both index sections
UpdateRejected(u) ==
    /\ config # None
    /\ u.hnsw # None /\ u.spann # None
    /\ Rejected("MultipleVectorIndexConfigurations")

\* VectorIndexConfiguration::update on the stored index with a whole index:
\* a same-kind replacement is a request naming every field and the space
ReplaceVectorIndex(new) ==
    /\ config # None
    /\ updates < MaxUpdates
    /\ config' = [config EXCEPT !.vector_index = VectorIndexUpdate(@, new)]
    /\ updates' = updates + 1
    /\ lastError' = None
    /\ requestedSpace' = IF new.kind = config.vector_index.kind THEN new.space ELSE requestedSpace
    /\ written' = [written EXCEPT ![new.kind] = [p \in UpdatableOf(new.kind) |-> new.params[p]]]
    /\ UNCHANGED <<collMetadata, segMetadata, lastEf>>

Next ==
    \/ \E v \in CollectionConfigurations, knn \in Kinds : TryFromConfig(v, knn)
    \/ \E v \in CollectionConfigurations, knn \in Kinds : TryFromConfigFails(v, knn)
    \/ \E v \in CollectionConfigurations : TryFrom(v)
    \/ FromLegacyMetadata \/ FromLegacyMetadataFails
    \/ \E k \in Kinds : DefaultConfiguration(k)
    \/ \E u \in UpdateCollectionConfigurations : Update(u) \/ UpdateRejected(u)
    \/ \E vi \in VectorIndexes : ReplaceVectorIndex(vi)

Spec == Init /\ [][Next]_vars

(***************************************************************************)
(* Properties.                                                            *)
(***************************************************************************)
\* The space a collection was created with is the one its creating request
\* (or the legacy metadata it was built from) named, in either index
\* section, whichever index kind try_from_config chose (the space
\* inheritance of its cross-kind arms), or the one of a later same-kind
\* index replacement; InternalCollectionConfiguration::update never
\* changes it.
SpaceFixedAtCreation ==
    config # None => config.vector_index.space = requestedSpace

\* Neither InternalCollectionConfiguration::update nor
\* VectorIndexConfiguration::update turns one index kind into the other: a
\* step from a created configuration keeps its kind.
KindNeverChanges ==
    [][config # None => config'.vector_index.kind = config.vector_index.kind]_config

\* After any sequence of creations and updates, each field of the stored
\* index equals the last value an update of that kind gave it, and the
\* embedding function is the last one the user gave (update only writes
\* the fields an update sets).
StoredHonoursLastWrite ==
    config # None =>
        /\ \A p \in UpdatableOf(config.vector_index.kind) :
              written[config.vector_index.kind][p] # None =>
                 config.vector_index.params[p] = written[config.vector_index.kind][p]
        /\ config.embedding_function = lastEf

\* Exporting a stored configuration (From) and creating from the export
\* (TryFrom) gives the same configuration back.
ExportRoundTrips ==
    config # None =>
        [vector_index |-> TryFromIndex(FromInternal(config)),
         embedding_function |-> FromInternal(config).embedding_function] = config

\* The HNSW parameters the segment is built with honour every update of
\* them (the test metadata_ignored_when_config_is_not_default: metadata is
\* ignored once the configuration is not the default).
EffectiveHonoursUpdates ==
    LET eff == GetHnswConfigFromLegacyMetadata(config, segMetadata)
    IN config # None /\ config.vector_index.kind = "hnsw" /\ eff # ParseError =>
          \A p \in HnswUpdatable : written["hnsw"][p] # None => eff.params[p] = written["hnsw"][p]

\* An HNSW collection whose configuration is not the default yields its own
\* parameters whatever the segment's legacy metadata holds: the metadata is
\* only a fallback for a configuration left at the defaults (the check at
\* get_hnsw_config_from_legacy_metadata's line 131, reached only after the
\* metadata has been parsed at line 129).
EffectiveReadSucceeds ==
    config # None /\ config.vector_index.kind = "hnsw"
        /\ config.vector_index # DefaultIndex("hnsw") =>
            GetHnswConfigFromLegacyMetadata(config, segMetadata) = config.vector_index

===============================================================================
