----------------------- MODULE MCCollectionConfiguration -----------------------
(***************************************************************************)
(* Constants of CollectionConfiguration for TLC: two spaces; parameter    *)
(* values {0, 1} with 0 the default; two HNSW parameters, of which only   *)
(* ef_search is updatable (ef_construction is not); one SPANN parameter;  *)
(* and legacy metadata that is empty (m0), sets hnsw:search_ef (m1), sets *)
(* hnsw:construction_ef (mce), sets it and hnsw:space = cosine (mlegacy), *)
(* or does not parse (mbad).                                               *)
(***************************************************************************)
EXTENDS CollectionConfiguration, TLC

CONSTANTS m0, m1, mbad, mce, mlegacy

MCSpaces == {"l2", "cosine"}
MCVals == {0, 1}
MCHnswParams == {"ef_construction", "ef_search"}
MCHnswUpdatable == {"ef_search"}
MCSpannParams == {"ef_search"}
MCEmbeddingFunctions == {"legacy", "known"}

MCMetadatas == {m0, m1, mbad, mce, mlegacy}
MCParsingMetadatas == {m0, m1}

\* from_legacy_segment_metadata: no hnsw: keys gives the defaults
\* hnsw:construction_ef = 1 (mce), and with hnsw:space = cosine (mlegacy)
MCLegacyHnsw ==
    [m \in MCMetadatas |->
        CASE m = m0      -> DefaultIndex("hnsw")
          [] m = m1      -> [DefaultIndex("hnsw") EXCEPT !.params["ef_search"] = 1]
          [] m = mce     -> [DefaultIndex("hnsw") EXCEPT !.params["ef_construction"] = 1]
          [] m = mlegacy -> [DefaultIndex("hnsw") EXCEPT !.space = "cosine",
                                                         !.params["ef_construction"] = 1]
          [] OTHER       -> ParseError]

(***************************************************************************)
(* The unit tests of collection_configuration.rs, over the model's values *)
(* (1 stands for every non-default number, "cosine" for Cosine; a        *)
(* metadata of None is the empty metadata m0, which only a request       *)
(* without index sections reads).                                        *)
(***************************************************************************)
DefaultHnswConfig == [vector_index |-> DefaultIndex("hnsw"), embedding_function |-> None]
AllSet(k) == [space |-> "cosine", params |-> [p \in ParamsOf(k) |-> 1]]
Request(h, s) == [hnsw |-> h, spann |-> s, embedding_function |-> None]
CreatesIndex(value, knn, md, ix) ==
    LET r == TryFromConfigOutcome(value, knn, md) IN r.ok /\ r.val.vector_index = ix
Cosine(k) == [DefaultIndex(k) EXCEPT !.space = "cosine"]

MetadataOverridesParameter ==
    GetHnswConfigFromLegacyMetadata(DefaultHnswConfig, mce).params["ef_construction"] = 1

\* (the configured ef_construction and the metadata's ef_search differ from
\* the defaults; with two values the test's 2-versus-1 is a different field)
MetadataIgnoredWhenConfigIsNotDefault ==
    LET c == [DefaultHnswConfig EXCEPT !.vector_index.params["ef_construction"] = 1]
    IN GetHnswConfigFromLegacyMetadata(c, m1) = c.vector_index

TestHnswConfigWithHnswDefault ==
    CreatesIndex(Request(AllSet("hnsw"), None), "hnsw", m0, [kind |-> "hnsw"] @@ AllSet("hnsw"))
TestHnswConfigWithSpannDefault ==
    CreatesIndex(Request(AllSet("hnsw"), None), "spann", m0, Cosine("spann"))
TestSpannConfigWithSpannDefault ==
    CreatesIndex(Request(None, AllSet("spann")), "spann", m0, [kind |-> "spann"] @@ AllSet("spann"))
TestSpannConfigWithHnswDefault ==
    CreatesIndex(Request(None, AllSet("spann")), "hnsw", m0, Cosine("hnsw"))
TestNoConfigWithMetadataDefaultHnsw ==
    CreatesIndex(Request(None, None), "hnsw", m0, DefaultIndex("hnsw"))
TestNoConfigWithMetadataDefaultSpann ==
    CreatesIndex(Request(None, None), "spann", m0, DefaultIndex("spann"))
TestLegacyMetadataWithHnswConfig ==
    CreatesIndex(Request(None, None), "hnsw", mlegacy,
            [Cosine("hnsw") EXCEPT !.params["ef_construction"] = 1])
TestLegacyMetadataWithSpannConfig ==
    CreatesIndex(Request(None, None), "spann", mlegacy, Cosine("spann"))

UpdateOf(k, p, v) ==
    [x \in {k} |-> [q \in UpdatableOf(k) |-> IF q = p THEN v ELSE None]]
        @@ [hnsw |-> None, spann |-> None, embedding_function |-> None]
TestUpdateWith(k) ==
    LET c == [vector_index |-> Cosine(k), embedding_function |-> "known"]
    IN ApplyUpdate(c, ToInternalUpdate(UpdateOf(k, "ef_search", 1)))
         = [vector_index |-> [Cosine(k) EXCEPT !.params["ef_search"] = 1],
            embedding_function |-> "known"]
TestUpdateCollectionConfigurationWithHnsw == TestUpdateWith("hnsw")
TestUpdateCollectionConfigurationWithSpann == TestUpdateWith("spann")
\* (from one embedding function to another)
TestUpdateCollectionConfigurationWithEmbeddingFunction ==
    LET c == [DefaultHnswConfig EXCEPT !.embedding_function = "known"]
        u == [hnsw |-> None, spann |-> None, embedding_function |-> "legacy"]
    IN ApplyUpdate(c, ToInternalUpdate(u)).embedding_function = "legacy"

(***************************************************************************)
(* The unit tests of collection_configuration.rs hold of the model's      *)
(* try_from_config, update and legacy-metadata fallback, each in the      *)
(* states whose collection or segment metadata is the test's: the model   *)
(* and the code agree on the cases the code's authors wrote down.        *)
(***************************************************************************)
ConfigUnitTestsHold ==
    /\ segMetadata = mce => MetadataOverridesParameter
    /\ segMetadata = m1 => MetadataIgnoredWhenConfigIsNotDefault
    /\ collMetadata = m0 => TestNoConfigWithMetadataDefaultHnsw /\ TestNoConfigWithMetadataDefaultSpann
    /\ collMetadata = mlegacy => TestLegacyMetadataWithHnswConfig /\ TestLegacyMetadataWithSpannConfig
    /\ TestHnswConfigWithHnswDefault /\ TestHnswConfigWithSpannDefault
    /\ TestSpannConfigWithSpannDefault /\ TestSpannConfigWithHnswDefault
    /\ TestUpdateCollectionConfigurationWithHnsw /\ TestUpdateCollectionConfigurationWithSpann
    /\ TestUpdateCollectionConfigurationWithEmbeddingFunction

=============================================================================
