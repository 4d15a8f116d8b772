--------------------------- MODULE MCWebCacheYaml ---------------------------
(* The screens that show the configuration of the instance, with the save  *)
(* of the page for the whole document as the only mutation.                *)
EXTENDS WebCache

ConfigQueries == UseConfigYaml.queries \cup UseInstanceConfig.queries
YamlSaves(q) == {WriteTo(q, m) : m \in UseConfigYaml.mutations}
Saving(q) == [Watching(screen, q) EXCEPT !.writes = YamlSaves(q)]

YamlInit ==
    /\ screen \in {"cloud", "advanced"}
    /\ watched \in {Saving(q) : q \in ConfigQueries \cap QueriesOf(screen)}
    /\ Start
YamlSpec == YamlInit /\ [][Next]_vars

(* "Invalidate both YAML and JSON config queries for this instance"
   (useConfigYaml.ts:18): what the cache has of either is marked when a save
   of the document succeeds.                                                *)
SaveInvalidatesBoth == [][Succeed /\ entry.data # NoData => entry'.marked]_vars
=============================================================================
