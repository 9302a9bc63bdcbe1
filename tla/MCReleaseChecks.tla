--------------------------- MODULE MCReleaseChecks ---------------------------
(* Instances of ReleaseChecks for TLC: the leaves of MCSchemaCompatibility, *)
(* all lineages of three assets, a canary pod with two threads.             *)
EXTENDS ReleaseChecks, MCSchemaCompatibility

CONSTANTS raw, clean, report, t1, t2

MCAssets == {raw, clean, report}
MCThreads == {t1, t2}
=============================================================================
