------------------------- MODULE MCDatasetVersions -------------------------
(* Small instances of DatasetVersions for TLC.                             *)
EXTENDS DatasetVersions, TLC

CONSTANTS t1, t2, d1, d2, v1, v2, v3, k1, m1

IdSymmetry == Permutations({v1, v2, v3}) \cup Permutations({d1, d2})
                \cup Permutations({t1, t2})
=============================================================================
