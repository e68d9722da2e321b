----------------------------- MODULE MCMetrics ------------------------------
(***************************************************************************)
(* CrawlerMetrics for TLC.                                                 *)
(***************************************************************************)
EXTENDS CrawlerMetrics, TLC

Perms == Permutations(Urls \ {Seed, Root}) \cup Permutations(Batches)
=============================================================================
