----------------------------- MODULE MCCrawler ------------------------------
(***************************************************************************)
(* Crawler for TLC.  The addresses other than the seed and the domain root *)
(* are interchangeable, and so are the batches' closures.                  *)
(***************************************************************************)
EXTENDS CrawlerInvariant, TLC

Perms == Permutations(Urls \ {Seed, Root}) \cup Permutations(Batches)
=============================================================================
