-------------------------- MODULE MCFetchPipeline --------------------------
(* FetchPipeline on small instances.                                        *)
EXTENDS FetchPipeline, TLC

(* Keys and decode threads are interchangeable: no definition compares them. *)
Symmetry == Permutations(Keys) \cup Permutations(Workers)
=============================================================================
