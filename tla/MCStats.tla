------------------------------- MODULE MCStats -------------------------------
(* Instances of Stats for TLC.                                            *)
EXTENDS Stats

Exchangeable == Permutations(Workers)
=============================================================================
