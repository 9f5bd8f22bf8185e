----------------------------- MODULE MCBenchConn -----------------------------
(* Instances of BenchConn for TLC.                                        *)
EXTENDS BenchConn
=============================================================================
