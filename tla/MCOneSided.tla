----------------------------- MODULE MCOneSided -----------------------------
(* Instances of OneSided for TLC.                                         *)
EXTENDS OneSided

AllPrograms == {wbenchmark, rbenchmark, wrbenchmark}
OnlyWriteRead == {wrbenchmark}
=============================================================================
