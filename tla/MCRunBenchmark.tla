--------------------------- MODULE MCRunBenchmark ---------------------------
(* Instances of RunBenchmark for TLC.                                     *)
EXTENDS RunBenchmark

OneMemSize == <<"256">>
TwoBenchmarks == <<"wrbenchmark", "wsbenchmark">>

\* Of these two, as wibenchmark would be.
NotifiedBenchmarks == {"wsbenchmark"}

\* The first numbers of the script's list.
ThreadNums == <<1, 2, 4, 8>>
=============================================================================
