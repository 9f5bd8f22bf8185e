-------------------------------- MODULE Stats --------------------------------
(***************************************************************************)
(* What the five benchmarks measure and report: each worker times its      *)
(* operations with get_time_ns and adds up latencies and jitter; the main  *)
(* thread joins them, adds up their statistics and prints averages.  The   *)
(* operation itself is a stretch of time here.  wsbenchmark and wibenchmark*)
(* time a second series, from within the operation on; the others time the *)
(* first one only.                                                         *)
(*                                                                         *)
(* The clock never goes back, and an operation takes at least one tick of  *)
(* it: a round trip on the fabric takes many nanoseconds.                  *)
(***************************************************************************)
EXTENDS Naturals, FiniteSets, SequencesExt

CONSTANTS Workers,    \* the client's workers, one for each connection
          MaxClock    \* bound of the model: the last tick

ASSUME StatsAssumption ==
    /\ IsFiniteSet(Workers) /\ Workers # {}
    /\ MaxClock \in Nat

Series == {"latency", "send_latency"}

VARIABLES clock,      \* get_time_ns
          debug_log,  \* cleared by -v
          main,       \* run_client: "prepare", "sleep", "join", "sum", "printed", or "trapped"
          wpc,        \* what each worker does next
          starts,     \* start and send_start of its operation, 0 outside
          stats,      \* node->stats
          total,      \* total_stats
          measured    \* history: the latencies each worker has measured

statsVars == <<clock, debug_log, main, wpc, starts, stats, total, measured>>

Statistics == [ops : Nat, sum : [Series -> Nat], last : [Series -> Nat],
               jitter : [Series -> Nat], elapsed_nanoseconds : Nat]

\* memset or calloc.
NoStatistics == [ops |-> 0, sum |-> [s \in Series |-> 0], last |-> [s \in Series |-> 0],
                 jitter |-> [s \in Series |-> 0], elapsed_nanoseconds |-> 0]

StatsTypeOK ==
    /\ clock \in 0 .. MaxClock
    /\ debug_log \in BOOLEAN
    /\ main \in {"prepare", "sleep", "join", "sum", "printed", "trapped"}
    /\ wpc \in [Workers -> {"wait_begin", "check_stop", "write", "send", "finished", "failed"}]
    /\ starts \in [Workers -> [Series -> Nat]]
    /\ stats \in [Workers -> Statistics]
    /\ total \in Statistics
    /\ measured \in [Workers -> [Series -> Seq(Nat)]]

StatsInit ==
    /\ clock = 0
    /\ debug_log \in BOOLEAN
    /\ main = "prepare"
    /\ wpc = [w \in Workers |-> "wait_begin"]
    /\ starts = [w \in Workers |-> [s \in Series |-> 0]]
    /\ stats = [w \in Workers |-> NoStatistics]
    /\ total = NoStatistics
    /\ measured = [w \in Workers |-> [s \in Series |-> <<>>]]

\* A division by zero ends the process.
Running == main \notin {"printed", "trapped"}

tick ==
    /\ Running /\ clock < MaxClock
    /\ clock' = clock + 1
    /\ UNCHANGED <<debug_log, main, wpc, starts, stats, total, measured>>

----------------------------------------------------------------------------
(* The worker.                                                             *)

Goto(w, pc) == wpc' = [wpc EXCEPT ![w] = pc]

\* elapsed_nanoseconds holds the time of the beginning until the loop ends.
worker_begin(w) ==
    /\ Running /\ main # "prepare" /\ wpc[w] = "wait_begin"
    /\ Goto(w, "check_stop")
    /\ stats' = [stats EXCEPT ![w].elapsed_nanoseconds = clock]
    /\ UNCHANGED <<clock, debug_log, main, starts, total, measured>>

worker_start(w) ==
    /\ main = "sleep" /\ wpc[w] = "check_stop"
    /\ Goto(w, "write")
    /\ starts' = [starts EXCEPT ![w]["latency"] = clock]
    /\ UNCHANGED <<clock, debug_log, main, stats, total, measured>>

\* The WRITE is posted (wsbenchmark) or complete (wibenchmark).
worker_send(w) ==
    /\ Running /\ wpc[w] = "write"
    /\ Goto(w, "send")
    /\ starts' = [starts EXCEPT ![w]["send_latency"] = clock]
    /\ UNCHANGED <<clock, debug_log, main, stats, total, measured>>

\* Bug: the difference is added without labs.
BugSigned(a, b) == a - b

Distance(a, b) == IF a > b THEN a - b ELSE b - a

\* Bug: the first latency is compared with the 0 it finds.
BugFirstCounted(st, now) ==
    [ops |-> st.ops + 1,
     sum |-> [s \in Series |-> st.sum[s] + now[s]],
     last |-> now,
     jitter |-> [s \in Series |-> st.jitter[s] + Distance(st.last[s], now[s])],
     elapsed_nanoseconds |-> st.elapsed_nanoseconds]

\* The statistics after one more operation; a last of 0 stands for none yet.
Counted(st, now) ==
    [ops |-> st.ops + 1,
     sum |-> [s \in Series |-> st.sum[s] + now[s]],
     last |-> now,
     jitter |-> [s \in Series |->
         IF st.last[s] # 0 THEN st.jitter[s] + Distance(st.last[s], now[s]) ELSE st.jitter[s]],
     elapsed_nanoseconds |-> st.elapsed_nanoseconds]

worker_end(w) ==
    /\ Running /\ wpc[w] = "send"
    /\ clock > starts[w]["send_latency"]
    /\ LET now == [s \in Series |-> clock - starts[w][s]] IN
         /\ stats' = [stats EXCEPT ![w] = Counted(@, now)]
         /\ measured' = [measured EXCEPT ![w] = [s \in Series |-> Append(@[s], now[s])]]
    /\ starts' = [starts EXCEPT ![w] = [s \in Series |-> 0]]
    /\ Goto(w, "check_stop")
    /\ UNCHANGED <<clock, debug_log, main, total>>

\* A post or a poll fails; the statistics stay as they are.
worker_fails(w) ==
    /\ Running /\ wpc[w] \in {"write", "send"}
    /\ starts' = [starts EXCEPT ![w] = [s \in Series |-> 0]]
    /\ Goto(w, "failed")
    /\ UNCHANGED <<clock, debug_log, main, stats, total, measured>>

\* latency / ops and jitter / (ops - 1).
Printable(st) == st.ops \notin {0, 1}

\* stop is seen; without -v node_print_stats follows.
worker_finish(w) ==
    /\ main \in {"join", "sum"} /\ wpc[w] = "check_stop"
    /\ Goto(w, "finished")
    /\ stats' = [stats EXCEPT ![w].elapsed_nanoseconds = clock - @]
    /\ main' = IF debug_log /\ ~Printable(stats'[w]) THEN "trapped" ELSE main
    /\ UNCHANGED <<clock, debug_log, starts, total, measured>>

worker(w) ==
    \/ worker_begin(w)
    \/ worker_start(w)
    \/ worker_send(w)
    \/ worker_end(w)
    \/ worker_fails(w)
    \/ worker_finish(w)

----------------------------------------------------------------------------
(* The main thread.                                                        *)

set_begin == main = "prepare" /\ main' = "sleep"

set_stop == main = "sleep" /\ main' = "join"

\* Bug: the statistics are added up while workers still work.
BugNoJoin == main = "join" /\ main' = "sum"

join ==
    /\ main = "join"
    /\ \A w \in Workers : wpc[w] \in {"finished", "failed"}
    /\ main' = "sum"

Total(m) == FoldFunction(+, 0, m)

\* The workers' statistics added up, the elapsed time their average.
Totals ==
    [ops |-> Total([w \in Workers |-> stats[w].ops]),
     sum |-> [s \in Series |-> Total([w \in Workers |-> stats[w].sum[s]])],
     last |-> [s \in Series |-> 0],
     jitter |-> [s \in Series |-> Total([w \in Workers |-> stats[w].jitter[s]])],
     elapsed_nanoseconds |->
         Total([w \in Workers |-> stats[w].elapsed_nanoseconds]) \div Cardinality(Workers)]

print_totals ==
    /\ main = "sum"
    /\ total' = Totals
    /\ main' = IF Printable(Totals) THEN "printed" ELSE "trapped"
    /\ UNCHANGED <<clock, debug_log, wpc, starts, stats, measured>>

run_client ==
    \/ /\ set_begin \/ set_stop \/ join
       /\ UNCHANGED <<clock, debug_log, wpc, starts, stats, total, measured>>
    \/ print_totals

Over == ~Running /\ UNCHANGED statsVars

StatsNext ==
    \/ tick
    \/ run_client
    \/ \E w \in Workers : worker(w)
    \/ Over

StatsSpec == StatsInit /\ [][StatsNext]_statsVars

----------------------------------------------------------------------------
(* Properties.                                                             *)

Sum(m) == FoldLeft(LAMBDA a, b : a + b, 0, m)

Jumps(m) == [k \in 1 .. Len(m) - 1 |-> Distance(m[k], m[k + 1])]

\* Whatever the workers' interleaving and failures, latency and jitter are
\* those of the operations counted: the sum of their latencies and of the
\* distances between consecutive ones, the first compared with nothing.
SumsExact ==
    \A w \in Workers, s \in Series :
        /\ stats[w].ops = Len(measured[w][s])
        /\ stats[w].sum[s] = Sum(measured[w][s])
        /\ stats[w].jitter[s] = Sum(Jumps(measured[w][s]))

\* The figures run_client prints belong together if no worker has failed: the
\* operations fit into the time they are divided by, the SENDs into the
\* operations, and the jitter into what the latencies allow.
TotalsFit ==
    (main = "printed" /\ \A w \in Workers : wpc[w] # "failed") =>
        /\ total.sum["latency"] < Cardinality(Workers) * (total.elapsed_nanoseconds + 1)
        /\ total.sum["send_latency"] <= total.sum["latency"]
        /\ \A s \in Series : total.jitter[s] <= 2 * total.sum[s]
=============================================================================
