---------------------------- MODULE RunBenchmark ----------------------------
(***************************************************************************)
(* scripts/run_benchmark.py: one after the other, for each configuration a *)
(* process that starts the server over ssh and, 0.1 s later, one that      *)
(* starts the client over ssh and writes its figures to results.json.      *)
(* clientproc.join() waits for the client; serverproc.kill() kills the     *)
(* local process only, and the server it has started lives on.             *)
(*                                                                         *)
(* Nothing says that the server listens when the client arrives, or that   *)
(* the last server has left the port when the next one binds it.  What a   *)
(* server and a client of different configurations do to each other is     *)
(* that of the module BenchConn: with more connections than the server has *)
(* nodes both fail, with fewer both wait for ever.                         *)
(***************************************************************************)
EXTENDS Naturals, Sequences, FiniteSets

CONSTANTS MemSizes,   \* mem_sizes
          Benchmarks, \* benchmarks
          Threads,    \* the list of numbers of threads
          Notified,   \* the benchmarks whose workers wait for notifications
          Lag         \* bound of the model: configurations a server may be late by

ASSUME RunBenchmarkAssumption ==
    /\ Len(MemSizes) \in Nat \ {0} /\ Len(Benchmarks) \in Nat \ {0}
    /\ Threads \in Seq(Nat \ {0}) /\ Threads # <<>>
    /\ Lag \in Nat

----------------------------------------------------------------------------
(* The three nested loops.                                                 *)

Total == Len(MemSizes) * Len(Benchmarks) * Len(Threads)

Runs == 1 .. Total

\* Bug: the threads are the outer loop.
BugConfig(n) ==
    [mem_size |-> MemSizes[(((n - 1) \div Len(Benchmarks)) % Len(MemSizes)) + 1],
     program |-> Benchmarks[((n - 1) % Len(Benchmarks)) + 1],
     threadnum |-> Threads[(n - 1) \div (Len(Benchmarks) * Len(MemSizes)) + 1]]

\* The configuration of the n-th run.
Config(n) ==
    [mem_size |-> MemSizes[(n - 1) \div (Len(Benchmarks) * Len(Threads)) + 1],
     program |-> Benchmarks[(((n - 1) \div Len(Threads)) % Len(Benchmarks)) + 1],
     threadnum |-> Threads[((n - 1) % Len(Threads)) + 1]]

Configs == {Config(n) : n \in Runs}

Nobody == 0

VARIABLES sound,    \* servers listen and leave the port in time, nobody fails
          main,     \* "server", "client", "join" or "done"
          k,        \* the run the script is at
          server,   \* of each run: "none", "starting", "listening", "serving", "closing", "gone"
          client,   \* of each run: "none", "starting", "waiting", "running", "reading",
                    \* "writing", "gone"
          partner,  \* the run whose server a run's client has connections with
          results,  \* results.json: configuration -> run whose server was measured
          loaded    \* what a client process has read of it

vars == <<sound, main, k, server, client, partner, results, loaded>>

TypeOK ==
    /\ sound \in BOOLEAN
    /\ main \in {"server", "client", "join", "done"}
    /\ k \in Runs
    /\ server \in [Runs -> {"none", "starting", "listening", "serving", "closing", "gone"}]
    /\ client \in [Runs -> {"none", "starting", "waiting", "running", "reading", "writing", "gone"}]
    /\ partner \in [Runs -> Runs \cup {Nobody}]
    /\ DOMAIN results \subseteq Configs /\ \A c \in DOMAIN results : results[c] \in Runs
    \* one server at a time holds the port
    /\ Cardinality({j \in Runs : server[j] \in {"listening", "serving", "closing"}}) <= 1

NoResults == [c \in {} |-> Nobody]

Init ==
    /\ sound \in BOOLEAN
    /\ main = "server" /\ k = 1
    /\ server = [j \in Runs |-> "none"]
    /\ client = [j \in Runs |-> "none"]
    /\ partner = [j \in Runs |-> Nobody]
    /\ results = NoResults
    /\ loaded = [j \in Runs |-> NoResults]

ServerGoto(j, pc) == server' = [server EXCEPT ![j] = pc]
ClientGoto(j, pc) == client' = [client EXCEPT ![j] = pc]

----------------------------------------------------------------------------
(* The script.                                                             *)

\* serverproc.start()
start_server ==
    /\ main = "server" /\ main' = "client"
    /\ ServerGoto(k, "starting")
    /\ UNCHANGED <<sound, k, client, partner, results, loaded>>

\* clientproc.start(), however the 0.1 s compare with what the server needs.
start_client ==
    /\ main = "client" /\ main' = "join"
    /\ \A j \in Runs : j + Lag <= k => server[j] # "starting"
    /\ ClientGoto(k, "starting")
    /\ UNCHANGED <<sound, k, server, partner, results, loaded>>

\* serverproc.kill() changes nothing on the server's machine.
NextRun ==
    /\ IF k < Total THEN k' = k + 1 /\ main' = "server" ELSE main' = "done" /\ UNCHANGED k
    /\ UNCHANGED <<sound, server, client, partner, results, loaded>>

\* Bug: the client is not waited for.
BugNoJoin == main = "join" /\ NextRun

join == main = "join" /\ client[k] = "gone" /\ NextRun

----------------------------------------------------------------------------
(* The server on its machine.                                              *)

Holding == {j \in Runs : server[j] \in {"listening", "serving", "closing"}}

\* Bug: the port is shared.
BugShared(j) ==
    /\ server[j] = "starting"
    /\ ServerGoto(j, "listening")
    /\ UNCHANGED <<sound, main, k, client, partner, results, loaded>>

\* rdma_bind_addr fails while another server has the port.
server_bind(j) ==
    /\ server[j] = "starting"
    /\ sound => Holding = {}
    /\ ServerGoto(j, IF Holding = {} THEN "listening" ELSE "gone")
    /\ UNCHANGED <<sound, main, k, client, partner, results, loaded>>

\* The client of a serving server is gone: its disconnects are counted.
server_served(j) ==
    /\ server[j] = "serving"
    /\ \A i \in Runs : partner[i] = j => client[i] # "running"
    /\ ServerGoto(j, "closing")
    /\ UNCHANGED <<sound, main, k, client, partner, results, loaded>>

server_exit(j) ==
    /\ server[j] = "closing"
    /\ ServerGoto(j, "gone")
    /\ UNCHANGED <<sound, main, k, client, partner, results, loaded>>

\* The server dies while its client's workers are at it.
server_dies(j) ==
    /\ server[j] = "serving" /\ ~sound
    /\ ServerGoto(j, "gone")
    /\ UNCHANGED <<sound, main, k, client, partner, results, loaded>>

server_process(j) == server_bind(j) \/ server_served(j) \/ server_exit(j) \/ server_dies(j)

----------------------------------------------------------------------------
(* The client on its machine, and its local process.                       *)

Nodes(j) == Config(j).threadnum

\* The client reaches server j: enough nodes, too few, or too many of them.
Meets(i, j) ==
    \/ /\ Nodes(i) = Nodes(j)
       /\ ClientGoto(i, "running")
       /\ ServerGoto(j, "serving")
       /\ partner' = [partner EXCEPT ![i] = j]
    \/ /\ Nodes(i) > Nodes(j)
       /\ ClientGoto(i, "gone")
       /\ ServerGoto(j, "closing")
       /\ UNCHANGED partner
    \/ /\ Nodes(i) < Nodes(j)
       /\ ClientGoto(i, "waiting")
       /\ partner' = [partner EXCEPT ![i] = j]
       /\ UNCHANGED server

\* A server that no client has connections with yet.
Reachable(j) ==
    /\ server[j] = "listening"
    /\ \A i \in Runs : partner[i] # j

client_connect(i) ==
    /\ client[i] = "starting"
    /\ sound => server[i] = "listening"
    /\ \E j \in Runs : Reachable(j) /\ Meets(i, j)
    /\ UNCHANGED <<sound, main, k, results, loaded>>

\* Nobody listens: the client fails and check_output raises.
client_refused(i) ==
    /\ client[i] = "starting" /\ ~sound
    /\ \A j \in Runs : ~Reachable(j)
    /\ ClientGoto(i, "gone")
    /\ UNCHANGED <<sound, main, k, server, partner, results, loaded>>

\* The client prints its figures and ends, or fails on the way.
client_measured(i) ==
    /\ client[i] = "running"
    /\ \/ ClientGoto(i, "reading") /\ UNCHANGED partner
       \/ ~sound /\ ClientGoto(i, "gone") /\ partner' = [partner EXCEPT ![i] = Nobody]
    /\ UNCHANGED <<sound, main, k, server, results, loaded>>

\* A worker has nothing outstanding that could fail and polls for the
\* notification of a server that has died.
client_deserted(i) ==
    /\ client[i] = "running"
    /\ Config(i).program \in Notified /\ server[partner[i]] = "gone"
    /\ ClientGoto(i, "waiting")
    /\ UNCHANGED <<sound, main, k, server, partner, results, loaded>>

\* json.load
client_read(i) ==
    /\ client[i] = "reading"
    /\ loaded' = [loaded EXCEPT ![i] = results]
    /\ ClientGoto(i, "writing")
    /\ UNCHANGED <<sound, main, k, server, partner, results>>

\* json.dump of what was loaded and the new entry.
client_write(i) ==
    /\ client[i] = "writing"
    /\ results' = [c \in DOMAIN loaded[i] \cup {Config(i)} |->
                     IF c = Config(i) THEN partner[i] ELSE loaded[i][c]]
    /\ loaded' = [loaded EXCEPT ![i] = NoResults]
    /\ partner' = [partner EXCEPT ![i] = Nobody]
    /\ ClientGoto(i, "gone")
    /\ UNCHANGED <<sound, main, k, server>>

client_process(i) ==
    \/ client_connect(i)
    \/ client_refused(i)
    \/ client_measured(i)
    \/ client_deserted(i)
    \/ client_read(i)
    \/ client_write(i)

script == start_server \/ start_client \/ join

Done == main = "done" /\ UNCHANGED vars

Next ==
    \/ script
    \/ \E j \in Runs : server_process(j) \/ client_process(j)
    \/ Done

Spec == Init /\ [][Next]_vars

\* Processes run on, but need not die; a client that waits for more than its
\* server will send waits for ever.
Fairness ==
    /\ WF_vars(script)
    /\ \A j \in Runs :
         /\ WF_vars(server_bind(j) \/ server_served(j) \/ server_exit(j))
         /\ WF_vars(client_process(j))

FairSpec == Spec /\ Fairness

----------------------------------------------------------------------------
(* Properties.                                                             *)

\* Servers may be late, left behind or without the port: a figure that is
\* recorded was measured with the server of its own configuration.
ResultsMatch == \A c \in DOMAIN results : Config(results[c]) = c

\* What a client waits for that will not come: the metadata of a server of an
\* earlier run with more nodes than it has connections, which waits for the
\* others, or the notification of a server that has died.
WaitsInVain(i) ==
    /\ client[i] = "waiting"
    /\ \/ partner[i] < i /\ Nodes(i) < Nodes(partner[i])
       \/ server[partner[i]] = "gone" /\ Config(i).program \in Notified

\* A sound suite ends with every configuration recorded; any other ends, too,
\* or hangs in clientproc.join() for a client that waits in vain.
SuiteEnds ==
    /\ sound => <>(main = "done" /\ DOMAIN results = Configs)
    /\ <>(main = "done" \/ WaitsInVain(k))
=============================================================================
