-------------------------- MODULE RunBenchmarkProofs --------------------------
(***************************************************************************)
(* Proofs about RunBenchmark: its types for any lists and any lateness of  *)
(* the servers, and that figures are recorded with the configuration they  *)
(* were measured with, as long as a server is late by less than one round  *)
(* of the numbers of threads.                                              *)
(***************************************************************************)
EXTENDS RunBenchmark, FiniteSetTheorems, TLAPS

----------------------------------------------------------------------------
(* Numbers of runs and threads.                                            *)

LEMMA Sizes ==
    /\ Total \in Nat \ {0} /\ Len(Threads) \in Nat \ {0}
    /\ 1 \in Runs /\ Nobody \notin Runs
    /\ \A j \in Runs : j \in Nat \ {0} /\ j <= Total
<1>1. /\ Len(MemSizes) \in Nat \ {0} /\ Len(Benchmarks) \in Nat \ {0}
      /\ Threads \in Seq(Nat \ {0}) /\ Threads # <<>>
  BY RunBenchmarkAssumption
<1>2. Len(Threads) \in Nat \ {0}
  BY <1>1
<1>3. \A a, b \in Nat \ {0} : a * b \in Nat \ {0}
  OBVIOUS
<1>4. Len(MemSizes) * Len(Benchmarks) \in Nat \ {0}
  BY <1>1, <1>3
<1>5. Total \in Nat \ {0}
  BY <1>2, <1>3, <1>4 DEF Total
<1>. QED
  BY <1>2, <1>5 DEF Runs, Nobody

LEMMA Division ==
    ASSUME NEW a \in Nat, NEW t \in Nat \ {0}
    PROVE  /\ a % t \in 0 .. t - 1
           /\ \E q \in Nat : a = t * q + (a % t)
<1>1. a % t \in 0 .. t - 1
  OBVIOUS
<1>2. a \div t \in Nat
  OBVIOUS
<1>. USE <1>2
<1>3. a = t * (a \div t) + (a % t)
  <2>. DEFINE p == t * (a \div t)
              m == a % t
  <2>1. m = a - p
    BY Z3
  <2>2. p \in Int /\ m \in Int
    BY <1>1, <1>2
  <2>. HIDE DEF p, m
  <2>3. a = p + m
    BY <2>1, <2>2
  <2>. QED
    BY <2>3 DEF p, m
<1>4. \E q \in Nat : a = t * q + (a % t)
  <2>. WITNESS a \div t \in Nat
  <2>. QED
    BY <1>3
<1>. QED
  BY <1>1, <1>4

\* Numbers less than t apart differ modulo t.
LEMMA Residues ==
    ASSUME NEW a \in Nat, NEW b \in Nat, NEW t \in Nat \ {0}, a % t = b % t, b <= a, a - b < t
    PROVE  a = b
<1>. PICK q \in Nat : a = t * q + (a % t)
  BY Division
<1>. PICK r \in Nat : b = t * r + (b % t)
  BY Division
<1>. PICK m : m = a % t
  OBVIOUS
<1>. DEFINE x == t * q
            y == t * r
<1>1. q \in Nat /\ r \in Nat /\ m \in Nat /\ a = x + m /\ b = y + m
  BY Division
<1>2. x \in Nat /\ y \in Nat
  BY <1>1
<1>3. q = r
  <2>1. x - y < t /\ y <= x
    <3>. HIDE DEF x, y
    <3>. QED
      BY <1>1, <1>2
  <2>2. CASE q > r
    <3>1. PICK d \in Nat : q = r + 1 + d
      <4>1. q - r - 1 \in Nat /\ q = r + 1 + (q - r - 1)
        BY <1>1, <2>2
      <4>. QED
        BY <4>1
    <3>2. t * q = t * r + t + t * d /\ t * d \in Nat
      BY <1>1, <3>1
    <3>. QED
      BY <1>1, <1>2, <2>1, <3>2
  <2>3. CASE q < r
    <3>1. PICK d \in Nat : r = q + 1 + d
      <4>1. r - q - 1 \in Nat /\ r = q + 1 + (r - q - 1)
        BY <1>1, <2>3
      <4>. QED
        BY <4>1
    <3>2. t * r = t * q + t + t * d /\ t * d \in Nat
      BY <1>1, <3>1
    <3>. QED
      BY <1>1, <1>2, <2>1, <3>2
  <2>. QED
    BY <1>1, <2>2, <2>3
<1>. QED
  BY <1>1, <1>2, <1>3

\* The numbers of threads differ, and a server is late by less than a round of them.
InTime ==
    /\ Lag < Len(Threads)
    /\ \A m, n \in 1 .. Len(Threads) : Threads[m] = Threads[n] => m = n

\* A run and a server less than a round apart have the same number of threads
\* only if the server is the run's.
LEMMA OwnServer ==
    ASSUME InTime, NEW i \in Runs, NEW j \in Runs, j <= i, i <= j + Lag, Nodes(i) = Nodes(j)
    PROVE  i = j
<1>. DEFINE t == Len(Threads)
<1>1. i - 1 \in Nat /\ j - 1 \in Nat /\ t \in Nat \ {0} /\ Lag \in Nat
  BY Sizes, RunBenchmarkAssumption
<1>2. /\ Nodes(i) = Threads[((i - 1) % t) + 1] /\ Nodes(j) = Threads[((j - 1) % t) + 1]
  BY DEF Nodes, Config
<1>3. (i - 1) % t \in 0 .. t - 1 /\ (j - 1) % t \in 0 .. t - 1
  BY <1>1, Division
<1>4. (i - 1) % t = (j - 1) % t
  <2>. DEFINE m == (i - 1) % t
              n == (j - 1) % t
  <2>1. m \in 0 .. t - 1 /\ n \in 0 .. t - 1 /\ Threads[m + 1] = Threads[n + 1]
    BY <1>2, <1>3
  <2>. HIDE DEF m, n
  <2>2. m + 1 \in 1 .. t /\ n + 1 \in 1 .. t
    BY <1>1, <2>1
  <2>3. m + 1 = n + 1
    BY <2>1, <2>2 DEF InTime
  <2>4. m = n
    BY <1>1, <2>1, <2>3
  <2>. QED
    BY <2>4 DEF m, n
<1>5. j - 1 <= i - 1 /\ (i - 1) - (j - 1) < t
  BY <1>1, Sizes DEF InTime
<1>6. i - 1 = j - 1
  BY <1>1, <1>4, <1>5, Residues
<1>. QED
  BY <1>6, Sizes

----------------------------------------------------------------------------
(* The invariant.                                                          *)

Places ==
    /\ sound \in BOOLEAN
    /\ main \in {"server", "client", "join", "done"}
    /\ k \in Runs
    /\ server \in [Runs -> {"none", "starting", "listening", "serving", "closing", "gone"}]
    /\ client \in [Runs -> {"none", "starting", "waiting", "running", "reading", "writing", "gone"}]
    /\ partner \in [Runs -> Runs \cup {Nobody}]

\* The script has waited for the clients of the runs before, and started nothing
\* of those to come.
Control ==
    /\ \A j \in Runs : j > k => server[j] = "none" /\ client[j] = "none"
    /\ \A j \in Runs : j < k => client[j] = "gone"
    /\ main = "server" => server[k] = "none"
    /\ main \in {"server", "client"} => client[k] = "none"

Port ==
    \A i, j \in Runs :
        server[i] \in {"listening", "serving", "closing"}
        /\ server[j] \in {"listening", "serving", "closing"} => i = j

\* A server is not started later than by Lag runs, and the first client that finds
\* it has connections with it.
Punctual ==
    \A j \in Runs :
        /\ server[j] = "starting" => k < j + Lag \/ (k = j + Lag /\ client[k] = "none")
        /\ Reachable(j) => k < j + Lag \/ (k = j + Lag /\ client[k] \in {"none", "starting"})

\* A client that measures does so with a server of as many nodes, that is late by
\* Lag runs at most and that nobody else gets.
Measuring ==
    \A i \in Runs :
        /\ client[i] \in {"none", "starting", "gone"} => partner[i] = Nobody
        /\ client[i] \in {"running", "reading", "writing"} =>
             /\ partner[i] \in Runs /\ Nodes(partner[i]) = Nodes(i)
             /\ partner[i] <= i /\ i <= partner[i] + Lag
             /\ server[partner[i]] \in {"serving", "closing", "gone"}

\* What is recorded are runs, each for the configuration of one.
Records(r) == DOMAIN r \subseteq Configs /\ \A c \in DOMAIN r : r[c] \in Runs

Recorded == Records(results) /\ DOMAIN loaded = Runs /\ \A i \in Runs : Records(loaded[i])

IInv == Places /\ Control /\ Port /\ Punctual /\ Measuring /\ Recorded

LEMMA OneHolder ==
    ASSUME Port
    PROVE  Cardinality({j \in Runs : server[j] \in {"listening", "serving", "closing"}}) <= 1
<1>. DEFINE holders == {j \in Runs : server[j] \in {"listening", "serving", "closing"}}
<1>1. CASE holders = {}
  BY <1>1, FS_EmptySet
<1>2. CASE holders # {}
  <2>1. PICK j : j \in holders
    BY <1>2
  <2>2. holders = {j}
    BY <2>1 DEF Port
  <2>3. Cardinality({j}) = 1
    BY FS_Singleton
  <2>. HIDE DEF holders
  <2>4. Cardinality(holders) <= 1
    BY <2>2, <2>3
  <2>. QED
    BY <2>4 DEF holders
<1>. QED
  BY <1>1, <1>2

LEMMA TypeFollows == IInv => TypeOK
BY OneHolder, Zenon DEF IInv, Places, Recorded, Records, TypeOK

----------------------------------------------------------------------------
(* The script.                                                             *)

LEMMA StartStep ==
    ASSUME IInv, start_server \/ start_client
    PROVE  IInv'
<1>0. Places /\ Control /\ Port /\ Punctual /\ Measuring /\ Recorded
  BY DEF IInv
<1>1. /\ k \in Runs /\ k \in Nat /\ Lag \in Nat /\ \A j \in Runs : j \in Nat
      /\ UNCHANGED <<sound, k, partner, results, loaded>>
  BY <1>0, Sizes, RunBenchmarkAssumption DEF Places, start_server, start_client
<1>2. CASE start_server
  <2>1. /\ main = "server" /\ main' = "client" /\ server' = [server EXCEPT ![k] = "starting"] /\ client' = client
    BY <1>2 DEF start_server, ServerGoto
  <2>2. server[k] = "none" /\ client[k] = "none"
    BY <1>0, <2>1 DEF Control
  <2>3. Places' /\ server'[k] = "starting" /\ \A j \in Runs \ {k} : server'[j] = server[j]
    BY <1>0, <1>1, <2>1 DEF Places
  <2>4. Control'
    BY <1>0, <1>1, <2>1, <2>2, <2>3 DEF Control
  <2>5. Port'
    BY <1>0, <2>3 DEF Port
  <2>6. Punctual'
    BY <1>0, <1>1, <2>1, <2>2, <2>3 DEF Punctual, Reachable
  <2>7. Measuring'
    BY <1>0, <1>1, <2>1, <2>2, <2>3 DEF Measuring
  <2>8. Recorded'
    BY <1>0, <1>1 DEF Recorded, Records
  <2>. QED
    BY <2>3, <2>4, <2>5, <2>6, <2>7, <2>8 DEF IInv
<1>3. CASE start_client
  <2>1. /\ main = "client" /\ main' = "join" /\ client' = [client EXCEPT ![k] = "starting"] /\ server' = server
        /\ \A j \in Runs : j + Lag <= k => server[j] # "starting"
    BY <1>3 DEF start_client, ClientGoto
  <2>2. client[k] = "none"
    BY <1>0, <2>1 DEF Control
  <2>3. Places' /\ client'[k] = "starting" /\ \A j \in Runs \ {k} : client'[j] = client[j]
    BY <1>0, <1>1, <2>1 DEF Places
  <2>4. Control'
    BY <1>0, <1>1, <2>1, <2>2, <2>3 DEF Control
  <2>5. Port'
    BY <1>0, <2>1 DEF Port
  <2>6. Punctual'
    BY <1>0, <1>1, <2>1, <2>2, <2>3 DEF Punctual, Reachable
  <2>7. Measuring'
    BY <1>0, <1>1, <2>1, <2>2, <2>3 DEF Measuring
  <2>8. Recorded'
    BY <1>0, <1>1 DEF Recorded, Records
  <2>. QED
    BY <2>3, <2>4, <2>5, <2>6, <2>7, <2>8 DEF IInv
<1>. QED
  BY <1>2, <1>3

LEMMA JoinStep ==
    ASSUME IInv, join
    PROVE  IInv'
<1>0. Places /\ Control /\ Port /\ Punctual /\ Measuring /\ Recorded
  BY DEF IInv
<1>1. /\ main = "join" /\ client[k] = "gone" /\ UNCHANGED <<sound, server, client, partner, results, loaded>>
      /\ \/ k < Total /\ k' = k + 1 /\ main' = "server"
         \/ k' = k /\ main' = "done"
  BY DEF join, NextRun
<1>2. /\ k \in Runs /\ k \in Nat /\ Lag \in Nat /\ Total \in Nat /\ \A j \in Runs : j \in Nat
  BY <1>0, Sizes, RunBenchmarkAssumption DEF Places
<1>3. k' \in Runs
  BY <1>1, <1>2 DEF Runs
<1>4. Places'
  BY <1>0, <1>1, <1>3 DEF Places
<1>5. Control'
  BY <1>0, <1>1, <1>2, <1>3 DEF Control
<1>6. Port'
  BY <1>0, <1>1 DEF Port
<1>7. Punctual'
  <2>. SUFFICES ASSUME NEW j \in Runs
                PROVE  /\ server[j] = "starting" => k' < j + Lag \/ (k' = j + Lag /\ client[k'] = "none")
                       /\ Reachable(j) => k' < j + Lag \/ (k' = j + Lag /\ client[k'] \in {"none", "starting"})
    BY <1>1 DEF Punctual, Reachable
  <2>1. server[j] = "starting" \/ Reachable(j) => k < j + Lag
    BY <1>0, <1>1 DEF Punctual
  <2>2. k' = j + Lag /\ k < j + Lag => client[k'] = "none"
    BY <1>0, <1>1, <1>2, <1>3 DEF Control
  <2>. QED
    BY <1>1, <1>2, <2>1, <2>2
<1>8. Measuring'
  BY <1>0, <1>1 DEF Measuring
<1>9. Recorded'
  BY <1>0, <1>1 DEF Recorded, Records
<1>. QED
  BY <1>4, <1>5, <1>6, <1>7, <1>8, <1>9 DEF IInv

----------------------------------------------------------------------------
(* The processes.                                                          *)

LEMMA ServerStep ==
    ASSUME IInv, NEW j \in Runs, server_process(j)
    PROVE  IInv'
<1>0. Places /\ Control /\ Port /\ Punctual /\ Measuring /\ Recorded
  BY DEF IInv
<1>1. PICK pc : /\ server' = [server EXCEPT ![j] = pc]
                /\ \/ server[j] = "starting" /\ pc = "listening" /\ Holding = {}
                   \/ server[j] = "starting" /\ pc = "gone"
                   \/ server[j] = "serving" /\ pc = "closing"
                   \/ server[j] \in {"serving", "closing"} /\ pc = "gone"
  <2>1. CASE server_bind(j)
    <3>1. CASE Holding = {}
      BY <2>1, <3>1 DEF server_bind, ServerGoto
    <3>2. CASE Holding # {}
      BY <2>1, <3>2 DEF server_bind, ServerGoto
    <3>. QED
      BY <3>1, <3>2
  <2>2. CASE server_served(j)
    BY <2>2 DEF server_served, ServerGoto
  <2>3. CASE server_exit(j) \/ server_dies(j)
    BY <2>3 DEF server_exit, server_dies, ServerGoto
  <2>. QED
    BY <2>1, <2>2, <2>3 DEF server_process
<1>2. UNCHANGED <<sound, main, k, client, partner, results, loaded>>
  BY DEF server_process, server_bind, server_served, server_exit, server_dies
<1>3. Places' /\ server'[j] = pc /\ \A i \in Runs \ {j} : server'[i] = server[i]
  BY <1>0, <1>1, <1>2 DEF Places
<1>4. Control'
  <2>1. j <= k /\ (j = k => main # "server")
    BY <1>0, <1>1, Sizes DEF Control, Places
  <2>. QED
    BY <1>0, <1>2, <1>3, <2>1, Sizes DEF Control, Places
<1>5. Port'
  <2>1. CASE Holding = {}
    BY <1>1, <1>3, <2>1 DEF Port, Holding
  <2>2. CASE Holding # {}
    BY <1>0, <1>1, <1>3, <2>2 DEF Port
  <2>. QED
    BY <2>1, <2>2
<1>6. Punctual'
  BY <1>0, <1>1, <1>2, <1>3 DEF Punctual, Reachable
<1>7. Measuring'
  <2>. SUFFICES ASSUME NEW i \in Runs, client[i] \in {"running", "reading", "writing"}
                PROVE  server'[partner[i]] \in {"serving", "closing", "gone"}
    BY <1>0, <1>2 DEF Measuring
  <2>1. partner[i] \in Runs /\ server[partner[i]] \in {"serving", "closing", "gone"}
    BY <1>0 DEF Measuring
  <2>. QED
    BY <1>1, <1>3, <2>1
<1>8. Recorded'
  BY <1>0, <1>2 DEF Recorded, Records
<1>. QED
  BY <1>3, <1>4, <1>5, <1>6, <1>7, <1>8 DEF IInv

\* Only the client of the run the script is at does anything.
LEMMA OneClient ==
    ASSUME IInv, NEW i \in Runs, client[i] \in {"starting", "running", "reading", "writing"}
    PROVE  i = k /\ main \notin {"server", "client"} /\ k \in Runs /\ k \in Nat
BY Sizes DEF IInv, Places, Control

LEMMA ConnectStep ==
    ASSUME IInv, NEW i \in Runs, client_connect(i)
    PROVE  IInv'
<1>0. Places /\ Control /\ Port /\ Punctual /\ Measuring /\ Recorded
  BY DEF IInv
<1>1. client[i] = "starting" /\ UNCHANGED <<sound, main, k, results, loaded>>
  BY DEF client_connect
<1>2. PICK j \in Runs : Reachable(j) /\ Meets(i, j)
  BY DEF client_connect
<1>3. i = k /\ main \notin {"server", "client"} /\ k \in Runs /\ k \in Nat /\ Lag \in Nat /\ j \in Nat
  BY <1>1, OneClient, Sizes, RunBenchmarkAssumption
<1>4. /\ server[j] = "listening" /\ \A h \in Runs : partner[h] # j
      /\ j <= k /\ k <= j + Lag
  BY <1>0, <1>2, <1>3, Sizes DEF Reachable, Control, Punctual
<1>5. PICK pc, state : /\ client' = [client EXCEPT ![i] = pc]
                       /\ server' = [server EXCEPT ![j] = state]
                       /\ \/ /\ pc = "running" /\ state = "serving" /\ Nodes(i) = Nodes(j)
                             /\ partner' = [partner EXCEPT ![i] = j]
                          \/ pc = "gone" /\ state = "closing" /\ partner' = partner
                          \/ /\ pc = "waiting" /\ state = "listening"
                             /\ partner' = [partner EXCEPT ![i] = j]
  <2>1. CASE Nodes(i) = Nodes(j) /\ ClientGoto(i, "running") /\ ServerGoto(j, "serving")
             /\ partner' = [partner EXCEPT ![i] = j]
    BY <2>1 DEF ClientGoto, ServerGoto
  <2>2. CASE ClientGoto(i, "gone") /\ ServerGoto(j, "closing") /\ UNCHANGED partner
    BY <2>2 DEF ClientGoto, ServerGoto
  <2>3. CASE ClientGoto(i, "waiting") /\ partner' = [partner EXCEPT ![i] = j] /\ UNCHANGED server
    <3>1. server' = [server EXCEPT ![j] = "listening"]
      BY <1>0, <1>4, <2>3 DEF Places
    <3>. QED
      BY <2>3, <3>1 DEF ClientGoto
  <2>. QED
    BY <1>2, <2>1, <2>2, <2>3 DEF Meets
<1>6. /\ Places' /\ client'[i] = pc /\ server'[j] = state
      /\ \A h \in Runs \ {i} : client'[h] = client[h] /\ partner'[h] = partner[h]
      /\ \A h \in Runs \ {j} : server'[h] = server[h]
      /\ pc \in {"running", "waiting"} => partner'[i] = j
      /\ pc = "gone" => partner'[i] = partner[i]
  BY <1>0, <1>1, <1>5 DEF Places
<1>7. Control'
  BY <1>0, <1>1, <1>3, <1>4, <1>5, <1>6, Sizes DEF Control
<1>8. Port'
  BY <1>0, <1>4, <1>5, <1>6 DEF Port
<1>9. Punctual'
  <2>. SUFFICES ASSUME NEW h \in Runs
                PROVE  /\ server'[h] = "starting" => k < h + Lag \/ (k = h + Lag /\ client'[k] = "none")
                       /\ Reachable(h)' => k < h + Lag
    BY <1>1 DEF Punctual
  <2>1. ~Reachable(j)'
    BY <1>5, <1>6 DEF Reachable
  <2>2. CASE h = j
    BY <1>5, <1>6, <2>1, <2>2
  <2>3. CASE h # j
    <3>1. server'[h] = server[h] /\ server[h] # "listening"
      BY <1>0, <1>4, <1>6, <2>3 DEF Port
    <3>2. server[h] = "starting" => k < h + Lag
      BY <1>0, <1>1, <1>3 DEF Punctual
    <3>. QED
      BY <3>1, <3>2 DEF Reachable
  <2>. QED
    BY <2>2, <2>3
<1>10. Measuring'
  <2>. SUFFICES ASSUME NEW h \in Runs
                PROVE  /\ client'[h] \in {"none", "starting", "gone"} => partner'[h] = Nobody
                       /\ client'[h] \in {"running", "reading", "writing"} =>
                            /\ partner'[h] \in Runs /\ Nodes(partner'[h]) = Nodes(h)
                            /\ partner'[h] <= h /\ h <= partner'[h] + Lag
                            /\ server'[partner'[h]] \in {"serving", "closing", "gone"}
    BY DEF Measuring
  <2>1. CASE h = i
    BY <1>0, <1>1, <1>3, <1>4, <1>5, <1>6, <2>1 DEF Measuring
  <2>2. CASE h # i
    BY <1>0, <1>4, <1>6, <2>2 DEF Measuring
  <2>. QED
    BY <2>1, <2>2
<1>11. Recorded'
  BY <1>0, <1>1 DEF Recorded, Records
<1>. QED
  BY <1>6, <1>7, <1>8, <1>9, <1>10, <1>11 DEF IInv

LEMMA RefusedStep ==
    ASSUME IInv, NEW i \in Runs, client_refused(i)
    PROVE  IInv'
<1>0. Places /\ Control /\ Port /\ Punctual /\ Measuring /\ Recorded
  BY DEF IInv
<1>1. /\ client[i] = "starting" /\ \A j \in Runs : ~Reachable(j)
      /\ client' = [client EXCEPT ![i] = "gone"]
      /\ UNCHANGED <<sound, main, k, server, partner, results, loaded>>
  BY DEF client_refused, ClientGoto
<1>2. i = k /\ main \notin {"server", "client"} /\ k \in Runs /\ k \in Nat
  BY <1>1, OneClient
<1>3. Places' /\ client'[i] = "gone" /\ \A h \in Runs \ {i} : client'[h] = client[h]
  BY <1>0, <1>1 DEF Places
<1>4. Control'
  BY <1>0, <1>1, <1>2, <1>3, Sizes DEF Control
<1>5. Port'
  BY <1>0, <1>1 DEF Port
<1>6. Punctual'
  BY <1>0, <1>1, <1>2, <1>3 DEF Punctual, Reachable
<1>7. Measuring'
  BY <1>0, <1>1, <1>3 DEF Measuring
<1>8. Recorded'
  BY <1>0, <1>1 DEF Recorded, Records
<1>. QED
  BY <1>3, <1>4, <1>5, <1>6, <1>7, <1>8 DEF IInv

\* What a client of the script's run may do with its connections and figures.
LEMMA FiguresStep ==
    ASSUME IInv, NEW i \in Runs, client_measured(i) \/ client_deserted(i) \/ client_read(i) \/ client_write(i),
           Recorded'
    PROVE  IInv'
<1>0. Places /\ Control /\ Port /\ Punctual /\ Measuring
  BY DEF IInv
<1>1. /\ client[i] \in {"running", "reading", "writing"}
      /\ UNCHANGED <<sound, main, k, server>>
  BY DEF client_measured, client_deserted, client_read, client_write
<1>2. PICK pc \in {"waiting", "reading", "writing", "gone"} :
        /\ client' = [client EXCEPT ![i] = pc]
        /\ \/ pc # "gone" /\ partner' = partner
           \/ pc = "gone" /\ partner' = [partner EXCEPT ![i] = Nobody]
  <2>1. CASE client_measured(i) \/ client_deserted(i)
    BY <2>1 DEF client_measured, client_deserted, ClientGoto
  <2>2. CASE client_read(i)
    BY <2>2 DEF client_read, ClientGoto
  <2>3. CASE client_write(i)
    BY <2>3 DEF client_write, ClientGoto
  <2>. QED
    BY <2>1, <2>2, <2>3
<1>3. i = k /\ main \notin {"server", "client"} /\ k \in Runs /\ k \in Nat
  BY <1>1, OneClient
<1>4. /\ Places' /\ client'[i] = pc
      /\ \A h \in Runs \ {i} : client'[h] = client[h] /\ partner'[h] = partner[h]
      /\ pc # "gone" => partner'[i] = partner[i]
      /\ pc = "gone" => partner'[i] = Nobody
  BY <1>0, <1>1, <1>2 DEF Places
<1>5. Control'
  BY <1>0, <1>1, <1>3, <1>4, Sizes DEF Control
<1>6. Port'
  BY <1>0, <1>1 DEF Port
<1>7. Punctual'
  <2>. SUFFICES ASSUME NEW h \in Runs
                PROVE  /\ server[h] = "starting" => k < h + Lag \/ (k = h + Lag /\ client'[k] = "none")
                       /\ Reachable(h)' => k < h + Lag
    BY <1>1 DEF Punctual
  <2>1. server[h] = "starting" => k < h + Lag
    BY <1>0, <1>1, <1>3 DEF Punctual
  <2>2. Reachable(h)' => Reachable(h)
    <3>1. partner[i] # h \/ server[h] # "listening"
      BY <1>0, <1>1 DEF Measuring
    <3>. QED
      BY <1>1, <1>4, <3>1 DEF Reachable
  <2>3. Reachable(h) => k < h + Lag
    BY <1>0, <1>1, <1>3 DEF Punctual
  <2>. QED
    BY <2>1, <2>2, <2>3
<1>8. Measuring'
  <2>. SUFFICES ASSUME NEW h \in Runs
                PROVE  /\ client'[h] \in {"none", "starting", "gone"} => partner'[h] = Nobody
                       /\ client'[h] \in {"running", "reading", "writing"} =>
                            /\ partner'[h] \in Runs /\ Nodes(partner'[h]) = Nodes(h)
                            /\ partner'[h] <= h /\ h <= partner'[h] + Lag
                            /\ server'[partner'[h]] \in {"serving", "closing", "gone"}
    BY DEF Measuring
  <2>1. CASE h = i
    BY <1>0, <1>1, <1>2, <1>4, <2>1 DEF Measuring
  <2>2. CASE h # i
    BY <1>0, <1>1, <1>4, <2>2 DEF Measuring
  <2>. QED
    BY <2>1, <2>2
<1>. QED
  BY <1>4, <1>5, <1>6, <1>7, <1>8 DEF IInv

LEMMA RecordStep ==
    ASSUME IInv, NEW i \in Runs, client_measured(i) \/ client_deserted(i) \/ client_read(i) \/ client_write(i)
    PROVE  Recorded'
<1>0. Recorded /\ Measuring
  BY DEF IInv
<1>1. CASE client_measured(i) \/ client_deserted(i)
  BY <1>0, <1>1 DEF client_measured, client_deserted, Recorded, Records
<1>2. CASE client_read(i)
  <2>1. results' = results /\ loaded' = [loaded EXCEPT ![i] = results]
    BY <1>2 DEF client_read
  <2>2. /\ DOMAIN loaded' = Runs /\ loaded'[i] = results
        /\ \A h \in Runs \ {i} : loaded'[h] = loaded[h]
    BY <1>0, <2>1 DEF Recorded
  <2>. QED
    BY <1>0, <2>1, <2>2 DEF Recorded, Records
<1>3. CASE client_write(i)
  <2>1. /\ results' = [c \in DOMAIN loaded[i] \cup {Config(i)} |->
                         IF c = Config(i) THEN partner[i] ELSE loaded[i][c]]
        /\ loaded' = [loaded EXCEPT ![i] = NoResults]
    BY <1>3 DEF client_write
  <2>2. partner[i] \in Runs /\ Config(i) \in Configs
    BY <1>0, <1>3 DEF client_write, Measuring, Configs
  <2>3. Records(results)'
    <3>1. DOMAIN results' = DOMAIN loaded[i] \cup {Config(i)}
      BY <2>1
    <3>2. \A c \in DOMAIN results' : results'[c] = IF c = Config(i) THEN partner[i] ELSE loaded[i][c]
      BY <2>1
    <3>. QED
      BY <1>0, <2>2, <3>1, <3>2 DEF Recorded, Records
  <2>4. /\ DOMAIN loaded' = Runs /\ loaded'[i] = NoResults
        /\ \A h \in Runs \ {i} : loaded'[h] = loaded[h]
    BY <1>0, <2>1 DEF Recorded
  <2>5. Records(NoResults)
    BY DEF Records, NoResults
  <2>6. \A h \in Runs : Records(loaded'[h])
    BY <1>0, <2>4, <2>5 DEF Recorded
  <2>. QED
    BY <2>3, <2>4, <2>6 DEF Recorded, Records
<1>. QED
  BY <1>1, <1>2, <1>3

LEMMA ClientStep ==
    ASSUME IInv, NEW i \in Runs, client_process(i)
    PROVE  IInv'
BY ConnectStep, RefusedStep, FiguresStep, RecordStep DEF client_process

----------------------------------------------------------------------------
(* The theorems.                                                           *)

LEMMA InitIInv == Init => IInv
<1>. SUFFICES ASSUME Init
              PROVE  IInv
  OBVIOUS
<1>1. /\ sound \in BOOLEAN /\ main = "server" /\ k = 1
      /\ server = [j \in Runs |-> "none"] /\ client = [j \in Runs |-> "none"]
      /\ partner = [j \in Runs |-> Nobody]
      /\ results = NoResults /\ loaded = [j \in Runs |-> NoResults]
  BY DEF Init
<1>2. Places
  BY <1>1, Sizes DEF Places
<1>3. Control /\ Port /\ Punctual /\ Measuring
  BY <1>1, Sizes DEF Control, Port, Punctual, Measuring, Reachable
<1>4. Records(NoResults)
  BY DEF Records, NoResults
<1>5. Recorded
  BY <1>1, <1>4 DEF Recorded
<1>. QED
  BY <1>2, <1>3, <1>5 DEF IInv

LEMMA NextIInv == IInv /\ [Next]_vars => IInv'
<1>. SUFFICES ASSUME IInv, [Next]_vars
              PROVE  IInv'
  OBVIOUS
<1>1. CASE UNCHANGED vars
  <2>1. UNCHANGED <<sound, main, k, server, client, partner, results, loaded>>
    BY <1>1 DEF vars
  <2>. QED
    BY <2>1 DEF IInv, Places, Control, Port, Punctual, Reachable, Measuring, Recorded, Records
<1>2. CASE script
  BY <1>2, StartStep, JoinStep DEF script
<1>3. CASE \E j \in Runs : server_process(j) \/ client_process(j)
  BY <1>3, ServerStep, ClientStep
<1>. QED
  BY <1>1, <1>2, <1>3 DEF Next, Done

\* The inductive invariant holds for any lists of the script's and servers that are
\* late by any number of runs.
THEOREM Invariance == Spec => []IInv
BY InitIInv, NextIInv, PTL DEF Spec

\* Script, servers, clients and results are of their types, and no two servers have
\* the port at the same time (rdma_bind_addr).
THEOREM TypeCorrect == Spec => []TypeOK
BY Invariance, TypeFollows, PTL

LEMMA RecordsMatch ==
    ASSUME InTime, IInv, [Next]_vars, ResultsMatch,
           \A i \in Runs : \A c \in DOMAIN loaded[i] : Config(loaded[i][c]) = c
    PROVE  /\ ResultsMatch'
           /\ \A i \in Runs : \A c \in DOMAIN loaded'[i] : Config(loaded'[i][c]) = c
<1>0. Recorded /\ Measuring
  BY DEF IInv
<1>1. CASE UNCHANGED <<results, loaded>>
  BY <1>1 DEF ResultsMatch
<1>2. ASSUME NEW i \in Runs, client_read(i)
      PROVE  /\ ResultsMatch'
             /\ \A h \in Runs : \A c \in DOMAIN loaded'[h] : Config(loaded'[h][c]) = c
  <2>1. results' = results /\ loaded' = [loaded EXCEPT ![i] = results]
    BY <1>2 DEF client_read
  <2>2. loaded'[i] = results /\ \A h \in Runs \ {i} : loaded'[h] = loaded[h]
    BY <1>0, <2>1 DEF Recorded
  <2>. QED
    BY <2>1, <2>2 DEF ResultsMatch
<1>3. ASSUME NEW i \in Runs, client_write(i)
      PROVE  /\ ResultsMatch'
             /\ \A h \in Runs : \A c \in DOMAIN loaded'[h] : Config(loaded'[h][c]) = c
  <2>1. /\ results' = [c \in DOMAIN loaded[i] \cup {Config(i)} |->
                         IF c = Config(i) THEN partner[i] ELSE loaded[i][c]]
        /\ loaded' = [loaded EXCEPT ![i] = NoResults]
    BY <1>3 DEF client_write
  <2>2. partner[i] = i
    BY <1>0, <1>3, OwnServer DEF client_write, Measuring
  <2>3. \A c \in DOMAIN results' :
          /\ c = Config(i) => results'[c] = i
          /\ c # Config(i) => c \in DOMAIN loaded[i] /\ results'[c] = loaded[i][c]
    BY <2>1, <2>2
  <2>4. ResultsMatch'
    BY <2>3 DEF ResultsMatch
  <2>5. loaded'[i] = NoResults /\ \A h \in Runs \ {i} : loaded'[h] = loaded[h]
    BY <1>0, <2>1 DEF Recorded
  <2>6. DOMAIN NoResults = {}
    BY DEF NoResults
  <2>. QED
    BY <2>4, <2>5, <2>6
<1>4. ASSUME ~UNCHANGED <<results, loaded>>
      PROVE  \E i \in Runs : client_read(i) \/ client_write(i)
  BY <1>4 DEF Next, vars, Done, script, start_server, start_client, join, NextRun,
     server_process, server_bind, server_served, server_exit, server_dies,
     client_process, client_connect, client_refused, client_measured, client_deserted
<1>. QED
  BY <1>1, <1>2, <1>3, <1>4

\* Where the numbers of threads differ and a server is late by less than one round
\* of them, every recorded figure was measured with the server of its own
\* configuration: of the servers a client may meet only its own has its number of
\* nodes.
THEOREM FiguresMatch == InTime /\ Spec => []ResultsMatch
<1>. DEFINE M == /\ ResultsMatch
                 /\ \A i \in Runs : \A c \in DOMAIN loaded[i] : Config(loaded[i][c]) = c
<1>1. Init => M
  BY DEF Init, NoResults, ResultsMatch
<1>2. InTime /\ IInv /\ M /\ [Next]_vars => M'
  BY RecordsMatch
<1>3. M => ResultsMatch
  OBVIOUS
<1>4. InTime => InTime'
  BY DEF InTime
<1>. HIDE DEF M
<1>. QED
  BY <1>1, <1>2, <1>3, <1>4, Invariance, PTL DEF Spec
=============================================================================
