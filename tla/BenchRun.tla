------------------------------ MODULE BenchRun ------------------------------
(***************************************************************************)
(* What the clients of the five benchmarks have in common: run_client sets *)
(* begin, sleeps, sets stop and joins the worker threads; a worker waits   *)
(* for begin and repeats its operation until it sees stop.  What one       *)
(* operation is, and what the server does meanwhile, is in the modules     *)
(* that extend this one.                                                   *)
(*                                                                         *)
(* The behaviours start where run_client is about to set begin: all the    *)
(* connections established, metadata received, threads created.            *)
(***************************************************************************)
EXTENDS RemoteBuffer

CONSTANTS MaxOps     \* bound of the model: operations one worker begins

ASSUME MaxOpsAssumption == MaxOps \in Nat

VARIABLES main,      \* run_client: "prepare", "sleep", "join", "joined"
          begin,     \* set once for all workers
          stop,      \* set once for all workers
          wpc,       \* what the client worker does next
          posted,    \* operations the client worker has begun
          ops        \* node->stats->ops

run == <<main, begin, stop>>
client == <<wpc, posted, ops>>

RunTypeOK(pcs) ==
    /\ VerbsTypeOK
    /\ BufferTypeOK
    /\ main \in {"prepare", "sleep", "join", "joined"}
    /\ begin \in BOOLEAN
    /\ stop \in BOOLEAN
    /\ wpc \in [Conns -> pcs]
    /\ posted \in [Conns -> Nat]
    /\ ops \in [Conns -> Nat]

\* serverRecvs receives are posted at the server end of each connection.
RunInit(serverRecvs) ==
    /\ sq = [e \in Ends |-> <<>>]
    /\ delivered = [e \in Ends |-> 0]
    /\ acked = [e \in Ends |-> 0]
    /\ rq = [e \in Ends |-> IF e[2] = "server" THEN serverRecvs ELSE 0]
    /\ rcq = [e \in Ends |-> 0]
    /\ broken = [e \in Ends |-> FALSE]
    /\ BufferInit
    /\ main = "prepare"
    /\ begin = FALSE
    /\ stop = FALSE
    /\ wpc = [c \in Conns |-> "wait_begin"]
    /\ posted = [c \in Conns |-> 0]
    /\ ops = [c \in Conns |-> 0]

WorkerGoto(c, pc) == wpc' = [wpc EXCEPT ![c] = pc]

----------------------------------------------------------------------------
(* The main thread.                                                        *)

SetBegin ==
    /\ main = "prepare"
    /\ main' = "sleep"
    /\ begin' = TRUE
    /\ UNCHANGED stop

SetStop ==
    /\ main = "sleep"
    /\ main' = "join"
    /\ stop' = TRUE
    /\ UNCHANGED begin

\* Bug: the workers are not waited for.
BugNoJoin ==
    /\ main = "join"
    /\ main' = "joined"
    /\ UNCHANGED <<begin, stop>>

Join ==
    /\ main = "join"
    /\ \A c \in Conns : wpc[c] \in {"finished", "failed"}
    /\ main' = "joined"
    /\ UNCHANGED <<begin, stop>>

RunClient ==
    /\ SetBegin \/ SetStop \/ Join
    /\ UNCHANGED <<verbs, buffer, client>>

\* After the join run_client prints the totals and disconnects.
Joined == main = "joined"

----------------------------------------------------------------------------
(* The frame of the worker's loop, and its posting and polling steps.  A   *)
(* refused post ends the thread.                                           *)

WorkerBegin(c) ==
    /\ wpc[c] = "wait_begin" /\ begin
    /\ WorkerGoto(c, "check_stop")
    /\ UNCHANGED <<verbs, buffer, run, posted, ops>>

WorkerStop(c) ==
    /\ wpc[c] = "check_stop" /\ stop
    /\ WorkerGoto(c, "finished")
    /\ UNCHANGED <<verbs, buffer, run, posted, ops>>

\* The first step of an operation is enabled.
NextOperation(c) == wpc[c] = "check_stop" /\ ~stop /\ posted[c] < MaxOps

\* The first post of an operation, and what follows it.
BeginOperation(c, accepted, next) ==
    /\ WorkerGoto(c, IF accepted THEN next ELSE "failed")
    /\ posted' = IF accepted THEN [posted EXCEPT ![c] = @ + 1] ELSE posted
    /\ UNCHANGED ops

\* A later post of an operation, and what follows it.
ContinueOperation(c, accepted, next) ==
    /\ WorkerGoto(c, IF accepted THEN next ELSE "failed")
    /\ UNCHANGED <<posted, ops>>

\* The last completion of an operation has been polled.
CountOperation(c) ==
    /\ ops' = [ops EXCEPT ![c] = @ + 1]
    /\ WorkerGoto(c, "check_stop")
    /\ UNCHANGED posted

----------------------------------------------------------------------------
(* The steps of the adapters and the caches that are the same everywhere.  *)

nic_ack(e) == Ack(e) /\ UNCHANGED <<buffer, run, client>>

nic_place(c, l) == Place(c, l) /\ UNCHANGED <<verbs, run, client>>

nic_retry_exceeded(e) == RetryExceeded(e) /\ UNCHANGED <<buffer, run, client>>

evict(c, l) == Evict(c, l) /\ UNCHANGED <<verbs, run, client>>

break(e) == Break(e) /\ UNCHANGED <<buffer, run, client>>

Transport(c) ==
    \/ \E s \in Sides : nic_ack(<<c, s>>) \/ nic_retry_exceeded(<<c, s>>)
    \/ \E l \in Lines : nic_place(c, l)

Environment(c) ==
    \/ \E s \in Sides : break(<<c, s>>)
    \/ \E l \in Lines : evict(c, l)

----------------------------------------------------------------------------
(* Properties every benchmark is checked for.                              *)

\* A request that consumes a receive never meets an empty receive queue:
\* rnr_retry_count is 0 (route_handler), so one that did would end the
\* connection.  Each side posts a receive before it lets the peer know that
\* it may send: before rdma_accept, before a request, before a notification.
ReceiverReady ==
    \A e \in Ends, op \in Consuming : Executing(e, op) => rq[Peer(e)] > 0

\* Completion queues of one entry do not overrun (init_node: cqe = 1).
CompletionsFit ==
    \A e \in Ends :
        ~broken[e] => Cardinality(SendCompletions(e)) <= Cqe /\ rcq[e] <= Cqe

\* A counted operation's data is in the server's memory, old data nowhere.
CountedIsPlaced ==
    \A c \in Conns : ~broken[Client(c)] => \A l \in Lines : mem[c][l] >= ops[c]

\* A counted operation is durable: after a power failure of the server every
\* line holds the data of that overwrite or of a later one.
CountedIsDurable ==
    \A c \in Conns : ~broken[Client(c)] => \A l \in Lines : pmem[c][l] >= ops[c]

\* When run_client has joined the workers and goes on to rdma_disconnect, the
\* client end of a sound connection has no request, receive or completion
\* left, and every operation begun has been counted.
JoinedIsQuiet ==
    Joined =>
        \A c \in Conns :
            ~broken[Client(c)] =>
                /\ sq[Client(c)] = <<>>
                /\ rq[Client(c)] = 0 /\ rcq[Client(c)] = 0
                /\ ops[c] = posted[c]

\* Once stop is set every worker finishes its operation, and run_client's
\* pthread_join calls return.
StopJoins == stop ~> Joined
=============================================================================
