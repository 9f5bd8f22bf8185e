------------------------------ MODULE OneSided ------------------------------
(***************************************************************************)
(* The data path of the benchmarks without a server worker: wbenchmark     *)
(* WRITEs, rbenchmark READs, and wrbenchmark WRITEs and then READs to make *)
(* the adapter push the written data out.  The worker posts the requests   *)
(* of one operation and polls one completion, that of the last request.    *)
(***************************************************************************)
EXTENDS BenchRun

CONSTANTS Programs  \* the benchmarks to run, by the requests of one operation
                    \* in posting order

\* wbenchmark and rbenchmark create their queue pairs with sq_sig_all = 1.
wbenchmark == <<[op |-> "WRITE", sig |-> TRUE]>>
rbenchmark == <<[op |-> "READ", sig |-> TRUE]>>

\* Bugs: neither request is signaled; the READ is posted first.
BugBothSilent == <<[op |-> "WRITE", sig |-> FALSE], [op |-> "EMPTY_READ", sig |-> FALSE]>>
BugReadFirst == <<[op |-> "EMPTY_READ", sig |-> TRUE], [op |-> "WRITE", sig |-> FALSE]>>

\* wrbenchmark signals the READ only.  The READ's sge.length is 0: it reads
\* nothing.
wrbenchmark == <<[op |-> "WRITE", sig |-> FALSE], [op |-> "EMPTY_READ", sig |-> TRUE]>>

\* init_node: max_send_wr is 1 with sq_sig_all, else 2.
ASSUME OneSidedAssumption ==
    /\ Programs \subseteq {wbenchmark, rbenchmark, wrbenchmark}
    /\ \A program \in Programs : MaxSendWr >= Len(program)

VARIABLES program,   \* the benchmark that runs
          next       \* the request the worker posts next

vars == <<verbs, buffer, run, client, program, next>>

WorkerPcs == {"wait_begin", "check_stop", "post_send", "poll_send", "finished", "failed"}

TypeOK ==
    /\ RunTypeOK(WorkerPcs)
    /\ program \in Programs
    /\ next \in [Conns -> 1 .. Len(program)]

Init ==
    /\ RunInit(0)
    /\ program \in Programs
    /\ next = [c \in Conns |-> 1]

Last(c) == next[c] = Len(program)

\* Post the next request of the operation; after the last one, poll.
post_send(c) ==
    /\ PostSend(Client(c), program[next[c]])
    /\ next' = [next EXCEPT ![c] = IF Last(c) THEN 1 ELSE @ + 1]
    /\ UNCHANGED <<buffer, run, program>>

After(c) == IF Last(c) THEN "poll_send" ELSE "post_send"

----------------------------------------------------------------------------
(* The client.                                                             *)

run_client == RunClient /\ UNCHANGED <<program, next>>

worker_begin(c) == WorkerBegin(c) /\ UNCHANGED <<program, next>>

worker_stop(c) == WorkerStop(c) /\ UNCHANGED <<program, next>>

worker_first(c) ==
    /\ NextOperation(c)
    /\ post_send(c)
    /\ BeginOperation(c, SendRoom(Client(c)), After(c))

worker_next(c) ==
    /\ wpc[c] = "post_send"
    /\ post_send(c)
    /\ ContinueOperation(c, SendRoom(Client(c)), After(c))

\* Bug: the completion is not waited for.
BugNoPollSend(c) ==
    /\ wpc[c] = "poll_send"
    /\ CountOperation(c)
    /\ UNCHANGED <<verbs, buffer, run, program, next>>

\* Bug: the worker goes on to wait for a notification, as wsbenchmark's does.
BugWaitNotified(c) ==
    /\ wpc[c] = "poll_send"
    /\ PollSends(Client(c))
    /\ WorkerGoto(c, "poll_recv")
    /\ UNCHANGED <<buffer, run, posted, ops, program, next>>

\* node_poll_n_cq takes up to eight completions, so all there are, and does
\* not look at their status.
worker_poll_send(c) ==
    /\ wpc[c] = "poll_send"
    /\ PollSends(Client(c))
    /\ CountOperation(c)
    /\ UNCHANGED <<buffer, run, program, next>>

worker(c) ==
    \/ worker_begin(c)
    \/ worker_stop(c)
    \/ worker_first(c)
    \/ worker_next(c)
    \/ worker_poll_send(c)

----------------------------------------------------------------------------
(* The adapters and the fabric.                                            *)

nic_write(c) ==
    /\ Deliver(Client(c), "WRITE")
    /\ Receive(c)
    /\ UNCHANGED <<run, client, program, next>>

\* A READ returns data, so what was written before it is placed first.
nic_read(c) ==
    /\ Placed(c)
    /\ Deliver(Client(c), "READ")
    /\ UNCHANGED <<buffer, run, client, program, next>>

\* A READ of no data does not touch the memory and waits for nothing.
nic_empty_read(c) ==
    /\ Deliver(Client(c), "EMPTY_READ")
    /\ UNCHANGED <<buffer, run, client, program, next>>

transport(c) == Transport(c) /\ UNCHANGED <<program, next>>

environment(c) == Environment(c) /\ UNCHANGED <<program, next>>

Finished == Joined /\ UNCHANGED vars

Next ==
    \/ run_client
    \/ \E c \in Conns :
         \/ worker(c)
         \/ nic_write(c)
         \/ nic_read(c)
         \/ nic_empty_read(c)
         \/ transport(c)
         \/ environment(c)
    \/ Finished

Spec == Init /\ [][Next]_vars

\* As in WriteSend.
Fairness ==
    /\ WF_vars(run_client)
    /\ \A c \in Conns :
         /\ WF_vars(worker(c))
         /\ WF_vars(nic_write(c))
         /\ WF_vars(nic_read(c))
         /\ WF_vars(nic_empty_read(c))
         /\ WF_vars(transport(c))

FairSpec == Spec /\ Fairness

----------------------------------------------------------------------------
(* Properties.                                                             *)

\* A queue of as many send slots as an operation has requests is enough, though
\* wrbenchmark never polls its WRITEs: max_send_wr is 1, or 2 for wrbenchmark,
\* no worker of a sound connection ends on a refused post, and the completion
\* queue does not overrun its one entry.
QueuesSuffice ==
    /\ CompletionsFit
    /\ \A c \in Conns :
         /\ wpc[c] = "failed" => broken[Client(c)]
         /\ Len(sq[Client(c)]) <= Len(program)

\* The data of a counted WRITE has reached the server's adapter: the polled
\* completion is that of the last request, which is acknowledged after it.
CountedIsReceived ==
    \A c \in Conns :
        ~broken[Client(c)] /\ program # rbenchmark => nic[c] >= ops[c]
=============================================================================
