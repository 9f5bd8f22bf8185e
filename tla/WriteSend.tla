------------------------------ MODULE WriteSend ------------------------------
(***************************************************************************)
(* The data path of wsbenchmark: WRITE the buffer, SEND a flush request,   *)
(* and wait for the notification the server sends once it has persisted    *)
(* the buffer.  One client worker thread and one server worker thread per  *)
(* connection, the client's main thread, the adapters and the caches, all  *)
(* interleaved.                                                            *)
(***************************************************************************)
EXTENDS BenchRun

CONSTANTS UsePmem    \* use_pmem of the server

ASSUME WriteSendAssumption == MaxSendWr >= 2 /\ UsePmem \in BOOLEAN

VARIABLES spc,       \* what the server worker does next
          unflushed  \* lines the running pmem_persist has still to flush

server == <<spc, unflushed>>
vars == <<verbs, buffer, run, client, server>>

WorkerPcs == {"wait_begin", "check_stop", "post_recv_notification", "post_send_flush",
              "poll_send", "poll_recv", "finished", "failed"}
ServerPcs == {"poll_recv", "post_recv_flush", "persist", "post_send_notification",
              "poll_send", "failed"}

TypeOK ==
    /\ RunTypeOK(WorkerPcs)
    /\ spc \in [Conns -> ServerPcs]
    /\ unflushed \in [Conns -> SUBSET Lines]

\* connect_handler has posted the first flush receive before accepting.
Init ==
    /\ RunInit(1)
    /\ spc = [c \in Conns |-> "poll_recv"]
    /\ unflushed = [c \in Conns |-> {}]

----------------------------------------------------------------------------
(* The work requests of the protocol.                                      *)

WriteRequest == [op |-> "WRITE", sig |-> FALSE]
SendRequest == [op |-> "SEND", sig |-> TRUE]

post_send_write(e) == PostSend(e, WriteRequest)
post_send_flush(e) == PostSend(e, SendRequest)
post_send_notification(e) == PostSend(e, SendRequest)
post_recv_flush(e) == PostRecv(e)
post_recv_notification(e) == PostRecv(e)

\* Bug: a completion is taken without looking whether there is one.
BugPollEmpty(e) ==
    /\ rcq' = [rcq EXCEPT ![e] = @ - 1]
    /\ UNCHANGED <<sq, delivered, acked, rq, broken>>

\* One completion is taken, whatever its status.
node_poll_n_recv(e) == PollRecv(e) \/ PollFlushed(e)
node_poll_n_send(e) == PollSend(e)

----------------------------------------------------------------------------
(* The client.                                                             *)

run_client == RunClient /\ UNCHANGED server

worker_begin(c) == WorkerBegin(c) /\ UNCHANGED server

worker_stop(c) == WorkerStop(c) /\ UNCHANGED server

worker_write(c) ==
    /\ NextOperation(c)
    /\ post_send_write(Client(c))
    /\ BeginOperation(c, SendRoom(Client(c)), "post_recv_notification")
    /\ UNCHANGED <<buffer, run, server>>

worker_recv(c) ==
    /\ wpc[c] = "post_recv_notification"
    /\ post_recv_notification(Client(c))
    /\ ContinueOperation(c, RecvRoom(Client(c)), "post_send_flush")
    /\ UNCHANGED <<buffer, run, server>>

worker_flush(c) ==
    /\ wpc[c] = "post_send_flush"
    /\ post_send_flush(Client(c))
    /\ ContinueOperation(c, SendRoom(Client(c)), "poll_send")
    /\ UNCHANGED <<buffer, run, server>>

\* Bug: the send completion is not waited for.
BugNoPollSend(c) ==
    /\ wpc[c] = "poll_send"
    /\ ContinueOperation(c, TRUE, "poll_recv")
    /\ UNCHANGED <<verbs, buffer, run, server>>

worker_poll_send(c) ==
    /\ wpc[c] = "poll_send"
    /\ node_poll_n_send(Client(c))
    /\ ContinueOperation(c, TRUE, "poll_recv")
    /\ UNCHANGED <<buffer, run, server>>

\* Bug: the notification is not waited for.
BugNoPollRecv(c) ==
    /\ wpc[c] = "poll_recv"
    /\ CountOperation(c)
    /\ UNCHANGED <<verbs, buffer, run, server>>

worker_poll_recv(c) ==
    /\ wpc[c] = "poll_recv"
    /\ node_poll_n_recv(Client(c))
    /\ CountOperation(c)
    /\ UNCHANGED <<buffer, run, server>>

worker(c) ==
    \/ worker_begin(c)
    \/ worker_stop(c)
    \/ worker_write(c)
    \/ worker_recv(c)
    \/ worker_flush(c)
    \/ worker_poll_send(c)
    \/ worker_poll_recv(c)

----------------------------------------------------------------------------
(* The server worker.  It tests the opcode of the completion but not its   *)
(* status; the opcode of a flushed receive is undefined, so such a         *)
(* completion is either taken for a request or dropped.                    *)

ServerGoto(c, pc) == spc' = [spc EXCEPT ![c] = pc]

server_poll_recv(c) ==
    /\ spc[c] = "poll_recv"
    /\ \/ PollRecv(Server(c)) /\ ServerGoto(c, "post_recv_flush")
       \/ PollFlushed(Server(c)) /\ ServerGoto(c, "post_recv_flush")
       \/ PollFlushed(Server(c)) /\ UNCHANGED spc
    /\ UNCHANGED <<buffer, run, client, unflushed>>

\* Bug: the notification is sent without persisting first.
BugNoPersist(c) ==
    /\ spc[c] = "post_recv_flush"
    /\ post_recv_flush(Server(c))
    /\ ServerGoto(c, "post_send_notification")
    /\ UNCHANGED <<buffer, run, client, unflushed>>

\* Post another receive, then start pmem_persist(node->mem, message_size).
server_post_recv(c) ==
    /\ spc[c] = "post_recv_flush"
    /\ post_recv_flush(Server(c))
    /\ ServerGoto(c, IF ~RecvRoom(Server(c)) THEN "failed"
                     ELSE IF UsePmem THEN "persist" ELSE "post_send_notification")
    /\ unflushed' = [unflushed EXCEPT ![c] = IF UsePmem THEN Lines ELSE {}]
    /\ UNCHANGED <<buffer, run, client>>

\* pmem_persist flushes one more line of the range.
server_persist(c, l) ==
    /\ spc[c] = "persist" /\ l \in unflushed[c]
    /\ WriteBack(c, l)
    /\ unflushed' = [unflushed EXCEPT ![c] = @ \ {l}]
    /\ UNCHANGED <<verbs, run, client, spc>>

\* Bug: the flushes are issued and not drained.
BugNoDrain(c) ==
    /\ spc[c] = "persist"
    /\ ServerGoto(c, "post_send_notification")
    /\ UNCHANGED <<verbs, buffer, run, client, unflushed>>

\* pmem_persist returns when every line is drained.
server_persisted(c) ==
    /\ spc[c] = "persist" /\ unflushed[c] = {}
    /\ ServerGoto(c, "post_send_notification")
    /\ UNCHANGED <<verbs, buffer, run, client, unflushed>>

server_notify(c) ==
    /\ spc[c] = "post_send_notification"
    /\ post_send_notification(Server(c))
    /\ ServerGoto(c, IF SendRoom(Server(c)) THEN "poll_send" ELSE "failed")
    /\ UNCHANGED <<buffer, run, client, unflushed>>

server_poll_send(c) ==
    /\ spc[c] = "poll_send"
    /\ node_poll_n_send(Server(c))
    /\ ServerGoto(c, "poll_recv")
    /\ UNCHANGED <<buffer, run, client, unflushed>>

server_worker(c) ==
    \/ server_poll_recv(c)
    \/ server_post_recv(c)
    \/ \E l \in Lines : server_persist(c, l)
    \/ server_persisted(c)
    \/ server_notify(c)
    \/ server_poll_send(c)

----------------------------------------------------------------------------
(* The adapters and the fabric.                                            *)

nic_write(c) ==
    /\ Deliver(Client(c), "WRITE")
    /\ Receive(c)
    /\ UNCHANGED <<run, client, server>>

\* A SEND completes a receive only after the data written before it is placed.
nic_flush(c) ==
    /\ Placed(c)
    /\ Deliver(Client(c), "SEND")
    /\ UNCHANGED <<buffer, run, client, server>>

nic_notify(c) ==
    /\ Deliver(Server(c), "SEND")
    /\ UNCHANGED <<buffer, run, client, server>>

transport(c) == Transport(c) /\ UNCHANGED server

environment(c) == Environment(c) /\ UNCHANGED server

Finished == Joined /\ UNCHANGED vars

Next ==
    \/ run_client
    \/ \E c \in Conns :
         \/ worker(c)
         \/ server_worker(c)
         \/ nic_write(c)
         \/ nic_flush(c)
         \/ nic_notify(c)
         \/ transport(c)
         \/ environment(c)
    \/ Finished

Spec == Init /\ [][Next]_vars

\* Threads are scheduled and spin until what they poll for is there; the
\* adapters work on as long as the queue pairs do, and give up on a peer that
\* is gone.  Evictions and failures need never happen.
Fairness ==
    /\ WF_vars(run_client)
    /\ \A c \in Conns :
         /\ WF_vars(worker(c))
         /\ WF_vars(server_worker(c))
         /\ WF_vars(nic_write(c))
         /\ WF_vars(nic_flush(c))
         /\ WF_vars(nic_notify(c))
         /\ WF_vars(transport(c))

FairSpec == Spec /\ Fairness

----------------------------------------------------------------------------
(* Properties.                                                             *)

\* Two send slots and one receive slot are enough, though the WRITE is never
\* polled for itself: no thread of a sound connection ends on a refused post,
\* and no completion queue overruns its one entry.
QueuesSuffice ==
    /\ CompletionsFit
    /\ \A c \in Conns :
         /\ wpc[c] = "failed" => broken[Client(c)]
         /\ spc[c] = "failed" => broken[Server(c)]

\* Nothing is written to the buffer between the server's taking a flush
\* request and its notification: the client starts the next overwrite only
\* when it has been notified, so what is persisted is one whole overwrite.
PersistUndisturbed ==
    [][\A c \in Conns :
         Live(c) /\ spc[c] \in {"post_recv_flush", "persist"} => mem'[c] = mem[c]]_vars

Lost == [c \in Conns |-> broken[Client(c)]]

\* With --pmem wsbenchmark implements the promise of RemotePersist.
Persist == INSTANCE RemotePersist
    WITH issued <- posted, durable <- pmem, counted <- ops, lost <- Lost

ImplementsPersist == Persist!Spec

----------------------------------------------------------------------------
(* The inductive invariant.  While its own queue pair works, each worker   *)
(* thread knows the shape of its queues from where it is; while both do,   *)
(* a connection is in one of five phases of the protocol; and the copies   *)
(* of the buffer are never ahead of the one they come from.                *)

SendQueue(e, requests, d, a) ==
    sq[e] = requests /\ delivered[e] \in d /\ acked[e] \in a /\ acked[e] <= delivered[e]

\* Between operations the client end is empty; in an operation it holds what
\* has been posted and not retired.
ClientShape(c) ==
    /\ wpc[c] # "failed"
    /\ wpc[c] \in {"wait_begin", "check_stop", "finished"} =>
         /\ SendQueue(Client(c), <<>>, {0}, {0})
         /\ rq[Client(c)] = 0 /\ rcq[Client(c)] = 0
         /\ posted[c] = ops[c]
    /\ wpc[c] \in {"post_recv_notification", "post_send_flush"} =>
         /\ SendQueue(Client(c), <<WriteRequest>>, 0 .. 1, 0 .. 1)
         /\ rq[Client(c)] = (IF wpc[c] = "post_send_flush" THEN 1 ELSE 0)
         /\ rcq[Client(c)] = 0
         /\ posted[c] = ops[c] + 1
    /\ wpc[c] = "poll_send" =>
         /\ SendQueue(Client(c), <<WriteRequest, SendRequest>>, 0 .. 2, 0 .. 2)
         /\ rq[Client(c)] + rcq[Client(c)] = 1
         /\ posted[c] = ops[c] + 1
    /\ wpc[c] = "poll_recv" =>
         /\ SendQueue(Client(c), <<>>, {0}, {0})
         /\ rq[Client(c)] + rcq[Client(c)] = 1
         /\ posted[c] = ops[c] + 1

\* The server end has a receive except between its polling one and posting
\* the next, and a request only while the notification is not retired.
ServerShape(c) ==
    /\ spc[c] # "failed"
    /\ rq[Server(c)] + rcq[Server(c)] = (IF spc[c] = "post_recv_flush" THEN 0 ELSE 1)
    /\ IF spc[c] = "poll_send"
       THEN SendQueue(Server(c), <<SendRequest>>, 0 .. 1, 0 .. 1)
       ELSE SendQueue(Server(c), <<>>, {0}, {0})

\* The flush request of the operation in progress has reached the server.
FlushSent(c) ==
    \/ wpc[c] = "poll_send" /\ delivered[Client(c)] = 2
    \/ wpc[c] = "poll_recv"

\* The server has dealt with the previous request.
ServerReady(c) ==
    spc[c] = "poll_recv" \/ (spc[c] = "poll_send" /\ delivered[Server(c)] = 1)

Hardened(c) == \A l \in Lines : pmem[c][l] = posted[c]

Phase(c) ==
    IF ~FlushSent(c)
    THEN /\ rcq[Server(c)] = 0 /\ rcq[Client(c)] = 0
         /\ ServerReady(c)
         /\ nic[c] = (IF sq[Client(c)] # <<>> /\ delivered[Client(c)] = 0 THEN ops[c] ELSE posted[c])
    ELSE /\ nic[c] = posted[c] /\ Placed(c)
         /\ \/ rcq[Server(c)] = 1 /\ rcq[Client(c)] = 0 /\ ServerReady(c)
            \/ /\ rcq[Server(c)] = 0 /\ rcq[Client(c)] = 0
               /\ spc[c] \in {"post_recv_flush", "persist", "post_send_notification"}
               /\ (UsePmem /\ spc[c] = "persist") => \A l \in Lines \ unflushed[c] : pmem[c][l] = posted[c]
               /\ (UsePmem /\ spc[c] = "post_send_notification") => Hardened(c)
            \/ /\ rcq[Server(c)] = 0 /\ rcq[Client(c)] = 0
               /\ spc[c] = "poll_send" /\ delivered[Server(c)] = 0
               /\ UsePmem => Hardened(c)
            \/ /\ rcq[Server(c)] = 0 /\ rcq[Client(c)] = 1
               /\ ServerReady(c)

\* What reached a deeper copy passed through the shallower ones; what the
\* client has counted, or been notified of, is where it was promised.
DataFlow(c) ==
    /\ nic[c] <= posted[c]
    /\ \A l \in Lines : mem[c][l] <= nic[c] /\ pmem[c][l] <= mem[c][l]
    /\ ~broken[Client(c)] =>
         /\ \A l \in Lines : mem[c][l] >= ops[c]
         /\ rcq[Client(c)] > 0 => \A l \in Lines : mem[c][l] = posted[c]
         /\ UsePmem => \A l \in Lines : pmem[c][l] >= ops[c]
         /\ (UsePmem /\ rcq[Client(c)] > 0) => Hardened(c)

ConnInv(c) ==
    /\ ~broken[Client(c)] => ClientShape(c)
    /\ ~broken[Server(c)] => ServerShape(c)
    /\ Live(c) => Phase(c)
    /\ DataFlow(c)

IInv == \A c \in Conns : ConnInv(c)

\* Broken connections or not, an operation is begun and not yet counted just
\* when its worker is inside it, and the join has seen every worker end.
WorkersInv ==
    /\ \A c \in Conns :
         /\ wpc[c] \in {"wait_begin", "check_stop", "finished"} => posted[c] = ops[c]
         /\ wpc[c] \in {"post_recv_notification", "post_send_flush", "poll_send", "poll_recv"} =>
              posted[c] = ops[c] + 1
    /\ Joined => \A c \in Conns : wpc[c] \in {"finished", "failed"}
=============================================================================
