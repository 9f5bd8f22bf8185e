------------------------------ MODULE WriteImm ------------------------------
(***************************************************************************)
(* The data path of wibenchmark: one WRITE with immediate data carries the *)
(* buffer and the request, and the server answers with a notification.     *)
(*                                                                         *)
(* server_worker persists the buffer `if (use_pmem)', but nothing in this  *)
(* program sets use_pmem: the --pmem case of main only copies the path.    *)
(* The branch is dead, so the model has no persist step, and what the      *)
(* program delivers is that a counted operation is in the server's memory. *)
(***************************************************************************)
EXTENDS BenchRun

VARIABLES spc        \* what the server worker does next

vars == <<verbs, buffer, run, client, spc>>

WorkerPcs == {"wait_begin", "check_stop", "post_send_write_with_imm",
              "poll_send", "poll_recv", "finished", "failed"}
ServerPcs == {"poll_recv", "post_recv_imm", "post_send_notification", "poll_send", "failed"}

TypeOK ==
    /\ RunTypeOK(WorkerPcs)
    /\ spc \in [Conns -> ServerPcs]

\* connect_handler has posted the first receive before accepting.
Init ==
    /\ RunInit(1)
    /\ spc = [c \in Conns |-> "poll_recv"]

----------------------------------------------------------------------------
(* The work requests of the protocol: sq_sig_all is 1, all are signaled.   *)

\* Bug: the request is not signaled.
BugSilent(e) == PostSend(e, [op |-> "WRITE_IMM", sig |-> FALSE])

post_send_write_with_imm(e) == PostSend(e, [op |-> "WRITE_IMM", sig |-> TRUE])
post_send_notification(e) == PostSend(e, [op |-> "SEND", sig |-> TRUE])
post_recv_imm(e) == PostRecv(e)
post_recv_notification(e) == PostRecv(e)

\* Up to eight completions are taken, whatever their status: all there are.
node_poll_n_recv(e) == PollRecvs(e)
node_poll_n_send(e) == PollSends(e)

----------------------------------------------------------------------------
(* The client.                                                             *)

run_client == RunClient /\ UNCHANGED spc

worker_begin(c) == WorkerBegin(c) /\ UNCHANGED spc

worker_stop(c) == WorkerStop(c) /\ UNCHANGED spc

worker_recv(c) ==
    /\ NextOperation(c)
    /\ post_recv_notification(Client(c))
    /\ BeginOperation(c, RecvRoom(Client(c)), "post_send_write_with_imm")
    /\ UNCHANGED <<buffer, run, spc>>

\* Bug: the operation is counted when its request is posted.
BugCountPosted(c) ==
    /\ wpc[c] = "post_send_write_with_imm"
    /\ post_send_write_with_imm(Client(c))
    /\ CountOperation(c)
    /\ UNCHANGED <<buffer, run, spc>>

worker_write(c) ==
    /\ wpc[c] = "post_send_write_with_imm"
    /\ post_send_write_with_imm(Client(c))
    /\ ContinueOperation(c, SendRoom(Client(c)), "poll_send")
    /\ UNCHANGED <<buffer, run, spc>>

\* Bug: the send completion is not waited for.
BugNoPollSend(c) ==
    /\ wpc[c] = "poll_send"
    /\ ContinueOperation(c, TRUE, "poll_recv")
    /\ UNCHANGED <<verbs, buffer, run, spc>>

worker_poll_send(c) ==
    /\ wpc[c] = "poll_send"
    /\ node_poll_n_send(Client(c))
    /\ ContinueOperation(c, TRUE, "poll_recv")
    /\ UNCHANGED <<buffer, run, spc>>

worker_poll_recv(c) ==
    /\ wpc[c] = "poll_recv"
    /\ node_poll_n_recv(Client(c))
    /\ CountOperation(c)
    /\ UNCHANGED <<buffer, run, spc>>

worker(c) ==
    \/ worker_begin(c)
    \/ worker_stop(c)
    \/ worker_recv(c)
    \/ worker_write(c)
    \/ worker_poll_send(c)
    \/ worker_poll_recv(c)

----------------------------------------------------------------------------
(* The server worker, which looks at the opcode of a completion but not at *)
(* its status; the opcode of a flushed receive is undefined.               *)

ServerGoto(c, pc) == spc' = [spc EXCEPT ![c] = pc]

server_poll_recv(c) ==
    /\ spc[c] = "poll_recv"
    /\ \/ PollRecv(Server(c)) /\ ServerGoto(c, "post_recv_imm")
       \/ PollFlushed(Server(c)) /\ ServerGoto(c, "post_recv_imm")
       \/ PollFlushed(Server(c)) /\ UNCHANGED spc
    /\ UNCHANGED <<buffer, run, client>>

\* Bug: the receive for the next request is not posted.
BugNoPostRecv(c) ==
    /\ spc[c] = "post_recv_imm"
    /\ ServerGoto(c, "post_send_notification")
    /\ UNCHANGED <<verbs, buffer, run, client>>

server_post_recv(c) ==
    /\ spc[c] = "post_recv_imm"
    /\ post_recv_imm(Server(c))
    /\ ServerGoto(c, IF RecvRoom(Server(c)) THEN "post_send_notification" ELSE "failed")
    /\ UNCHANGED <<buffer, run, client>>

server_notify(c) ==
    /\ spc[c] = "post_send_notification"
    /\ post_send_notification(Server(c))
    /\ ServerGoto(c, IF SendRoom(Server(c)) THEN "poll_send" ELSE "failed")
    /\ UNCHANGED <<buffer, run, client>>

server_poll_send(c) ==
    /\ spc[c] = "poll_send"
    /\ node_poll_n_send(Server(c))
    /\ ServerGoto(c, "poll_recv")
    /\ UNCHANGED <<buffer, run, client>>

server_worker(c) ==
    \/ server_poll_recv(c)
    \/ server_post_recv(c)
    \/ server_notify(c)
    \/ server_poll_send(c)

----------------------------------------------------------------------------
(* The adapters and the fabric.                                            *)

\* The data of the WRITE reaches the server's adapter ...
nic_write(c) ==
    /\ Executing(Client(c), "WRITE_IMM")
    /\ nic[c] < posted[c]
    /\ Receive(c)
    /\ UNCHANGED <<verbs, run, client, spc>>

\* ... and completes a receive once all of it is placed.
nic_imm(c) ==
    /\ nic[c] = posted[c] /\ Placed(c)
    /\ Deliver(Client(c), "WRITE_IMM")
    /\ UNCHANGED <<buffer, run, client, spc>>

nic_notify(c) ==
    /\ Deliver(Server(c), "SEND")
    /\ UNCHANGED <<buffer, run, client, spc>>

transport(c) == Transport(c) /\ UNCHANGED spc

environment(c) == Environment(c) /\ UNCHANGED spc

Finished == Joined /\ UNCHANGED vars

Next ==
    \/ run_client
    \/ \E c \in Conns :
         \/ worker(c)
         \/ server_worker(c)
         \/ nic_write(c)
         \/ nic_imm(c)
         \/ nic_notify(c)
         \/ transport(c)
         \/ environment(c)
    \/ Finished

Spec == Init /\ [][Next]_vars

\* As in WriteSend.
Fairness ==
    /\ WF_vars(run_client)
    /\ \A c \in Conns :
         /\ WF_vars(worker(c))
         /\ WF_vars(server_worker(c))
         /\ WF_vars(nic_write(c))
         /\ WF_vars(nic_imm(c))
         /\ WF_vars(nic_notify(c))
         /\ WF_vars(transport(c))

FairSpec == Spec /\ Fairness

----------------------------------------------------------------------------
(* Properties.                                                             *)

\* One send slot and one receive slot are enough, however many there are: no
\* thread of a sound connection ends on a refused post, and no completion
\* queue overruns its one entry.
QueuesSuffice ==
    /\ CompletionsFit
    /\ \A c \in Conns :
         /\ Len(sq[Client(c)]) <= 1 /\ rq[Server(c)] <= 1
         /\ wpc[c] = "failed" => broken[Client(c)]
         /\ spc[c] = "failed" => broken[Server(c)]

Lost == [c \in Conns |-> broken[Client(c)]]

\* wibenchmark implements the promise of RemotePersist for the server's
\* memory in the place of its media: counted data is visible there.
Visible == INSTANCE RemotePersist
    WITH issued <- posted, durable <- mem, counted <- ops, lost <- Lost

ImplementsVisible == Visible!Spec
=============================================================================
