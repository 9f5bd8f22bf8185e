----------------------------- MODULE WsLifecycle -----------------------------
(***************************************************************************)
(* wsbenchmark from the running data path to the end of both processes:    *)
(* the data path of WriteSend, the client that joins its workers,          *)
(* disconnects and drains its events, and the server that counts the       *)
(* disconnects, cancels its workers and destroys the nodes they still      *)
(* poll.  pthread_cancel acts at cancellation points only; server_worker   *)
(* has none in its loop and nobody joins it, so it runs on until the       *)
(* process exits.                                                          *)
(*                                                                         *)
(* The arrival of a DISCONNECTED and its handling are one step.  Evictions *)
(* are left out: nothing here reads the media.                             *)
(***************************************************************************)
EXTENDS WriteSend

CONSTANTS Faulty,      \* the sides whose queue pairs may fail by themselves
          Strangers    \* another client may ask the serving server for a connection

ASSUME LifecycleAssumption ==
    /\ IsFiniteSet(Conns)
    /\ Faulty \subseteq Sides
    /\ Breakable = Sides
    /\ Strangers \in BOOLEAN

VARIABLES smain,            \* run_server and destroy_nodes: "serve", "destroy", "exit", "crashed"
          cmain,            \* run_client and destroy_nodes after the join: "run", "exit"
          disconnects_left, \* test.disconnects_left of the server
          disconnecting,    \* connections the client has called rdma_disconnect for
          ended,            \* those whose DISCONNECTED it has taken
          heard,            \* connections whose DISCONNECTED the server has taken
          unqueued,         \* server nodes whose queue pair and queues are destroyed
          released,         \* server nodes whose memory is freed, too
          intruded          \* a stranger's request ended the server's event loop

lifecycle == <<smain, cmain, disconnects_left, disconnecting, ended, heard, unqueued, released,
               intruded>>
lifeVars == <<vars, lifecycle>>

LifeTypeOK ==
    /\ TypeOK
    /\ smain \in {"serve", "destroy", "exit", "crashed"}
    /\ cmain \in {"run", "exit"}
    /\ disconnects_left \in 0 .. Cardinality(Conns)
    /\ ended \subseteq disconnecting /\ disconnecting \subseteq Conns
    /\ heard \subseteq Conns
    /\ released \subseteq unqueued /\ unqueued \subseteq Conns
    /\ intruded \in BOOLEAN

\* ESTABLISHED was counted once for each connection.
LifeInit ==
    /\ Init
    /\ smain = "serve" /\ cmain = "run"
    /\ disconnects_left = Cardinality(Conns)
    /\ disconnecting = {} /\ ended = {} /\ heard = {}
    /\ unqueued = {} /\ released = {}
    /\ intruded = FALSE

\* The queue pair of e goes to the error state, or is there already.
ToError(e) ==
    /\ broken' = [broken EXCEPT ![e] = TRUE]
    /\ UNCHANGED <<sq, delivered, acked, rq, rcq, buffer, run, client, server>>

----------------------------------------------------------------------------
(* The data path goes on beside the main threads: a server worker as long  *)
(* as its node's queues are there and its process is.                      *)

client_thread(c) == worker(c) /\ UNCHANGED lifecycle

server_thread(c) ==
    /\ smain \in {"serve", "destroy"} /\ c \notin unqueued
    /\ server_worker(c)
    /\ UNCHANGED lifecycle

adapters(c) ==
    /\ nic_write(c) \/ nic_flush(c) \/ nic_notify(c) \/ transport(c)
    /\ UNCHANGED lifecycle

\* Bound of the model: one mishap in a behaviour.
Undisturbed ==
    /\ ~intruded
    /\ \A c \in Conns :
         /\ broken[Client(c)] => c \in disconnecting
         /\ broken[Server(c)] => c \in heard

\* The queue pair of one end fails by itself.
fault(c) ==
    /\ Undisturbed
    /\ \E s \in Faulty : break(<<c, s>>)
    /\ UNCHANGED <<server, lifecycle>>

----------------------------------------------------------------------------
(* The client's main thread.                                               *)

client_run == run_client /\ UNCHANGED lifecycle

\* disc: rdma_disconnect for each node.
client_disconnect(c) ==
    /\ Joined /\ c \notin disconnecting
    /\ disconnecting' = disconnecting \cup {c}
    /\ ToError(Client(c))
    /\ UNCHANGED <<smain, cmain, disconnects_left, ended, heard, unqueued, released, intruded>>

\* disconnect_events takes a DISCONNECTED, which comes when the server has
\* answered or, whatever the server does, when the request has timed out.
client_disconnected(c) ==
    /\ disconnecting = Conns /\ c \notin ended
    /\ ended' = ended \cup {c}
    /\ UNCHANGED <<vars, smain, cmain, disconnects_left, disconnecting, heard, unqueued, released, intruded>>

\* It has taken one for each, and main returns.
client_exit ==
    /\ ended = Conns
    /\ cmain = "run" /\ cmain' = "exit"
    /\ UNCHANGED <<vars, smain, disconnects_left, disconnecting, ended, heard, unqueued, released, intruded>>

client_main ==
    \/ client_run
    \/ \E c \in Conns : client_disconnect(c) \/ client_disconnected(c)
    \/ client_exit

----------------------------------------------------------------------------
(* The server's main thread.                                               *)

ServerHears(c) ==
    /\ smain = "serve" /\ disconnects_left > 0
    /\ c \in disconnecting /\ c \notin heard
    /\ heard' = heard \cup {c}
    /\ ToError(Server(c))
    /\ UNCHANGED <<smain, cmain, disconnecting, ended, unqueued, released, intruded>>

\* Bugs: a disconnect is not counted; the first one is counted for all.
BugNotCounted(c) == ServerHears(c) /\ UNCHANGED disconnects_left

BugFirstForAll(c) ==
    /\ ServerHears(c)
    /\ disconnects_left' = 0

\* cma_handler answers a DISCONNECTED with rdma_disconnect.
server_disconnected(c) ==
    /\ ServerHears(c)
    /\ disconnects_left' = disconnects_left - 1

\* disconnect_events ends; pthread_cancel for every worker.
server_served ==
    /\ smain = "serve" /\ disconnects_left = 0
    /\ smain' = "destroy"
    /\ UNCHANGED <<vars, cmain, disconnects_left, disconnecting, ended, heard, unqueued, released, intruded>>

\* A CONNECT_REQUEST with no node left: connect_handler's error ends the
\* event loop, and the benchmark of whoever is being served with it.
server_intruded ==
    /\ Strangers /\ Undisturbed
    /\ smain = "serve" /\ disconnects_left > 0
    /\ smain' = "destroy" /\ intruded' = TRUE
    /\ UNCHANGED <<vars, cmain, disconnects_left, disconnecting, ended, heard, unqueued, released>>

\* destroy_nodes goes by the index of the nodes: some fixed order of the
\* connections, which one does not matter.
NextNode(c) ==
    /\ unqueued = released
    /\ c \notin unqueued /\ c = CHOOSE d \in Conns \ unqueued : TRUE

\* Bug: the memory goes when the queue pair is still there.
BugMemoryFirst(c) ==
    /\ smain = "destroy" /\ NextNode(c)
    /\ Placed(c)
    /\ unqueued' = unqueued \cup {c}
    /\ released' = released \cup {c}
    /\ UNCHANGED <<vars, smain, cmain, disconnects_left, disconnecting, ended, heard, intruded>>

\* destroy_node: the queue pair and its completion queues.
destroy_queues(c) ==
    /\ smain = "destroy" /\ NextNode(c)
    /\ unqueued' = unqueued \cup {c}
    /\ ToError(Server(c))
    /\ UNCHANGED <<smain, cmain, disconnects_left, disconnecting, ended, heard, released, intruded>>

\* The regions and the memory; ibv_dereg_mr returns when the adapter has
\* nothing more to place there.
release_memory(c) ==
    /\ smain = "destroy" /\ c \in unqueued \ released
    /\ Placed(c)
    /\ released' = released \cup {c}
    /\ UNCHANGED <<vars, smain, cmain, disconnects_left, disconnecting, ended, heard, unqueued, intruded>>

\* main returns, and with it every server worker.
server_exit ==
    /\ smain = "destroy" /\ released = Conns
    /\ smain' = "exit"
    /\ UNCHANGED <<vars, cmain, disconnects_left, disconnecting, ended, heard, unqueued, released, intruded>>

\* A worker that has not returned polls, posts or persists what is destroyed.
\* That is undefined; if it does no harm nothing changes.
server_worker_astray(c) ==
    /\ smain = "destroy" /\ c \in unqueued /\ spc[c] # "failed"
    /\ smain' = "crashed"
    /\ UNCHANGED <<vars, cmain, disconnects_left, disconnecting, ended, heard, unqueued, released, intruded>>

\* The kernel closes the queue pairs of a process that has died.
server_gone(c) ==
    /\ smain = "crashed" /\ ~broken[Server(c)]
    /\ ToError(Server(c))
    /\ UNCHANGED lifecycle

server_main ==
    \/ \E c \in Conns : server_disconnected(c) \/ destroy_queues(c) \/ release_memory(c)
    \/ server_served
    \/ server_exit

Ended == cmain = "exit" /\ smain \in {"exit", "crashed"} /\ UNCHANGED lifeVars

LifeNext ==
    \/ client_main
    \/ server_main
    \/ server_intruded
    \/ \E c \in Conns :
         \/ client_thread(c)
         \/ server_thread(c)
         \/ adapters(c)
         \/ fault(c)
         \/ server_worker_astray(c)
         \/ server_gone(c)
    \/ Ended

LifeSpec == LifeInit /\ [][LifeNext]_lifeVars

\* Every thread is scheduled, the adapters work on, the kernel cleans up.  What
\* undefined behaviour does, failures and strangers are under no fairness.
LifeFairness ==
    /\ WF_lifeVars(client_main)
    /\ WF_lifeVars(server_main)
    /\ \A c \in Conns :
         /\ WF_lifeVars(client_thread(c))
         /\ WF_lifeVars(server_thread(c))
         /\ WF_lifeVars(adapters(c))
         /\ WF_lifeVars(server_gone(c))

FairLifeSpec == LifeSpec /\ LifeFairness

----------------------------------------------------------------------------
(* Properties.                                                             *)

\* rdma_disconnect drops whatever is on its way.  On a sound connection that
\* is nothing of the benchmark's: every operation begun is counted, its data
\* is in the server's memory and the server worker waits for a request that
\* will not come.
DisconnectLosesNothing ==
    [][\A c \in disconnecting' \ disconnecting :
         Live(c) =>
             /\ ops[c] = posted[c]
             /\ \A l \in Lines : mem[c][l] = posted[c]
             /\ rcq[Server(c)] = 0 /\ spc[c] \in {"poll_recv", "poll_send"}]_lifeVars

\* Unless a stranger interferes, the server takes down its nodes only when
\* the client has disconnected every connection, all its workers done.
ServedToTheEnd ==
    smain # "serve" =>
        \/ intruded
        \/ /\ disconnecting = Conns
           /\ \A c \in Conns : wpc[c] \in {"finished", "failed"}

\* However early the server ends, what the client's WRITEs bring never lands
\* in memory that destroy_node has freed.
ReleasedUntouched ==
    [][\A c \in released : nic'[c] = nic[c] /\ mem'[c] = mem[c]]_lifeVars

\* Once stop is set both processes end, though the server workers do not.
BothExit == stop ~> (intruded \/ (cmain = "exit" /\ smain \in {"exit", "crashed"}))
=============================================================================
