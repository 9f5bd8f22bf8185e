------------------------------- MODULE Verbs -------------------------------
(***************************************************************************)
(* Reliable-connection queue pairs as libibverbs, the adapters and the     *)
(* fabric present them to the benchmarks: the send queue, the receive      *)
(* queue and the two completion queues of each end of each connection.     *)
(* None of this is code of the repository; it is the part of the verbs     *)
(* contract the benchmarks lean on.                                        *)
(*                                                                         *)
(* A work request keeps its send-queue slot until a completion at or after *)
(* it is polled, so sq[e] holds every request that still owns a slot, in   *)
(* posting order.  The first delivered[e] of them have taken effect at the *)
(* peer, and the first acked[e] of those are acknowledged.                 *)
(***************************************************************************)
EXTENDS Naturals, Sequences, FiniteSets

CONSTANTS Conns,      \* the connections, one benchmark_node at each side
          MaxSendWr,  \* send-queue slots of a queue pair (at least cap.max_send_wr)
          MaxRecvWr,  \* receive-queue slots of a queue pair (at least cap.max_recv_wr)
          Cqe,        \* entries of a completion queue (at least cqe)
          Breakable   \* the sides whose queue pairs may fail

Sides == {"client", "server"}

ASSUME VerbsAssumption == /\ MaxSendWr \in Nat \ {0}
                          /\ MaxRecvWr \in Nat \ {0}
                          /\ Cqe \in Nat \ {0}
                          /\ Breakable \subseteq Sides

Client(c) == <<c, "client">>
Server(c) == <<c, "server">>
Ends == Conns \X Sides
Peer(e) == IF e[2] = "client" THEN Server(e[1]) ELSE Client(e[1])

Opcodes == {"WRITE", "WRITE_IMM", "READ", "EMPTY_READ", "SEND"}

\* The operations that consume a posted receive of the peer.
Consuming == {"SEND", "WRITE_IMM"}

WorkRequests == [op : Opcodes, sig : BOOLEAN]

VARIABLES sq,         \* requests that own a send-queue slot, oldest first
          delivered,  \* how many of them took effect at the peer
          acked,      \* how many of them are acknowledged
          rq,         \* posted receives not consumed yet
          rcq,        \* receive completions not polled yet
          broken      \* the queue pair is in the error state

verbs == <<sq, delivered, acked, rq, rcq, broken>>

VerbsTypeOK ==
    /\ sq \in [Ends -> Seq(WorkRequests)]
    /\ delivered \in [Ends -> Nat]
    /\ acked \in [Ends -> Nat]
    /\ rq \in [Ends -> Nat]
    /\ rcq \in [Ends -> Nat]
    /\ broken \in [Ends -> BOOLEAN]

Live(c) == ~broken[Client(c)] /\ ~broken[Server(c)]

----------------------------------------------------------------------------
(* Posting.  A post to a full queue is refused with ENOMEM and leaves the  *)
(* queue alone; a post to a broken queue pair is accepted.                 *)

SendRoom(e) == Len(sq[e]) < MaxSendWr

PostSend(e, wr) ==
    /\ sq' = [sq EXCEPT ![e] = IF SendRoom(e) THEN Append(@, wr) ELSE @]
    /\ UNCHANGED <<delivered, acked, rq, rcq, broken>>

\* A receive owns its slot until its completion is polled.
RecvRoom(e) == rq[e] + rcq[e] < MaxRecvWr

PostRecv(e) ==
    /\ rq' = [rq EXCEPT ![e] = IF RecvRoom(e) THEN @ + 1 ELSE @]
    /\ UNCHANGED <<sq, delivered, acked, rcq, broken>>

----------------------------------------------------------------------------
(* Progress of the adapters: requests take effect at the peer in posting   *)
(* order, and are acknowledged in that order.                              *)

\* The oldest request of e that has not taken effect is an op.
Heading(e, op) ==
    /\ delivered[e] < Len(sq[e])
    /\ sq[e][delivered[e] + 1].op = op

Executing(e, op) ==
    /\ ~broken[e] /\ ~broken[Peer(e)]
    /\ Heading(e, op)

\* The request takes effect.  A consuming request needs a posted receive and
\* completes it; the benchmarks connect with rnr_retry_count = 0, so finding
\* none would end the connection (ReceiverReady says it never happens).
Deliver(e, op) ==
    /\ Executing(e, op)
    /\ delivered' = [delivered EXCEPT ![e] = @ + 1]
    /\ IF op \in Consuming
       THEN /\ rq[Peer(e)] > 0
            /\ rq' = [rq EXCEPT ![Peer(e)] = @ - 1]
            /\ rcq' = [rcq EXCEPT ![Peer(e)] = @ + 1]
       ELSE UNCHANGED <<rq, rcq>>
    /\ UNCHANGED <<sq, acked, broken>>

Ack(e) ==
    /\ ~broken[e]
    /\ acked[e] < delivered[e]
    /\ acked' = [acked EXCEPT ![e] = @ + 1]
    /\ UNCHANGED <<sq, delivered, rq, rcq, broken>>

\* The queue pair of one end fails by itself: a local error, or its process
\* or machine is gone.  The other end learns of it only through RetryExceeded.
Break(e) ==
    /\ e[2] \in Breakable
    /\ ~broken[e]
    /\ broken' = [broken EXCEPT ![e] = TRUE]
    /\ UNCHANGED <<sq, delivered, acked, rq, rcq>>

\* Requests in flight to an end that is gone run out of retries.
RetryExceeded(e) ==
    /\ ~broken[e] /\ broken[Peer(e)]
    /\ acked[e] < Len(sq[e])
    /\ broken' = [broken EXCEPT ![e] = TRUE]
    /\ UNCHANGED <<sq, delivered, acked, rq, rcq>>

----------------------------------------------------------------------------
(* Polling.  An acknowledged request reports if it was posted signaled; a  *)
(* broken queue pair flushes every other request, signaled or not, and     *)
(* every posted receive, with an error status.                             *)

Reports(e, k) ==
    \/ k <= acked[e] /\ sq[e][k].sig
    \/ k > acked[e] /\ broken[e]

SendCompletions(e) == {k \in 1 .. Len(sq[e]) : Reports(e, k)}

Less(n, k) == IF n > k THEN n - k ELSE 0

\* The completion of request k is taken; the slots of that request and of
\* every request before it are free again.
Retire(e, k) ==
    /\ sq' = [sq EXCEPT ![e] = SubSeq(@, k + 1, Len(@))]
    /\ delivered' = [delivered EXCEPT ![e] = Less(@, k)]
    /\ acked' = [acked EXCEPT ![e] = Less(@, k)]
    /\ UNCHANGED <<rq, rcq, broken>>

\* One entry is taken from the send completion queue.
PollSend(e) ==
    \E k \in SendCompletions(e) : (\A j \in SendCompletions(e) : k <= j) /\ Retire(e, k)

\* Every entry is taken from the send completion queue.
PollSends(e) ==
    \E k \in SendCompletions(e) : (\A j \in SendCompletions(e) : j <= k) /\ Retire(e, k)

\* A successful receive completion is taken.
PollRecv(e) ==
    /\ rcq[e] > 0
    /\ rcq' = [rcq EXCEPT ![e] = @ - 1]
    /\ UNCHANGED <<sq, delivered, acked, rq, broken>>

\* A flushed receive is taken, its status an error.
PollFlushed(e) ==
    /\ broken[e] /\ rcq[e] = 0 /\ rq[e] > 0
    /\ rq' = [rq EXCEPT ![e] = @ - 1]
    /\ UNCHANGED <<sq, delivered, acked, rcq, broken>>

\* Every entry is taken from the receive completion queue.
PollRecvs(e) ==
    /\ rcq[e] > 0 \/ (broken[e] /\ rq[e] > 0)
    /\ rcq' = [rcq EXCEPT ![e] = 0]
    /\ rq' = [rq EXCEPT ![e] = IF broken[e] THEN 0 ELSE @]
    /\ UNCHANGED <<sq, delivered, acked, broken>>
=============================================================================
