---------------------------- MODULE WriteImmProofs ----------------------------
(***************************************************************************)
(* Proofs about WriteImm, for any connections, buffer lines and queue      *)
(* depths, and with connection failures.                                   *)
(***************************************************************************)
EXTENDS WriteImm, BenchRunProofs, FiniteSetTheorems

ImmRequest == [op |-> "WRITE_IMM", sig |-> TRUE]
SendRequest == [op |-> "SEND", sig |-> TRUE]

SendQueue(e, requests, d) ==
    /\ sq[e] = requests
    /\ delivered[e] \in d /\ acked[e] \in d /\ acked[e] <= delivered[e]

\* The client worker, whatever fails, knows its queues from where it is, and
\* is in an operation while one is begun and not counted.
ClientShape(c) ==
    /\ wpc[c] # "failed"
    /\ IF wpc[c] = "poll_send"
       THEN SendQueue(Client(c), <<ImmRequest>>, 0 .. 1)
       ELSE SendQueue(Client(c), <<>>, {0})
    /\ IF wpc[c] \in {"wait_begin", "check_stop", "finished"}
       THEN rq[Client(c)] + rcq[Client(c)] = 0 /\ posted[c] = ops[c]
       ELSE rq[Client(c)] + rcq[Client(c)] = 1 /\ posted[c] = ops[c] + 1
    /\ wpc[c] = "post_send_write_with_imm" => rcq[Client(c)] = 0

\* So does the server worker, but for the flushed receive it may have dropped.
ServerShape(c) ==
    /\ spc[c] # "failed"
    /\ IF spc[c] = "poll_send"
       THEN SendQueue(Server(c), <<SendRequest>>, 0 .. 1)
       ELSE SendQueue(Server(c), <<>>, {0})
    /\ rq[Server(c)] + rcq[Server(c)] \in
         (IF spc[c] = "post_recv_imm" THEN {0} ELSE IF broken[Server(c)] THEN 0 .. 1 ELSE {1})

\* The request of the operation in progress has reached the server.
ImmSent(c) ==
    \/ wpc[c] = "poll_send" /\ delivered[Client(c)] = 1
    \/ wpc[c] = "poll_recv"

\* The server has dealt with the previous request.
ServerReady(c) ==
    spc[c] = "poll_recv" \/ (spc[c] = "poll_send" /\ delivered[Server(c)] = 1)

\* While both queue pairs work the connection goes through four phases: the
\* request is not there, is there, is being answered, is answered.
Phase(c) ==
    IF ~ImmSent(c)
    THEN /\ rcq[Server(c)] = 0 /\ rcq[Client(c)] = 0 /\ ServerReady(c)
         /\ nic[c] \in {ops[c], posted[c]}
         /\ wpc[c] = "post_send_write_with_imm" => nic[c] = ops[c]
    ELSE /\ nic[c] = posted[c] /\ Placed(c)
         /\ \/ rcq[Server(c)] = 1 /\ rcq[Client(c)] = 0 /\ ServerReady(c)
            \/ rcq[Server(c)] = 0 /\ rcq[Client(c)] = 0 /\ ~ServerReady(c)
            \/ rcq[Server(c)] = 0 /\ rcq[Client(c)] = 1 /\ ServerReady(c)

\* Data passes through the adapter; what a client with a sound queue pair has
\* counted, or been notified of, is in the server's memory.
DataFlow(c) ==
    /\ nic[c] <= posted[c]
    /\ \A l \in Lines : mem[c][l] <= nic[c]
    /\ ~broken[Client(c)] =>
         /\ \A l \in Lines : mem[c][l] >= ops[c]
         /\ rcq[Client(c)] > 0 => \A l \in Lines : mem[c][l] = posted[c]

ConnInv(c) ==
    /\ ClientShape(c)
    /\ ServerShape(c)
    /\ Live(c) => Phase(c)
    /\ DataFlow(c)

IInv ==
    /\ TypeOK
    /\ \A c \in Conns : ConnInv(c)
    /\ Joined => \A c \in Conns : wpc[c] = "finished"

----------------------------------------------------------------------------
(* Type correctness.                                                       *)

LEMMA InitType == Init => TypeOK
<1> SUFFICES ASSUME Init PROVE TypeOK
  OBVIOUS
<1>1. VerbsTypeOK
  BY DEF Init, RunInit, VerbsTypeOK
<1>2. BufferTypeOK
  BY DEF Init, RunInit, BufferInit, BufferTypeOK
<1>. QED
  BY <1>1, <1>2 DEF Init, RunInit, TypeOK, RunTypeOK, WorkerPcs, ServerPcs

LEMMA WorkerType ==
    ASSUME TypeOK, NEW c \in Conns, worker(c)
    PROVE  TypeOK'
<1>. USE EndsFacts
<1>1. VerbsTypeOK' /\ BufferTypeOK'
  <2>1. CASE worker_begin(c) \/ worker_stop(c)
    BY <2>1 DEF TypeOK, RunTypeOK, VerbsTypeOK, BufferTypeOK, worker_begin, worker_stop,
                WorkerBegin, WorkerStop, verbs, buffer
  <2>2. CASE worker_recv(c)
    BY <2>2, PostRecvType DEF TypeOK, RunTypeOK, BufferTypeOK, worker_recv, buffer, post_recv_notification
  <2>3. CASE worker_write(c)
    <3>1. [op |-> "WRITE_IMM", sig |-> TRUE] \in WorkRequests
      BY DEF WorkRequests, Opcodes
    <3>. QED
      BY <2>3, <3>1, PostSendType DEF TypeOK, RunTypeOK, BufferTypeOK, worker_write, buffer,
                                      post_send_write_with_imm
  <2>4. CASE worker_poll_send(c)
    BY <2>4, PollSendType DEF TypeOK, RunTypeOK, BufferTypeOK, worker_poll_send, buffer, node_poll_n_send
  <2>5. CASE worker_poll_recv(c)
    BY <2>5, PollRecvType DEF TypeOK, RunTypeOK, BufferTypeOK, worker_poll_recv, buffer, node_poll_n_recv
  <2>. QED
    BY <2>1, <2>2, <2>3, <2>4, <2>5 DEF worker
<1>2. UNCHANGED <<run, spc>>
  BY DEF worker, worker_begin, worker_stop, worker_recv, worker_write, worker_poll_send,
         worker_poll_recv, WorkerBegin, WorkerStop
<1>3. wpc' \in [Conns -> WorkerPcs] /\ posted' \in [Conns -> Nat] /\ ops' \in [Conns -> Nat]
  BY DEF TypeOK, RunTypeOK, WorkerPcs, worker, worker_begin, worker_stop, worker_recv, worker_write,
         worker_poll_send, worker_poll_recv, WorkerBegin, WorkerStop, WorkerGoto,
         BeginOperation, ContinueOperation, CountOperation
<1>. QED
  BY <1>1, <1>2, <1>3 DEF TypeOK, RunTypeOK, run

LEMMA ServerWorkerType ==
    ASSUME TypeOK, NEW c \in Conns, server_worker(c)
    PROVE  TypeOK'
<1>. USE EndsFacts
<1>1. VerbsTypeOK' /\ BufferTypeOK'
  <2>1. CASE server_poll_recv(c)
    BY <2>1, PollRecvType DEF TypeOK, RunTypeOK, VerbsTypeOK, BufferTypeOK, server_poll_recv, buffer
  <2>2. CASE server_post_recv(c)
    BY <2>2, PostRecvType DEF TypeOK, RunTypeOK, BufferTypeOK, server_post_recv, buffer, post_recv_imm
  <2>3. CASE server_notify(c)
    <3>1. [op |-> "SEND", sig |-> TRUE] \in WorkRequests
      BY DEF WorkRequests, Opcodes
    <3>. QED
      BY <2>3, <3>1, PostSendType DEF TypeOK, RunTypeOK, BufferTypeOK, server_notify, buffer,
                                      post_send_notification
  <2>4. CASE server_poll_send(c)
    BY <2>4, PollSendType DEF TypeOK, RunTypeOK, BufferTypeOK, server_poll_send, buffer, node_poll_n_send
  <2>. QED
    BY <2>1, <2>2, <2>3, <2>4 DEF server_worker
<1>2. UNCHANGED <<run, client>>
  BY DEF server_worker, server_poll_recv, server_post_recv, server_notify, server_poll_send
<1>3. spc' \in [Conns -> ServerPcs]
  BY DEF TypeOK, ServerPcs, ServerGoto, server_worker, server_poll_recv, server_post_recv,
         server_notify, server_poll_send
<1>. QED
  BY <1>1, <1>2, <1>3 DEF TypeOK, RunTypeOK, run, client

LEMMA NetworkType ==
    ASSUME TypeOK, NEW c \in Conns,
           nic_write(c) \/ nic_imm(c) \/ nic_notify(c) \/ transport(c) \/ environment(c)
    PROVE  TypeOK'
<1>. USE EndsFacts
<1>1. \A s \in Sides : <<c, s>> \in Ends
  BY DEF Ends
<1>2. VerbsTypeOK' /\ BufferTypeOK'
  <2>1. CASE nic_write(c)
    BY <2>1, BufferType DEF TypeOK, RunTypeOK, VerbsTypeOK, nic_write, verbs
  <2>2. CASE nic_imm(c)
    BY <2>2, DeliverType DEF TypeOK, RunTypeOK, BufferTypeOK, nic_imm, buffer
  <2>3. CASE nic_notify(c)
    BY <2>3, DeliverType DEF TypeOK, RunTypeOK, BufferTypeOK, nic_notify, buffer
  <2>4. CASE \E s \in Sides : nic_ack(<<c, s>>) \/ nic_retry_exceeded(<<c, s>>) \/ break(<<c, s>>)
    BY <1>1, <2>4, AckBreakType DEF TypeOK, RunTypeOK, BufferTypeOK, nic_ack, nic_retry_exceeded, break, buffer
  <2>5. CASE \E l \in Lines : nic_place(c, l) \/ evict(c, l)
    BY <2>5, BufferType DEF TypeOK, RunTypeOK, VerbsTypeOK, nic_place, evict, Evict, verbs
  <2>. QED
    BY <2>1, <2>2, <2>3, <2>4, <2>5 DEF transport, Transport, environment, Environment
<1>3. UNCHANGED <<run, client, spc>>
  BY DEF nic_write, nic_imm, nic_notify, transport, Transport, environment, Environment,
         nic_ack, nic_retry_exceeded, nic_place, evict, break
<1>. QED
  BY <1>2, <1>3 DEF TypeOK, RunTypeOK, run, client

LEMMA RunClientType ==
    ASSUME TypeOK, run_client
    PROVE  TypeOK'
<1>1. VerbsTypeOK' /\ BufferTypeOK'
  BY DEF TypeOK, RunTypeOK, VerbsTypeOK, BufferTypeOK, run_client, RunClient, verbs, buffer
<1>2. UNCHANGED <<client, spc>>
  BY DEF run_client, RunClient
<1>3. /\ main' \in {"prepare", "sleep", "join", "joined"}
      /\ begin' \in BOOLEAN
      /\ stop' \in BOOLEAN
  BY DEF TypeOK, RunTypeOK, run_client, RunClient, SetBegin, SetStop, Join
<1>. QED
  BY <1>1, <1>2, <1>3 DEF TypeOK, RunTypeOK, client

LEMMA StutterType ==
    ASSUME TypeOK, UNCHANGED vars
    PROVE  TypeOK'
BY DEF TypeOK, RunTypeOK, VerbsTypeOK, BufferTypeOK, vars, verbs, buffer, run, client

LEMMA NextType == TypeOK /\ [Next]_vars => TypeOK'
BY WorkerType, ServerWorkerType, NetworkType, RunClientType, StutterType DEF Next, Finished

\* Every variable of wibenchmark's data path keeps its type.
THEOREM TypeCorrect == Spec => []TypeOK
BY InitType, NextType, PTL DEF Spec

----------------------------------------------------------------------------
(* The inductive invariant: what a step leaves alone stays invariant.      *)

ServerSame(c) == spc'[c] = spc[c]

ConnSame(c) ==
    /\ EndSame(Client(c)) /\ EndSame(Server(c))
    /\ nic'[c] = nic[c] /\ mem'[c] = mem[c] /\ ClientSame(c) /\ ServerSame(c)

Others(c) == \A d \in Conns \ {c} : ConnSame(d)

LEMMA ClientShapeFrame ==
    ASSUME NEW c \in Conns, ClientShape(c),
           SendSame(Client(c)), RecvSame(Client(c)), ClientSame(c)
    PROVE  ClientShape(c)'
BY DEF ClientShape, SendQueue, SendSame, RecvSame, ClientSame

LEMMA ServerShapeFrame ==
    ASSUME NEW c \in Conns, ServerShape(c), EndSame(Server(c)), ServerSame(c)
    PROVE  ServerShape(c)'
BY DEF ServerShape, SendQueue, EndSame, SendSame, RecvSame, ServerSame

LEMMA DataFlowFrame ==
    ASSUME NEW c \in Conns, DataFlow(c), nic'[c] = nic[c], mem'[c] = mem[c],
           posted'[c] = posted[c], ops'[c] = ops[c],
           rcq'[Client(c)] = rcq[Client(c)], broken'[Client(c)] = broken[Client(c)]
    PROVE  DataFlow(c)'
BY DEF DataFlow

LEMMA ConnFrame ==
    ASSUME NEW c \in Conns, ConnInv(c), ConnSame(c)
    PROVE  ConnInv(c)'
<1>1. Live(c)' => Phase(c)'
  BY DEF ConnInv, ConnSame, Live, Phase, ImmSent, ServerReady, Placed, EndSame, SendSame, RecvSame,
         ClientSame, ServerSame
<1>. QED
  BY <1>1, ClientShapeFrame, ServerShapeFrame, DataFlowFrame
     DEF ConnInv, ConnSame, EndSame, ClientSame, RecvSame

LEMMA OthersByEnd ==
    ASSUME NEW c \in Conns,
           \A f \in Ends \ {Client(c), Server(c)} : EndSame(f),
           \A d \in Conns \ {c} : nic'[d] = nic[d] /\ mem'[d] = mem[d] /\ ClientSame(d) /\ ServerSame(d)
    PROVE  Others(c)
BY EndsFacts DEF Others, ConnSame

\* The queues of one request.
LEMMA QueueFacts ==
    /\ ImmRequest \in WorkRequests /\ SendRequest \in WorkRequests
    /\ Append(<<>>, ImmRequest) = <<ImmRequest>> /\ Append(<<>>, SendRequest) = <<SendRequest>>
    /\ Len(<<>>) = 0 /\ Len(<<ImmRequest>>) = 1 /\ Len(<<SendRequest>>) = 1
    /\ <<ImmRequest>> # <<>> /\ <<SendRequest>> # <<>>
    /\ <<ImmRequest>>[1] = ImmRequest /\ <<SendRequest>>[1] = SendRequest
    /\ ImmRequest.sig /\ SendRequest.sig /\ ImmRequest.op = "WRITE_IMM" /\ SendRequest.op = "SEND"
BY DEF ImmRequest, SendRequest, WorkRequests, Opcodes

LEMMA ConnTypes ==
    ASSUME TypeOK, NEW c \in Conns
    PROVE  /\ posted[c] \in Nat /\ ops[c] \in Nat /\ nic[c] \in Nat /\ \A l \in Lines : mem[c][l] \in Nat
           /\ \A e \in {Client(c), Server(c)} :
                /\ delivered[e] \in Nat /\ acked[e] \in Nat /\ rq[e] \in Nat /\ rcq[e] \in Nat
                /\ sq[e] \in Seq(WorkRequests)
BY EndsFacts DEF TypeOK, RunTypeOK, VerbsTypeOK, BufferTypeOK

----------------------------------------------------------------------------
(* The client worker's steps.  In each the server end and the buffer are   *)
(* left alone.                                                             *)

LEMMA WorkerFrame ==
    ASSUME TypeOK, NEW c \in Conns, ConnInv(c), worker(c)
    PROVE  /\ UNCHANGED <<buffer, run, spc>>
           /\ EndSame(Server(c)) /\ broken' = broken
           /\ ServerShape(c)'
           /\ Others(c)
<1> DEFINE e == Client(c)
<1>1. UNCHANGED <<buffer, run, spc>> /\ broken' = broken
  BY DEF worker, worker_begin, worker_stop, worker_recv, worker_write, worker_poll_send, worker_poll_recv,
         WorkerBegin, WorkerStop, post_recv_notification, post_send_write_with_imm, node_poll_n_send,
         node_poll_n_recv, PostRecv, PostSend, PollSends, PollRecvs, Retire, verbs
<1>2. VerbsTypeOK /\ e \in Ends /\ Server(c) \in Ends \ {e}
  BY EndsFacts DEF TypeOK, RunTypeOK
<1>3. \A f \in Ends \ {e} : EndSame(f)
  <2>1. CASE worker_begin(c) \/ worker_stop(c)
    BY <2>1 DEF worker_begin, worker_stop, WorkerBegin, WorkerStop, verbs, EndSame, SendSame, RecvSame
  <2>2. CASE worker_recv(c)
    BY <1>2, <2>2, PostRecvEffect DEF worker_recv, post_recv_notification
  <2>3. CASE worker_write(c)
    BY <1>2, <2>3, PostSendEffect DEF worker_write, post_send_write_with_imm
  <2>4. CASE worker_poll_send(c)
    BY <1>2, <2>4, RetireEffect DEF worker_poll_send, node_poll_n_send, PollSends
  <2>5. CASE worker_poll_recv(c)
    BY <1>2, <2>5, PollRecvsEffect DEF worker_poll_recv, node_poll_n_recv
  <2>. QED
    BY <2>1, <2>2, <2>3, <2>4, <2>5 DEF worker
<1>4. \A d \in Conns \ {c} : ClientSame(d)
  <2>1. wpc \in [Conns -> WorkerPcs] /\ posted \in [Conns -> Nat] /\ ops \in [Conns -> Nat]
    BY DEF TypeOK, RunTypeOK
  <2>2. CASE worker_begin(c) \/ worker_stop(c)
    BY <2>1, <2>2 DEF worker_begin, worker_stop, WorkerBegin, WorkerStop, WorkerGoto, ClientSame
  <2>3. CASE worker_recv(c)
    BY <2>1, <2>3 DEF worker_recv, BeginOperation, WorkerGoto, ClientSame
  <2>4. CASE worker_write(c) \/ worker_poll_send(c)
    BY <2>1, <2>4 DEF worker_write, worker_poll_send, ContinueOperation, WorkerGoto, ClientSame
  <2>5. CASE worker_poll_recv(c)
    BY <2>1, <2>5 DEF worker_poll_recv, CountOperation, WorkerGoto, ClientSame
  <2>. QED
    BY <2>2, <2>3, <2>4, <2>5 DEF worker
<1>5. Others(c)
  BY <1>1, <1>3, <1>4, OthersByEnd DEF buffer, ServerSame
<1>6. EndSame(Server(c)) /\ ServerSame(c)
  BY <1>1, <1>2, <1>3 DEF ServerSame
<1>. QED
  BY <1>1, <1>5, <1>6, ServerShapeFrame DEF ConnInv

LEMMA WorkerIdleStep ==
    ASSUME TypeOK, NEW c \in Conns, ConnInv(c), worker_begin(c) \/ worker_stop(c)
    PROVE  ConnInv(c)'
<1>1. UNCHANGED <<verbs, buffer, posted, ops, spc>>
  BY DEF worker_begin, worker_stop, WorkerBegin, WorkerStop
<1>2. wpc[c] \in {"wait_begin", "check_stop"} /\ wpc'[c] \in {"check_stop", "finished"}
  BY DEF worker_begin, worker_stop, WorkerBegin, WorkerStop, WorkerGoto, TypeOK, RunTypeOK
<1>3. ClientShape(c)' /\ ServerShape(c)'
  BY <1>1, <1>2 DEF ConnInv, ClientShape, ServerShape, SendQueue, verbs
<1>4. Live(c)' => Phase(c)'
  BY <1>1, <1>2 DEF ConnInv, Live, Phase, ImmSent, ServerReady, Placed, verbs, buffer
<1>5. DataFlow(c)'
  BY <1>1 DEF ConnInv, DataFlow, verbs, buffer
<1>. QED
  BY <1>3, <1>4, <1>5 DEF ConnInv

LEMMA WorkerRecvStep ==
    ASSUME TypeOK, NEW c \in Conns, ConnInv(c), worker_recv(c)
    PROVE  ConnInv(c)'
<1> DEFINE e == Client(c)
<1>1. /\ e \in Ends /\ VerbsTypeOK
      /\ UNCHANGED <<buffer, spc>> /\ broken' = broken /\ EndSame(Server(c)) /\ ServerShape(c)'
  BY EndsFacts, WorkerFrame DEF worker, TypeOK, RunTypeOK
<1>2. /\ wpc[c] = "check_stop" /\ sq[e] = <<>> /\ delivered[e] = 0 /\ acked[e] = 0
      /\ rq[e] = 0 /\ rcq[e] = 0 /\ posted[c] = ops[c]
  BY ConnTypes DEF worker_recv, NextOperation, ConnInv, ClientShape, SendQueue
<1>3. RecvRoom(e)
  BY <1>2, VerbsAssumption DEF RecvRoom
<1>4. rq'[e] = 1 /\ rcq'[e] = 0 /\ SendSame(e)
  BY <1>1, <1>2, <1>3, PostRecvEffect DEF worker_recv, post_recv_notification
<1>5. wpc'[c] = "post_send_write_with_imm" /\ posted'[c] = posted[c] + 1 /\ ops'[c] = ops[c]
  BY <1>3 DEF worker_recv, BeginOperation, WorkerGoto, TypeOK, RunTypeOK
<1>6. ClientShape(c)'
  BY <1>2, <1>4, <1>5 DEF ClientShape, SendQueue, SendSame
<1>7. Live(c)' => Phase(c)'
  <2>1. ~ImmSent(c) /\ ~ImmSent(c)'
    BY <1>2, <1>5 DEF ImmSent
  <2>2. ServerReady(c)' <=> ServerReady(c)
    BY <1>1 DEF ServerReady, EndSame, SendSame
  <2>. QED
    BY <1>1, <1>2, <1>4, <1>5, <2>1, <2>2 DEF ConnInv, Live, Phase, EndSame, RecvSame, buffer
<1>8. DataFlow(c)'
  BY <1>1, <1>2, <1>4, <1>5, ConnTypes DEF ConnInv, DataFlow, buffer
<1>. QED
  BY <1>1, <1>6, <1>7, <1>8 DEF ConnInv

LEMMA WorkerWriteStep ==
    ASSUME TypeOK, NEW c \in Conns, ConnInv(c), worker_write(c)
    PROVE  ConnInv(c)'
<1> DEFINE e == Client(c)
<1>1. /\ e \in Ends /\ VerbsTypeOK
      /\ UNCHANGED <<buffer, spc>> /\ broken' = broken /\ EndSame(Server(c)) /\ ServerShape(c)'
  BY EndsFacts, WorkerFrame DEF worker, TypeOK, RunTypeOK
<1>2. /\ wpc[c] = "post_send_write_with_imm" /\ sq[e] = <<>> /\ delivered[e] = 0 /\ acked[e] = 0
      /\ rq[e] = 1 /\ rcq[e] = 0 /\ posted[c] = ops[c] + 1
  BY ConnTypes DEF worker_write, ConnInv, ClientShape, SendQueue
<1>3. SendRoom(e)
  BY <1>2, QueueFacts, VerbsAssumption DEF SendRoom
<1>4. sq'[e] = <<ImmRequest>> /\ delivered'[e] = 0 /\ acked'[e] = 0 /\ RecvSame(e)
  <2>1. PostSend(e, ImmRequest)
    BY DEF worker_write, post_send_write_with_imm, ImmRequest
  <2>2. /\ sq'[e] = (IF SendRoom(e) THEN Append(sq[e], ImmRequest) ELSE sq[e])
        /\ delivered'[e] = delivered[e] /\ acked'[e] = acked[e] /\ RecvSame(e)
    BY <1>1, <2>1, PostSendEffect
  <2>3. sq'[e] = Append(<<>>, ImmRequest)
    BY <1>2, <1>3, <2>2
  <2>. QED
    BY <1>2, <2>2, <2>3, QueueFacts
<1>5. wpc'[c] = "poll_send" /\ posted'[c] = posted[c] /\ ops'[c] = ops[c]
  BY <1>3 DEF worker_write, ContinueOperation, WorkerGoto, TypeOK, RunTypeOK
<1>6. ClientShape(c)'
  BY <1>2, <1>4, <1>5 DEF ClientShape, SendQueue, RecvSame
<1>7. Live(c)' => Phase(c)'
  <2>1. ~ImmSent(c) /\ ~ImmSent(c)'
    BY <1>2, <1>4, <1>5 DEF ImmSent
  <2>2. ServerReady(c)' <=> ServerReady(c)
    BY <1>1 DEF ServerReady, EndSame, SendSame
  <2>. QED
    BY <1>1, <1>2, <1>4, <1>5, <2>1, <2>2 DEF ConnInv, Live, Phase, EndSame, RecvSame, buffer
<1>8. DataFlow(c)'
  BY <1>1, <1>4, <1>5, DataFlowFrame DEF ConnInv, RecvSame, buffer
<1>. QED
  BY <1>1, <1>6, <1>7, <1>8 DEF ConnInv

LEMMA WorkerPollSendStep ==
    ASSUME TypeOK, NEW c \in Conns, ConnInv(c), worker_poll_send(c)
    PROVE  ConnInv(c)'
<1> DEFINE e == Client(c)
<1>1. /\ e \in Ends /\ VerbsTypeOK
      /\ UNCHANGED <<buffer, spc>> /\ broken' = broken /\ EndSame(Server(c)) /\ ServerShape(c)'
  BY EndsFacts, WorkerFrame DEF worker, TypeOK, RunTypeOK
<1>2. /\ wpc[c] = "poll_send" /\ sq[e] = <<ImmRequest>> /\ delivered[e] \in 0 .. 1 /\ acked[e] <= delivered[e]
      /\ rq[e] + rcq[e] = 1 /\ posted[c] = ops[c] + 1
  BY DEF worker_poll_send, ConnInv, ClientShape, SendQueue
<1>3. /\ ~broken[e] => delivered[e] = 1
      /\ sq'[e] = <<>> /\ delivered'[e] = 0 /\ acked'[e] = 0 /\ RecvSame(e)
  <2>1. /\ sq[e] # <<>> /\ Len(sq[e]) = 1
        /\ \A k \in 1 .. Len(sq[e]) : sq[e][k].sig <=> k = Len(sq[e])
    BY <1>2, QueueFacts
  <2>2. PollSends(e) /\ delivered[e] <= Len(sq[e])
    BY <1>2, <2>1 DEF worker_poll_send, node_poll_n_send
  <2>3. /\ ~broken[e] => delivered[e] = Len(sq[e])
        /\ sq'[e] = <<>> /\ delivered'[e] = 0 /\ acked'[e] = 0 /\ RecvSame(e)
    BY <1>1, <1>2, <2>1, <2>2, PollSendsWhole
  <2>. QED
    BY <2>1, <2>3
<1>4. wpc'[c] = "poll_recv" /\ posted'[c] = posted[c] /\ ops'[c] = ops[c]
  BY DEF worker_poll_send, ContinueOperation, WorkerGoto, TypeOK, RunTypeOK
<1>5. ClientShape(c)'
  BY <1>2, <1>3, <1>4 DEF ClientShape, SendQueue, RecvSame
<1>6. Live(c)' => Phase(c)'
  <2>1. Live(c)' => Live(c) /\ ImmSent(c) /\ ImmSent(c)'
    BY <1>1, <1>2, <1>3, <1>4 DEF Live, ImmSent
  <2>2. ServerReady(c)' <=> ServerReady(c)
    BY <1>1 DEF ServerReady, EndSame, SendSame
  <2>. QED
    BY <1>1, <1>3, <1>4, <2>1, <2>2 DEF ConnInv, Phase, Placed, EndSame, RecvSame, buffer
<1>7. DataFlow(c)'
  BY <1>1, <1>3, <1>4, DataFlowFrame DEF ConnInv, RecvSame, buffer
<1>. QED
  BY <1>1, <1>5, <1>6, <1>7 DEF ConnInv

LEMMA WorkerPollRecvStep ==
    ASSUME TypeOK, NEW c \in Conns, ConnInv(c), worker_poll_recv(c)
    PROVE  ConnInv(c)' /\ (~broken[Client(c)] => rcq[Client(c)] = 1)
<1> DEFINE e == Client(c)
<1>1. /\ e \in Ends /\ VerbsTypeOK
      /\ UNCHANGED <<buffer, spc>> /\ broken' = broken /\ EndSame(Server(c)) /\ ServerShape(c)'
  BY EndsFacts, WorkerFrame DEF worker, TypeOK, RunTypeOK
<1>2. /\ wpc[c] = "poll_recv" /\ sq[e] = <<>> /\ delivered[e] = 0 /\ acked[e] = 0
      /\ rq[e] + rcq[e] = 1 /\ posted[c] = ops[c] + 1
  BY ConnTypes DEF worker_poll_recv, ConnInv, ClientShape, SendQueue
<1>3. /\ ~broken[e] => rcq[e] = 1
      /\ rq'[e] = 0 /\ rcq'[e] = 0 /\ SendSame(e)
  <2>1. PollRecvs(e) /\ rq[e] \in Nat /\ rcq[e] \in Nat
    BY ConnTypes DEF worker_poll_recv, node_poll_n_recv
  <2>. QED
    BY <1>1, <1>2, <2>1, PollRecvsEffect
<1>4. wpc'[c] = "check_stop" /\ posted'[c] = posted[c] /\ ops'[c] = ops[c] + 1
  BY DEF worker_poll_recv, CountOperation, WorkerGoto, TypeOK, RunTypeOK
<1>5. ClientShape(c)'
  BY <1>2, <1>3, <1>4 DEF ClientShape, SendQueue, SendSame
<1>6. Live(c)' => Phase(c)'
  <2>1. ImmSent(c) /\ ~ImmSent(c)'
    BY <1>2, <1>4 DEF ImmSent
  <2>2. ServerReady(c)' <=> ServerReady(c)
    BY <1>1 DEF ServerReady, EndSame, SendSame
  <2>. QED
    BY <1>1, <1>2, <1>3, <1>4, <2>1, <2>2 DEF ConnInv, Live, Phase, EndSame, RecvSame, buffer
<1>7. DataFlow(c)'
  BY <1>1, <1>2, <1>3, <1>4, ConnTypes DEF ConnInv, DataFlow, buffer
<1>. QED
  BY <1>1, <1>3, <1>5, <1>6, <1>7 DEF ConnInv

LEMMA WorkerStep ==
    ASSUME TypeOK, NEW c \in Conns, ConnInv(c), worker(c)
    PROVE  ConnInv(c)' /\ Others(c)
BY WorkerFrame, WorkerIdleStep, WorkerRecvStep, WorkerWriteStep, WorkerPollSendStep, WorkerPollRecvStep
   DEF worker

----------------------------------------------------------------------------
(* The server worker's steps.  In each the client end and the buffer are   *)
(* left alone.                                                             *)

LEMMA ServerFrame ==
    ASSUME TypeOK, NEW c \in Conns, ConnInv(c), server_worker(c)
    PROVE  /\ UNCHANGED <<buffer, run, client>>
           /\ EndSame(Client(c)) /\ broken' = broken
           /\ ClientShape(c)' /\ DataFlow(c)'
           /\ (ImmSent(c)' <=> ImmSent(c))
           /\ Others(c)
<1> DEFINE e == Server(c)
<1>1. UNCHANGED <<buffer, run, client>> /\ broken' = broken
  BY DEF server_worker, server_poll_recv, server_post_recv, server_notify, server_poll_send,
         post_recv_imm, post_send_notification, node_poll_n_send,
         PollRecv, PollFlushed, PostRecv, PostSend, PollSends, Retire
<1>2. VerbsTypeOK /\ e \in Ends /\ Client(c) \in Ends \ {e}
  BY EndsFacts DEF TypeOK, RunTypeOK
<1>3. \A f \in Ends \ {e} : EndSame(f)
  <2>1. CASE server_poll_recv(c)
    BY <1>2, <2>1, PollRecvEffect, PollFlushedEffect DEF server_poll_recv
  <2>2. CASE server_post_recv(c)
    BY <1>2, <2>2, PostRecvEffect DEF server_post_recv, post_recv_imm
  <2>3. CASE server_notify(c)
    BY <1>2, <2>3, PostSendEffect DEF server_notify, post_send_notification
  <2>4. CASE server_poll_send(c)
    BY <1>2, <2>4, RetireEffect DEF server_poll_send, node_poll_n_send, PollSends
  <2>. QED
    BY <2>1, <2>2, <2>3, <2>4 DEF server_worker
<1>4. \A d \in Conns \ {c} : ServerSame(d)
  BY DEF TypeOK, server_worker, server_poll_recv, server_post_recv, server_notify, server_poll_send,
         ServerGoto, ServerSame
<1>5. Others(c)
  BY <1>1, <1>3, <1>4, OthersByEnd DEF buffer, client, ClientSame
<1>6. EndSame(Client(c)) /\ ClientSame(c)
  BY <1>1, <1>2, <1>3 DEF client, ClientSame
<1>7. ClientShape(c)' /\ DataFlow(c)'
  BY <1>1, <1>6, ClientShapeFrame, DataFlowFrame DEF ConnInv, EndSame, RecvSame, ClientSame, buffer
<1>8. ImmSent(c)' <=> ImmSent(c)
  BY <1>6 DEF ImmSent, EndSame, SendSame, ClientSame
<1>. QED
  BY <1>1, <1>5, <1>6, <1>7, <1>8

LEMMA ServerPollRecvStep ==
    ASSUME TypeOK, NEW c \in Conns, ConnInv(c), server_poll_recv(c)
    PROVE  ConnInv(c)'
<1> DEFINE e == Server(c)
<1>1. /\ e \in Ends /\ VerbsTypeOK
      /\ UNCHANGED <<buffer, client>> /\ broken' = broken /\ EndSame(Client(c))
      /\ ClientShape(c)' /\ DataFlow(c)' /\ (ImmSent(c)' <=> ImmSent(c))
  BY EndsFacts, ServerFrame DEF server_worker, TypeOK, RunTypeOK
<1>2. /\ spc[c] = "poll_recv" /\ sq[e] = <<>> /\ delivered[e] = 0 /\ acked[e] = 0
      /\ rq[e] \in Nat /\ rcq[e] \in Nat
      /\ rq[e] + rcq[e] <= 1 /\ (~broken[e] => rq[e] + rcq[e] = 1)
  BY ConnTypes DEF server_poll_recv, ConnInv, ServerShape, SendQueue
<1>3. /\ SendSame(e) /\ rq'[e] = 0 /\ rcq'[e] = 0
      /\ \/ spc'[c] = "post_recv_imm"
         \/ broken[e] /\ spc'[c] = "poll_recv"
      /\ ~broken[e] => rcq[e] = 1 /\ spc'[c] = "post_recv_imm"
  <2>1. CASE PollRecv(e) /\ ServerGoto(c, "post_recv_imm")
    <3>1. rcq[e] > 0 /\ rcq'[e] = rcq[e] - 1 /\ rq'[e] = rq[e] /\ SendSame(e)
      BY <1>1, <2>1, PollRecvEffect
    <3>. QED
      BY <1>2, <2>1, <3>1 DEF ServerGoto, TypeOK
  <2>2. CASE PollFlushed(e) /\ (ServerGoto(c, "post_recv_imm") \/ UNCHANGED spc)
    <3>1. broken[e] /\ SendSame(e) /\ rcq'[e] = rcq[e]
      BY <1>1, <2>2, PollFlushedEffect
    <3>2. rq[e] > 0 /\ rq'[e] = rq[e] - 1 /\ rcq[e] = 0
      BY <1>1, <2>2 DEF PollFlushed, VerbsTypeOK
    <3>. QED
      BY <1>2, <2>2, <3>1, <3>2 DEF ServerGoto, TypeOK
  <2>. QED
    BY <2>1, <2>2 DEF server_poll_recv
<1>4. ServerShape(c)'
  BY <1>1, <1>2, <1>3 DEF ServerShape, SendQueue, SendSame
<1>5. Live(c)' => Phase(c)'
  <2>1. Live(c)' => Live(c) /\ rcq[e] = 1 /\ spc'[c] = "post_recv_imm"
    BY <1>1, <1>3 DEF Live
  <2>2. Live(c)' => ~ServerReady(c)'
    BY <2>1 DEF ServerReady
  <2>. QED
    BY <1>1, <1>3, <2>1, <2>2 DEF ConnInv, Phase, Placed, EndSame, RecvSame, buffer, client
<1>. QED
  BY <1>1, <1>4, <1>5 DEF ConnInv

LEMMA ServerPostRecvStep ==
    ASSUME TypeOK, NEW c \in Conns, ConnInv(c), server_post_recv(c)
    PROVE  ConnInv(c)'
<1> DEFINE e == Server(c)
<1>1. /\ e \in Ends /\ VerbsTypeOK
      /\ UNCHANGED <<buffer, client>> /\ broken' = broken /\ EndSame(Client(c))
      /\ ClientShape(c)' /\ DataFlow(c)' /\ (ImmSent(c)' <=> ImmSent(c))
  BY EndsFacts, ServerFrame DEF server_worker, TypeOK, RunTypeOK
<1>2. /\ spc[c] = "post_recv_imm" /\ sq[e] = <<>> /\ delivered[e] = 0 /\ acked[e] = 0
      /\ rq[e] = 0 /\ rcq[e] = 0
  BY ConnTypes DEF server_post_recv, ConnInv, ServerShape, SendQueue
<1>3. RecvRoom(e)
  BY <1>2, VerbsAssumption DEF RecvRoom
<1>4. rq'[e] = 1 /\ rcq'[e] = 0 /\ SendSame(e) /\ spc'[c] = "post_send_notification"
  <2>1. rq'[e] = rq[e] + 1 /\ rcq'[e] = rcq[e] /\ SendSame(e)
    BY <1>1, <1>3, PostRecvEffect DEF server_post_recv, post_recv_imm
  <2>. QED
    BY <1>2, <1>3, <2>1 DEF server_post_recv, ServerGoto, TypeOK
<1>5. ServerShape(c)'
  BY <1>1, <1>2, <1>4 DEF ServerShape, SendQueue, SendSame
<1>6. Live(c)' => Phase(c)'
  <2>1. ~ServerReady(c) /\ ~ServerReady(c)'
    BY <1>2, <1>4 DEF ServerReady
  <2>. QED
    BY <1>1, <1>2, <1>4, <2>1 DEF ConnInv, Live, Phase, Placed, EndSame, RecvSame, buffer, client
<1>. QED
  BY <1>1, <1>5, <1>6 DEF ConnInv

LEMMA ServerNotifyStep ==
    ASSUME TypeOK, NEW c \in Conns, ConnInv(c), server_notify(c)
    PROVE  ConnInv(c)'
<1> DEFINE e == Server(c)
<1>1. /\ e \in Ends /\ VerbsTypeOK
      /\ UNCHANGED <<buffer, client>> /\ broken' = broken /\ EndSame(Client(c))
      /\ ClientShape(c)' /\ DataFlow(c)' /\ (ImmSent(c)' <=> ImmSent(c))
  BY EndsFacts, ServerFrame DEF server_worker, TypeOK, RunTypeOK
<1>2. /\ spc[c] = "post_send_notification" /\ sq[e] = <<>> /\ delivered[e] = 0 /\ acked[e] = 0
      /\ rq[e] + rcq[e] \in (IF broken[e] THEN 0 .. 1 ELSE {1})
  BY DEF server_notify, ConnInv, ServerShape, SendQueue
<1>3. SendRoom(e)
  BY <1>2, QueueFacts, VerbsAssumption DEF SendRoom
<1>4. sq'[e] = <<SendRequest>> /\ delivered'[e] = 0 /\ acked'[e] = 0 /\ RecvSame(e)
  <2>1. PostSend(e, SendRequest)
    BY DEF server_notify, post_send_notification, SendRequest
  <2>2. /\ sq'[e] = (IF SendRoom(e) THEN Append(sq[e], SendRequest) ELSE sq[e])
        /\ delivered'[e] = delivered[e] /\ acked'[e] = acked[e] /\ RecvSame(e)
    BY <1>1, <2>1, PostSendEffect
  <2>3. sq'[e] = Append(<<>>, SendRequest)
    BY <1>2, <1>3, <2>2
  <2>. QED
    BY <1>2, <2>2, <2>3, QueueFacts
<1>5. spc'[c] = "poll_send"
  BY <1>3 DEF server_notify, ServerGoto, TypeOK
<1>6. ServerShape(c)'
  BY <1>1, <1>2, <1>4, <1>5 DEF ServerShape, SendQueue, RecvSame
<1>7. Live(c)' => Phase(c)'
  <2>1. ~ServerReady(c) /\ ~ServerReady(c)'
    BY <1>2, <1>4, <1>5 DEF ServerReady
  <2>. QED
    BY <1>1, <1>4, <2>1 DEF ConnInv, Live, Phase, Placed, EndSame, RecvSame, buffer, client
<1>. QED
  BY <1>1, <1>6, <1>7 DEF ConnInv

LEMMA ServerPollSendStep ==
    ASSUME TypeOK, NEW c \in Conns, ConnInv(c), server_poll_send(c)
    PROVE  ConnInv(c)'
<1> DEFINE e == Server(c)
<1>1. /\ e \in Ends /\ VerbsTypeOK
      /\ UNCHANGED <<buffer, client>> /\ broken' = broken /\ EndSame(Client(c))
      /\ ClientShape(c)' /\ DataFlow(c)' /\ (ImmSent(c)' <=> ImmSent(c))
  BY EndsFacts, ServerFrame DEF server_worker, TypeOK, RunTypeOK
<1>2. /\ spc[c] = "poll_send" /\ sq[e] = <<SendRequest>> /\ delivered[e] \in 0 .. 1 /\ acked[e] <= delivered[e]
      /\ rq[e] + rcq[e] \in (IF broken[e] THEN 0 .. 1 ELSE {1})
  BY DEF server_poll_send, ConnInv, ServerShape, SendQueue
<1>3. /\ ~broken[e] => delivered[e] = 1
      /\ sq'[e] = <<>> /\ delivered'[e] = 0 /\ acked'[e] = 0 /\ RecvSame(e)
  <2>1. /\ sq[e] # <<>> /\ Len(sq[e]) = 1
        /\ \A k \in 1 .. Len(sq[e]) : sq[e][k].sig <=> k = Len(sq[e])
    BY <1>2, QueueFacts
  <2>2. PollSends(e) /\ delivered[e] <= Len(sq[e])
    BY <1>2, <2>1 DEF server_poll_send, node_poll_n_send
  <2>3. /\ ~broken[e] => delivered[e] = Len(sq[e])
        /\ sq'[e] = <<>> /\ delivered'[e] = 0 /\ acked'[e] = 0 /\ RecvSame(e)
    BY <1>1, <1>2, <2>1, <2>2, PollSendsWhole
  <2>. QED
    BY <2>1, <2>3
<1>4. spc'[c] = "poll_recv"
  BY DEF server_poll_send, ServerGoto, TypeOK
<1>5. ServerShape(c)'
  BY <1>1, <1>2, <1>3, <1>4 DEF ServerShape, SendQueue, RecvSame
<1>6. Live(c)' => Phase(c)'
  <2>1. Live(c)' => Live(c) /\ ServerReady(c) /\ ServerReady(c)'
    BY <1>1, <1>2, <1>3, <1>4 DEF Live, ServerReady
  <2>. QED
    BY <1>1, <1>3, <2>1 DEF ConnInv, Phase, Placed, EndSame, RecvSame, buffer, client
<1>. QED
  BY <1>1, <1>5, <1>6 DEF ConnInv

LEMMA ServerStep ==
    ASSUME TypeOK, NEW c \in Conns, ConnInv(c), server_worker(c)
    PROVE  ConnInv(c)' /\ Others(c)
BY ServerFrame, ServerPollRecvStep, ServerPostRecvStep, ServerNotifyStep, ServerPollSendStep
   DEF server_worker

----------------------------------------------------------------------------
(* The steps of the adapters, the caches and the fabric.                   *)

Network(c) == nic_write(c) \/ nic_imm(c) \/ nic_notify(c) \/ transport(c) \/ environment(c)

LEMMA NetworkSame ==
    ASSUME NEW c \in Conns, Network(c)
    PROVE  UNCHANGED <<run, client, spc>> /\ \A d \in Conns : ClientSame(d) /\ ServerSame(d)
BY DEF Network, nic_write, nic_imm, nic_notify, transport, Transport, environment, Environment,
       nic_ack, nic_retry_exceeded, nic_place, evict, break, client, ClientSame, ServerSame

\* A request that is about to take effect is the only one of its queue.
LEMMA ExecutingImm ==
    ASSUME TypeOK, NEW c \in Conns, ConnInv(c), NEW op, Executing(Client(c), op)
    PROVE  /\ op = "WRITE_IMM" /\ Live(c) /\ ~ImmSent(c)
           /\ wpc[c] = "poll_send" /\ sq[Client(c)] = <<ImmRequest>> /\ delivered[Client(c)] = 0
           /\ rcq[Server(c)] = 0 /\ rq[Server(c)] = 1 /\ rcq[Client(c)] = 0 /\ ServerReady(c)
<1>1. /\ Live(c) /\ delivered[Client(c)] < Len(sq[Client(c)])
      /\ sq[Client(c)][delivered[Client(c)] + 1].op = op
  BY EndsFacts DEF Executing, Heading, Live
<1>2. wpc[c] = "poll_send" /\ sq[Client(c)] = <<ImmRequest>> /\ delivered[Client(c)] = 0
  BY <1>1, QueueFacts, ConnTypes DEF ConnInv, ClientShape, SendQueue
<1>3. ~ImmSent(c)
  BY <1>2 DEF ImmSent
<1>4. rcq[Server(c)] = 0 /\ rcq[Client(c)] = 0 /\ ServerReady(c)
  BY <1>1, <1>3 DEF ConnInv, Phase
<1>5. rq[Server(c)] = 1
  BY <1>1, <1>4, ConnTypes DEF ConnInv, ServerShape, ServerReady, Live
<1>. QED
  BY <1>1, <1>2, <1>3, <1>4, <1>5, QueueFacts

LEMMA ExecutingNotification ==
    ASSUME TypeOK, NEW c \in Conns, ConnInv(c), NEW op, Executing(Server(c), op)
    PROVE  /\ op = "SEND" /\ Live(c) /\ ImmSent(c)
           /\ spc[c] = "poll_send" /\ sq[Server(c)] = <<SendRequest>> /\ delivered[Server(c)] = 0
           /\ rcq[Server(c)] = 0 /\ rcq[Client(c)] = 0 /\ rq[Client(c)] = 1
           /\ nic[c] = posted[c] /\ Placed(c)
<1>1. /\ Live(c) /\ delivered[Server(c)] < Len(sq[Server(c)])
      /\ sq[Server(c)][delivered[Server(c)] + 1].op = op
  BY EndsFacts DEF Executing, Heading, Live
<1>2. spc[c] = "poll_send" /\ sq[Server(c)] = <<SendRequest>> /\ delivered[Server(c)] = 0
  BY <1>1, QueueFacts, ConnTypes DEF ConnInv, ServerShape, SendQueue
<1>3. ~ServerReady(c)
  BY <1>2 DEF ServerReady
<1>4. ImmSent(c) /\ nic[c] = posted[c] /\ Placed(c) /\ rcq[Server(c)] = 0 /\ rcq[Client(c)] = 0
  BY <1>1, <1>3 DEF ConnInv, Phase
<1>5. rq[Client(c)] = 1
  BY <1>4, ConnTypes DEF ConnInv, ClientShape, ImmSent
<1>. QED
  BY <1>1, <1>2, <1>4, <1>5, QueueFacts

LEMMA NicWriteStep ==
    ASSUME TypeOK, NEW c \in Conns, ConnInv(c), nic_write(c)
    PROVE  ConnInv(c)' /\ Others(c)
<1>1. /\ wpc[c] = "poll_send" /\ ~ImmSent(c) /\ nic[c] < posted[c] /\ Live(c)
  BY ExecutingImm DEF nic_write
<1>2. UNCHANGED <<verbs, client, spc, mem>> /\ nic'[c] = nic[c] + 1 /\ \A d \in Conns \ {c} : nic'[d] = nic[d]
  BY DEF nic_write, Receive, TypeOK, RunTypeOK, BufferTypeOK
<1>3. nic[c] = ops[c] /\ posted[c] = ops[c] + 1
  BY <1>1, ConnTypes DEF ConnInv, Phase, ClientShape
<1>4. ClientShape(c)' /\ ServerShape(c)'
  BY <1>2 DEF ConnInv, ClientShape, ServerShape, SendQueue, verbs, client
<1>5. Phase(c)'
  BY <1>1, <1>2, <1>3 DEF ConnInv, Phase, ImmSent, ServerReady, verbs, client
<1>6. DataFlow(c)'
  BY <1>2, <1>3, ConnTypes DEF ConnInv, DataFlow, verbs, client
<1>7. Others(c)
  BY <1>2 DEF Others, ConnSame, EndSame, SendSame, RecvSame, ClientSame, ServerSame, verbs, client
<1>. QED
  BY <1>4, <1>5, <1>6, <1>7 DEF ConnInv

LEMMA NicImmStep ==
    ASSUME TypeOK, NEW c \in Conns, ConnInv(c), nic_imm(c)
    PROVE  ConnInv(c)' /\ Others(c)
<1> DEFINE e == Client(c)
           p == Server(c)
<1>1. e \in Ends /\ p \in Ends /\ e # p /\ Peer(e) = p /\ VerbsTypeOK
  BY EndsFacts DEF TypeOK, RunTypeOK
<1>2. /\ wpc[c] = "poll_send" /\ sq[e] = <<ImmRequest>> /\ delivered[e] = 0
      /\ rcq[p] = 0 /\ rq[p] = 1 /\ rcq[e] = 0 /\ ServerReady(c) /\ ~ImmSent(c)
      /\ nic[c] = posted[c] /\ Placed(c)
  BY ExecutingImm DEF nic_imm, Deliver
<1>3. UNCHANGED <<buffer, client, spc>>
  BY DEF nic_imm
<1>4. /\ sq'[e] = sq[e] /\ delivered'[e] = 1 /\ acked'[e] = acked[e] /\ RecvSame(e) /\ broken'[e] = broken[e]
      /\ rq'[p] = 0 /\ rcq'[p] = 1 /\ SendSame(p) /\ broken'[p] = broken[p]
      /\ \A f \in Ends \ {e, p} : EndSame(f)
  <2>1. Deliver(e, "WRITE_IMM") /\ "WRITE_IMM" \in Consuming
    BY DEF nic_imm, Consuming
  <2>. QED
    BY <1>1, <1>2, <2>1, DeliverConsumingEffect
<1>5. ClientShape(c)'
  BY <1>2, <1>3, <1>4, ConnTypes DEF ConnInv, ClientShape, SendQueue, RecvSame, client
<1>6. ServerShape(c)'
  BY <1>2, <1>3, <1>4 DEF ConnInv, ServerShape, ServerReady, SendQueue, SendSame
<1>7. Phase(c)'
  <2>1. ImmSent(c)' /\ ServerReady(c)' /\ Placed(c)' /\ nic'[c] = posted'[c]
    BY <1>2, <1>3, <1>4 DEF ImmSent, ServerReady, Placed, SendSame, client, buffer
  <2>. QED
    BY <1>2, <1>4, <2>1 DEF Phase, RecvSame
<1>8. DataFlow(c)'
  BY <1>3, <1>4, DataFlowFrame DEF ConnInv, RecvSame, buffer, client
<1>9. Others(c)
  BY <1>3, <1>4, OthersByEnd DEF buffer, client, ClientSame, ServerSame
<1>. QED
  BY <1>5, <1>6, <1>7, <1>8, <1>9 DEF ConnInv

LEMMA NicNotifyStep ==
    ASSUME TypeOK, NEW c \in Conns, ConnInv(c), nic_notify(c)
    PROVE  ConnInv(c)' /\ Others(c)
<1> DEFINE e == Server(c)
           p == Client(c)
<1>1. e \in Ends /\ p \in Ends /\ e # p /\ Peer(e) = p /\ VerbsTypeOK
  BY EndsFacts DEF TypeOK, RunTypeOK
<1>2. /\ ImmSent(c) /\ spc[c] = "poll_send" /\ sq[e] = <<SendRequest>> /\ delivered[e] = 0
      /\ rcq[e] = 0 /\ rcq[p] = 0 /\ rq[p] = 1 /\ nic[c] = posted[c] /\ Placed(c)
  BY ExecutingNotification DEF nic_notify, Deliver
<1>3. UNCHANGED <<buffer, client, spc>>
  BY DEF nic_notify
<1>4. /\ sq'[e] = sq[e] /\ delivered'[e] = 1 /\ acked'[e] = acked[e] /\ RecvSame(e) /\ broken'[e] = broken[e]
      /\ rq'[p] = 0 /\ rcq'[p] = 1 /\ SendSame(p) /\ broken'[p] = broken[p]
      /\ \A f \in Ends \ {e, p} : EndSame(f)
  <2>1. Deliver(e, "SEND") /\ "SEND" \in Consuming
    BY DEF nic_notify, Consuming
  <2>. QED
    BY <1>1, <1>2, <2>1, DeliverConsumingEffect
<1>5. ClientShape(c)'
  BY <1>2, <1>3, <1>4 DEF ConnInv, ClientShape, ImmSent, SendQueue, SendSame, client
<1>6. ServerShape(c)'
  BY <1>2, <1>3, <1>4, ConnTypes DEF ConnInv, ServerShape, SendQueue, RecvSame
<1>7. Phase(c)'
  <2>1. ImmSent(c)' /\ ServerReady(c)' /\ Placed(c)' /\ nic'[c] = posted'[c]
    BY <1>2, <1>3, <1>4 DEF ImmSent, ServerReady, Placed, SendSame, client, buffer
  <2>. QED
    BY <1>2, <1>4, <2>1 DEF Phase, RecvSame
<1>8. DataFlow(c)'
  BY <1>2, <1>3, <1>4 DEF ConnInv, DataFlow, Placed, buffer, client
<1>9. Others(c)
  BY <1>3, <1>4, OthersByEnd DEF buffer, client, ClientSame, ServerSame
<1>. QED
  BY <1>5, <1>6, <1>7, <1>8, <1>9 DEF ConnInv

LEMMA NicAckStep ==
    ASSUME TypeOK, NEW c \in Conns, ConnInv(c), NEW e \in {Client(c), Server(c)},
           nic_ack(e), UNCHANGED spc
    PROVE  ConnInv(c)' /\ Others(c)
<1>1. e \in Ends /\ VerbsTypeOK /\ Client(c) \in Ends /\ Server(c) \in Ends /\ Client(c) # Server(c)
  BY EndsFacts DEF TypeOK, RunTypeOK
<1>2. Ack(e) /\ acked[e] < delivered[e] /\ UNCHANGED <<buffer, client, spc>>
      /\ UNCHANGED <<sq, delivered, rq, rcq, broken>>
  BY DEF nic_ack, Ack
<1>3. acked'[e] = acked[e] + 1 /\ \A f \in Ends \ {e} : EndSame(f)
  BY <1>1, <1>2, AckEffect
<1>4. \A f \in {Client(c), Server(c)} : \A q, d :
         SendQueue(f, q, d) /\ d \in {0 .. 1, {0}} => SendQueue(f, q, d)'
  <2> SUFFICES ASSUME NEW f \in {Client(c), Server(c)}, NEW q, NEW d \in {0 .. 1, {0}}, SendQueue(f, q, d)
               PROVE  SendQueue(f, q, d)'
    OBVIOUS
  <2>1. CASE f = e
    BY <1>2, <1>3, <2>1, ConnTypes DEF SendQueue
  <2>2. CASE f # e
    BY <1>1, <1>2, <1>3, <2>2 DEF SendQueue, EndSame, SendSame
  <2>. QED
    BY <2>1, <2>2
<1>5. ClientShape(c)' /\ ServerShape(c)'
  BY <1>2, <1>4 DEF ConnInv, ClientShape, ServerShape, client
<1>6. Live(c)' => Phase(c)'
  BY <1>2 DEF ConnInv, Live, Phase, ImmSent, ServerReady, Placed, buffer, client
<1>7. DataFlow(c)'
  BY <1>2 DEF ConnInv, DataFlow, buffer, client
<1>8. Others(c)
  BY <1>2, <1>3, OthersByEnd DEF buffer, client, ClientSame, ServerSame
<1>. QED
  BY <1>5, <1>6, <1>7, <1>8 DEF ConnInv

LEMMA FailureStep ==
    ASSUME TypeOK, NEW c \in Conns, ConnInv(c), NEW e \in {Client(c), Server(c)},
           break(e) \/ nic_retry_exceeded(e), UNCHANGED spc
    PROVE  ConnInv(c)' /\ Others(c)
<1>1. e \in Ends /\ VerbsTypeOK /\ Client(c) \in Ends /\ Server(c) \in Ends
  BY EndsFacts DEF TypeOK, RunTypeOK
<1>2. UNCHANGED <<buffer, client, spc>> /\ UNCHANGED <<sq, delivered, acked, rq, rcq>>
  BY DEF break, nic_retry_exceeded, Break, RetryExceeded
<1>3. broken'[e] = TRUE /\ \A f \in Ends \ {e} : EndSame(f)
  BY <1>1, BreakEffect DEF break, nic_retry_exceeded
<1>4. /\ ~broken'[Client(c)] => ~broken[Client(c)]
      /\ ~broken'[Server(c)] => ~broken[Server(c)]
      /\ ~Live(c)'
  BY <1>1, <1>3 DEF Live, EndSame
<1>5. ClientShape(c)' /\ ServerShape(c)'
  BY <1>2, <1>4 DEF ConnInv, ClientShape, ServerShape, SendQueue, client
<1>6. DataFlow(c)'
  BY <1>2, <1>4 DEF ConnInv, DataFlow, buffer, client
<1>7. Others(c)
  BY <1>2, <1>3, OthersByEnd DEF buffer, client, ClientSame, ServerSame
<1>. QED
  BY <1>4, <1>5, <1>6, <1>7 DEF ConnInv

\* A line only moves up to what the adapter has received.
LEMMA NicPlaceStep ==
    ASSUME TypeOK, NEW c \in Conns, ConnInv(c), NEW l \in Lines, nic_place(c, l), UNCHANGED spc
    PROVE  ConnInv(c)' /\ Others(c)
<1>1. /\ UNCHANGED <<verbs, client, spc, nic>> /\ mem[c][l] < nic[c]
      /\ mem'[c] = [mem[c] EXCEPT ![l] = nic[c]]
      /\ \A d \in Conns \ {c} : mem'[d] = mem[d]
  BY DEF nic_place, Place, TypeOK, RunTypeOK, BufferTypeOK
<1>2. /\ mem[c] \in [Lines -> Nat]
      /\ nic[c] \in Nat /\ posted[c] \in Nat /\ ops[c] \in Nat
  BY DEF TypeOK, RunTypeOK, BufferTypeOK
<1>3. \A k \in Lines : mem'[c][k] = (IF k = l THEN nic[c] ELSE mem[c][k])
  BY <1>1, <1>2
<1>4. ~Placed(c) /\ (Placed(c)' => nic'[c] = nic[c])
  BY <1>1, <1>2 DEF Placed
<1>5. ClientShape(c)' /\ ServerShape(c)'
  BY <1>1 DEF ConnInv, ClientShape, ServerShape, SendQueue, verbs, client
<1>6. Live(c)' => Phase(c)'
  BY <1>1, <1>4 DEF ConnInv, Live, Phase, ImmSent, ServerReady, verbs, client
<1>7. DataFlow(c)'
  <2>1. /\ nic'[c] <= posted'[c]
        /\ \A k \in Lines : mem'[c][k] <= nic'[c]
    BY <1>1, <1>2, <1>3 DEF ConnInv, DataFlow, client
  <2>2. ASSUME ~broken'[Client(c)]
        PROVE  /\ \A k \in Lines : mem'[c][k] >= ops'[c]
               /\ rcq'[Client(c)] > 0 => \A k \in Lines : mem'[c][k] = posted'[c]
    <3>1. ~broken[Client(c)] /\ ops'[c] = ops[c] /\ posted'[c] = posted[c] /\ rcq'[Client(c)] = rcq[Client(c)]
      BY <1>1, <2>2 DEF verbs, client
    <3>2. /\ \A k \in Lines : mem[c][k] >= ops[c] /\ mem[c][k] <= nic[c]
          /\ rcq[Client(c)] > 0 => mem[c][l] = posted[c]
          /\ nic[c] <= posted[c]
      BY <3>1 DEF ConnInv, DataFlow
    <3>3. ~(rcq[Client(c)] > 0)
      BY <1>1, <1>2, <3>2
    <3>. QED
      BY <1>1, <1>2, <1>3, <3>1, <3>2, <3>3
  <2>. QED
    BY <2>1, <2>2 DEF DataFlow
<1>8. Others(c)
  BY <1>1 DEF Others, ConnSame, EndSame, SendSame, RecvSame, ClientSame, ServerSame, verbs, client
<1>. QED
  BY <1>5, <1>6, <1>7, <1>8 DEF ConnInv

LEMMA EvictStep ==
    ASSUME NEW c \in Conns, ConnInv(c), NEW l \in Lines, evict(c, l), UNCHANGED spc
    PROVE  ConnInv(c)' /\ Others(c)
<1>1. UNCHANGED <<verbs, client, nic, mem>>
  BY DEF evict, Evict, WriteBack
<1>2. \A d \in Conns : ConnSame(d)
  BY <1>1 DEF ConnSame, EndSame, SendSame, RecvSame, ClientSame, ServerSame, verbs, client
<1>. QED
  BY <1>2, ConnFrame DEF Others

LEMMA NetworkStep ==
    ASSUME TypeOK, NEW c \in Conns, ConnInv(c), Network(c)
    PROVE  ConnInv(c)' /\ Others(c)
<1>1. UNCHANGED spc
  BY NetworkSame
<1>2. \A s \in Sides : <<c, s>> \in {Client(c), Server(c)}
  BY DEF Sides, Client, Server
<1>3. CASE nic_write(c) \/ nic_imm(c) \/ nic_notify(c)
  BY <1>3, NicWriteStep, NicImmStep, NicNotifyStep
<1>4. CASE \E s \in Sides : nic_ack(<<c, s>>)
  BY <1>1, <1>2, <1>4, NicAckStep
<1>5. CASE \E s \in Sides : nic_retry_exceeded(<<c, s>>) \/ break(<<c, s>>)
  BY <1>1, <1>2, <1>5, FailureStep
<1>6. CASE \E l \in Lines : nic_place(c, l) \/ evict(c, l)
  BY <1>1, <1>6, NicPlaceStep, EvictStep
<1>. QED
  BY <1>3, <1>4, <1>5, <1>6 DEF Network, transport, Transport, environment, Environment

----------------------------------------------------------------------------
(* The invariant.                                                          *)

LEMMA InitInv == Init => IInv
<1> SUFFICES ASSUME Init PROVE IInv
  OBVIOUS
<1>1. ASSUME NEW c \in Conns PROVE ConnInv(c)
  <2>1. /\ \A e \in {Client(c), Server(c)} :
              sq[e] = <<>> /\ delivered[e] = 0 /\ acked[e] = 0 /\ rcq[e] = 0
        /\ rq[Client(c)] = 0 /\ rq[Server(c)] = 1
    BY EndsFacts DEF Init, RunInit, Client, Server
  <2>2. /\ wpc[c] = "wait_begin" /\ spc[c] = "poll_recv"
        /\ posted[c] = 0 /\ ops[c] = 0 /\ nic[c] = 0 /\ \A l \in Lines : mem[c][l] = 0
    BY DEF Init, RunInit, BufferInit
  <2>. QED
    BY <2>1, <2>2 DEF ConnInv, ClientShape, ServerShape, SendQueue, Phase, ImmSent, ServerReady, DataFlow
<1>2. ~Joined
  BY DEF Init, RunInit, Joined
<1>. QED
  BY <1>1, <1>2, InitType DEF IInv

LEMMA NextCases ==
    ASSUME [Next]_vars
    PROVE  \/ run_client \/ UNCHANGED vars
           \/ \E c \in Conns : worker(c) \/ server_worker(c) \/ Network(c)
BY DEF Next, Finished, Network

LEMMA NextInv == IInv /\ [Next]_vars => IInv'
<1> SUFFICES ASSUME IInv, [Next]_vars PROVE IInv'
  OBVIOUS
<1>1. TypeOK /\ TypeOK' /\ \A c \in Conns : ConnInv(c)
  BY NextType DEF IInv
<1>2. CASE run_client \/ UNCHANGED vars
  <2>1. UNCHANGED <<verbs, buffer, client, spc>>
    BY <1>2 DEF run_client, RunClient, vars
  <2>2. \A c \in Conns : ConnSame(c)
    BY <2>1 DEF ConnSame, EndSame, SendSame, RecvSame, ClientSame, ServerSame, verbs, buffer, client
  <2>3. \A c \in Conns : ConnInv(c)'
    BY <1>1, <2>2, ConnFrame
  <2>4. Joined' => \A c \in Conns : wpc'[c] = "finished"
    <3>1. CASE main' = main
      BY <2>1, <3>1 DEF IInv, Joined, client
    <3>2. CASE Join
      BY <1>1, <2>1, <3>2 DEF Join, ConnInv, ClientShape, client
    <3>3. CASE SetBegin \/ SetStop
      BY <3>3 DEF SetBegin, SetStop, Joined
    <3>. QED
      BY <1>2, <3>1, <3>2, <3>3 DEF run_client, RunClient, vars, run
  <2>. QED
    BY <1>1, <2>3, <2>4 DEF IInv
<1>3. CASE \E c \in Conns : worker(c) \/ server_worker(c) \/ Network(c)
  <2>1. PICK c \in Conns : worker(c) \/ server_worker(c) \/ Network(c)
    BY <1>3
  <2>2. ConnInv(c)' /\ Others(c)
    BY <1>1, <2>1, WorkerStep, ServerStep, NetworkStep
  <2>3. \A d \in Conns : ConnInv(d)'
    BY <1>1, <2>2, ConnFrame DEF Others
  <2>4. main' = main
    BY <1>1, <2>1, NetworkSame, WorkerFrame, ServerFrame DEF run
  <2>5. Joined' => \A d \in Conns : wpc'[d] = "finished"
    <3>1. CASE Joined
      <4>1. \A d \in Conns : wpc[d] = "finished"
        BY <3>1 DEF IInv
      <4>2. ~worker(c)
        BY <4>1 DEF worker, worker_begin, worker_stop, worker_recv, worker_write, worker_poll_send,
                    worker_poll_recv, WorkerBegin, WorkerStop, NextOperation
      <4>. QED
        BY <1>1, <2>1, <4>1, <4>2, NetworkSame, ServerFrame DEF client
    <3>2. CASE ~Joined
      BY <2>4, <3>2 DEF Joined
    <3>. QED
      BY <3>1, <3>2
  <2>. QED
    BY <1>1, <2>3, <2>5 DEF IInv
<1>. QED
  BY <1>2, <1>3, NextCases

\* The queues of both workers, the phase of the protocol and the flow of the
\* data agree in every state.
THEOREM Invariance == Spec => []IInv
BY InitInv, NextInv, PTL DEF Spec

----------------------------------------------------------------------------
(* What follows from the invariant.                                        *)

\* No WRITE with immediate data, and no notification, meets an empty receive
\* queue: each side posts its next receive before it lets the other go on.
THEOREM ReceiversReady == Spec => []ReceiverReady
<1>1. IInv => ReceiverReady
  <2> SUFFICES ASSUME IInv, NEW e \in Ends, NEW op \in Consuming, Executing(e, op)
               PROVE  rq[Peer(e)] > 0
    BY DEF ReceiverReady
  <2>1. PICK c \in Conns : e = Client(c) \/ e = Server(c)
    BY EndsCases
  <2>. QED
    BY <2>1, EndsFacts, ExecutingImm, ExecutingNotification DEF IInv
<1>. QED
  BY <1>1, Invariance, PTL

\* Each end has one request at most, and one receive or its completion.
LEMMA QueuesBounded ==
    ASSUME IInv, NEW c \in Conns, NEW e \in {Client(c), Server(c)}
    PROVE  Len(sq[e]) <= 1 /\ rq[e] <= 1 /\ rcq[e] <= 1
<1>1. ConnInv(c) /\ TypeOK
  BY DEF IInv
<1>2. Len(sq[e]) <= 1
  <2>1. sq[e] \in {<<>>, <<ImmRequest>>, <<SendRequest>>}
    BY <1>1 DEF ConnInv, ClientShape, ServerShape, SendQueue
  <2>2. CASE sq[e] = <<>>
    BY <2>2
  <2>3. CASE sq[e] = <<ImmRequest>>
    BY <2>3, QueueFacts
  <2>4. CASE sq[e] = <<SendRequest>>
    BY <2>4, QueueFacts
  <2>. QED
    BY <2>1, <2>2, <2>3, <2>4
<1>3. rq[e] + rcq[e] <= 1
  BY <1>1 DEF ConnInv, ClientShape, ServerShape
<1>. QED
  BY <1>1, <1>2, <1>3, ConnTypes

\* Polling for all there is finds one completion at most, sound connection or
\* broken.
LEMMA CompletionsBounded == IInv => CompletionsFit
<1> SUFFICES ASSUME IInv, NEW e \in Ends
             PROVE  Cardinality(SendCompletions(e)) <= Cqe /\ rcq[e] <= Cqe
  BY DEF CompletionsFit
<1>1. PICK c \in Conns : e = Client(c) \/ e = Server(c)
  BY EndsCases
<1>2. Cqe \in Nat \ {0} /\ rcq[e] \in Nat /\ sq[e] \in Seq(WorkRequests)
  BY <1>1, VerbsAssumption, ConnTypes DEF IInv
<1>3. Len(sq[e]) <= 1 /\ rcq[e] <= 1
  BY <1>1, QueuesBounded
<1>4. SendCompletions(e) \subseteq {1}
  BY <1>2, <1>3 DEF SendCompletions
<1>5. /\ Cardinality(SendCompletions(e)) <= Cardinality({1})
      /\ Cardinality(SendCompletions(e)) \in Nat /\ Cardinality({1}) = 1
  BY <1>4, FS_Subset, FS_Singleton, FS_CardinalityType
<1>. QED
  BY <1>2, <1>3, <1>5

\* One send slot, one receive slot and completion queues of one entry are
\* enough, however many the adapter grants: no post is ever refused.
THEOREM QueuesSufficient == Spec => []QueuesSuffice
<1>1. IInv => QueuesSuffice
  <2> SUFFICES ASSUME IInv, NEW c \in Conns
               PROVE  /\ Len(sq[Client(c)]) <= 1 /\ rq[Server(c)] <= 1
                      /\ wpc[c] # "failed" /\ spc[c] # "failed"
    BY CompletionsBounded DEF QueuesSuffice
  <2>1. wpc[c] # "failed" /\ spc[c] # "failed"
    BY DEF IInv, ConnInv, ClientShape, ServerShape
  <2>. QED
    BY <2>1, QueuesBounded
<1>. QED
  BY <1>1, Invariance, PTL

\* What a client with a sound queue pair has counted is in the server's
\* memory, all of it.
THEOREM CountedPlaced == Spec => []CountedIsPlaced
<1>1. IInv => CountedIsPlaced
  BY DEF IInv, ConnInv, DataFlow, CountedIsPlaced
<1>. QED
  BY <1>1, Invariance, PTL

\* At the join nothing is left at the client's end of any connection, sound or
\* broken, and every operation begun is counted.
THEOREM JoinedQuiet == Spec => []JoinedIsQuiet
<1>1. IInv => JoinedIsQuiet
  <2> SUFFICES ASSUME IInv, Joined, NEW c \in Conns
               PROVE  /\ sq[Client(c)] = <<>>
                      /\ rq[Client(c)] = 0 /\ rcq[Client(c)] = 0
                      /\ ops[c] = posted[c]
    BY DEF JoinedIsQuiet
  <2>1. ClientShape(c) /\ wpc[c] = "finished" /\ TypeOK
    BY DEF IInv, ConnInv
  <2>. QED
    BY <2>1, ConnTypes DEF ClientShape, SendQueue
<1>. QED
  BY <1>1, Invariance, PTL

----------------------------------------------------------------------------
(* Refinement.                                                             *)

LEMMA RefineInit == Init => Visible!Init
BY EndsFacts DEF Init, RunInit, BufferInit, Visible!Init, Lost

LEMMA RefineNext ==
    ASSUME IInv, [Next]_vars
    PROVE  [Visible!Next]_Visible!vars
<1>0. TypeOK /\ \A c \in Conns : ConnInv(c)
  BY DEF IInv
<1>1. ASSUME UNCHANGED <<mem, posted, ops, broken>>
      PROVE  [Visible!Next]_Visible!vars
  BY <1>1 DEF Visible!vars, Lost
\* The first post issues the operation.
<1>2. ASSUME NEW c \in Conns, worker_recv(c)
      PROVE  [Visible!Next]_Visible!vars
  <2>1. wpc[c] = "check_stop" /\ UNCHANGED <<mem, ops, broken>>
    BY <1>2 DEF worker_recv, NextOperation, BeginOperation, post_recv_notification, PostRecv, buffer
  <2>2. posted[c] = ops[c]
    BY <1>0, <2>1 DEF ConnInv, ClientShape
  <2>3. posted' = posted \/ posted' = [posted EXCEPT ![c] = @ + 1]
    BY <1>2 DEF worker_recv, BeginOperation
  <2>4. UNCHANGED Lost
    BY <2>1 DEF Lost
  <2>. QED
    BY <1>1, <2>1, <2>2, <2>3, <2>4 DEF Visible!Next, Visible!Issue
\* The notification counts it, by when its data is visible or the connection lost.
<1>3. ASSUME NEW c \in Conns, worker_poll_recv(c)
      PROVE  [Visible!Next]_Visible!vars
  <2>1. wpc[c] = "poll_recv" /\ ops' = [ops EXCEPT ![c] = @ + 1] /\ UNCHANGED <<posted, mem>>
    BY <1>3 DEF worker_poll_recv, CountOperation, buffer
  <2>2. UNCHANGED Lost
    BY <1>3, SMTT(30) DEF worker_poll_recv, node_poll_n_recv, PollRecvs, Lost
  <2>3. ops[c] < posted[c]
    BY <1>0, <2>1, ConnTypes DEF ConnInv, ClientShape
  <2>4. Lost[c] \/ \A l \in Lines : mem[c][l] = posted[c]
    <3>1. ~broken[Client(c)] => rcq[Client(c)] = 1
      BY <1>0, <1>3, WorkerPollRecvStep
    <3>. QED
      BY <1>0, <3>1 DEF Lost, ConnInv, DataFlow
  <2>. QED
    BY <2>1, <2>2, <2>3, <2>4 DEF Visible!Next, Visible!Count
\* A failure at the client's end loses the connection.
<1>4. ASSUME NEW c \in Conns, NEW s \in Sides, break(<<c, s>>) \/ nic_retry_exceeded(<<c, s>>)
      PROVE  [Visible!Next]_Visible!vars
  <2>1. /\ broken' = [broken EXCEPT ![<<c, s>>] = TRUE]
        /\ broken \in [Ends -> BOOLEAN] /\ <<c, s>> \in Ends
        /\ UNCHANGED <<mem, posted, ops>>
    BY <1>0, <1>4 DEF break, nic_retry_exceeded, Break, RetryExceeded, buffer, client, TypeOK, RunTypeOK,
                      VerbsTypeOK, Ends
  <2>2. CASE s = "client"
    <3>1. \A d \in Conns : broken'[Client(d)] = (IF d = c THEN TRUE ELSE broken[Client(d)])
      BY <2>1, <2>2, EndsFacts DEF Client
    <3>2. Lost' = [Lost EXCEPT ![c] = TRUE]
      BY <3>1 DEF Lost
    <3>. QED
      BY <2>1, <3>2 DEF Visible!Next, Visible!Lose
  <2>3. CASE s = "server"
    <3>1. \A d \in Conns : broken'[Client(d)] = broken[Client(d)]
      BY <2>1, <2>3, EndsFacts DEF Client
    <3>2. Lost' = Lost
      BY <3>1 DEF Lost
    <3>. QED
      BY <2>1, <3>2 DEF Visible!vars
  <2>. QED
    BY <2>2, <2>3 DEF Sides
\* Placing a line makes it visible.
<1>5. ASSUME NEW c \in Conns, NEW l \in Lines, nic_place(c, l)
      PROVE  [Visible!Next]_Visible!vars
  <2>1. /\ mem[c][l] < nic[c] /\ mem' = [mem EXCEPT ![c][l] = nic[c]]
        /\ UNCHANGED <<posted, ops, Lost>>
    BY <1>5 DEF nic_place, Place, verbs, client, Lost
  <2>2. nic[c] \in 0 .. posted[c]
    BY <1>0, ConnTypes DEF ConnInv, DataFlow
  <2>3. mem[c][l] \in Nat
    BY <1>0, ConnTypes
  <2>. QED
    BY <2>1, <2>2, <2>3 DEF Visible!Next, Visible!Harden
<1>6. CASE run_client \/ UNCHANGED vars
  BY <1>1, <1>6 DEF run_client, RunClient, vars, verbs, buffer, client
<1>7. CASE \E c \in Conns : worker(c)
  <2>1. PICK c \in Conns : worker(c)
    BY <1>7
  <2>2. CASE worker_begin(c) \/ worker_stop(c)
    BY <1>1, <2>2 DEF worker_begin, worker_stop, WorkerBegin, WorkerStop, verbs, buffer
  <2>3. CASE worker_write(c) \/ worker_poll_send(c)
    BY <1>1, <2>3 DEF worker_write, worker_poll_send, ContinueOperation, buffer,
                      post_send_write_with_imm, node_poll_n_send, PostSend, PollSends, Retire
  <2>. QED
    BY <1>2, <1>3, <2>1, <2>2, <2>3 DEF worker
<1>8. CASE \E c \in Conns : server_worker(c)
  BY <1>0, <1>1, <1>8, ServerFrame DEF buffer, client
<1>9. CASE \E c \in Conns : nic_write(c) \/ nic_imm(c) \/ nic_notify(c)
  BY <1>1, <1>9 DEF nic_write, nic_imm, nic_notify, Deliver, Receive, verbs, buffer, client
<1>10. CASE \E c \in Conns : transport(c) \/ environment(c)
  <2>1. PICK c \in Conns : transport(c) \/ environment(c)
    BY <1>10
  <2>2. CASE \E s \in Sides : nic_ack(<<c, s>>)
    BY <1>1, <2>2 DEF nic_ack, Ack, buffer, client
  <2>3. CASE \E l \in Lines : evict(c, l)
    BY <1>1, <2>3 DEF evict, Evict, WriteBack, verbs, client
  <2>. QED
    BY <1>4, <1>5, <2>1, <2>2, <2>3 DEF transport, Transport, environment, Environment
<1>. QED
  BY <1>6, <1>7, <1>8, <1>9, <1>10 DEF Next, Finished

\* wibenchmark counts an overwrite only when all of it is visible in the
\* server's memory.
THEOREM Refinement == Spec => ImplementsVisible
<1>1. IInv /\ [Next]_vars => [Visible!Next]_Visible!vars
  BY RefineNext
<1>. QED
  BY <1>1, RefineInit, Invariance, PTL DEF Spec, ImplementsVisible, Visible!Spec
=============================================================================
